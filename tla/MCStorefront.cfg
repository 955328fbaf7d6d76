CONSTANTS
    USD = USD
    EUR = EUR
    Currencies = {USD, EUR}
    r1 = r1
    r2 = r2
    Requests = {r1, r2}
    MaxVersion = 2
    Mine = Mine
    Theirs = Theirs
    None = None
    p1 = p1
    p2 = p2
    Products = {p1, p2}
    Questions = {summary, ages}
    Asks = {a1, a2}
    ReviewLists <- MCReviewLists
    Nothing = Nothing
SPECIFICATION MCSpec
INVARIANTS
    ChangesAreShown
    OneShopper
    AnswerFitsQuestion
    FiguresAddUp
PROPERTIES
    EmptyOrderIsOvertaken
    ConfirmedIsShown
\* A shopper may leave it at that.
CHECK_DEADLOCK FALSE
