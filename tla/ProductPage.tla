---- MODULE ProductPage ----
(***************************************************************************)
(* The part of a product's page about its reviews: the panel that asks the *)
(* assistant about the product, and the figures made of the reviews.  A    *)
(* question is a mutation of TanStack Query whose observer is the panel's; *)
(* answers come late and in any order, while the shopper asks on and goes  *)
(* from product to product on the same mounted page.                       *)
(***************************************************************************)
EXTENDS Integers, Sequences, FiniteSets, FiniteSetsExt

CONSTANTS
    Products,       \* the products the shopper visits
    Questions,      \* the questions she asks, by a quick prompt or her own
    Asks,           \* bound: the questions under way at once
    ReviewLists,    \* the reviews a product may have: their scores, in tenths
    Nothing         \* no question, no answer, no mutation

ASSUME ProductPageAssumption ==
    /\ \A l \in ReviewLists : l \in Seq(0 .. 99)
    /\ Nothing \notin Asks

VARIABLES
    reviewsOf,  \* the reviews of each product in the database
    product,    \* the productId of the route
    reviews,    \* the query ['productReviews', productId] as the page sees it
    averages,   \* the products with a cached ['productReviewAvgScore', productId]
    mutations,  \* the questions under way: of which product, and which
    observed,   \* the mutation the panel observes
    panel,      \* mutation.data and mutation.status
    asked       \* the question last asked about this product

pageVars == <<reviewsOf, product, reviews, averages, mutations, observed, panel, asked>>

Ask == [product : Products, question : Questions]
NoAnswer(state) == [state |-> state, answer |-> Nothing]

PageInit ==
    /\ reviewsOf \in [Products -> ReviewLists]
    /\ product \in Products
    /\ reviews = "loading" /\ averages = {}
    /\ mutations = [a \in Asks |-> Nothing]
    /\ observed = Nothing /\ panel = NoAnswer("idle") /\ asked = Nothing

(* The assistant *)

\* mutation.reset(): the panel lets go of its mutation.
Reset == observed' = Nothing /\ panel' = NoAnswer("idle")

\* A mutant: the panel keeps its mutation.
NoReset == UNCHANGED <<observed, panel>>

\* What the effect on productId does.
ResetOnProduct == Reset

\* Another product: the same panel, cleared, and the queries of the other product.
VisitProduct(p) ==
    /\ p # product
    /\ product' = p
    /\ ResetOnProduct
    /\ asked' = Nothing
    /\ reviews' = "loading"
    /\ UNCHANGED <<reviewsOf, averages, mutations>>

\* handleAskAI: the panel lets go of the mutation before and observes the new one, which asks
\* about the product of the page.
HandleAskAI(a, q) ==
    /\ mutations[a] = Nothing
    /\ mutations' = [mutations EXCEPT ![a] = [product |-> product, question |-> q]]
    /\ observed' = a
    /\ panel' = NoAnswer("pending")
    /\ asked' = q
    /\ UNCHANGED <<reviewsOf, product, reviews, averages>>

\* The button and the Enter key wait for an answer, the quick prompts do not.
AskTyped(a, q) == panel.state # "pending" /\ HandleAskAI(a, q)
QuickPrompt(a, q) == HandleAskAI(a, q)

Observes(a) == observed = a

\* A mutation is over: its observer, if it has one, is told.
Settled(a, result) ==
    /\ mutations[a] # Nothing
    /\ mutations' = [mutations EXCEPT ![a] = Nothing]
    /\ panel' = IF Observes(a) THEN result ELSE panel
    /\ observed' = IF observed = a THEN Nothing ELSE observed
    /\ UNCHANGED <<reviewsOf, product, reviews, averages, asked>>

Answered(a) == Settled(a, [state |-> "success", answer |-> mutations[a]])
AskFails(a) == Settled(a, NoAnswer("error"))

(* The figures *)

\* Math.round of the score, then clamp to 1 .. 5.
Stars(tenths) ==
    LET rounded == (tenths + 5) \div 10
    IN  IF rounded < 1 THEN 1 ELSE IF rounded > 5 THEN 5 ELSE rounded

Distribution(list) == [s \in 1 .. 5 |-> Cardinality({i \in DOMAIN list : Stars(list[i]) = s})]

\* normalizedPercents: the percentages rounded down, and one more for those with the largest
\* fractions, until they make a hundred; of equal fractions the first comes first, since sort
\* is stable.  Fractions are exact here, parts of Len(list).
Raw(list) == [s \in 1 .. 5 |-> 100 * Distribution(list)[s]]
Floored(list) == [s \in 1 .. 5 |-> Raw(list)[s] \div Len(list)]
Fraction(list) == [s \in 1 .. 5 |-> Raw(list)[s] % Len(list)]
Remainder(list) == 100 - MapThenSumSet(LAMBDA s : Floored(list)[s], 1 .. 5)

\* A mutant: the fractions are given from the smallest up.
PositionAscending(list, s) ==
    Cardinality({t \in 1 .. 5 : Fraction(list)[t] < Fraction(list)[s]
                                \/ (Fraction(list)[t] = Fraction(list)[s] /\ t < s)})

Position(list, s) ==
    Cardinality({t \in 1 .. 5 : Fraction(list)[t] > Fraction(list)[s]
                                \/ (Fraction(list)[t] = Fraction(list)[s] /\ t < s)})

NormalizedPercents(list) ==
    [s \in 1 .. 5 |-> IF Len(list) = 0 THEN 0
                      ELSE Floored(list)[s] + (IF Position(list, s) < Remainder(list) THEN 1 ELSE 0)]

\* The reviews arrive, or cannot be had.
ReviewsArrive(outcome) ==
    /\ reviews = "loading"
    /\ reviews' = outcome
    /\ UNCHANGED <<reviewsOf, product, averages, mutations, observed, panel, asked>>

\* The average of a product without reviews is None, which the service cannot round: that
\* request always fails, and the page has no average.
AverageArrives ==
    /\ product \notin averages /\ reviewsOf[product] # << >>
    /\ averages' = averages \cup {product}
    /\ UNCHANGED <<reviewsOf, product, reviews, mutations, observed, panel, asked>>

\* What the page shows of the reviews: the card with the average, and in it the bars.
ShowsReviews == reviews = "loaded"
ShowsNoReviewsYet == ShowsReviews /\ reviewsOf[product] = << >>
ShowsCard == ShowsReviews /\ product \in averages
ShowsBars == ShowsCard /\ reviewsOf[product] # << >>

PageNext ==
    \/ \E p \in Products : VisitProduct(p)
    \/ \E a \in Asks, q \in Questions : AskTyped(a, q) \/ QuickPrompt(a, q)
    \/ \E a \in Asks : Answered(a) \/ AskFails(a)
    \/ \E outcome \in {"loaded", "error"} : ReviewsArrive(outcome)
    \/ AverageArrives

PageSpec == PageInit /\ [][PageNext]_pageVars

(* Properties *)

\* The answer in the panel answers the last question, about the product of the page, however
\* late and in whatever order the answers come; and the panel waits only for such an answer.
AnswerFitsQuestion ==
    /\ panel.state = "success" => panel.answer = [product |-> product, question |-> asked]
    /\ panel.state = "pending" =>
        observed # Nothing /\ mutations[observed] = [product |-> product, question |-> asked]

\* The percentages shown make a hundred, none is a whole point off, a score nobody gave has
\* none, and a score given more often has no less.  A product without reviews is said to have
\* none, and has neither an average nor bars.
FiguresAddUp ==
    LET list == reviewsOf[product]
        percents == NormalizedPercents(list)
        given == Distribution(list)
    IN  /\ ShowsBars =>
            /\ MapThenSumSet(LAMBDA s : percents[s], 1 .. 5) = 100
            /\ \A s \in 1 .. 5 :
                /\ percents[s] * Len(list) - 100 * given[s] \in -Len(list) + 1 .. Len(list) - 1
                /\ given[s] = 0 => percents[s] = 0
                /\ \A t \in 1 .. 5 : given[s] > given[t] => percents[s] >= percents[t]
        /\ ShowsCard => ~ShowsNoReviewsYet

====
