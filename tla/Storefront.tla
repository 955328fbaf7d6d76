---- MODULE Storefront ----
(***************************************************************************)
(* A shopper's page, in the browser or in the mobile app, beside the cart  *)
(* it shows.  The page keeps what it fetched in the cache of TanStack      *)
(* Query, under a key per currency; what it changes goes to the server in  *)
(* requests that may overlap, fail before or after they took effect, and   *)
(* be answered in any order, and each success invalidates the cached       *)
(* carts.  A second tab of the same browser shares the stored session, and *)
(* with it the cart.  What the services do with a request is one step      *)
(* here: modules ValkeyCartStore and Checkout take it apart.               *)
(***************************************************************************)
EXTENDS Integers, FiniteSets

CONSTANTS
    Currencies, USD,    \* the currencies of the selector, and the first one selected
    Requests,           \* bound: the changes the page has under way at once
    MaxVersion,         \* bound: the changes of one cart
    Mine, Theirs,       \* the user ids the two tabs make up when they are loaded
    None                \* nothing stored, fetched or loaded

ASSUME StorefrontAssumption ==
    /\ USD \in Currencies
    /\ MaxVersion \in Nat \ {0}
    /\ Mine # Theirs /\ None \notin {Mine, Theirs}

VARIABLES
    client,     \* the app, a browser whose shopper uses the selector of currencies, or one
                \* with a second tab
    stored,     \* the user id in the stored session
    tab,        \* the page: how far it has loaded, and what it found stored
    rival,      \* the other tab; once it is open, "found" is the user it acts for
    me,         \* userId of Api.gateway.ts
    orderer,    \* userId of CartDetail.tsx, or of onPlaceOrder in the app
    overwritten,\* a tab stored its own user id over the other's
    carts,      \* the carts at the server
    selected,   \* selectedCurrency
    queries,    \* the query ['cart', currency] of each currency
    requests,   \* the changes under way
    page,       \* "cart", or "shop": any other page, all of which offer products to add
    confirmed   \* the latest version of the cart that an answer has confirmed

session == <<stored, tab, rival, me, orderer, overwritten>>
vars == <<client, session, carts, selected, queries, requests, page, confirmed>>

Users == {Mine, Theirs}
Versions == 0 .. MaxVersion
Cart == [version : Versions, full : BOOLEAN]
Tab == [step : {"closed", "looked", "open"}, found : Users \cup {None}]

\* A query: whether it is being fetched, the data it shows and the cart the fetch under way
\* has read; late, when a change was confirmed during this fetch and did not restart it;
\* excused, when its last fetch was late or failed.
Query == [status : {"idle", "asked", "read"}, data : Cart \cup {None}, read : Cart \cup {None},
          late : BOOLEAN, excused : BOOLEAN]

\* A request: what it does, for whom, and which version of the cart it made; overtaken, an
\* order of a cart that the page could not know or that has changed since.
Request == [step : {"sent", "applied", "abandoned"}, kind : {"add", "empty", "order"}, user : Users,
            version : Versions, overtaken : BOOLEAN]

ASSUME NothingAssumption == None \notin Cart /\ None \notin Request

\* The variables hold sessions, carts, queries and requests.
StorefrontTypeOK ==
    /\ client \in {"app", "web", "tabs"}
    /\ stored \in Users \cup {None} /\ me \in Users \cup {None} /\ orderer \in Users \cup {None}
    /\ tab \in Tab /\ rival \in Tab /\ overwritten \in BOOLEAN
    /\ carts \in [Users -> Cart]
    /\ selected \in Currencies
    /\ queries \in [Currencies -> Query]
    /\ requests \in [Requests -> Request \cup {None}]
    /\ page \in {"shop", "cart"}
    /\ confirmed \in Versions

Closed == [step |-> "closed", found |-> None]

Init ==
    /\ client \in {"app", "web", "tabs"}
    /\ stored \in {None, Mine} /\ me = None /\ orderer = None
    /\ tab = Closed /\ rival = Closed /\ overwritten = FALSE
    /\ carts \in [Users -> {[version |-> 0, full |-> b] : b \in BOOLEAN}]
    /\ \A u \in Users : carts[u].full => stored = u
    /\ selected = USD
    /\ queries = [c \in Currencies |-> [status |-> "idle", data |-> None, read |-> None,
                                        late |-> FALSE, excused |-> FALSE]]
    /\ requests = [r \in Requests |-> None]
    /\ page = "shop"
    /\ confirmed = 0

(* The cached queries *)

\* A fetch of the query starts; one under way is given up silently.
Started(q) == [q EXCEPT !.status = "asked", !.read = None, !.late = FALSE, !.excused = FALSE]

\* A mutant: what is there already is not fetched again.
FetchedIfEmpty(q, cancelRefetch) == IF q.status = "idle" /\ q.data = None THEN Started(q) ELSE q

\* What fetch does while a fetch is under way: it joins it, unless there is data already and
\* the caller asked to cancel.
Fetched(q, cancelRefetch) ==
    IF q.status = "idle" \/ (cancelRefetch /\ q.data # None) THEN Started(q) ELSE q

\* A mutant: invalidateQueries joins the fetch under way.
InvalidatedJoining(q, active) == IF active THEN Fetched(q, FALSE) ELSE q

\* A mutant: a success invalidates nothing.
InvalidatedNever(q, active) == q

\* What invalidateQueries(['cart']) does to a query: the one on the page is fetched again.
Invalidated(q, active) == IF active THEN Fetched(q, TRUE) ELSE q

\* A fetch that is not restarted although a change is confirmed now.
Outlives(q, active) == q.status # "idle" /\ ~(active /\ q.data # None)

Shown == queries[selected].data
ShownFull == Shown # None /\ Shown.full

\* GET /api/cart has asked the cart service.
ServerReads(c) ==
    /\ queries[c].status = "asked"
    /\ queries' = [queries EXCEPT ![c].status = "read", ![c].read = carts[me]]
    /\ UNCHANGED <<client, session, carts, selected, requests, page, confirmed>>

\* The answer has its products and reaches the page.
CartArrives(c) ==
    /\ queries[c].status = "read"
    /\ queries' = [queries EXCEPT ![c].status = "idle", ![c].data = queries[c].read,
                                  ![c].read = None, ![c].late = FALSE,
                                  ![c].excused = queries[c].late]
    /\ UNCHANGED <<client, session, carts, selected, requests, page, confirmed>>

\* The cart or a product cannot be had, and the retries are used up: the old data stays.
FetchFails(c) ==
    /\ queries[c].status # "idle"
    /\ queries' = [queries EXCEPT ![c].status = "idle", ![c].read = None, ![c].late = FALSE,
                                  ![c].excused = TRUE]
    /\ UNCHANGED <<client, session, carts, selected, requests, page, confirmed>>

\* The window gets the focus back.
Focus ==
    /\ client # "app" /\ tab.step = "open"
    /\ queries' = [queries EXCEPT ![selected] = Fetched(@, FALSE)]
    /\ UNCHANGED <<client, session, carts, selected, requests, page, confirmed>>

\* setSelectedCurrency; the app has one currency.
SelectCurrency(c) ==
    /\ client = "web" /\ tab.step = "open" /\ c # selected
    /\ selected' = c
    /\ queries' = [queries EXCEPT ![c] = Fetched(@, FALSE)]
    /\ UNCHANGED <<client, session, carts, requests, page, confirmed>>

(* The session *)

\* getSession reads what is stored ...
Look ==
    /\ tab.step = "closed"
    /\ tab' = [step |-> "looked", found |-> stored]
    /\ UNCHANGED <<client, stored, rival, me, orderer, overwritten, carts, selected, queries,
                   requests, page, confirmed>>

\* A mutant: the tab uses the user id it made up, whatever it found.
UserOfSessionOwn(found, made) == made

\* ... and goes on with it, or with the user id made up when the module was loaded.
UserOfSession(found, made) == IF found = None THEN made ELSE found

\* ... which it stores; then the pages are mounted, and the cart is fetched.
Open ==
    /\ tab.step = "looked"
    /\ tab' = [step |-> "open", found |-> None]
    /\ me' = UserOfSession(tab.found, Mine)
    /\ stored' = IF tab.found = None THEN Mine ELSE stored
    /\ overwritten' = (overwritten \/ (tab.found = None /\ stored # None))
    /\ queries' = [queries EXCEPT ![selected] = Fetched(@, FALSE)]
    /\ UNCHANGED <<client, rival, orderer, carts, selected, requests, page, confirmed>>

\* The other tab does the same.
RivalLooks ==
    /\ client = "tabs" /\ rival.step = "closed"
    /\ rival' = [step |-> "looked", found |-> stored]
    /\ UNCHANGED <<client, stored, tab, me, orderer, overwritten, carts, selected, queries,
                   requests, page, confirmed>>

RivalOpens ==
    /\ rival.step = "looked"
    /\ rival' = [step |-> "open", found |-> UserOfSession(rival.found, Theirs)]
    /\ stored' = IF rival.found = None THEN Theirs ELSE stored
    /\ overwritten' = (overwritten \/ (rival.found = None /\ stored # None))
    /\ UNCHANGED <<client, tab, me, orderer, carts, selected, queries, requests, page, confirmed>>

\* A cart after a change: an item makes it full, emptying and ordering make it empty.
Changed(cart, kind) == [version |-> cart.version + 1, full |-> kind = "add"]

\* The other tab changes the cart the two share.  (What it does to another cart than the
\* page's is never shown on the page.)
RivalChanges(kind) ==
    /\ rival.step = "open" /\ rival.found = me
    /\ carts[me].version < MaxVersion
    /\ carts' = [carts EXCEPT ![me] = Changed(@, kind)]
    /\ requests' = [r \in Requests |->
            IF requests[r] = None THEN None
            ELSE [requests[r] EXCEPT !.overtaken = requests[r].kind = "order"]]
    /\ UNCHANGED <<client, session, selected, queries, page, confirmed>>

\* The shopper, or a push after an answer, goes to a page.  The first visit to the cart loads
\* the module of CartDetail, which reads the session again.
GoesTo(p) ==
    /\ page' = p
    /\ orderer' = IF p = "cart" /\ orderer = None THEN stored ELSE orderer

Visit(p) ==
    /\ tab.step = "open" /\ p # page
    /\ GoesTo(p)
    /\ UNCHANGED <<client, stored, tab, rival, me, overwritten, carts, selected, queries,
                   requests, confirmed>>

(* The changes *)

\* Whether the page can know the cart it shows: no fetch is under way or excused, and no change
\* has been made that it was not told of.
UpToDate ==
    /\ queries[selected].status = "idle" /\ ~queries[selected].excused
    /\ carts[me].version = confirmed

\* Bound: the shopper who uses the selector has one change under way at a time.
MaySend(r) ==
    /\ requests[r] = None
    /\ client = "web" => r = CHOOSE s \in Requests : TRUE

\* The page sends a request, for the user of its API or, with an order, of its cart page.
Send(r, kind) ==
    /\ tab.step = "open" /\ MaySend(r)
    /\ requests' = [requests EXCEPT ![r] =
            [step |-> "sent", kind |-> kind, user |-> IF kind = "order" THEN orderer ELSE me,
             version |-> 0, overtaken |-> kind = "order" /\ ~UpToDate]]
    /\ UNCHANGED <<client, session, carts, selected, queries, page, confirmed>>

\* onAddItem, from a product page or the list of the app.
AddItem(r) == page = "shop" /\ Send(r, "add")

\* The buttons of the cart page, which are there while the cart shown has items.
EmptyCart(r) == page = "cart" /\ ShownFull /\ Send(r, "empty")
PlaceOrder(r) == page = "cart" /\ ShownFull /\ Send(r, "order")

\* The services do what the request asks, and every other order under way is overtaken.  They
\* also do it for a page that no longer waits.
Applies(r) ==
    LET q == requests[r]
    IN  /\ q # None /\ q.step \in {"sent", "abandoned"}
        /\ carts[q.user].version < MaxVersion
        /\ carts' = [carts EXCEPT ![q.user] = Changed(@, q.kind)]
        /\ requests' =
            [s \in Requests |->
                IF s = r /\ q.step = "abandoned" THEN None
                ELSE IF s = r
                THEN [q EXCEPT !.step = "applied", !.version = carts[q.user].version + 1]
                ELSE IF requests[s] = None THEN None
                ELSE [requests[s] EXCEPT !.overtaken = requests[s].kind = "order"]]
        /\ UNCHANGED <<client, session, selected, queries, page, confirmed>>

\* The page gets no answer, or one that is not JSON: the request failed after it took effect,
\* in the getCart that follows addItem or in the look-ups of an order's products, or it has
\* not been handled yet and may still be.
Fails(r) ==
    LET q == requests[r]
    IN  /\ q # None /\ q.step # "abandoned"
        /\ requests' = [requests EXCEPT ![r] =
                IF q.step = "sent" THEN [q EXCEPT !.step = "abandoned"] ELSE None]
        /\ UNCHANGED <<client, session, carts, selected, queries, page, confirmed>>

\* An abandoned request never gets there, or its handler fails before it changes anything.
IsLost(r) ==
    /\ requests[r] # None /\ requests[r].step = "abandoned"
    /\ requests' = [requests EXCEPT ![r] = None]
    /\ UNCHANGED <<client, session, carts, selected, queries, page, confirmed>>

\* Where the page goes once a request has been answered: to the cart with an item, in the
\* browser; from an order to its own page, or to the start of the app.
NextPage(kind) ==
    CASE kind = "add" /\ client # "app" -> "cart"
      [] kind = "order" -> "shop"
      [] OTHER -> page

\* The answer: onSuccess invalidates the carts, then whoever awaited the request goes on.
Confirmed(r) ==
    LET q == requests[r]
    IN  /\ q # None /\ q.step = "applied"
        /\ requests' = [requests EXCEPT ![r] = None]
        /\ confirmed' = IF q.user = me /\ q.version > confirmed THEN q.version ELSE confirmed
        /\ queries' = [c \in Currencies |->
                LET active == c = selected
                    was == queries[c]
                IN  [Invalidated(was, active) EXCEPT !.late = @ \/ Outlives(was, active)]]
        /\ GoesTo(NextPage(q.kind))
        /\ UNCHANGED <<client, stored, tab, rival, me, overwritten, carts, selected>>

Next ==
    \/ Look \/ Open \/ RivalLooks \/ RivalOpens
    \/ \E kind \in {"add", "empty", "order"} : RivalChanges(kind)
    \/ Focus
    \/ \E c \in Currencies : SelectCurrency(c) \/ ServerReads(c) \/ CartArrives(c) \/ FetchFails(c)
    \/ \E p \in {"shop", "cart"} : Visit(p)
    \/ \E r \in Requests :
            AddItem(r) \/ EmptyCart(r) \/ PlaceOrder(r) \/ Applies(r) \/ Confirmed(r)
            \/ Fails(r) \/ IsLost(r)

\* A fetch under way is answered or given up.
Fairness ==
    \A c \in Currencies : WF_vars(ServerReads(c)) /\ WF_vars(CartArrives(c) \/ FetchFails(c))

Spec == Init /\ [][Next]_vars /\ Fairness

(* Properties *)

\* Once nothing is being fetched, the page shows every change it was told had succeeded, in
\* whatever order requests, refetches and currency switches came.  Two fetches are excused: one
\* that failed, and one that a success did not restart because its query had no data yet or
\* was not the one on the page.
ChangesAreShown ==
    LET q == queries[selected]
    IN  q.status = "idle" /\ q.data # None /\ ~q.excused => q.data.version >= confirmed

\* An order is placed for the user whose cart the page shows and changes, unless two tabs
\* of a new browser were loaded at once and one stored its session over the other's.
OneShopper ==
    \A r \in Requests :
        requests[r] # None /\ requests[r].kind = "order" /\ ~overwritten =>
            requests[r].user = me

\* The services are asked to order an empty cart only when the page could not know that it
\* was: when the order was sent a fetch was under way or excused, or a change had been made
\* that the page was not told of, or another change came before the order.
EmptyOrderIsOvertaken ==
    [][\A r \in Requests :
        LET q == requests[r]
            takesEffect == carts' # carts /\ (requests'[r] = None \/ requests'[r].step # q.step)
        IN  q # None /\ q.kind = "order" /\ takesEffect =>
                carts[q.user].full \/ q.overtaken \/ overwritten]_vars

\* The page, for a while, does not show all it was told had succeeded ...
Behind == ~queries[selected].excused /\ (Shown = None \/ Shown.version < confirmed)

\* ... but in the end it does, with the same two excuses, unless the shopper selects another
\* currency first.
ConfirmedIsShown ==
    \A c \in Currencies : selected = c /\ confirmed > 0 /\ Behind ~> selected # c \/ ~Behind

====
