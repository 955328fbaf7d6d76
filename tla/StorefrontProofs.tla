-------------------------- MODULE StorefrontProofs --------------------------
(***************************************************************************)
(* What the page shows, for whom it orders and what it orders, for any     *)
(* number of currencies, of changes under way and of changes of a cart;    *)
(* and, of a product's page, which answer its panel shows, for any number  *)
(* of questions, and its figures, for any list of reviews.                 *)
(***************************************************************************)
EXTENDS Storefront, ProductPage, SumTheorems, TLAPS

(* The inductive invariant *)

\* Before the pages are mounted nothing has been fetched or sent.
NothingYet ==
    /\ confirmed = 0 /\ orderer = None
    /\ \A r \in Requests : requests[r] = None
    /\ \A c \in Currencies :
        queries[c].status = "idle" /\ queries[c].data = None /\ queries[c].read = None

\* Who acts for whom.  While no tab has stored its session over the other's, the user in
\* storage is the one of the page, of its cart page, and the one the page found when it looked.
SessionInv ==
    /\ tab.step = "open" <=> me # None
    /\ me = None => NothingYet
    /\ tab.step = "open" \/ tab.found # None => stored # None
    /\ rival.step = "open" => rival.found # None
    /\ page = "cart" => orderer # None
    /\ ~overwritten =>
        /\ me # None => stored = me
        /\ orderer # None => orderer = me
        /\ tab.found # None => stored = tab.found

\* A cart somebody once read is the cart of the page, or an earlier version of it.
Known(cart) ==
    /\ cart.version <= carts[me].version
    /\ cart.version = carts[me].version => cart = carts[me]

\* What a query holds is a cart of the page, and what it reads is not older than the last
\* confirmation unless the fetch is late.
Sound(q) ==
    /\ q.data # None => Known(q.data)
    /\ q.read # None => Known(q.read)
    /\ q.status = "read" => q.read # None /\ (q.late \/ q.read.version >= confirmed)

\* What is confirmed or answered has happened at the server, and every query is sound.
CartInv ==
    /\ me # None => confirmed <= carts[me].version
    /\ \A r \in Requests :
        requests[r] # None /\ requests[r].step = "applied" =>
            requests[r].version <= carts[requests[r].user].version
    /\ \A c \in Currencies : Sound(queries[c])

\* An order that nothing has overtaken orders a full cart.
OrderInv ==
    \A r \in Requests :
        requests[r] # None /\ requests[r].kind = "order" /\ requests[r].step # "applied"
            /\ ~requests[r].overtaken /\ ~overwritten => carts[me].full

IInv == StorefrontTypeOK /\ SessionInv /\ CartInv /\ ChangesAreShown /\ OneShopper /\ OrderInv

(* Lemmas *)

LEMMA QueriesStayQueries ==
    ASSUME NEW q \in Query, NEW b \in BOOLEAN
    PROVE  /\ Started(q) \in Query
           /\ Fetched(q, b) \in Query
           /\ Invalidated(q, b) \in Query
           /\ Outlives(q, b) \in BOOLEAN
    BY DEF Query, Started, Fetched, Invalidated, Outlives

LEMMA ChangedIsNewer ==
    ASSUME NEW cart \in Cart, NEW kind, cart.version < MaxVersion
    PROVE  Changed(cart, kind) \in Cart /\ Changed(cart, kind).version = cart.version + 1
    BY StorefrontAssumption DEF Cart, Versions, Changed

LEMMA InitIInv == Init => IInv
    <1> SUFFICES ASSUME Init PROVE IInv
        OBVIOUS
    <1> USE StorefrontAssumption, NothingAssumption DEF Init
    <1>1. StorefrontTypeOK
        <2>1. carts \in [Users -> Cart] /\ confirmed \in Versions
            BY DEF Cart, Versions
        <2>2. tab \in Tab /\ rival \in Tab
            BY DEF Closed, Tab
        <2>3. queries \in [Currencies -> Query]
            BY DEF Query
        <2> QED
            BY <2>1, <2>2, <2>3 DEF StorefrontTypeOK, Users
    <1>2. SessionInv
        BY DEF SessionInv, NothingYet, Closed
    <1>3. CartInv
        BY DEF CartInv, Known, Sound
    <1>4. ChangesAreShown /\ OneShopper /\ OrderInv
        BY DEF ChangesAreShown, OneShopper, OrderInv
    <1> QED
        BY <1>1, <1>2, <1>3, <1>4 DEF IInv

(* Steps that change one cached query and nothing else, but for the selected currency *)

LEMMA OneQuery ==
    ASSUME IInv, NEW c \in Currencies, NEW q \in Query,
           queries' = [queries EXCEPT ![c] = q],
           me # None, Sound(q),
           UNCHANGED <<client, session, carts, requests, page, confirmed>>,
           selected' \in Currencies,
           selected' # selected => selected' = c /\ q.status # "idle",
           q.status = "idle" /\ q.data # None /\ ~q.excused => q.data.version >= confirmed
    PROVE  IInv'
    <1> USE DEF IInv, session
    <1>1. queries \in [Currencies -> Query]
        BY DEF StorefrontTypeOK
    <1>2. \A d \in Currencies : queries'[d] = IF d = c THEN q ELSE queries[d]
        BY <1>1
    <1>3. StorefrontTypeOK'
        BY <1>1 DEF StorefrontTypeOK
    <1>4. SessionInv'
        BY DEF SessionInv
    <1>5. CartInv'
        BY <1>2 DEF CartInv, Known, Sound
    <1>6. ChangesAreShown'
        BY <1>2, <1>3 DEF ChangesAreShown, StorefrontTypeOK
    <1>7. OneShopper' /\ OrderInv'
        BY DEF OneShopper, OrderInv
    <1> QED
        BY <1>3, <1>4, <1>5, <1>6, <1>7

\* A query that starts a fetch is as sound as it was.
LEMMA StartedIsSound ==
    ASSUME NEW q \in Query, Sound(q), NEW b \in BOOLEAN
    PROVE  /\ Sound(Started(q)) /\ Sound(Fetched(q, b))
           /\ Started(q).status # "idle" /\ Fetched(q, b).status # "idle"
    BY DEF Query, Sound, Started, Fetched

\* A page that fetches has been mounted.
LEMMA Mounted ==
    ASSUME StorefrontTypeOK, SessionInv
    PROVE  /\ tab.step = "open" => me # None
           /\ \A r \in Requests : requests[r] # None => me # None
           /\ \A c \in Currencies : queries[c].status # "idle" => me # None
           /\ me # None => me \in Users /\ carts[me] \in Cart
    BY DEF StorefrontTypeOK, SessionInv, NothingYet

LEMMA ServerReadsIInv ==
    ASSUME IInv, NEW c \in Currencies, ServerReads(c) PROVE IInv'
    <1> DEFINE q == [queries[c] EXCEPT !.status = "read", !.read = carts[me]]
    <1> USE DEF IInv
    <1>1. queries[c] \in Query /\ me # None /\ carts[me] \in Cart
        BY Mounted DEF ServerReads, StorefrontTypeOK
    <1>2. queries' = [queries EXCEPT ![c] = q]
        BY DEF ServerReads
    <1>3. q \in Query
        BY <1>1 DEF Query
    <1>4. Sound(q)
        BY <1>1, NothingAssumption DEF Query, Sound, Known, CartInv, Cart, Versions
    <1> QED
        BY <1>1, <1>2, <1>3, <1>4, OneQuery DEF ServerReads, StorefrontTypeOK, Query

LEMMA CartArrivesIInv ==
    ASSUME IInv, NEW c \in Currencies, CartArrives(c) PROVE IInv'
    <1> DEFINE q == [queries[c] EXCEPT !.status = "idle", !.data = queries[c].read,
                        !.read = None, !.late = FALSE, !.excused = queries[c].late]
    <1> USE DEF IInv
    <1>1. queries[c] \in Query /\ me # None
        BY Mounted DEF CartArrives, StorefrontTypeOK
    <1>2. queries' = [queries EXCEPT ![c] = q]
        BY DEF CartArrives
    <1>3. q \in Query
        BY <1>1 DEF Query
    <1>4. Sound(q)
        BY <1>1 DEF Query, Sound, CartInv
    <1>5. ~q.excused => q.data.version >= confirmed
        BY <1>1 DEF Query, Sound, CartInv, CartArrives
    <1> QED
        BY <1>1, <1>2, <1>3, <1>4, <1>5, OneQuery DEF CartArrives, StorefrontTypeOK

LEMMA FetchFailsIInv ==
    ASSUME IInv, NEW c \in Currencies, FetchFails(c) PROVE IInv'
    <1> DEFINE q == [queries[c] EXCEPT !.status = "idle", !.read = None, !.late = FALSE,
                        !.excused = TRUE]
    <1> USE DEF IInv
    <1>1. queries[c] \in Query /\ me # None
        BY Mounted DEF FetchFails, StorefrontTypeOK
    <1>2. queries' = [queries EXCEPT ![c] = q]
        BY DEF FetchFails
    <1>3. q \in Query /\ q.excused
        BY <1>1 DEF Query
    <1>4. Sound(q)
        BY <1>1 DEF Query, Sound, CartInv
    <1> QED
        BY <1>1, <1>2, <1>3, <1>4, OneQuery DEF FetchFails, StorefrontTypeOK

LEMMA FocusIInv ==
    ASSUME IInv, Focus PROVE IInv'
    <1> DEFINE q == Fetched(queries[selected], FALSE)
    <1> USE DEF IInv
    <1>1. selected \in Currencies /\ queries[selected] \in Query /\ me # None
        BY Mounted DEF Focus, StorefrontTypeOK
    <1>2. queries' = [queries EXCEPT ![selected] = q]
        BY DEF Focus
    <1>3. q \in Query
        BY <1>1, QueriesStayQueries
    <1>4. Sound(q) /\ q.status # "idle"
        BY <1>1, StartedIsSound DEF CartInv
    <1> QED
        BY <1>1, <1>2, <1>3, <1>4, OneQuery DEF Focus

LEMMA SelectCurrencyIInv ==
    ASSUME IInv, NEW c \in Currencies, SelectCurrency(c) PROVE IInv'
    <1> DEFINE q == Fetched(queries[c], FALSE)
    <1> USE DEF IInv
    <1>1. queries[c] \in Query /\ me # None
        BY Mounted DEF SelectCurrency, StorefrontTypeOK
    <1>2. queries' = [queries EXCEPT ![c] = q]
        BY DEF SelectCurrency
    <1>3. q \in Query
        BY <1>1, QueriesStayQueries
    <1>4. Sound(q) /\ q.status # "idle"
        BY <1>1, StartedIsSound DEF CartInv
    <1> QED
        BY <1>1, <1>2, <1>3, <1>4, OneQuery DEF SelectCurrency

(* Steps of the session *)

LEMMA LookIInv ==
    ASSUME IInv, Look PROVE IInv'
    <1> USE DEF IInv, Look
    <1>1. StorefrontTypeOK'
        BY DEF StorefrontTypeOK, Tab
    <1>2. SessionInv'
        BY DEF SessionInv, NothingYet, StorefrontTypeOK, Tab
    <1>3. CartInv' /\ ChangesAreShown'
        BY DEF CartInv, Known, Sound, ChangesAreShown
    <1>4. OneShopper' /\ OrderInv'
        BY DEF OneShopper, OrderInv
    <1> QED
        BY <1>1, <1>2, <1>3, <1>4

\* The page is mounted once, and nothing was fetched or sent before.
LEMMA OpenIInv ==
    ASSUME IInv, Open PROVE IInv'
    <1> USE StorefrontAssumption DEF IInv, Open
    <1>1. me = None /\ NothingYet
        BY DEF SessionInv
    <1>2. me' \in Users /\ me' # None /\ stored' \in Users /\ stored' # None /\ carts'[me'] \in Cart
        BY DEF StorefrontTypeOK, SessionInv, UserOfSession, Tab, Users
    <1>3. selected \in Currencies /\ queries \in [Currencies -> Query]
        BY DEF StorefrontTypeOK
    <1>4. queries' = [queries EXCEPT ![selected] = Started(queries[selected])]
        BY <1>1, <1>3 DEF NothingYet, Fetched
    <1>5. \A c \in Currencies :
            /\ queries'[c] \in Query /\ queries'[c].data = None /\ queries'[c].read = None
            /\ queries'[c].status # "read"
        <2> SUFFICES ASSUME NEW c \in Currencies
                     PROVE  /\ queries'[c] \in Query
                            /\ queries'[c].data = None /\ queries'[c].read = None
                            /\ queries'[c].status # "read"
            OBVIOUS
        <2>1. queries[c] \in Query /\ queries[c].data = None /\ queries[c].read = None
              /\ queries[c].status = "idle"
            BY <1>1, <1>3 DEF NothingYet
        <2>2. queries'[c] = Started(queries[c]) \/ queries'[c] = queries[c]
            BY <1>3, <1>4
        <2>3. Started(queries[c]) \in Query
            BY <2>1, QueriesStayQueries
        <2>4. /\ Started(queries[c]).data = None /\ Started(queries[c]).read = None
              /\ Started(queries[c]).status = "asked"
            BY <2>1 DEF Started, Query
        <2> HIDE DEF IInv, Open
        <2> QED
            BY <2>1, <2>2, <2>3, <2>4
    <1>6. StorefrontTypeOK'
        <2>1. tab' \in Tab /\ overwritten' \in BOOLEAN
            BY DEF Tab, StorefrontTypeOK
        <2>2. queries' \in [Currencies -> Query]
            BY <1>3, <1>4, <1>5
        <2> QED
            BY <1>2, <2>1, <2>2 DEF StorefrontTypeOK
    <1>7. SessionInv'
        <2>1. tab'.step = "open" /\ tab'.found = None /\ orderer' = None /\ page' # "cart"
            BY <1>1 DEF NothingYet, SessionInv, StorefrontTypeOK
        <2>2. ~overwritten' => stored' = me'
            BY DEF SessionInv, UserOfSession, StorefrontTypeOK
        <2> QED
            BY <1>2, <2>1, <2>2 DEF SessionInv
    <1>8. CartInv' /\ ChangesAreShown'
        <2>1. confirmed' = 0 /\ carts'[me'].version \in Nat /\ \A r \in Requests : requests'[r] = None
            BY <1>1, <1>2 DEF NothingYet, Cart, Versions
        <2>2. \A c \in Currencies : Sound(queries[c])'
            BY <1>5 DEF Sound
        <2>3. CartInv'
            <3> HIDE DEF IInv, Open
            <3>1. me' # None => confirmed' <= carts'[me'].version
                BY <2>1
            <3>2. \A r \in Requests :
                    requests'[r] # None /\ requests'[r].step = "applied" =>
                        requests'[r].version <= carts'[requests'[r].user].version
                BY <2>1
            <3> QED
                BY <3>1, <3>2, <2>2 DEF CartInv
        <2>4. ChangesAreShown'
            BY <1>3, <1>5 DEF ChangesAreShown
        <2> QED
            BY <2>3, <2>4
    <1>9. OneShopper' /\ OrderInv'
        BY <1>1 DEF NothingYet, OneShopper, OrderInv
    <1> QED
        BY <1>6, <1>7, <1>8, <1>9

LEMMA RivalLooksIInv ==
    ASSUME IInv, RivalLooks PROVE IInv'
    <1> USE DEF IInv, RivalLooks
    <1>1. StorefrontTypeOK'
        BY DEF StorefrontTypeOK, Tab
    <1>2. SessionInv'
        BY DEF SessionInv, NothingYet
    <1>3. CartInv' /\ ChangesAreShown'
        BY DEF CartInv, Known, Sound, ChangesAreShown
    <1>4. OneShopper' /\ OrderInv'
        BY DEF OneShopper, OrderInv
    <1> QED
        BY <1>1, <1>2, <1>3, <1>4

\* The other tab stores its session over the page's only when that is seen as overwritten.
LEMMA RivalOpensIInv ==
    ASSUME IInv, RivalOpens PROVE IInv'
    <1> USE StorefrontAssumption DEF IInv, RivalOpens
    <1>1. rival'.step = "open" /\ rival'.found \in Users /\ rival'.found # None
        BY DEF StorefrontTypeOK, UserOfSession, Tab, Users
    <1>2. StorefrontTypeOK'
        BY <1>1 DEF StorefrontTypeOK, Tab, Users
    <1>3. SessionInv'
        <2>1. stored' # None \/ stored' = stored
            BY DEF Users
        <2>2. ~overwritten' => ~overwritten /\ (stored' = stored \/ stored = None)
            BY DEF StorefrontTypeOK
        <2> QED
            BY <1>1, <2>1, <2>2 DEF SessionInv, NothingYet
    <1>4. CartInv' /\ ChangesAreShown'
        BY DEF CartInv, Known, Sound, ChangesAreShown
    <1>5. OneShopper' /\ OrderInv'
        BY DEF OneShopper, OrderInv, StorefrontTypeOK
    <1> QED
        BY <1>2, <1>3, <1>4, <1>5

\* On the way to a page, the cart page finds the page's own user stored.
LEMMA GoesToKeepsSession ==
    ASSUME StorefrontTypeOK, SessionInv, NEW p \in {"shop", "cart"}, tab.step = "open", GoesTo(p)
    PROVE  /\ page' \in {"shop", "cart"} /\ orderer' \in Users \cup {None}
           /\ page' = "cart" => orderer' # None
           /\ ~overwritten /\ orderer' # None => orderer' = me
    BY DEF StorefrontTypeOK, SessionInv, GoesTo

LEMMA VisitIInv ==
    ASSUME IInv, NEW p \in {"shop", "cart"}, Visit(p) PROVE IInv'
    <1> USE DEF IInv, Visit
    <1>1. /\ page' \in {"shop", "cart"} /\ orderer' \in Users \cup {None}
          /\ page' = "cart" => orderer' # None
          /\ ~overwritten /\ orderer' # None => orderer' = me
        BY GoesToKeepsSession
    <1>2. StorefrontTypeOK'
        BY <1>1 DEF StorefrontTypeOK
    <1>3. SessionInv'
        BY <1>1, Mounted DEF SessionInv
    <1>4. CartInv' /\ ChangesAreShown'
        BY DEF CartInv, Known, Sound, ChangesAreShown
    <1>5. OneShopper' /\ OrderInv'
        BY DEF OneShopper, OrderInv
    <1> QED
        BY <1>2, <1>3, <1>4, <1>5

(* Steps that change one request and nothing else *)

LEMMA OneRequest ==
    ASSUME IInv, NEW r \in Requests, NEW q \in Request \cup {None},
           requests' = [requests EXCEPT ![r] = q],
           me # None,
           UNCHANGED <<client, session, carts, selected, queries, page, confirmed>>,
           q # None /\ q.step = "applied" => q.version <= carts[q.user].version,
           q # None /\ q.kind = "order" /\ ~overwritten =>
                /\ q.user = me
                /\ q.step = "applied" \/ q.overtaken \/ carts[me].full
    PROVE  IInv'
    <1> USE DEF IInv, session
    <1>1. requests \in [Requests -> Request \cup {None}]
        BY DEF StorefrontTypeOK
    <1>2. \A s \in Requests : requests'[s] = IF s = r THEN q ELSE requests[s]
        BY <1>1
    <1>3. StorefrontTypeOK'
        BY <1>1 DEF StorefrontTypeOK
    <1>4. SessionInv'
        BY DEF SessionInv
    <1>5. CartInv' /\ ChangesAreShown'
        BY <1>2 DEF CartInv, Known, Sound, ChangesAreShown
    <1>6. OneShopper' /\ OrderInv'
        BY <1>2 DEF OneShopper, OrderInv
    <1> QED
        BY <1>3, <1>4, <1>5, <1>6

\* An order is sent for the page's own user; if the page knows the cart it shows, it is full.
LEMMA SendIInv ==
    ASSUME IInv, NEW r \in Requests, NEW kind \in {"add", "empty", "order"}, Send(r, kind),
           kind = "order" => page = "cart" /\ ShownFull
    PROVE  IInv'
    <1> DEFINE q == [step |-> "sent", kind |-> kind, user |-> IF kind = "order" THEN orderer ELSE me,
                     version |-> 0, overtaken |-> kind = "order" /\ ~UpToDate]
    <1> USE DEF IInv
    <1>1. me # None /\ me \in Users /\ carts[me] \in Cart
        BY Mounted DEF Send
    <1>2. requests' = [requests EXCEPT ![r] = q]
        BY DEF Send
    <1>3. q.user \in Users
        BY <1>1 DEF StorefrontTypeOK, SessionInv
    <1>4. q \in Request
        BY <1>3, StorefrontAssumption DEF Request, Versions
    <1>5. kind = "order" /\ ~overwritten => q.user = me
        BY DEF SessionInv
    <1>6. ASSUME kind = "order", UpToDate PROVE carts[me].full
        <2>1. selected \in Currencies /\ queries[selected].data \in Cart
            BY <1>6 DEF ShownFull, Shown, StorefrontTypeOK, Query
        <2>2. Known(queries[selected].data)
            BY <1>6, <2>1 DEF ShownFull, Shown, CartInv, Sound
        <2>3. queries[selected].data.version >= carts[me].version
            BY <1>6, <2>1 DEF ShownFull, Shown, UpToDate, ChangesAreShown
        <2>4. queries[selected].data = carts[me]
            BY <1>1, <2>1, <2>2, <2>3 DEF Known, Cart, Versions
        <2> QED
            BY <1>6, <2>4 DEF ShownFull, Shown
    <1> QED
        BY <1>1, <1>2, <1>4, <1>5, <1>6, OneRequest DEF Send

LEMMA FailsIInv ==
    ASSUME IInv, NEW r \in Requests, Fails(r) PROVE IInv'
    <1> DEFINE q == IF requests[r].step = "sent" THEN [requests[r] EXCEPT !.step = "abandoned"]
                    ELSE None
    <1> USE DEF IInv
    <1>1. requests[r] \in Request /\ requests[r] # None /\ me # None
        BY Mounted DEF Fails, StorefrontTypeOK
    <1>2. requests' = [requests EXCEPT ![r] = q]
        BY DEF Fails
    <1>3. q \in Request \cup {None}
        BY <1>1 DEF Request
    <1>4. q # None =>
            /\ q.step = "abandoned" /\ q.kind = requests[r].kind /\ q.user = requests[r].user
            /\ q.overtaken = requests[r].overtaken /\ requests[r].step = "sent"
        BY <1>1 DEF Request
    <1>5. q # None /\ q.kind = "order" /\ ~overwritten =>
            q.user = me /\ (q.step = "applied" \/ q.overtaken \/ carts[me].full)
        BY <1>1, <1>4 DEF OneShopper, OrderInv
    <1> QED
        BY <1>1, <1>2, <1>3, <1>4, <1>5, OneRequest DEF Fails

LEMMA IsLostIInv ==
    ASSUME IInv, NEW r \in Requests, IsLost(r) PROVE IInv'
    <1>1. me # None
        BY Mounted DEF IInv, IsLost
    <1> QED
        BY <1>1, OneRequest DEF IsLost

(* Steps that change a cart *)

LEMMA CartChanges ==
    ASSUME IInv, NEW u \in Users, NEW kind,
           carts[u].version < MaxVersion,
           carts' = [carts EXCEPT ![u] = Changed(carts[u], kind)],
           requests' \in [Requests -> Request \cup {None}],
           \A r \in Requests : requests'[r] # None =>
                /\ requests[r] # None
                /\ requests'[r].kind = requests[r].kind /\ requests'[r].user = requests[r].user
                /\ requests'[r].kind = "order" => requests'[r].overtaken \/ requests'[r].step = "applied"
                /\ requests'[r].step = "applied" =>
                    \/ requests'[r].user = u /\ requests'[r].version = carts[u].version + 1
                    \/ requests[r].step = "applied" /\ requests'[r].version = requests[r].version,
           me # None,
           UNCHANGED <<client, session, selected, queries, page, confirmed>>
    PROVE  IInv'
    <1> USE DEF IInv, session
    <1>1. carts \in [Users -> Cart] /\ requests \in [Requests -> Request \cup {None}]
          /\ me \in Users /\ confirmed \in Nat
        BY DEF StorefrontTypeOK, Versions
    <1>2. /\ Changed(carts[u], kind) \in Cart
          /\ Changed(carts[u], kind).version = carts[u].version + 1
        BY <1>1, ChangedIsNewer
    <1>3. \A v \in Users :
            /\ carts'[v] \in Cart /\ carts[v].version \in Nat /\ carts'[v].version \in Nat
            /\ carts'[v] = carts[v] \/ carts'[v].version = carts[v].version + 1
        BY <1>1, <1>2 DEF Cart, Versions
    <1>4. carts'[u].version = carts[u].version + 1
        BY <1>1, <1>2
    <1>5. StorefrontTypeOK'
        BY <1>1, <1>2 DEF StorefrontTypeOK
    <1>6. SessionInv'
        BY DEF SessionInv
    <1>7. \A c \in Currencies : Sound(queries[c])'
        <2> SUFFICES ASSUME NEW c \in Currencies PROVE Sound(queries[c])'
            OBVIOUS
        <2>1. queries[c] \in Query /\ Sound(queries[c])
            BY DEF StorefrontTypeOK, CartInv
        <2>2. \A cart \in Cart : Known(cart) => Known(cart)'
            BY <1>1, <1>3 DEF Known, Cart, Versions
        <2>3. queries[c].data # None => queries[c].data \in Cart
            BY <2>1 DEF Query
        <2>4. queries[c].read # None => queries[c].read \in Cart
            BY <2>1 DEF Query
        <2> QED
            BY <2>1, <2>2, <2>3, <2>4 DEF Sound
    <1>8. CartInv'
        <2>1. confirmed <= carts'[me].version
            BY <1>1, <1>3 DEF CartInv
        <2>2. ASSUME NEW r \in Requests, requests'[r] # None, requests'[r].step = "applied"
              PROVE  requests'[r].version <= carts'[requests'[r].user].version
            <3>1. requests'[r].user \in Users /\ requests'[r].version \in Nat
                BY <2>2 DEF Request, Versions
            <3> QED
                BY <1>3, <1>4, <2>2, <3>1 DEF CartInv
        <2> QED
            BY <1>7, <2>1, <2>2 DEF CartInv
    <1>9. ChangesAreShown'
        BY DEF ChangesAreShown
    <1>10. OneShopper' /\ OrderInv'
        BY DEF OneShopper, OrderInv
    <1> QED
        BY <1>5, <1>6, <1>8, <1>9, <1>10

\* A change by somebody else only marks an order as overtaken.
LEMMA OvertakenStays ==
    ASSUME NEW q \in Request, NEW o, o = [q EXCEPT !.overtaken = q.kind = "order"]
    PROVE  /\ o \in Request
           /\ o.kind = q.kind /\ o.user = q.user /\ o.step = q.step /\ o.version = q.version
           /\ o.kind = "order" => o.overtaken
    <1>1. o.overtaken = (q.kind = "order") /\ o.overtaken \in BOOLEAN
        BY DEF Request
    <1> QED
        BY <1>1 DEF Request

LEMMA RivalChangesIInv ==
    ASSUME IInv, NEW kind \in {"add", "empty", "order"}, RivalChanges(kind) PROVE IInv'
    <1> USE DEF IInv, RivalChanges
    <1>1. me \in Users /\ me # None
        BY DEF StorefrontTypeOK, SessionInv
    <1>2. requests \in [Requests -> Request \cup {None}]
        BY DEF StorefrontTypeOK
    <1>3. \A r \in Requests :
            /\ requests[r] = None => requests'[r] = None
            /\ requests[r] # None =>
                requests'[r] = [requests[r] EXCEPT !.overtaken = requests[r].kind = "order"]
        OBVIOUS
    <1>4. ASSUME NEW r \in Requests, requests[r] # None
          PROVE  /\ requests'[r] \in Request
                 /\ requests'[r].kind = requests[r].kind /\ requests'[r].user = requests[r].user
                 /\ requests'[r].step = requests[r].step
                 /\ requests'[r].version = requests[r].version
                 /\ requests'[r].kind = "order" => requests'[r].overtaken
        <2> HIDE DEF IInv, RivalChanges
        <2>1. requests[r] \in Request
            BY <1>2, <1>4
        <2>2. requests'[r] = [requests[r] EXCEPT !.overtaken = requests[r].kind = "order"]
            BY <1>3, <1>4
        <2> QED
            BY <2>1, <2>2, OvertakenStays
    <1>5. requests' \in [Requests -> Request \cup {None}]
        <2>1. requests' = [r \in Requests |-> requests'[r]]
            OBVIOUS
        <2> HIDE DEF IInv, RivalChanges
        <2> QED
            BY <1>3, <1>4, <2>1
    <1>6. carts' = [carts EXCEPT ![me] = Changed(carts[me], kind)]
        OBVIOUS
    <1>7. carts[me].version < MaxVersion
          /\ UNCHANGED <<client, session, selected, queries, page, confirmed>>
        OBVIOUS
    <1>8. ASSUME NEW r \in Requests, requests'[r] # None
          PROVE  /\ requests[r] # None
                 /\ requests'[r].kind = requests[r].kind /\ requests'[r].user = requests[r].user
                 /\ requests'[r].kind = "order" => requests'[r].overtaken
                 /\ requests'[r].step = "applied" =>
                        requests[r].step = "applied" /\ requests'[r].version = requests[r].version
        BY <1>3, <1>4, <1>8
    <1> HIDE DEF IInv, RivalChanges
    <1> QED
        BY <1>1, <1>5, <1>6, <1>7, <1>8, CartChanges

LEMMA AppliesIInv ==
    ASSUME IInv, NEW r \in Requests, Applies(r) PROVE IInv'
    <1> DEFINE q == requests[r]
    <1> USE DEF IInv
    <1>1. requests \in [Requests -> Request \cup {None}] /\ carts \in [Users -> Cart]
        BY DEF StorefrontTypeOK
    <1>2. q \in Request /\ q # None /\ q.user \in Users /\ me # None
        BY <1>1, Mounted DEF Applies, Request
    <1>3. carts[q.user].version < MaxVersion /\ carts[q.user].version + 1 \in Versions
        BY <1>1, <1>2, StorefrontAssumption DEF Applies, Cart, Versions
    <1>4. requests'[r] =
            IF q.step = "abandoned" THEN None
            ELSE [q EXCEPT !.step = "applied", !.version = carts[q.user].version + 1]
        BY DEF Applies
    <1>5. \A s \in Requests \ {r} :
            /\ requests[s] = None => requests'[s] = None
            /\ requests[s] # None =>
                requests'[s] = [requests[s] EXCEPT !.overtaken = requests[s].kind = "order"]
        BY DEF Applies
    <1>6. requests'[r] # None =>
            /\ requests'[r] \in Request /\ requests'[r].step = "applied"
            /\ requests'[r].kind = q.kind /\ requests'[r].user = q.user
            /\ requests'[r].version = carts[q.user].version + 1
        BY <1>2, <1>3, <1>4 DEF Request
    <1>7. ASSUME NEW s \in Requests \ {r}, requests[s] # None
          PROVE  /\ requests'[s] \in Request
                 /\ requests'[s].kind = requests[s].kind /\ requests'[s].user = requests[s].user
                 /\ requests'[s].step = requests[s].step
                 /\ requests'[s].version = requests[s].version
                 /\ requests'[s].kind = "order" => requests'[s].overtaken
        <2> HIDE DEF IInv
        <2>1. requests[s] \in Request
            BY <1>1, <1>7
        <2>2. requests'[s] = [requests[s] EXCEPT !.overtaken = requests[s].kind = "order"]
            BY <1>5, <1>7
        <2> QED
            BY <2>1, <2>2, OvertakenStays
    <1>8. requests' \in [Requests -> Request \cup {None}]
        <2>1. requests' = [s \in Requests |-> requests'[s]]
            BY DEF Applies
        <2>2. \A s \in Requests : requests'[s] \in Request \cup {None}
            BY <1>5, <1>6, <1>7
        <2> QED
            BY <2>1, <2>2
    <1>9. carts' = [carts EXCEPT ![q.user] = Changed(carts[q.user], q.kind)]
        BY DEF Applies
    <1>10. ASSUME NEW s \in Requests, requests'[s] # None
           PROVE  /\ requests[s] # None
                  /\ requests'[s].kind = requests[s].kind /\ requests'[s].user = requests[s].user
                  /\ requests'[s].kind = "order" =>
                        requests'[s].overtaken \/ requests'[s].step = "applied"
                  /\ requests'[s].step = "applied" =>
                        \/ requests'[s].user = q.user
                           /\ requests'[s].version = carts[q.user].version + 1
                        \/ requests[s].step = "applied"
                           /\ requests'[s].version = requests[s].version
        <2>1. CASE s = r
            BY <1>2, <1>6, <1>10, <2>1
        <2>2. CASE s # r
            BY <1>5, <1>7, <1>10, <2>2
        <2> QED
            BY <2>1, <2>2
    <1>11. UNCHANGED <<client, session, selected, queries, page, confirmed>>
        BY DEF Applies
    <1> HIDE DEF IInv
    <1> QED
        BY <1>2, <1>3, <1>8, <1>9, <1>10, <1>11, CartChanges

(* An answer: every fetch that is not restarted and started before is late from now on *)

LEMMA ConfirmedIInv ==
    ASSUME IInv, NEW r \in Requests, Confirmed(r) PROVE IInv'
    <1> DEFINE q == requests[r]
               next(c) == [Invalidated(queries[c], c = selected) EXCEPT
                            !.late = @ \/ Outlives(queries[c], c = selected)]
    <1> USE DEF IInv
    <1>1. /\ requests \in [Requests -> Request \cup {None}] /\ carts \in [Users -> Cart]
          /\ queries \in [Currencies -> Query] /\ selected \in Currencies
          /\ confirmed \in Versions
        BY DEF StorefrontTypeOK
    <1>2. q \in Request /\ q # None /\ q.version \in Versions /\ q.user \in Users
        BY <1>1 DEF Confirmed, Request
    <1>3. me # None /\ me \in Users /\ tab.step = "open"
        BY <1>2, Mounted DEF SessionInv
    <1>4. requests' = [requests EXCEPT ![r] = None]
        BY DEF Confirmed
    <1>5. \A s \in Requests : requests'[s] # None => requests'[s] = requests[s] /\ requests[s] # None
        BY <1>1, <1>4
    <1>6. /\ confirmed' \in Versions
          /\ confirmed' <= carts[me].version
        <2>1. q.user = me => q.version <= carts[me].version
            BY <1>2 DEF CartInv, Confirmed
        <2> QED
            BY <1>1, <1>2, <1>3, <2>1 DEF CartInv, Confirmed
    <1>7. queries' = [c \in Currencies |-> next(c)]
        BY DEF Confirmed
    <1>8. ASSUME NEW c \in Currencies
          PROVE  /\ next(c) \in Query
                 /\ next(c).data = queries[c].data
                 /\ next(c).read # None => next(c).read = queries[c].read
                 /\ next(c).status = "read" => queries[c].status = "read" /\ next(c).late
                                              /\ next(c).read = queries[c].read
                 /\ c = selected => next(c).status # "idle"
        <2> DEFINE was == queries[c]
                   inv == Invalidated(was, c = selected)
        <2>1. was \in Query
            BY <1>1
        <2>2. inv \in Query /\ Outlives(was, c = selected) \in BOOLEAN
            BY <2>1, QueriesStayQueries
        <2>3. /\ next(c) \in Query
              /\ next(c).data = inv.data /\ next(c).read = inv.read /\ next(c).status = inv.status
              /\ next(c).late = (inv.late \/ Outlives(was, c = selected))
            <3> HIDE DEF inv
            <3>1. next(c) = [inv EXCEPT !.late = inv.late \/ Outlives(was, c = selected)]
                BY DEF inv
            <3> HIDE DEF next
            <3>2. inv.late \/ Outlives(was, c = selected) \in BOOLEAN
                BY <2>2 DEF Query
            <3> QED
                BY <2>2, <3>1, <3>2 DEF Query
        <2>4. \/ inv = Started(was)
              \/ inv = was /\ (was.status = "idle" => c # selected)
                    /\ (Outlives(was, c = selected) <=> was.status # "idle")
            BY <2>1 DEF Invalidated, Fetched, Outlives
        <2>5. /\ Started(was).data = was.data /\ Started(was).read = None
              /\ Started(was).status = "asked"
            BY <2>1 DEF Started, Query
        <2> HIDE DEF inv, next
        <2> QED
            BY <2>1, <2>2, <2>3, <2>4, <2>5
    <1>9. /\ page' \in {"shop", "cart"} /\ orderer' \in Users \cup {None}
          /\ page' = "cart" => orderer' # None
          /\ ~overwritten /\ orderer' # None => orderer' = me
        <2>1. NextPage(q.kind) \in {"shop", "cart"} /\ GoesTo(NextPage(q.kind))
            BY DEF Confirmed, NextPage, StorefrontTypeOK
        <2> QED
            BY <1>3, <2>1, GoesToKeepsSession
    <1>10. UNCHANGED <<client, stored, tab, rival, me, overwritten, carts, selected>>
        BY DEF Confirmed
    <1> HIDE DEF next
    <1>11. StorefrontTypeOK'
        <2>1. requests' \in [Requests -> Request \cup {None}]
            BY <1>1, <1>4
        <2>2. queries' \in [Currencies -> Query]
            BY <1>7, <1>8
        <2> QED
            BY <1>6, <1>9, <1>10, <2>1, <2>2 DEF StorefrontTypeOK
    <1>12. SessionInv'
        BY <1>3, <1>9, <1>10 DEF SessionInv
    <1>13. CartInv'
        <2>1. ASSUME NEW c \in Currencies PROVE Sound(queries[c])'
            <3>1. queries'[c] = next(c) /\ Sound(queries[c])
                BY <1>7 DEF CartInv
            <3> QED
                BY <1>8, <1>10, <3>1 DEF Sound, Known
        <2>2. \A s \in Requests : requests'[s] # None /\ requests'[s].step = "applied" =>
                    requests'[s].version <= carts'[requests'[s].user].version
            BY <1>5, <1>10 DEF CartInv
        <2> QED
            BY <1>6, <1>10, <2>1, <2>2 DEF CartInv
    <1>14. ChangesAreShown'
        <2>1. queries'[selected'].status # "idle"
            BY <1>1, <1>7, <1>8, <1>10
        <2> QED
            BY <2>1 DEF ChangesAreShown
    <1>15. OneShopper' /\ OrderInv'
        BY <1>5, <1>10 DEF OneShopper, OrderInv
    <1> QED
        BY <1>11, <1>12, <1>13, <1>14, <1>15

(* The invariant *)

LEMMA StepIInv == IInv /\ [Next]_vars => IInv'
    <1> SUFFICES ASSUME IInv, [Next]_vars PROVE IInv'
        OBVIOUS
    <1>1. ASSUME NEW c \in Currencies,
                 SelectCurrency(c) \/ ServerReads(c) \/ CartArrives(c) \/ FetchFails(c)
          PROVE  IInv'
        BY <1>1, SelectCurrencyIInv, ServerReadsIInv, CartArrivesIInv, FetchFailsIInv
    <1>2. ASSUME NEW r \in Requests, AddItem(r) \/ EmptyCart(r) \/ PlaceOrder(r) PROVE IInv'
        BY <1>2, SendIInv DEF AddItem, EmptyCart, PlaceOrder
    <1>3. ASSUME NEW r \in Requests, Applies(r) \/ Confirmed(r) \/ Fails(r) \/ IsLost(r)
          PROVE  IInv'
        BY <1>3, AppliesIInv, ConfirmedIInv, FailsIInv, IsLostIInv
    <1>4. CASE UNCHANGED vars
        <2>1. StorefrontTypeOK' /\ SessionInv'
            BY <1>4 DEF IInv, vars, session, StorefrontTypeOK, SessionInv, NothingYet
        <2>2. CartInv' /\ ChangesAreShown'
            BY <1>4 DEF IInv, vars, session, CartInv, Known, Sound, ChangesAreShown
        <2>3. OneShopper' /\ OrderInv'
            BY <1>4 DEF IInv, vars, session, OneShopper, OrderInv
        <2> QED
            BY <2>1, <2>2, <2>3 DEF IInv
    <1> QED
        BY <1>1, <1>2, <1>3, <1>4, LookIInv, OpenIInv, RivalLooksIInv, RivalOpensIInv,
           RivalChangesIInv, FocusIInv, VisitIInv DEF Next

LEMMA InvariantIInv == Spec => []IInv
    BY InitIInv, StepIInv, PTL DEF Spec

(* Theorems *)

\* The variables keep their types (Cart.provider.tsx, Session.gateway.ts).
THEOREM TypeCorrect == Spec => []StorefrontTypeOK
    BY InvariantIInv, PTL DEF IInv

\* What the page was told had succeeded is in the cart it shows once it fetches no more
\* (mutationOptions and useQuery of Cart.provider.tsx).
THEOREM ConfirmedChangesAreShown == Spec => []ChangesAreShown
    BY InvariantIInv, PTL DEF IInv

\* The user ids of the API gateway and of the cart page, read from storage at different times,
\* are one, unless a tab overwrote the session (Session.gateway.ts).
THEOREM OrdersAreForOneShopper == Spec => []OneShopper
    BY InvariantIInv, PTL DEF IInv

\* An order that the page could know about takes a full cart (CartDetail.tsx, pages/api/cart.ts).
THEOREM KnownOrdersAreFull == Spec => EmptyOrderIsOvertaken
    <1>1. ASSUME IInv, [Next]_vars, NEW r \in Requests,
                 requests[r] # None, requests[r].kind = "order", carts' # carts,
                 requests'[r] = None \/ requests'[r].step # requests[r].step
          PROVE  carts[requests[r].user].full \/ requests[r].overtaken \/ overwritten
        <2>1. requests \in [Requests -> Request \cup {None}]
            BY <1>1 DEF IInv, StorefrontTypeOK
        <2>2. CASE Applies(r)
            BY <1>1, <2>2 DEF Applies, IInv, OneShopper, OrderInv
        <2>3. ASSUME NEW s \in Requests, s # r, Applies(s) PROVE FALSE
            <3>1. requests'[r] = [requests[r] EXCEPT !.overtaken = requests[r].kind = "order"]
                BY <1>1, <2>3 DEF Applies
            <3>2. requests'[r] \in Request /\ requests'[r].step = requests[r].step
                BY <1>1, <2>1, <3>1, OvertakenStays
            <3> QED
                BY <1>1, <3>2, NothingAssumption
        <2>4. ASSUME NEW kind \in {"add", "empty", "order"}, RivalChanges(kind) PROVE FALSE
            <3>1. requests'[r] = [requests[r] EXCEPT !.overtaken = requests[r].kind = "order"]
                BY <1>1, <2>4 DEF RivalChanges
            <3>2. requests'[r] \in Request /\ requests'[r].step = requests[r].step
                BY <1>1, <2>1, <3>1, OvertakenStays
            <3> QED
                BY <1>1, <3>2, NothingAssumption
        <2>5. ~(\E s \in Requests : Applies(s)) /\ ~(\E kind \in {"add", "empty", "order"} : RivalChanges(kind))
                => carts' = carts
            BY <1>1 DEF Next, vars, session, Look, Open, RivalLooks, RivalOpens, Focus, SelectCurrency,
               ServerReads, CartArrives, FetchFails, Visit, AddItem, EmptyCart, PlaceOrder, Send,
               Confirmed, Fails, IsLost
        <2> QED
            BY <1>1, <2>2, <2>3, <2>4, <2>5
    <1>2. IInv /\ [Next]_vars =>
            [\A r \in Requests :
                LET q == requests[r]
                    takesEffect ==
                        carts' # carts /\ (requests'[r] = None \/ requests'[r].step # q.step)
                IN  q # None /\ q.kind = "order" /\ takesEffect =>
                        carts[q.user].full \/ q.overtaken \/ overwritten]_vars
        BY <1>1
    <1> QED
        BY <1>2, InvariantIInv, PTL DEF Spec, EmptyOrderIsOvertaken

----------------------------------------------------------------------------
(* The panel of a product's page                                           *)

\* While the panel observes a mutation, that mutation asks what was asked last about the product
\* of the page, and the panel waits for it; it waits for nothing else.
PanelInv ==
    /\ mutations \in [Asks -> Ask \cup {Nothing}]
    /\ observed # Nothing =>
        /\ observed \in Asks
        /\ panel.state = "pending"
        /\ mutations[observed] = [product |-> product, question |-> asked]
    /\ AnswerFitsQuestion

LEMMA InitPanelInv == PageInit => PanelInv
    BY DEF PageInit, PanelInv, AnswerFitsQuestion, NoAnswer

LEMMA ResetPanelInv ==
    ASSUME PanelInv, NEW p \in Products, VisitProduct(p) PROVE PanelInv'
    BY DEF PanelInv, VisitProduct, ResetOnProduct, Reset, NoAnswer, AnswerFitsQuestion

\* A new question takes the panel away from the one before.
LEMMA HandleAskAIPanelInv ==
    ASSUME PanelInv, product \in Products, NEW a \in Asks, NEW q \in Questions, HandleAskAI(a, q)
    PROVE  PanelInv'
    <1>1. mutations' = [mutations EXCEPT ![a] = [product |-> product, question |-> q]]
        BY DEF HandleAskAI
    <1>2. observed' = a /\ panel'.state = "pending" /\ asked' = q /\ product' = product
        BY DEF HandleAskAI, NoAnswer
    <1>3. mutations' \in [Asks -> Ask \cup {Nothing}]
        BY <1>1 DEF PanelInv, Ask
    <1>4. mutations'[a] = [product |-> product', question |-> asked']
        BY <1>1, <1>2 DEF PanelInv
    <1> QED
        BY <1>2, <1>3, <1>4, ProductPageAssumption DEF PanelInv, AnswerFitsQuestion

\* An answer reaches the panel only from the mutation it observes.
LEMMA SettledPanelInv ==
    ASSUME PanelInv, NEW a \in Asks, NEW result, Settled(a, result),
           result.state = "error" \/ (result.state = "success" /\ result.answer = mutations[a])
    PROVE  PanelInv'
    <1>1. mutations' \in [Asks -> Ask \cup {Nothing}]
          /\ \A b \in Asks : b # a => mutations'[b] = mutations[b]
        BY DEF PanelInv, Settled
    <1>2. product' = product /\ asked' = asked
        BY DEF Settled
    <1>3. CASE observed = a
        <2>1. observed' = Nothing /\ panel' = result
            BY <1>3 DEF Settled, Observes
        <2>2. mutations[a] = [product |-> product, question |-> asked]
            BY <1>3, ProductPageAssumption DEF PanelInv
        <2> QED
            BY <1>1, <1>2, <2>1, <2>2 DEF PanelInv, AnswerFitsQuestion
    <1>4. CASE observed # a
        <2>1. observed' = observed /\ panel' = panel
            BY <1>4 DEF Settled, Observes
        <2> QED
            BY <1>1, <1>2, <1>4, <2>1 DEF PanelInv, AnswerFitsQuestion
    <1> QED
        BY <1>3, <1>4

LEMMA StepPanelInv == PanelInv /\ product \in Products /\ [PageNext]_pageVars => PanelInv'
    <1> SUFFICES ASSUME PanelInv, product \in Products, [PageNext]_pageVars PROVE PanelInv'
        OBVIOUS
    <1>1. ASSUME NEW a \in Asks, NEW q \in Questions, AskTyped(a, q) \/ QuickPrompt(a, q)
          PROVE  PanelInv'
        BY <1>1, HandleAskAIPanelInv DEF AskTyped, QuickPrompt
    <1>2. ASSUME NEW a \in Asks, Answered(a) PROVE PanelInv'
        BY <1>2, SettledPanelInv DEF Answered
    <1>3. ASSUME NEW a \in Asks, AskFails(a) PROVE PanelInv'
        BY <1>3, SettledPanelInv DEF AskFails, NoAnswer
    <1>4. CASE \/ \E outcome \in {"loaded", "error"} : ReviewsArrive(outcome)
               \/ AverageArrives
               \/ UNCHANGED pageVars
        BY <1>4 DEF ReviewsArrive, AverageArrives, pageVars, PanelInv, AnswerFitsQuestion
    <1> QED
        BY <1>1, <1>2, <1>3, <1>4, ResetPanelInv DEF PageNext

LEMMA ProductStays == product \in Products /\ [PageNext]_pageVars => product' \in Products
    BY DEF PageNext, pageVars, VisitProduct, AskTyped, QuickPrompt, HandleAskAI, Answered, AskFails,
           Settled, ReviewsArrive, AverageArrives

\* However late and in whatever order answers come, and wherever the shopper goes meanwhile, the
\* panel shows what was asked last about this product (ProductAIAssistant.provider.tsx).
THEOREM AnswersFit == PageSpec => []AnswerFitsQuestion
    <1> DEFINE J == PanelInv /\ product \in Products
    <1>1. PageInit => J
        BY InitPanelInv DEF PageInit
    <1>2. J /\ [PageNext]_pageVars => J'
        BY StepPanelInv, ProductStays
    <1>3. J => AnswerFitsQuestion
        BY DEF PanelInv
    <1> QED
        BY <1>1, <1>2, <1>3, PTL DEF PageSpec

----------------------------------------------------------------------------
(* The figures made of the reviews                                         *)

\* Sums and counts over the five scores, written out.
LEMMA SumOfFive ==
    ASSUME NEW f, \A s \in 1 .. 5 : f[s] \in Int
    PROVE  SumOver(f, 1 .. 5) = f[1] + f[2] + f[3] + f[4] + f[5]
    <1>1. ASSUME NEW k \in 0 .. 4
          PROVE  SumOver(f, 1 .. k + 1) = SumOver(f, 1 .. k) + f[k + 1]
        <2> DEFINE S == 1 .. k
        <2>1. IsFiniteSet(S) /\ k + 1 \notin S /\ S \cup {k + 1} = 1 .. k + 1
            BY FS_Interval
        <2>2. f[k + 1] \in Int /\ \A s \in S : f[s] \in Int
            OBVIOUS
        <2> HIDE DEF S
        <2>3. SumOver(f, S \cup {k + 1}) = SumOver(f, S) + f[k + 1]
            BY <2>1, <2>2, SumGainsElement
        <2> QED
            BY <2>1, <2>3, Zenon DEF S
    <1>2. SumOver(f, 1 .. 0) = 0
        <2>1. 1 .. 0 = {}
            OBVIOUS
        <2> QED
            BY <2>1, SumOfNothing, Zenon
    <1> DEFINE T(k) == SumOver(f, 1 .. k)
    <1>3. T(0) = 0 /\ \A k \in 0 .. 4 : T(k + 1) = T(k) + f[k + 1]
        BY <1>1, <1>2
    <1> HIDE DEF T
    <1>4. T(1) = f[1] /\ T(2) = T(1) + f[2] /\ T(3) = T(2) + f[3] /\ T(4) = T(3) + f[4]
          /\ T(5) = T(4) + f[5]
        BY <1>3
    <1>5. T(5) = f[1] + f[2] + f[3] + f[4] + f[5]
        BY <1>4
    <1> QED
        BY <1>5 DEF T

Mark(s, A) == IF s \in A THEN 1 ELSE 0

LEMMA CountOfFive ==
    ASSUME NEW A \in SUBSET (1 .. 5)
    PROVE  Cardinality(A) = Mark(1, A) + Mark(2, A) + Mark(3, A) + Mark(4, A) + Mark(5, A)
    <1> DEFINE C(k) == Cardinality(A \cap 1 .. k)
    <1>1. ASSUME NEW k \in 0 .. 4 PROVE C(k + 1) = C(k) + Mark(k + 1, A)
        <2> DEFINE S == A \cap 1 .. k
        <2>1. IsFiniteSet(S) /\ k + 1 \notin S
            <3>1. IsFiniteSet(1 .. k)
                BY FS_Interval
            <3>2. IsFiniteSet(S)
                BY <3>1, FS_Intersection, Zenon
            <3> QED
                BY <3>2
        <2>2. A \cap 1 .. k + 1 = IF k + 1 \in A THEN S \cup {k + 1} ELSE S
            OBVIOUS
        <2>3. Cardinality(S \cup {k + 1}) = Cardinality(S) + 1 /\ Cardinality(S) \in Nat
            <3> HIDE DEF S
            <3> QED
                BY <2>1, FS_AddElement, FS_CardinalityType
        <2>4. CASE k + 1 \in A
            <3>1. C(k + 1) = Cardinality(S \cup {k + 1})
                BY <2>2, <2>4
            <3> QED
                BY <2>3, <2>4, <3>1 DEF Mark
        <2>5. CASE k + 1 \notin A
            <3>1. C(k + 1) = Cardinality(S)
                BY <2>2, <2>5
            <3> QED
                BY <2>3, <2>5, <3>1 DEF Mark
        <2> QED
            BY <2>4, <2>5
    <1>2. C(0) = 0
        <2>1. A \cap 1 .. 0 = {}
            OBVIOUS
        <2> QED
            BY <2>1, FS_EmptySet, Zenon
    <1>3. C(5) = Cardinality(A)
        <2>1. A \cap 1 .. 5 = A
            OBVIOUS
        <2> QED
            BY <2>1, Zenon
    <1>4. \A k \in 0 .. 4 : C(k + 1) = C(k) + Mark(k + 1, A)
        BY <1>1
    <1> HIDE DEF C
    <1>5. C(1) = C(0) + Mark(1, A) /\ C(2) = C(1) + Mark(2, A) /\ C(3) = C(2) + Mark(3, A)
          /\ C(4) = C(3) + Mark(4, A) /\ C(5) = C(4) + Mark(5, A)
        BY <1>4
    <1>6. \A k \in 1 .. 5 : Mark(k, A) \in Int
        BY DEF Mark
    <1> QED
        BY <1>2, <1>3, <1>5, <1>6

LEMMA ElementOfList ==
    ASSUME NEW X, NEW list \in Seq(X), NEW i \in DOMAIN list PROVE list[i] \in X
    OBVIOUS

LEMMA DisjointUnion ==
    ASSUME NEW A, NEW B, IsFiniteSet(A), IsFiniteSet(B), A \cap B = {}
    PROVE  IsFiniteSet(A \cup B) /\ Cardinality(A \cup B) = Cardinality(A) + Cardinality(B)
    <1>1. Cardinality(A \cap B) = 0
        BY FS_EmptySet, Zenon
    <1>2. Cardinality(A) \in Nat /\ Cardinality(B) \in Nat
        BY FS_CardinalityType
    <1>3. /\ IsFiniteSet(A \cup B)
          /\ Cardinality(A \cup B) = Cardinality(A) + Cardinality(B) - Cardinality(A \cap B)
        BY FS_Union, Zenon
    <1>4. Cardinality(A \cup B) = Cardinality(A) + Cardinality(B) - 0
        BY <1>1, <1>3, Zenon
    <1> QED
        BY <1>2, <1>3, <1>4

LEMMA FiveDisjoint ==
    ASSUME NEW A, NEW B, NEW C, NEW D, NEW E,
           \A X \in {A, B, C, D, E} : IsFiniteSet(X),
           A \cap B = {}, (A \cup B) \cap C = {}, (A \cup B \cup C) \cap D = {},
           (A \cup B \cup C \cup D) \cap E = {}
    PROVE  Cardinality(A \cup B \cup C \cup D \cup E)
             = Cardinality(A) + Cardinality(B) + Cardinality(C) + Cardinality(D) + Cardinality(E)
    <1>0. IsFiniteSet(A) /\ IsFiniteSet(B) /\ IsFiniteSet(C) /\ IsFiniteSet(D) /\ IsFiniteSet(E)
        OBVIOUS
    <1>1. IsFiniteSet(A \cup B) /\ Cardinality(A \cup B) = Cardinality(A) + Cardinality(B)
        BY <1>0, DisjointUnion
    <1> DEFINE F == A \cup B
    <1>2. IsFiniteSet(F \cup C) /\ Cardinality(F \cup C) = Cardinality(F) + Cardinality(C)
        <2> HIDE DEF F
        <2>1. F \cap C = {}
            BY DEF F
        <2> QED
            BY <1>0, <1>1, <2>1, DisjointUnion DEF F
    <1> DEFINE G == F \cup C
    <1>3. IsFiniteSet(G \cup D) /\ Cardinality(G \cup D) = Cardinality(G) + Cardinality(D)
        BY <1>0, <1>2, DisjointUnion
    <1> DEFINE H == G \cup D
    <1>4. Cardinality(H \cup E) = Cardinality(H) + Cardinality(E)
        BY <1>0, <1>3, DisjointUnion
    <1> QED
        BY <1>1, <1>2, <1>3, <1>4

\* Every review is counted under one score.
LEMMA ScoresPartition ==
    ASSUME NEW list \in Seq(0 .. 99)
    PROVE  LET given == Distribution(list)
           IN  /\ given \in [1 .. 5 -> Nat]
               /\ given[1] + given[2] + given[3] + given[4] + given[5] = Len(list)
    <1> DEFINE S(s) == {i \in DOMAIN list : Stars(list[i]) = s}
               c(s) == Cardinality(S(s))
    <1>1. DOMAIN list = 1 .. Len(list) /\ Len(list) \in Nat
        OBVIOUS
    <1>2. IsFiniteSet(DOMAIN list) /\ Cardinality(DOMAIN list) = Len(list)
        BY <1>1, FS_Interval
    <1>3. ASSUME NEW s \in 1 .. 5 PROVE IsFiniteSet(S(s)) /\ c(s) \in Nat
        <2>1. S(s) \in SUBSET (DOMAIN list)
            OBVIOUS
        <2> HIDE DEF S
        <2> QED
            BY <1>2, <2>1, FS_Subset, FS_CardinalityType
    <1>4. \A i \in DOMAIN list : Stars(list[i]) \in {1, 2, 3, 4, 5}
        <2> SUFFICES ASSUME NEW i \in DOMAIN list PROVE Stars(list[i]) \in {1, 2, 3, 4, 5}
            OBVIOUS
        <2> DEFINE r == (list[i] + 5) \div 10
        <2>1. list[i] \in Int
            <3>1. list[i] \in 0 .. 99
                BY ElementOfList, Zenon
            <3>2. \A x \in 0 .. 99 : x \in Int
                OBVIOUS
            <3> QED
                BY <3>1, <3>2, Zenon
        <2>2. r \in Int
            BY <2>1
        <2>3. Stars(list[i]) = IF r < 1 THEN 1 ELSE IF r > 5 THEN 5 ELSE r
            BY DEF Stars
        <2> HIDE DEF r
        <2> QED
            BY <2>2, <2>3
    <1> DEFINE U2 == S(1) \cup S(2)
               U3 == U2 \cup S(3)
               U4 == U3 \cup S(4)
               U5 == U4 \cup S(5)
    <1>5. U5 = DOMAIN list
        BY <1>4
    <1>6. S(1) \cap S(2) = {} /\ U2 \cap S(3) = {} /\ U3 \cap S(4) = {} /\ U4 \cap S(5) = {}
        OBVIOUS
    <1>7. Cardinality(U5) = c(1) + c(2) + c(3) + c(4) + c(5)
        <2> HIDE DEF S
        <2> QED
            BY <1>3, <1>6, FiveDisjoint, SMTT(30)
    <1>8. Distribution(list) = [s \in 1 .. 5 |-> c(s)]
        BY DEF Distribution
    <1> HIDE DEF S, c
    <1>9. Cardinality(U5) = Len(list)
        BY <1>2, <1>5, Zenon
    <1> QED
        BY <1>3, <1>7, <1>8, <1>9 DEF c

One(b) == IF b THEN 1 ELSE 0

\* The place of a fraction r with index i among five fractions, the largest first.
Rank(r, i, a, b, c, d, e) ==
    One(a > r \/ (a = r /\ 1 < i)) + One(b > r \/ (b = r /\ 2 < i))
    + One(c > r \/ (c = r /\ 3 < i)) + One(d > r \/ (d = r /\ 4 < i))
    + One(e > r \/ (e = r /\ 5 < i))

LEMMA PositionIsRank ==
    ASSUME NEW list, NEW s \in 1 .. 5
    PROVE  LET r == Fraction(list) IN Position(list, s) = Rank(r[s], s, r[1], r[2], r[3], r[4], r[5])
    <1> DEFINE r == Fraction(list)
               A == {t \in 1 .. 5 : r[t] > r[s] \/ (r[t] = r[s] /\ t < s)}
    <1>1. Position(list, s) = Cardinality(A)
        BY DEF Position
    <1> HIDE DEF r
    <1>2. A \in SUBSET (1 .. 5)
        OBVIOUS
    <1>3. \A t \in 1 .. 5 : Mark(t, A) = One(r[t] > r[s] \/ (r[t] = r[s] /\ t < s))
        BY DEF Mark, One
    <1> HIDE DEF A
    <1>4. Position(list, s) = Rank(r[s], s, r[1], r[2], r[3], r[4], r[5])
        BY <1>1, <1>2, <1>3, CountOfFive DEF Rank
    <1> QED
        BY <1>4 DEF r

\* One percent more for a place among the first k.
OneMore(place, k) == IF place < k THEN 1 ELSE 0

\* Fractions that add up to k wholes: one that is zero has k others before it.
LEMMA NothingComesLast ==
    ASSUME NEW a \in Nat, NEW b \in Nat, NEW c \in Nat, NEW d \in Nat, NEW e \in Nat,
           NEW k \in 0 .. 4, NEW n \in Nat, a < n, b < n, c < n, d < n, e < n,
           a + b + c + d + e = n * k
    PROVE  /\ a = 0 => Rank(a, 1, a, b, c, d, e) >= k
           /\ b = 0 => Rank(b, 2, a, b, c, d, e) >= k
           /\ c = 0 => Rank(c, 3, a, b, c, d, e) >= k
           /\ d = 0 => Rank(d, 4, a, b, c, d, e) >= k
           /\ e = 0 => Rank(e, 5, a, b, c, d, e) >= k
    <1>1. k = 0 \/ k = 1 \/ k = 2 \/ k = 3 \/ k = 4
        OBVIOUS
    <1>2. CASE k = 0
        BY <1>2, SMTT(60) DEF Rank, One
    <1>3. CASE k = 1
        BY <1>3, SMTT(60) DEF Rank, One
    <1>4. CASE k = 2
        BY <1>4, SMTT(60) DEF Rank, One
    <1>5. CASE k = 3
        BY <1>5, SMTT(60) DEF Rank, One
    <1>6. CASE k = 4
        BY <1>6, SMTT(60) DEF Rank, One
    <1> QED
        BY <1>1, <1>2, <1>3, <1>4, <1>5, <1>6

\* A larger fraction is before a smaller one.
LEMMA LargerComesFirst ==
    ASSUME NEW a \in Int, NEW b \in Int, NEW c \in Int, NEW d \in Int, NEW e \in Int,
           NEW r \in Int, NEW q \in Int, NEW i \in Int, NEW j \in Int, r > q
    PROVE  Rank(r, i, a, b, c, d, e) <= Rank(q, j, a, b, c, d, e)
    BY SMTT(60) DEF Rank, One

LEMMA WholesLeft ==
    ASSUME NEW n \in Nat \ {0}, NEW a \in Nat, NEW b \in Nat, NEW c \in Nat, NEW d \in Nat,
           NEW e \in Nat, a < n, b < n, c < n, d < n, e < n,
           NEW f \in Int, a + b + c + d + e + n * f = 100 * n
    PROVE  100 - f \in 0 .. 4 /\ a + b + c + d + e = n * (100 - f)
    <1> DEFINE k == 100 - f
    <1>1. n * k = 100 * n - n * f
        OBVIOUS
    <1>2. n * k = a + b + c + d + e
        BY <1>1
    <1>3. k \in Int
        OBVIOUS
    <1> HIDE DEF k
    <1>4. k >= 0
        <2>1. k < 0 => n * k < 0
            BY <1>3
        <2> QED
            BY <1>2, <1>3, <2>1
    <1>5. k <= 4
        <2>1. k >= 5 => n * k >= n * 5
            BY <1>3
        <2> QED
            BY <1>2, <1>3, <2>1
    <1> QED
        BY <1>2, <1>3, <1>4, <1>5 DEF k

LEMMA DivisionIs ==
    ASSUME NEW n \in Nat \ {0}, NEW g \in Nat
    PROVE  g \div n \in Nat /\ g % n \in 0 .. n - 1 /\ g = n * (g \div n) + (g % n)
    OBVIOUS

\* A hundred n parts, g[s] of a score, as f[s] wholes and r[s] parts left over of it.
Divided(n, g, f, r) ==
    /\ g[1] + g[2] + g[3] + g[4] + g[5] = n
    /\ \A s \in 1 .. 5 : /\ g[s] \in Nat /\ f[s] \in Nat /\ r[s] \in 0 .. n - 1
                         /\ 100 * g[s] = n * f[s] + r[s]

LEMMA PartsAddUp ==
    ASSUME NEW n \in Nat \ {0}, NEW g, NEW f, NEW r, NEW k, Divided(n, g, f, r),
           k = 100 - (f[1] + f[2] + f[3] + f[4] + f[5])
    PROVE  /\ k \in 0 .. 4
           /\ f[1] + f[2] + f[3] + f[4] + f[5] = 100 - k
           /\ r[1] + r[2] + r[3] + r[4] + r[5] = n * k
    <1> DEFINE w == f[1] + f[2] + f[3] + f[4] + f[5]
    <1>1. /\ f[1] \in Nat /\ f[2] \in Nat /\ f[3] \in Nat /\ f[4] \in Nat /\ f[5] \in Nat
          /\ g[1] \in Nat /\ g[2] \in Nat /\ g[3] \in Nat /\ g[4] \in Nat /\ g[5] \in Nat
          /\ g[1] + g[2] + g[3] + g[4] + g[5] = n
        BY DEF Divided
    <1>2. /\ r[1] \in Nat /\ r[2] \in Nat /\ r[3] \in Nat /\ r[4] \in Nat /\ r[5] \in Nat
          /\ r[1] < n /\ r[2] < n /\ r[3] < n /\ r[4] < n /\ r[5] < n
        BY DEF Divided
    <1>3. /\ 100 * g[1] = n * f[1] + r[1] /\ 100 * g[2] = n * f[2] + r[2]
          /\ 100 * g[3] = n * f[3] + r[3] /\ 100 * g[4] = n * f[4] + r[4]
          /\ 100 * g[5] = n * f[5] + r[5]
        BY DEF Divided
    <1>4. w \in Int /\ n * w = n * f[1] + n * f[2] + n * f[3] + n * f[4] + n * f[5]
        BY <1>1
    <1>5. n * w \in Int /\ n * f[1] \in Int /\ n * f[2] \in Int /\ n * f[3] \in Int
          /\ n * f[4] \in Int /\ n * f[5] \in Int
        BY <1>1
    <1>6. k = 100 - w
        OBVIOUS
    <1> HIDE DEF w
    <1>7. r[1] + r[2] + r[3] + r[4] + r[5] + n * w = 100 * n
        <2> DEFINE p(s) == n * f[s]
        <2>1. /\ 100 * g[1] = p(1) + r[1] /\ 100 * g[2] = p(2) + r[2]
              /\ 100 * g[3] = p(3) + r[3] /\ 100 * g[4] = p(4) + r[4]
              /\ 100 * g[5] = p(5) + r[5]
            BY <1>3
        <2>2. /\ p(1) \in Int /\ p(2) \in Int /\ p(3) \in Int /\ p(4) \in Int /\ p(5) \in Int
              /\ n * w \in Int /\ n * w = p(1) + p(2) + p(3) + p(4) + p(5)
            BY <1>4, <1>5
        <2> DEFINE q == n * w
        <2> HIDE DEF p, q
        <2>3. q \in Int /\ q = p(1) + p(2) + p(3) + p(4) + p(5)
            BY <2>2 DEF q
        <2> DEFINE h(s) == 100 * g[s]
        <2>4. 100 * n = h(1) + h(2) + h(3) + h(4) + h(5)
            <3>1. \A a, b, c, d, e \in Nat :
                    100 * (a + b + c + d + e) = 100 * a + 100 * b + 100 * c + 100 * d + 100 * e
                OBVIOUS
            <3>2. 100 * (g[1] + g[2] + g[3] + g[4] + g[5]) = h(1) + h(2) + h(3) + h(4) + h(5)
                BY <1>1, <3>1
            <3>3. g[1] + g[2] + g[3] + g[4] + g[5] = n
                BY <1>1, Zenon
            <3> QED
                BY <3>2, <3>3, Zenon
        <2>5. h(1) \in Int /\ h(2) \in Int /\ h(3) \in Int /\ h(4) \in Int /\ h(5) \in Int
            BY <1>1
        <2>6. /\ h(1) = p(1) + r[1] /\ h(2) = p(2) + r[2] /\ h(3) = p(3) + r[3]
              /\ h(4) = p(4) + r[4] /\ h(5) = p(5) + r[5]
            BY <2>1
        <2> HIDE DEF h
        <2>7. h(1) + h(2) + h(3) + h(4) + h(5) = r[1] + r[2] + r[3] + r[4] + r[5] + q
            BY <1>2, <2>2, <2>3, <2>6
        <2>8. r[1] + r[2] + r[3] + r[4] + r[5] + q = 100 * n
            BY <2>4, <2>7
        <2> QED
            BY <2>8 DEF q
    <1>8. 100 - w \in 0 .. 4 /\ r[1] + r[2] + r[3] + r[4] + r[5] = n * (100 - w)
        BY <1>2, <1>4, <1>7, WholesLeft
    <1>9. w = 100 - k
        BY <1>4, <1>6
    <1> QED
        BY <1>6, <1>8, <1>9 DEF w

\* What the percentages are made of: whole percents f, fractions r and k percents to give away.
LEMMA PartsOfPercents ==
    ASSUME NEW list \in Seq(0 .. 99), list # << >>
    PROVE  LET n == Len(list)
               g == Distribution(list)
               f == Floored(list)
               r == Fraction(list)
               k == Remainder(list)
           IN  /\ n \in Nat \ {0}
               /\ \A s \in 1 .. 5 : /\ g[s] \in Nat /\ f[s] \in Nat /\ r[s] \in 0 .. n - 1
                                    /\ 100 * g[s] = n * f[s] + r[s]
               /\ k \in 0 .. 4
               /\ f[1] + f[2] + f[3] + f[4] + f[5] = 100 - k
               /\ r[1] + r[2] + r[3] + r[4] + r[5] = n * k
    <1> DEFINE n == Len(list)
               g == Distribution(list)
               f == Floored(list)
               r == Fraction(list)
               k == Remainder(list)
    <1>1. n \in Nat \ {0}
        OBVIOUS
    <1>2. g \in [1 .. 5 -> Nat] /\ g[1] + g[2] + g[3] + g[4] + g[5] = n
        BY ScoresPartition
    <1>3. \A s \in 1 .. 5 : f[s] = (100 * g[s]) \div n /\ r[s] = (100 * g[s]) % n
        BY DEF Floored, Fraction, Raw
    <1>4. k = 100 - SumOver(f, 1 .. 5)
        BY Zenon DEF Remainder, SumOver
    <1> HIDE DEF n, g, f, r, k
    <1>5. \A s \in 1 .. 5 : /\ g[s] \in Nat /\ f[s] \in Nat /\ r[s] \in 0 .. n - 1
                            /\ 100 * g[s] = n * f[s] + r[s]
        <2> TAKE s \in 1 .. 5
        <2>1. g[s] \in Nat
            BY <1>2
        <2>2. 100 * g[s] \in Nat
            <3>1. \A x \in Nat : 100 * x \in Nat
                OBVIOUS
            <3> QED
                BY <2>1, <3>1, Zenon
        <2>3. /\ (100 * g[s]) \div n \in Nat /\ (100 * g[s]) % n \in 0 .. n - 1
              /\ 100 * g[s] = n * ((100 * g[s]) \div n) + ((100 * g[s]) % n)
            BY <1>1, <2>2, DivisionIs, Zenon
        <2> QED
            BY <1>3, <2>1, <2>3, Zenon
    <1>6. /\ 1 \in 1 .. 5 /\ 2 \in 1 .. 5 /\ 3 \in 1 .. 5 /\ 4 \in 1 .. 5 /\ 5 \in 1 .. 5
          /\ Nat \subseteq Int
        OBVIOUS
    <1>7. k = 100 - (f[1] + f[2] + f[3] + f[4] + f[5])
        <2>1. \A s \in 1 .. 5 : f[s] \in Int
            BY <1>5, <1>6, Zenon
        <2>2. SumOver(f, 1 .. 5) = f[1] + f[2] + f[3] + f[4] + f[5]
            BY <2>1, SumOfFive, Zenon
        <2> QED
            BY <1>4, <2>2, Zenon
    <1>8. /\ k \in 0 .. 4
          /\ f[1] + f[2] + f[3] + f[4] + f[5] = 100 - k
          /\ r[1] + r[2] + r[3] + r[4] + r[5] = n * k
        <2>1. Divided(n, g, f, r)
            BY <1>2, <1>5, Zenon DEF Divided
        <2> QED
            BY <1>1, <1>7, <2>1, PartsAddUp
    <1> QED
        BY <1>1, <1>5, <1>8, Zenon DEF n, g, f, r, k

\* A whole n of parts times f, with r left over, of a hundred g: one more or none is less than n off.
LEMMA LessThanAPointOff ==
    ASSUME NEW n \in Nat, n > 0, NEW g \in Nat, NEW f \in Nat, NEW r \in 0 .. n - 1,
           NEW b \in 0 .. 1, 100 * g = n * f + r, r = 0 => b = 0
    PROVE  /\ (f + b) * n - 100 * g \in -n + 1 .. n - 1
           /\ g = 0 => f + b = 0
    <1>1. (f + b) * n - 100 * g = b * n - r
        <2>1. (f + b) * n = n * f + b * n
            OBVIOUS
        <2>2. n * f \in Int /\ b * n \in Int /\ r \in Int
            OBVIOUS
        <2> QED
            BY <2>1, <2>2
    <1>2. b * n = IF b = 1 THEN n ELSE 0
        OBVIOUS
    <1>3. b * n - r \in -n + 1 .. n - 1
        BY <1>2
    <1>4. ASSUME g = 0 PROVE f + b = 0
        <2>1. n * f + r = 0
            BY <1>4
        <2>2. n * f >= 0 /\ n * f \in Int
            OBVIOUS
        <2>3. n * f = 0 /\ r = 0
            BY <2>1, <2>2
        <2>4. f = 0
            <3>1. f > 0 => n * f > 0
                OBVIOUS
            <3> QED
                BY <2>3, <3>1
        <2> QED
            BY <2>3, <2>4
    <1> QED
        BY <1>1, <1>3, <1>4

\* The larger share has the larger whole part, or the same and more left over.
LEMMA MoreIsNoLess ==
    ASSUME NEW n \in Nat \ {0}, NEW g \in Nat, NEW f \in Nat, NEW r \in 0 .. n - 1,
           NEW h \in Nat, NEW e \in Nat, NEW q \in 0 .. n - 1,
           100 * g = n * f + r, 100 * h = n * e + q, g > h
    PROVE  f > e \/ (f = e /\ r > q)
    <1>1. n * f + r > n * e + q
        <2>1. 100 * g > 100 * h
            OBVIOUS
        <2> QED
            BY <2>1
    <1>2. f < e => n * f + n <= n * e
        <2>1. f < e => n * (f + 1) <= n * e
            OBVIOUS
        <2>2. n * (f + 1) = n * f + n
            OBVIOUS
        <2> QED
            BY <2>1, <2>2
    <1>3. n * f \in Int /\ n * e \in Int
        OBVIOUS
    <1>4. ~ (f < e)
        BY <1>1, <1>2, <1>3
    <1>5. f = e => r > q
        <2>1. ASSUME f = e PROVE r > q
            <3>1. n * f = n * e
                BY <2>1
            <3> QED
                BY <1>1, <1>3, <3>1
        <2> QED
            BY <2>1
    <1> QED
        BY <1>4, <1>5

\* The percentages p: one of the k percents left goes to each of the k first places.
SharedOut(n, g, f, r, k, p) ==
    /\ \A s \in 1 .. 5 : /\ g[s] \in Nat /\ f[s] \in Nat /\ r[s] \in 0 .. n - 1
                         /\ 100 * g[s] = n * f[s] + r[s]
                         /\ p[s] = f[s] + OneMore(Rank(r[s], s, r[1], r[2], r[3], r[4], r[5]), k)
    /\ k \in 0 .. 4
    /\ f[1] + f[2] + f[3] + f[4] + f[5] = 100 - k
    /\ r[1] + r[2] + r[3] + r[4] + r[5] = n * k

LEMMA OneMoreIs == \A i, k : OneMore(i, k) \in 0 .. 1
    BY DEF OneMore

LEMMA RankIs ==
    ASSUME NEW a \in Int, NEW b \in Int, NEW c \in Int, NEW d \in Int, NEW e \in Int,
           NEW r \in Int, NEW i \in Int
    PROVE  Rank(r, i, a, b, c, d, e) \in Nat
    BY DEF Rank, One

LEMMA SharesAddUp ==
    ASSUME NEW n \in Nat \ {0}, NEW g, NEW f, NEW r, NEW k, NEW p, SharedOut(n, g, f, r, k, p)
    PROVE  /\ SumOver(p, 1 .. 5) = 100
           /\ \A s \in 1 .. 5 :
               /\ p[s] * n - 100 * g[s] \in -n + 1 .. n - 1
               /\ g[s] = 0 => p[s] = 0
               /\ \A t \in 1 .. 5 : g[s] > g[t] => p[s] >= p[t]
    <1> DEFINE at(s) == Rank(r[s], s, r[1], r[2], r[3], r[4], r[5])
               b(s) == OneMore(at(s), k)
    <1>1. \A s \in 1 .. 5 : /\ g[s] \in Nat /\ f[s] \in Nat /\ r[s] \in 0 .. n - 1
                            /\ 100 * g[s] = n * f[s] + r[s] /\ p[s] = f[s] + b(s)
        BY Zenon DEF SharedOut
    <1>2. /\ k \in 0 .. 4
          /\ f[1] + f[2] + f[3] + f[4] + f[5] = 100 - k
          /\ r[1] + r[2] + r[3] + r[4] + r[5] = n * k
        BY Zenon DEF SharedOut
    <1>3. \A s \in 1 .. 5 : r[s] \in Nat /\ r[s] < n
        <2> HIDE DEF b
        <2> QED
            BY <1>1
    <1>4. /\ r[1] \in Nat /\ r[2] \in Nat /\ r[3] \in Nat /\ r[4] \in Nat /\ r[5] \in Nat
          /\ r[1] < n /\ r[2] < n /\ r[3] < n /\ r[4] < n /\ r[5] < n
        BY <1>3
    <1>5. r[1] \in Int /\ r[2] \in Int /\ r[3] \in Int /\ r[4] \in Int /\ r[5] \in Int
        BY <1>4
    <1>6. b(1) + b(2) + b(3) + b(4) + b(5) = k    \* five places are five different ones
        <2>1. k \in 0 .. 4
            BY <1>2, Zenon
        <2> QED
            BY <1>5, <2>1, SMTT(60) DEF Rank, One, OneMore
    <1>7. \A s \in 1 .. 5 : at(s) \in Int /\ (r[s] = 0 => at(s) >= k)
        <2>1. /\ r[1] = 0 => at(1) >= k
              /\ r[2] = 0 => at(2) >= k
              /\ r[3] = 0 => at(3) >= k
              /\ r[4] = 0 => at(4) >= k
              /\ r[5] = 0 => at(5) >= k
            BY <1>2, <1>4, NothingComesLast
        <2>2. \A s \in 1 .. 5 : at(s) \in Int
            <3>1. \A s \in 1 .. 5 : r[s] \in Int /\ s \in Int
                BY <1>3
            <3>2. \A s \in 1 .. 5 : at(s) \in Nat
                BY <1>5, <3>1, RankIs, Zenon
            <3> QED
                BY <3>2
        <2> HIDE DEF at
        <2> QED
            BY <2>1, <2>2
    <1> HIDE DEF at
    <1>8. \A s \in 1 .. 5 : b(s) \in 0 .. 1 /\ (r[s] = 0 => b(s) = 0)
        <2> TAKE s \in 1 .. 5
        <2>1. r[s] = 0 => ~ (at(s) < k)
            BY <1>2, <1>7
        <2> QED
            BY <2>1, OneMoreIs DEF OneMore
    <1>9. SumOver(p, 1 .. 5) = 100
        <2> HIDE DEF b
        <2>1. \A s \in 1 .. 5 : p[s] \in Int /\ f[s] \in Int /\ b(s) \in Int
            BY <1>1, <1>8
        <2>2. SumOver(p, 1 .. 5) = p[1] + p[2] + p[3] + p[4] + p[5]
            BY <2>1, SumOfFive
        <2>3. /\ p[1] = f[1] + b(1) /\ p[2] = f[2] + b(2) /\ p[3] = f[3] + b(3)
              /\ p[4] = f[4] + b(4) /\ p[5] = f[5] + b(5)
            BY <1>1
        <2>4. /\ f[1] \in Int /\ f[2] \in Int /\ f[3] \in Int /\ f[4] \in Int /\ f[5] \in Int
              /\ b(1) \in Int /\ b(2) \in Int /\ b(3) \in Int /\ b(4) \in Int /\ b(5) \in Int
            BY <2>1
        <2> QED
            BY <1>2, <1>6, <2>2, <2>3, <2>4
    <1>10. ASSUME NEW s \in 1 .. 5
          PROVE  /\ p[s] * n - 100 * g[s] \in -n + 1 .. n - 1
                 /\ g[s] = 0 => p[s] = 0
        <2> HIDE DEF b
        <2>1. /\ g[s] \in Nat /\ f[s] \in Nat /\ r[s] \in 0 .. n - 1
              /\ 100 * g[s] = n * f[s] + r[s] /\ p[s] = f[s] + b(s)
              /\ b(s) \in 0 .. 1 /\ (r[s] = 0 => b(s) = 0)
            BY <1>1, <1>8, Zenon
        <2>2. /\ (f[s] + b(s)) * n - 100 * g[s] \in -n + 1 .. n - 1
              /\ g[s] = 0 => f[s] + b(s) = 0
            <3>1. n \in Nat /\ n > 0
                OBVIOUS
            <3>2. /\ g[s] \in Nat /\ f[s] \in Nat /\ r[s] \in 0 .. n - 1
                  /\ 100 * g[s] = n * f[s] + r[s]
                  /\ b(s) \in 0 .. 1 /\ (r[s] = 0 => b(s) = 0)
                BY <2>1, Zenon
            <3> DEFINE x == b(s)
                       y == f[s]
                       z == r[s]
                       u == g[s]
            <3>3. /\ u \in Nat /\ y \in Nat /\ z \in 0 .. n - 1 /\ 100 * u = n * y + z
                  /\ x \in 0 .. 1 /\ (z = 0 => x = 0)
                BY <3>2, Zenon
            <3> HIDE DEF x, y, z, u
            <3>4. /\ (y + x) * n - 100 * u \in -n + 1 .. n - 1
                  /\ u = 0 => y + x = 0
                BY <3>1, <3>3, LessThanAPointOff
            <3> QED
                BY <3>4, Zenon DEF x, y, z, u
        <2> QED
            BY <2>1, <2>2, Zenon
    <1>11. ASSUME NEW s \in 1 .. 5, NEW t \in 1 .. 5, g[s] > g[t]
           PROVE  p[s] >= p[t]
        <2>1. /\ g[s] \in Nat /\ f[s] \in Nat /\ r[s] \in 0 .. n - 1
              /\ 100 * g[s] = n * f[s] + r[s] /\ p[s] = f[s] + b(s) /\ b(s) \in 0 .. 1
              /\ g[t] \in Nat /\ f[t] \in Nat /\ r[t] \in 0 .. n - 1
              /\ 100 * g[t] = n * f[t] + r[t] /\ p[t] = f[t] + b(t) /\ b(t) \in 0 .. 1
            BY <1>1, <1>8, Zenon
        <2>2. f[s] > f[t] \/ (f[s] = f[t] /\ r[s] > r[t])
            <3> HIDE DEF b
            <3> QED
                BY <1>11, <2>1, MoreIsNoLess
        <2>3. r[s] > r[t] => at(s) <= at(t)
            <3>1. r[s] \in Int /\ r[t] \in Int /\ s \in Int /\ t \in Int
                BY <1>3
            <3> QED
                BY <1>5, <3>1, LargerComesFirst, Zenon DEF at
        <2>4. r[s] > r[t] => b(s) >= b(t)
            <3>1. at(s) \in Int /\ at(t) \in Int /\ k \in Int
                BY <1>2, <1>7
            <3> QED
                BY <2>3, <3>1 DEF OneMore
        <2> HIDE DEF b
        <2> QED
            BY <2>1, <2>2, <2>4
    <1> QED
        BY <1>9, <1>10, <1>11, Zenon

LEMMA PercentsAddUp ==
    ASSUME NEW list \in Seq(0 .. 99), list # << >>
    PROVE  LET percents == NormalizedPercents(list)
               given == Distribution(list)
           IN  /\ MapThenSumSet(LAMBDA s : percents[s], 1 .. 5) = 100
               /\ \A s \in 1 .. 5 :
                   /\ percents[s] * Len(list) - 100 * given[s] \in -Len(list) + 1 .. Len(list) - 1
                   /\ given[s] = 0 => percents[s] = 0
                   /\ \A t \in 1 .. 5 : given[s] > given[t] => percents[s] >= percents[t]
    <1> DEFINE n == Len(list)
               p == NormalizedPercents(list)
               g == Distribution(list)
               f == Floored(list)
               r == Fraction(list)
               k == Remainder(list)
    <1>1. /\ n \in Nat \ {0}
          /\ \A s \in 1 .. 5 : /\ g[s] \in Nat /\ f[s] \in Nat /\ r[s] \in 0 .. n - 1
                               /\ 100 * g[s] = n * f[s] + r[s]
          /\ k \in 0 .. 4
          /\ f[1] + f[2] + f[3] + f[4] + f[5] = 100 - k
          /\ r[1] + r[2] + r[3] + r[4] + r[5] = n * k
        BY PartsOfPercents
    <1>2. \A s \in 1 .. 5 :
            Position(list, s) = Rank(r[s], s, r[1], r[2], r[3], r[4], r[5])
        BY PositionIsRank
    <1>3. \A s \in 1 .. 5 : p[s] = f[s] + OneMore(Position(list, s), k)
        <2>1. n # 0
            BY <1>1
        <2> QED
            BY <2>1, Zenon DEF NormalizedPercents, OneMore
    <1>4. MapThenSumSet(LAMBDA s : p[s], 1 .. 5) = SumOver(p, 1 .. 5)
        BY Zenon DEF SumOver
    <1> HIDE DEF n, p, g, f, r, k
    <1>5. SharedOut(n, g, f, r, k, p)
        BY <1>1, <1>2, <1>3, Zenon DEF SharedOut
    <1>6. n \in Nat \ {0}
        BY <1>1, Zenon
    <1>7. /\ SumOver(p, 1 .. 5) = 100
          /\ \A s \in 1 .. 5 :
              /\ p[s] * n - 100 * g[s] \in -n + 1 .. n - 1
              /\ g[s] = 0 => p[s] = 0
              /\ \A t \in 1 .. 5 : g[s] > g[t] => p[s] >= p[t]
        BY <1>5, <1>6, SharesAddUp
    <1> QED
        BY <1>4, <1>7, Zenon DEF n, p, g

\* What the figures of a product rest on: its reviews, which an average needs.
FiguresInv ==
    /\ product \in Products
    /\ reviewsOf \in [Products -> ReviewLists]
    /\ \A p \in averages : reviewsOf[p] # << >>

LEMMA FiguresInvIsEnough == FiguresInv => FiguresAddUp
    <1> SUFFICES ASSUME FiguresInv PROVE FiguresAddUp
        OBVIOUS
    <1> DEFINE list == reviewsOf[product]
    <1>1. list \in Seq(0 .. 99)
        BY ProductPageAssumption DEF FiguresInv
    <1>2. ShowsCard => list # << >>
        BY DEF FiguresInv, ShowsCard
    <1>3. ShowsBars => list # << >>
        BY DEF ShowsBars
    <1>4. ShowsNoReviewsYet => list = << >>
        BY DEF ShowsNoReviewsYet
    <1> HIDE DEF list
    <1>5. list # << >> =>
            /\ MapThenSumSet(LAMBDA s : NormalizedPercents(list)[s], 1 .. 5) = 100
            /\ \A s \in 1 .. 5 :
                /\ NormalizedPercents(list)[s] * Len(list) - 100 * Distribution(list)[s]
                     \in -Len(list) + 1 .. Len(list) - 1
                /\ Distribution(list)[s] = 0 => NormalizedPercents(list)[s] = 0
                /\ \A t \in 1 .. 5 : Distribution(list)[s] > Distribution(list)[t] =>
                    NormalizedPercents(list)[s] >= NormalizedPercents(list)[t]
        BY <1>1, PercentsAddUp, Zenon
    <1> QED
        BY <1>2, <1>3, <1>4, <1>5, Zenon DEF FiguresAddUp, list

\* However the reviews fall, the percentages the page shows make a hundred, none is a whole point
\* off, and more reviews never show as less (normalizedPercents, ProductReviews.tsx); a product
\* without reviews has no average (fetch_avg_product_review_score_from_db cannot round None).
THEOREM FiguresAreRight == PageSpec => []FiguresAddUp
    <1>1. PageInit => FiguresInv
        BY DEF PageInit, FiguresInv
    <1>2. FiguresInv /\ [PageNext]_pageVars => FiguresInv'
        BY DEF FiguresInv, PageNext, pageVars, VisitProduct, AskTyped, QuickPrompt, HandleAskAI,
               Answered, AskFails, Settled, ReviewsArrive, AverageArrives
    <1> QED
        BY <1>1, <1>2, FiguresInvIsEnough, PTL DEF PageSpec

=============================================================================
