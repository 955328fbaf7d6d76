-------------------------- MODULE ValkeyCartStore --------------------------
(***************************************************************************)
(* The cart service: gRPC handlers (CartService.cs) over a store that      *)
(* keeps each cart as one serialized blob in a valkey hash                 *)
(* (ValkeyCartStore.cs).  Every valkey command is a step, so AddItem's     *)
(* read-modify-write and the separate KEXPIRE interleave with other calls, *)
(* with the expiry of the key, with failed commands and with a restart of  *)
(* the service.                                                            *)
(***************************************************************************)
EXTENDS Naturals, Sequences

CONSTANTS Users, Products,
          Requests,     \* gRPC calls, each made at most once
          Quantities,   \* quantities a client may ask for
          NoCart,       \* a missing hash field (value.IsNull)
          NoUser,       \* the default UserId of a protobuf message
          NoCall,
          OneAtATime    \* TRUE: a client waits for an answer before calling again

\* The storefront offers quantities from 1 to 10.
ASSUME CartAssumption ==
    /\ Quantities \subseteq Nat \ {0}
    /\ NoUser \notin Users
    /\ OneAtATime \in BOOLEAN

Line == [productId : Products, quantity : Nat]

Cart == [userId : Users \cup {NoUser}, items : Seq(Line)]

\* new Oteldemo.Cart(): also what _emptyCartBytes parses to.
EmptyCart == [userId |-> NoUser, items |-> << >>]

Calls ==
    [op : {"AddItem"}, user : Users, product : Products, quantity : Quantities]
      \cup [op : {"EmptyCart", "GetCart"}, user : Users]

ASSUME NoCartAssumption == NoCart \notin Cart /\ NoCall \notin Calls

VARIABLES store,    \* store[u]: the blob under the key u
          ttl,      \* the users whose key has a time to live
          call,     \* call[r]: the request
          pc,       \* pc[r]: the command call r issues next, or its outcome
          seen,     \* seen[r]: what r read from the store
          \* History, for the properties only:
          since,    \* since[u][p]: quantity written since u's cart was last emptied
          raced,    \* calls holding a cart read before that emptying
          tainted   \* users whose cart was since written by such a call

vars == <<store, ttl, call, pc, seen, since, raced, tainted>>

Finished == {"idle", "ok", "error"}
Running(r) == pc[r] \notin Finished

\* Carts and what calls hold of them are carts: the quantities are not negative.
TypeOK ==
    /\ store \in [Users -> Cart \cup {NoCart}]
    /\ ttl \subseteq Users
    /\ call \in [Requests -> Calls \cup {NoCall}]
    /\ pc \in [Requests -> Finished \cup {"hashGet", "hashSet", "keyExpire"}]
    /\ \A r \in Requests : pc[r] # "idle" => call[r] \in Calls
    /\ seen \in [Requests -> Cart \cup {NoCart}]
    /\ since \in [Users -> [Products -> Nat]]
    /\ raced \subseteq Requests
    /\ tainted \subseteq Users

Init ==
    /\ store = [u \in Users |-> NoCart]
    /\ ttl = {}
    /\ call = [r \in Requests |-> NoCall]
    /\ pc = [r \in Requests |-> "idle"]
    /\ seen = [r \in Requests |-> NoCart]
    /\ since = [u \in Users |-> [p \in Products |-> 0]]
    /\ raced = {}
    /\ tainted = {}

history == <<since, raced, tainted>>

----------------------------------------------------------------------------
(* The carts                                                               *)

Lines(cart, p) == {i \in DOMAIN cart.items : cart.items[i].productId = p}

\* cart.Items.SingleOrDefault(...) throws on a second line for the product.
AtMostOneLine(cart, p) == \A i, j \in Lines(cart, p) : i = j

\* Mutant: a line per call.
AppendLine(cart, u, p, q) ==
    IF cart = NoCart
    THEN [userId |-> u, items |-> <<[productId |-> p, quantity |-> q]>>]
    ELSE [cart EXCEPT !.items = Append(cart.items, [productId |-> p, quantity |-> q])]

\* existingItem.Quantity += quantity
Raise(line, p, q) ==
    IF line.productId = p THEN [line EXCEPT !.quantity = @ + q] ELSE line

\* The cart that AddItemAsync writes back.
WithItem(cart, u, p, q) ==
    IF cart = NoCart
    THEN [userId |-> u, items |-> <<[productId |-> p, quantity |-> q]>>]
    ELSE IF Lines(cart, p) = {}
    THEN [cart EXCEPT !.items = Append(cart.items, [productId |-> p, quantity |-> q])]
    ELSE [cart EXCEPT !.items = [i \in DOMAIN cart.items |-> Raise(cart.items[i], p, q)]]

----------------------------------------------------------------------------
(* A call: AddItem is hashGet, hashSet, keyExpire; EmptyCart is hashSet,   *)
(* keyExpire; GetCart is hashGet.                                          *)

FirstCommand(c) == IF c.op = "EmptyCart" THEN "hashSet" ELSE "hashGet"

Begin(r, c) ==
    /\ pc[r] = "idle"
    /\ OneAtATime => \A s \in Requests : Running(s) => call[s].user # c.user
    /\ call' = [call EXCEPT ![r] = c]
    /\ pc' = [pc EXCEPT ![r] = FirstCommand(c)]
    /\ UNCHANGED <<store, ttl, seen, history>>

\* HashGetAsync: the snapshot AddItem works on, the answer of GetCart.
HashGet(r) ==
    /\ pc[r] = "hashGet"
    /\ seen' = [seen EXCEPT ![r] = store[call[r].user]]
    /\ pc' = [pc EXCEPT ![r] = IF call[r].op = "AddItem" THEN "hashSet" ELSE "ok"]
    /\ UNCHANGED <<store, ttl, call, history>>

\* The AddItem calls of u that hold a cart and have not written it back.
Holders(u) == {r \in Requests : pc[r] = "hashSet" /\ call[r] \in Calls
                                 /\ call[r].op = "AddItem" /\ call[r].user = u}

\* History of the two ways a cart becomes empty.
NotePutAway(u) ==
    /\ since' = [since EXCEPT ![u] = [p \in Products |-> 0]]
    /\ raced' = raced \cup Holders(u)
    /\ tainted' = tainted \ {u}

\* Mutant: the quantity is counted twice when the line already exists.
WriteItemTwice(r, next) ==
    LET u == call[r].user  p == call[r].product  q == call[r].quantity IN
    /\ pc[r] = "hashSet" /\ call[r].op = "AddItem"
    /\ store' = [store EXCEPT ![u] = WithItem(WithItem(seen[r], u, p, q), u, p, q)]
    /\ pc' = [pc EXCEPT ![r] = next]
    /\ since' = [since EXCEPT ![u][p] = @ + q]
    /\ tainted' = IF r \in raced THEN tainted \cup {u} ELSE tainted
    /\ UNCHANGED <<ttl, call, seen, raced>>

\* AddItem's HashSetAsync: the cart that was read, with the item, replaces
\* whatever is there now.  The command keeps the time to live of the key.
WriteItem(r, next) ==
    LET u == call[r].user  p == call[r].product  q == call[r].quantity IN
    /\ pc[r] = "hashSet" /\ call[r].op = "AddItem"
    /\ seen[r] # NoCart => AtMostOneLine(seen[r], p)
    /\ store' = [store EXCEPT ![u] = WithItem(seen[r], u, p, q)]
    /\ pc' = [pc EXCEPT ![r] = next]
    /\ since' = [since EXCEPT ![u][p] = @ + q]
    /\ tainted' = IF r \in raced THEN tainted \cup {u} ELSE tainted
    /\ UNCHANGED <<ttl, call, seen, raced>>

\* Mutant: the cart is read but not replaced.
KeepCart(r, next) ==
    /\ pc[r] = "hashSet" /\ call[r].op = "EmptyCart"
    /\ pc' = [pc EXCEPT ![r] = next]
    /\ NotePutAway(call[r].user)
    /\ UNCHANGED <<store, ttl, call, seen>>

\* EmptyCart's HashSetAsync.
WriteEmpty(r, next) ==
    /\ pc[r] = "hashSet" /\ call[r].op = "EmptyCart"
    /\ store' = [store EXCEPT ![call[r].user] = EmptyCart]
    /\ pc' = [pc EXCEPT ![r] = next]
    /\ NotePutAway(call[r].user)
    /\ UNCHANGED <<ttl, call, seen>>

\* Mutant: the time to live is not set on a key that is there already.
RefreshNothing(r, next) ==
    /\ pc[r] = "keyExpire"
    /\ pc' = [pc EXCEPT ![r] = next]
    /\ UNCHANGED <<store, ttl, call, seen, history>>

\* KeyExpireAsync, a no-op on a missing key.
KeyExpire(r, next) ==
    /\ pc[r] = "keyExpire"
    /\ ttl' = IF store[call[r].user] = NoCart THEN ttl ELSE ttl \cup {call[r].user}
    /\ pc' = [pc EXCEPT ![r] = next]
    /\ UNCHANGED <<store, call, seen, history>>

\* Any exception (no connection, a timeout, the cartFailure flag's bad store)
\* becomes an RpcException before the next command has any effect.
Fail(r) ==
    /\ Running(r)
    /\ pc' = [pc EXCEPT ![r] = "error"]
    /\ UNCHANGED <<store, ttl, call, seen, history>>

\* The cart process dies: its calls fail; valkey, another process, does not.
Restart ==
    /\ \E r \in Requests : Running(r)
    /\ pc' = [r \in Requests |-> IF Running(r) THEN "error" ELSE pc[r]]
    /\ UNCHANGED <<store, ttl, call, seen, history>>

\* Valkey drops a key an hour after the last KEXPIRE.
Expire(u) ==
    /\ u \in ttl
    /\ store' = [store EXCEPT ![u] = NoCart]
    /\ ttl' = ttl \ {u}
    /\ NotePutAway(u)
    /\ UNCHANGED <<call, pc, seen>>

\* A command whose reply is lost has its effect, and the call fails.
Step(r) ==
    \/ HashGet(r)
    \/ \E next \in {"keyExpire", "error"} : WriteItem(r, next) \/ WriteEmpty(r, next)
    \/ \E next \in {"ok", "error"} : KeyExpire(r, next)

Next ==
    \/ \E r \in Requests : \/ \E c \in Calls : Begin(r, c)
                           \/ Step(r)
                           \/ Fail(r)
    \/ Restart
    \/ \E u \in Users : Expire(u)

\* A handler that runs goes on, and valkey expires keys; clients may stop.
Fairness == /\ \A r \in Requests : WF_vars(Step(r))
            /\ \A u \in Users : WF_vars(Expire(u))

Spec == Init /\ [][Next]_vars

FairSpec == Spec /\ Fairness

----------------------------------------------------------------------------
CartsAround == {store[u] : u \in Users} \cup {seen[r] : r \in Requests}

\* However calls interleave, a cart has one line per product, so the
\* SingleOrDefault of AddItemAsync (ValkeyCartStore.cs:162) never throws and an
\* order never has two lines with one primary key in the accounting database.
OneLinePerProduct ==
    \A cart \in CartsAround \ {NoCart} :
        \A p \in Products : AtMostOneLine(cart, p)

\* What was emptied stays emptied: a cart never holds more of a product than
\* was added since, unless an AddItem that had read it before wrote it back.
NothingComesBack ==
    \A u \in Users \ tainted :
        store[u] # NoCart =>
            \A i \in DOMAIN store[u].items :
                store[u].items[i].quantity <= since[u][store[u].items[i].productId]

\* A cart that valkey will never drop is the work of a call that has not
\* issued its KeyExpire yet, or that failed and never will.
NoTtlMeansUnfinished ==
    \A u \in Users : store[u] # NoCart /\ u \notin ttl =>
        \E r \in Requests :
            /\ pc[r] \in {"keyExpire", "error"}
            /\ call[r].user = u
            /\ call[r].op # "GetCart"

FailedOn(u) ==
    \E r \in Requests : pc[r] = "error" /\ call[r].user = u /\ call[r].op # "GetCart"

\* Every cart is dropped in the end, unless a call that writes it failed and
\* may have left it without a time to live.
EventuallyForgotten ==
    \A u \in Users : <>[](store[u] = NoCart \/ FailedOn(u))

\* CartServiceTests.cs:95 asserts, of a cart that items were added to, that
\* its UserId is the user's.
UserIdKept ==
    \A u \in Users : store[u] # NoCart /\ store[u].items # << >> =>
        store[u].userId = u

----------------------------------------------------------------------------
(* Called one at a time the store is an atomic shopping cart; this is what *)
(* a client sees of it (see MCValkeyCart).                                 *)

Quantity(cart, p) ==
    IF cart = NoCart \/ Lines(cart, p) = {} THEN 0
    ELSE cart.items[CHOOSE i \in Lines(cart, p) : TRUE].quantity

Contents(cart) == [p \in Products |-> Quantity(cart, p)]

\* A key that expires while an AddItem holds its cart is written again by it:
\* to the client the cart has not expired, until that call fails.
CartOf(u) ==
    IF store[u] = NoCart /\ Holders(u) # {}
    THEN Contents(seen[CHOOSE r \in Holders(u) : TRUE])
    ELSE Contents(store[u])

StateOf(r) ==
    CASE pc[r] \in {"hashGet", "hashSet"} -> "open"
      [] pc[r] = "keyExpire" -> "taken"
      [] pc[r] = "error" -> "failed"
      [] OTHER -> pc[r]

AnswerOf(r) ==
    IF pc[r] = "ok" /\ call[r].op = "GetCart" THEN Contents(seen[r]) ELSE NoCall

=============================================================================
