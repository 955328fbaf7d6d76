-------------------------- MODULE ValkeyCartProofs --------------------------
(***************************************************************************)
(* The invariants of the cart store, for every set of users, products,     *)
(* concurrent calls and quantities; and that calls which do not overlap on *)
(* a cart find an atomic shopping cart (MCValkeyCart, ShoppingCart).       *)
(***************************************************************************)
EXTENDS MCValkeyCart, SequenceTheorems, TLAPS

\* One line per product, in one cart.
Tidy(cart) == \A p \in Products : AtMostOneLine(cart, p)

\* No line holds more than bound[p].
Within(cart, bound) ==
    \A i \in DOMAIN cart.items : cart.items[i].quantity <= bound[cart.items[i].productId]

----------------------------------------------------------------------------
(* What adding an item to a cart preserves                                 *)

\* Adding to a cart that is there: a new line at the end, or the same lines
\* with the quantity of one product raised.
LEMMA WithItemLines ==
    ASSUME NEW cart \in Cart, NEW u \in Users, NEW p \in Products, NEW q \in Nat
    PROVE  LET new == WithItem(cart, u, p, q)
               k   == Len(cart.items)
           IN  /\ new \in Cart
               /\ Lines(cart, p) = {} =>
                    /\ DOMAIN new.items = 1 .. k + 1
                    /\ new.items[k + 1] = [productId |-> p, quantity |-> q]
                    /\ \A i \in 1 .. k : new.items[i] = cart.items[i]
               /\ Lines(cart, p) # {} =>
                    /\ DOMAIN new.items = 1 .. k
                    /\ \A i \in 1 .. k : new.items[i] = Raise(cart.items[i], p, q)
  <1> DEFINE new == WithItem(cart, u, p, q)
             k == Len(cart.items)
             line == [productId |-> p, quantity |-> q]
             raised == [i \in 1 .. k |-> Raise(cart.items[i], p, q)]
  <1>1. /\ cart.items \in Seq(Line) /\ k \in Nat /\ DOMAIN cart.items = 1 .. k
        /\ line \in Line /\ cart # NoCart
        /\ cart = [userId |-> cart.userId, items |-> cart.items]
        /\ cart.userId \in Users \cup {NoUser}
    BY NoCartAssumption DEF Cart, Line
  <1>2. CASE Lines(cart, p) = {}
    <2>1. new = [userId |-> cart.userId, items |-> Append(cart.items, line)]
      BY <1>1, <1>2 DEF WithItem
    <2>2. /\ Append(cart.items, line) \in Seq(Line)
          /\ DOMAIN Append(cart.items, line) = 1 .. k + 1
          /\ Append(cart.items, line)[k + 1] = line
          /\ \A i \in 1 .. k : Append(cart.items, line)[i] = cart.items[i]
      BY <1>1
    <2>3. new \in Cart
      BY <1>1, <2>1, <2>2 DEF Cart
    <2> QED BY <1>2, <2>1, <2>2, <2>3
  <1>3. CASE Lines(cart, p) # {}
    <2>1. new = [userId |-> cart.userId, items |-> raised]
      BY <1>1, <1>3 DEF WithItem
    <2>2. raised \in Seq(Line) /\ DOMAIN raised = 1 .. k
      <3>1. ASSUME NEW i \in 1 .. k PROVE Raise(cart.items[i], p, q) \in Line
        <4>1. cart.items[i] \in Line
          BY <1>1
        <4> QED BY <4>1 DEF Raise, Line
      <3>2. raised \in [1 .. k -> Line]
        BY <3>1
      <3> QED BY <1>1, <3>2
    <2>3. new \in Cart
      BY <1>1, <2>1, <2>2 DEF Cart
    <2> QED BY <1>3, <2>1, <2>2, <2>3
  <1> QED BY <1>2, <1>3

\* The two cases, apart.
LEMMA WithItemAppends ==
    ASSUME NEW cart \in Cart, NEW u \in Users, NEW p \in Products, NEW q \in Nat,
           Lines(cart, p) = {}
    PROVE  LET new == WithItem(cart, u, p, q)
               k   == Len(cart.items)
           IN  /\ DOMAIN new.items = 1 .. k + 1
               /\ new.items[k + 1] = [productId |-> p, quantity |-> q]
               /\ \A i \in 1 .. k : new.items[i] = cart.items[i]
  BY WithItemLines

LEMMA WithItemRaises ==
    ASSUME NEW cart \in Cart, NEW u \in Users, NEW p \in Products, NEW q \in Nat,
           Lines(cart, p) # {}
    PROVE  LET new == WithItem(cart, u, p, q)
               k   == Len(cart.items)
           IN  /\ DOMAIN new.items = 1 .. k
               /\ \A i \in 1 .. k : new.items[i] = Raise(cart.items[i], p, q)
  <1> DEFINE new == WithItem(cart, u, p, q)
             k == Len(cart.items)
  <1>1. Lines(cart, p) # {} =>
          /\ DOMAIN new.items = 1 .. k
          /\ \A i \in 1 .. k : new.items[i] = Raise(cart.items[i], p, q)
    BY WithItemLines, ZenonT(60)
  <1> HIDE DEF new, k
  <1>2. /\ DOMAIN new.items = 1 .. k
        /\ \A i \in 1 .. k : new.items[i] = Raise(cart.items[i], p, q)
    BY <1>1
  <1> QED BY <1>2 DEF new, k

LEMMA WithItemNew ==
    ASSUME NEW u \in Users, NEW p \in Products, NEW q \in Nat
    PROVE  /\ WithItem(NoCart, u, p, q) \in Cart
           /\ DOMAIN WithItem(NoCart, u, p, q).items = 1 .. 1
           /\ WithItem(NoCart, u, p, q).items[1] = [productId |-> p, quantity |-> q]
  <1>1. WithItem(NoCart, u, p, q) =
          [userId |-> u, items |-> <<[productId |-> p, quantity |-> q]>>]
    BY DEF WithItem
  <1>2. [productId |-> p, quantity |-> q] \in Line
    BY DEF Line
  <1> QED BY <1>1, <1>2 DEF Cart

LEMMA WithItemTidy ==
    ASSUME NEW cart \in Cart \cup {NoCart}, cart # NoCart => Tidy(cart),
           NEW u \in Users, NEW p \in Products, NEW q \in Nat
    PROVE  Tidy(WithItem(cart, u, p, q))
  <1> DEFINE new == WithItem(cart, u, p, q)
  <1>1. CASE cart = NoCart
    <2>1. DOMAIN new.items = 1 .. 1
      <3>1. /\ DOMAIN WithItem(NoCart, u, p, q).items = 1 .. 1
            /\ WithItem(NoCart, u, p, q).items[1] = [productId |-> p, quantity |-> q]
        BY WithItemNew
      <3> QED BY <1>1, <3>1
    <2>2. \A x \in Products : \A i, j \in Lines(new, x) : i = 1 /\ j = 1
      BY <2>1 DEF Lines
    <2> QED BY <2>2 DEF Tidy, AtMostOneLine
  <1>2. CASE cart \in Cart
    <2> DEFINE k == Len(cart.items)
    <2>1. k \in Nat /\ DOMAIN cart.items = 1 .. k
      BY <1>2 DEF Cart
    <2>2. cart # NoCart
      BY <1>2, NoCartAssumption
    <2> SUFFICES ASSUME NEW x \in Products,
                        NEW i \in Lines(new, x), NEW j \in Lines(new, x)
                 PROVE  i = j
      BY DEF Tidy, AtMostOneLine
    <2>3. CASE Lines(cart, p) = {}
      <3>1. /\ DOMAIN new.items = 1 .. k + 1
            /\ new.items[k + 1] = [productId |-> p, quantity |-> q]
            /\ \A h \in 1 .. k : new.items[h] = cart.items[h]
        BY <1>2, <2>3, WithItemAppends
      <3>2. \A h \in 1 .. k : cart.items[h].productId # p
        BY <2>1, <2>3 DEF Lines
      <3>3. /\ i \in 1 .. k + 1 /\ new.items[i].productId = x
            /\ j \in 1 .. k + 1 /\ new.items[j].productId = x
        BY <3>1 DEF Lines
      <3>4. CASE i \in 1 .. k /\ j \in 1 .. k
        BY <2>1, <2>2, <3>1, <3>3, <3>4 DEF Tidy, AtMostOneLine, Lines
      <3>5. CASE ~(i \in 1 .. k /\ j \in 1 .. k)
        BY <2>1, <3>1, <3>2, <3>3, <3>5
      <3> QED BY <3>4, <3>5
    <2>4. CASE Lines(cart, p) # {}
      <3>1. /\ DOMAIN new.items = 1 .. k
            /\ \A h \in 1 .. k : new.items[h] = Raise(cart.items[h], p, q)
        BY <1>2, <2>4, WithItemRaises
      <3>2. \A h \in 1 .. k : Raise(cart.items[h], p, q).productId = cart.items[h].productId
        <4> TAKE h \in 1 .. k
        <4>1. cart.items[h] \in Line
          BY <1>2, <2>1 DEF Cart
        <4> QED BY <4>1 DEF Raise, Line
      <3>3. i \in Lines(cart, x) /\ j \in Lines(cart, x)
        BY <2>1, <3>1, <3>2 DEF Lines
      <3> QED BY <2>2, <3>3 DEF Tidy, AtMostOneLine
    <2> QED BY <2>3, <2>4
  <1> QED BY <1>1, <1>2

LEMMA WithItemWithin ==
    ASSUME NEW cart \in Cart \cup {NoCart}, NEW bound \in [Products -> Nat],
           cart # NoCart => Within(cart, bound),
           NEW u \in Users, NEW p \in Products, NEW q \in Nat
    PROVE  Within(WithItem(cart, u, p, q), [bound EXCEPT ![p] = @ + q])
  <1> DEFINE new == WithItem(cart, u, p, q)
             more == [bound EXCEPT ![p] = @ + q]
  <1>0. /\ \A x \in Products : bound[x] \in Nat /\ more[x] \in Nat /\ bound[x] <= more[x]
        /\ more[p] = bound[p] + q
    OBVIOUS
  <1>1. CASE cart = NoCart
    <2>1. new.items[1].productId = p /\ new.items[1].quantity = q /\ DOMAIN new.items = 1 .. 1
      <3>1. /\ DOMAIN WithItem(NoCart, u, p, q).items = 1 .. 1
            /\ WithItem(NoCart, u, p, q).items[1] = [productId |-> p, quantity |-> q]
        BY WithItemNew
      <3> QED BY <1>1, <3>1
    <2>2. q <= more[p]
      BY <1>0
    <2> HIDE DEF new, more
    <2>3. Within(new, more)
      BY <2>1, <2>2 DEF Within
    <2> QED BY <2>3 DEF new, more
  <1>2. CASE cart \in Cart
    <2> DEFINE k == Len(cart.items)
    <2>1. k \in Nat /\ DOMAIN cart.items = 1 .. k
      BY <1>2 DEF Cart
    <2>2. ASSUME NEW h \in 1 .. k
          PROVE  /\ cart.items[h].productId \in Products
                 /\ cart.items[h].quantity \in Nat
                 /\ cart.items[h].quantity <= bound[cart.items[h].productId]
                 /\ Raise(cart.items[h], p, q).productId = cart.items[h].productId
                 /\ Raise(cart.items[h], p, q).quantity =
                      cart.items[h].quantity + (IF cart.items[h].productId = p THEN q ELSE 0)
      <3>1. cart.items[h] \in Line
        BY <1>2, <2>1 DEF Cart
      <3>2. cart.items[h].quantity <= bound[cart.items[h].productId]
        BY <1>2, <2>1, NoCartAssumption DEF Within
      <3> QED BY <3>1, <3>2 DEF Raise, Line
    <2> SUFFICES ASSUME NEW i \in DOMAIN new.items
                 PROVE  new.items[i].quantity <= more[new.items[i].productId]
      BY DEF Within
    <2>3. CASE Lines(cart, p) = {}
      <3>1. /\ DOMAIN new.items = 1 .. k + 1
            /\ new.items[k + 1] = [productId |-> p, quantity |-> q]
            /\ \A h \in 1 .. k : new.items[h] = cart.items[h]
        BY <1>2, <2>3, WithItemAppends
      <3>2. CASE i \in 1 .. k
        <4>1. new.items[i] = cart.items[i]
          BY <3>1, <3>2
        <4> HIDE DEF new, more
        <4> QED BY <1>0, <2>2, <3>2, <4>1
      <3>3. CASE i = k + 1
        <4>1. new.items[i].productId = p /\ new.items[i].quantity = q
          BY <3>1, <3>3
        <4> HIDE DEF new, more
        <4> QED BY <1>0, <4>1
      <3> QED BY <2>1, <3>1, <3>2, <3>3
    <2>4. CASE Lines(cart, p) # {}
      <3>0. /\ DOMAIN new.items = 1 .. k
            /\ \A h \in 1 .. k : new.items[h] = Raise(cart.items[h], p, q)
        BY <1>2, <2>4, WithItemRaises
      <3>2. i \in 1 .. k
        BY <3>0
      <3>1. new.items[i] = Raise(cart.items[i], p, q)
        BY <3>0, <3>2
      <3> DEFINE x == cart.items[i].productId
                 a == cart.items[i].quantity
      <3>3. /\ x \in Products /\ a \in Nat /\ a <= bound[x]
            /\ new.items[i].productId = x
            /\ new.items[i].quantity = a + (IF x = p THEN q ELSE 0)
        BY <2>2, <3>1, <3>2
      <3>4. bound[x] + (IF x = p THEN q ELSE 0) <= more[x] /\ bound[x] \in Nat /\ more[x] \in Nat
        BY <3>3
      <3> HIDE DEF new, more, x, a
      <3> QED BY <3>3, <3>4
    <2> QED BY <2>3, <2>4
  <1> QED BY <1>1, <1>2

----------------------------------------------------------------------------
\* What an AddItem call holds, when nothing was put away since it read it.
HeldWithin ==
    \A r \in Requests :
        /\ pc[r] = "hashSet" /\ call[r].op = "AddItem" /\ seen[r] # NoCart
        /\ r \notin raced /\ call[r].user \notin tainted
        => Within(seen[r], since[call[r].user])

\* The invariant behind NothingComesBack: a cart that is read is within what
\* was added, so what is written back is too, unless a cart was put away
\* between the two commands (raced) or such a write was read (tainted).
IInv ==
    /\ TypeOK
    /\ OneLinePerProduct
    /\ NothingComesBack
    /\ HeldWithin

LEMMA InitIInv == Init => IInv
  BY NoCartAssumption
     DEF Init, IInv, TypeOK, OneLinePerProduct, NothingComesBack, HeldWithin, CartsAround, Finished

\* A running call is a call; its parts have their types.
LEMMA RunningCall ==
    ASSUME TypeOK, NEW r \in Requests, pc[r] # "idle"
    PROVE  /\ call[r] \in Calls /\ call[r].user \in Users
           /\ call[r].op \in {"AddItem", "EmptyCart", "GetCart"}
           /\ call[r].op = "AddItem" =>
                call[r].product \in Products /\ call[r].quantity \in Nat \ {0}
  BY CartAssumption DEF TypeOK, Calls

\* OneLinePerProduct, cart by cart.
LEMMA TidyAround ==
    OneLinePerProduct <=> /\ \A u \in Users : store[u] # NoCart => Tidy(store[u])
                          /\ \A r \in Requests : seen[r] # NoCart => Tidy(seen[r])
  BY DEF OneLinePerProduct, CartsAround, Tidy

\* Steps that change no cart, hold no new one and forget nothing.
LEMMA QuietStep ==
    ASSUME IInv, TypeOK', UNCHANGED <<store, seen, history>>,
           \A r \in Requests : pc'[r] = "hashSet" /\ call'[r].op = "AddItem" =>
               call'[r] = call[r] /\ pc[r] = "hashSet"
    PROVE  IInv'
  <1>1. OneLinePerProduct'
    BY DEF IInv, OneLinePerProduct, CartsAround, AtMostOneLine, Lines
  <1>2. NothingComesBack'
    BY DEF IInv, NothingComesBack, history
  <1>3. HeldWithin'
    BY DEF IInv, HeldWithin, Within, history
  <1> QED BY <1>1, <1>2, <1>3 DEF IInv

LEMMA BeginIInv ==
    ASSUME IInv, NEW r \in Requests, NEW c \in Calls, Begin(r, c)
    PROVE  IInv'
  <1> USE DEF Begin
  <1>1. /\ call' = [call EXCEPT ![r] = c] /\ pc' = [pc EXCEPT ![r] = FirstCommand(c)]
        /\ UNCHANGED <<store, ttl, seen, history>>
    OBVIOUS
  <1>2. FirstCommand(c) \in {"hashSet", "hashGet"} /\ (FirstCommand(c) = "hashSet" => c.op # "AddItem")
    BY DEF FirstCommand
  <1>3. TypeOK'
    BY <1>1, <1>2 DEF IInv, TypeOK, history
  <1>4. \A s \in Requests : pc'[s] = "hashSet" /\ call'[s].op = "AddItem" =>
               call'[s] = call[s] /\ pc[s] = "hashSet"
    BY <1>1, <1>2 DEF IInv, TypeOK
  <1> QED BY <1>1, <1>3, <1>4, QuietStep

LEMMA HashGetIInv ==
    ASSUME IInv, NEW r \in Requests, HashGet(r)
    PROVE  IInv'
  <1> DEFINE u == call[r].user
  <1>0. TypeOK /\ pc[r] # "idle"
    BY DEF IInv, HashGet
  <1>1. u \in Users
    BY <1>0, RunningCall
  <1>2. /\ seen' = [seen EXCEPT ![r] = store[u]]
        /\ \A s \in Requests \ {r} : pc'[s] = pc[s]
        /\ UNCHANGED <<store, ttl, call, since, raced, tainted>>
    BY <1>0 DEF HashGet, history, TypeOK
  <1>3. TypeOK'
    BY <1>0, <1>1, <1>2 DEF HashGet, TypeOK, history, Finished
  <1>4. \A s \in Requests : seen'[s] = IF s = r THEN store[u] ELSE seen[s]
    BY <1>0, <1>2 DEF TypeOK
  <1>5. OneLinePerProduct'
    <2>1. \A x \in Users : store'[x] # NoCart => Tidy(store'[x])
      BY <1>2, TidyAround DEF IInv
    <2>2. \A s \in Requests : seen'[s] # NoCart => Tidy(seen'[s])
      BY <1>1, <1>4, TidyAround DEF IInv
    <2>3. OneLinePerProduct' <=> /\ \A x \in Users : store'[x] # NoCart => Tidy(store'[x])
                                 /\ \A s \in Requests : seen'[s] # NoCart => Tidy(seen'[s])
      BY DEF OneLinePerProduct, CartsAround, Tidy
    <2> QED BY <2>1, <2>2, <2>3
  <1>6. NothingComesBack'
    BY <1>2 DEF IInv, NothingComesBack
  <1>7. HeldWithin'
    <2> SUFFICES ASSUME NEW s \in Requests, pc'[s] = "hashSet", call'[s].op = "AddItem",
                        seen'[s] # NoCart, s \notin raced', call'[s].user \notin tainted'
                 PROVE  Within(seen'[s], since'[call'[s].user])
      BY DEF HeldWithin, Within
    <2>1. CASE s = r
      BY <1>1, <1>2, <1>4, <2>1 DEF IInv, NothingComesBack, Within
    <2>2. CASE s # r
      BY <1>2, <1>4, <2>2 DEF IInv, HeldWithin
    <2> QED BY <2>1, <2>2
  <1> QED BY <1>3, <1>5, <1>6, <1>7 DEF IInv

LEMMA WriteItemIInv ==
    ASSUME IInv, NEW r \in Requests, NEW next \in {"keyExpire", "error"}, WriteItem(r, next)
    PROVE  IInv'
  <1> DEFINE u == call[r].user
             p == call[r].product
             q == call[r].quantity
             new == WithItem(seen[r], u, p, q)
  <1>0. TypeOK /\ pc[r] = "hashSet" /\ call[r].op = "AddItem"
    BY DEF IInv, WriteItem
  <1>1. u \in Users /\ p \in Products /\ q \in Nat /\ seen[r] \in Cart \cup {NoCart}
    BY <1>0, RunningCall DEF TypeOK
  <1>2. /\ store' = [store EXCEPT ![u] = new]
        /\ pc' = [pc EXCEPT ![r] = next]
        /\ since' = [since EXCEPT ![u][p] = @ + q]
        /\ tainted' = IF r \in raced THEN tainted \cup {u} ELSE tainted
        /\ UNCHANGED <<ttl, call, seen, raced>>
    BY DEF WriteItem
  <1>3. new \in Cart
    <2>1. CASE seen[r] = NoCart
      <3>1. WithItem(NoCart, u, p, q) \in Cart
        BY <1>1, WithItemNew
      <3> QED BY <2>1, <3>1
    <2>2. CASE seen[r] \in Cart
      BY <1>1, <2>2, WithItemLines
    <2> QED BY <1>1, <2>1, <2>2
  <1>4. Tidy(new)
    <2>1. seen[r] # NoCart => Tidy(seen[r])
      BY TidyAround DEF IInv
    <2> QED BY <1>1, <2>1, WithItemTidy
  <1> HIDE DEF new
  <1>5. since' \in [Users -> [Products -> Nat]]
        /\ since[u] \in [Products -> Nat]
        /\ since'[u] = [since[u] EXCEPT ![p] = @ + q]
        /\ \A x \in Users \ {u} : since'[x] = since[x]
    <2> DEFINE more == [since[u] EXCEPT ![p] = @ + q]
    <2>1. since \in [Users -> [Products -> Nat]] /\ since[u] \in [Products -> Nat]
      BY <1>0, <1>1 DEF TypeOK
    <2>2. more \in [Products -> Nat]
      BY <1>1, <2>1
    <2>3. since' = [since EXCEPT ![u] = more]
      BY <1>2
    <2> HIDE DEF more
    <2>4. /\ since' \in [Users -> [Products -> Nat]] /\ since'[u] = more
          /\ \A x \in Users \ {u} : since'[x] = since[x]
      BY <1>1, <2>1, <2>2, <2>3
    <2> QED BY <2>1, <2>4 DEF more
  <1>6. TypeOK'
    BY <1>0, <1>1, <1>2, <1>3, <1>5 DEF TypeOK, Finished
  <1>7. \A x \in Users : store'[x] = IF x = u THEN new ELSE store[x]
    BY <1>0, <1>2 DEF TypeOK
  <1>8. OneLinePerProduct'
    <2>1. \A x \in Users : store'[x] # NoCart => Tidy(store'[x])
      BY <1>4, <1>7, TidyAround DEF IInv
    <2>2. \A s \in Requests : seen'[s] # NoCart => Tidy(seen'[s])
      BY <1>2, TidyAround DEF IInv
    <2>3. OneLinePerProduct' <=> /\ \A x \in Users : store'[x] # NoCart => Tidy(store'[x])
                                 /\ \A s \in Requests : seen'[s] # NoCart => Tidy(seen'[s])
      BY DEF OneLinePerProduct, CartsAround, Tidy
    <2> QED BY <2>1, <2>2, <2>3
  <1>9. NothingComesBack'
    <2> SUFFICES ASSUME NEW x \in Users \ tainted', store'[x] # NoCart
                 PROVE  Within(store'[x], since'[x])
      BY DEF NothingComesBack, Within
    <2>1. CASE x = u
      <3>1. r \notin raced /\ u \notin tainted
        BY <1>2, <2>1
      <3>2. seen[r] # NoCart => Within(seen[r], since[u])
        BY <1>0, <3>1 DEF IInv, HeldWithin
      <3>3. Within(new, [since[u] EXCEPT ![p] = @ + q])
        BY <1>1, <1>5, <3>2, WithItemWithin DEF new
      <3> QED BY <1>5, <1>7, <2>1, <3>3
    <2>2. CASE x # u
      BY <1>2, <1>5, <1>7, <2>2 DEF IInv, NothingComesBack, Within
    <2> QED BY <2>1, <2>2
  <1>10. HeldWithin'
    <2> SUFFICES ASSUME NEW s \in Requests, pc'[s] = "hashSet", call'[s].op = "AddItem",
                        seen'[s] # NoCart, s \notin raced', call'[s].user \notin tainted'
                 PROVE  Within(seen'[s], since'[call'[s].user])
      BY DEF HeldWithin, Within
    <2>1. s # r /\ pc[s] = "hashSet"
      BY <1>0, <1>2 DEF TypeOK
    <2>2. call[s].user \in Users /\ seen[s] \in Cart
      BY <1>0, <1>2, <2>1, RunningCall DEF TypeOK
    <2>3. Within(seen[s], since[call[s].user])
      BY <1>2, <2>1 DEF IInv, HeldWithin
    <2>4. \A x \in Products : /\ since[call[s].user][x] \in Nat
                              /\ since'[call[s].user][x] \in Nat
                              /\ since[call[s].user][x] <= since'[call[s].user][x]
      <3> DEFINE v == call[s].user
      <3>1. since[v] \in [Products -> Nat] /\ since'[v] \in [Products -> Nat]
        BY <1>0, <1>5, <2>2 DEF TypeOK
      <3>2. CASE v = u
        BY <1>1, <1>5, <3>1, <3>2
      <3>3. CASE v # u
        BY <1>5, <2>2, <3>1, <3>3
      <3> QED BY <3>2, <3>3
    <2>5. \A i \in DOMAIN seen[s].items : /\ seen[s].items[i].productId \in Products
                                          /\ seen[s].items[i].quantity \in Nat
      <3> TAKE i \in DOMAIN seen[s].items
      <3>1. seen[s].items[i] \in Line
        BY <2>2 DEF Cart
      <3> QED BY <3>1 DEF Line
    <2> QED BY <1>2, <2>3, <2>4, <2>5 DEF Within
  <1> QED BY <1>6, <1>8, <1>9, <1>10 DEF IInv

\* The two ways a cart becomes empty: what is left is within the new bound of
\* zero, and the calls that still hold the old cart are marked.
LEMMA PutAwayIInv ==
    ASSUME IInv, TypeOK', NEW u \in Users, NEW left \in {EmptyCart, NoCart},
           store' = [store EXCEPT ![u] = left], NotePutAway(u),
           UNCHANGED <<call, seen>>,
           \A r \in Requests : pc'[r] = "hashSet" => pc[r] = "hashSet"
    PROVE  IInv'
  <1>0. TypeOK
    BY DEF IInv
  <1>1. \A x \in Users : store'[x] = IF x = u THEN left ELSE store[x]
    BY <1>0 DEF TypeOK
  <1>2. /\ \A x \in Users \ {u} : since'[x] = since[x]
        /\ raced' = raced \cup Holders(u)
        /\ tainted' = tainted \ {u}
    BY <1>0 DEF NotePutAway, TypeOK
  <1>3. left # NoCart => left.items = << >>
    BY DEF EmptyCart
  <1>4. left # NoCart => Tidy(left)
    <2>1. \A p \in Products : Lines(EmptyCart, p) = {}
      BY DEF Lines, EmptyCart
    <2> QED BY <2>1 DEF Tidy, AtMostOneLine
  <1>5. OneLinePerProduct'
    <2>1. \A x \in Users : store'[x] # NoCart => Tidy(store'[x])
      BY <1>1, <1>4, TidyAround DEF IInv
    <2>2. \A s \in Requests : seen'[s] # NoCart => Tidy(seen'[s])
      BY TidyAround DEF IInv
    <2>3. OneLinePerProduct' <=> /\ \A x \in Users : store'[x] # NoCart => Tidy(store'[x])
                                 /\ \A s \in Requests : seen'[s] # NoCart => Tidy(seen'[s])
      BY DEF OneLinePerProduct, CartsAround, Tidy
    <2> QED BY <2>1, <2>2, <2>3
  <1>6. NothingComesBack'
    <2> SUFFICES ASSUME NEW x \in Users \ tainted', store'[x] # NoCart
                 PROVE  Within(store'[x], since'[x])
      BY DEF NothingComesBack, Within
    <2>1. CASE x = u
      BY <1>1, <1>3, <2>1 DEF Within
    <2>2. CASE x # u
      BY <1>1, <1>2, <2>2 DEF IInv, NothingComesBack, Within
    <2> QED BY <2>1, <2>2
  <1>7. HeldWithin'
    <2> SUFFICES ASSUME NEW s \in Requests, pc'[s] = "hashSet", call'[s].op = "AddItem",
                        seen'[s] # NoCart, s \notin raced', call'[s].user \notin tainted'
                 PROVE  Within(seen'[s], since'[call'[s].user])
      BY DEF HeldWithin, Within
    <2>1. pc[s] = "hashSet" /\ call[s].op = "AddItem" /\ s \notin raced
      BY <1>2
    <2>2. call[s] \in Calls /\ call[s].user \in Users
      BY <1>0, <2>1, RunningCall
    <2>3. call[s].user # u
      BY <1>2, <2>1, <2>2 DEF Holders
    <2> QED BY <1>2, <2>1, <2>2, <2>3 DEF IInv, HeldWithin
  <1> QED BY <1>5, <1>6, <1>7 DEF IInv

LEMMA HoldersAreRequests == \A u \in Users : Holders(u) \subseteq Requests
  BY DEF Holders

LEMMA StepIInv == IInv /\ [Next]_vars => IInv'
  <1> SUFFICES ASSUME IInv, [Next]_vars PROVE IInv'
    OBVIOUS
  <1>0. TypeOK
    BY DEF IInv
  <1>1. ASSUME NEW r \in Requests, NEW c \in Calls, Begin(r, c) PROVE IInv'
    BY <1>1, BeginIInv
  <1>2. ASSUME NEW r \in Requests, HashGet(r) PROVE IInv'
    BY <1>2, HashGetIInv
  <1>3. ASSUME NEW r \in Requests, NEW next \in {"keyExpire", "error"}, WriteItem(r, next)
        PROVE  IInv'
    BY <1>3, WriteItemIInv
  <1>4. ASSUME NEW r \in Requests, NEW next \in {"keyExpire", "error"}, WriteEmpty(r, next)
        PROVE  IInv'
    <2> DEFINE u == call[r].user
    <2>1. u \in Users /\ pc[r] = "hashSet"
      BY <1>0, <1>4, RunningCall DEF WriteEmpty
    <2>2. /\ store' = [store EXCEPT ![u] = EmptyCart] /\ NotePutAway(u)
          /\ pc' = [pc EXCEPT ![r] = next] /\ UNCHANGED <<ttl, call, seen>>
      BY <1>4 DEF WriteEmpty
    <2>3. EmptyCart \in Cart
      BY DEF EmptyCart, Cart
    <2>4. TypeOK'
      BY <1>0, <2>1, <2>2, <2>3, HoldersAreRequests DEF TypeOK, NotePutAway, Finished
    <2>5. \A s \in Requests : pc'[s] = "hashSet" => pc[s] = "hashSet"
      BY <1>0, <2>2 DEF TypeOK
    <2> QED BY <2>1, <2>2, <2>4, <2>5, PutAwayIInv
  <1>5. ASSUME NEW r \in Requests, NEW next \in {"ok", "error"}, KeyExpire(r, next)
        PROVE  IInv'
    <2>1. pc[r] # "idle" /\ call[r].user \in Users
      BY <1>0, <1>5, RunningCall DEF KeyExpire
    <2>2. TypeOK'
      BY <1>0, <1>5, <2>1 DEF KeyExpire, TypeOK, Finished, history
    <2> QED BY <1>0, <1>5, <2>2, QuietStep DEF KeyExpire, TypeOK
  <1>6. ASSUME NEW r \in Requests, Fail(r) PROVE IInv'
    <2>1. TypeOK'
      BY <1>0, <1>6 DEF Fail, Running, TypeOK, Finished, history
    <2> QED BY <1>0, <1>6, <2>1, QuietStep DEF Fail, TypeOK
  <1>7. CASE Restart
    <2>1. TypeOK'
      BY <1>0, <1>7 DEF Restart, Running, TypeOK, Finished, history
    <2> QED BY <1>0, <1>7, <2>1, QuietStep DEF Restart, TypeOK
  <1>8. ASSUME NEW u \in Users, Expire(u) PROVE IInv'
    <2>1. TypeOK'
      BY <1>0, <1>8, HoldersAreRequests DEF Expire, TypeOK, NotePutAway
    <2> QED BY <1>8, <2>1, PutAwayIInv DEF Expire
  <1>9. CASE UNCHANGED vars
    <2>1. TypeOK'
      BY <1>0, <1>9 DEF vars, TypeOK
    <2> QED BY <1>9, <2>1, QuietStep DEF vars, history
  <1> QED BY <1>1, <1>2, <1>3, <1>4, <1>5, <1>6, <1>7, <1>8, <1>9 DEF Next, Step

LEMMA InvariantIInv == Spec => []IInv
  BY InitIInv, StepIInv, PTL DEF Spec

\* Every state of the store, of the calls and of the history is well typed.
THEOREM TypeCorrect == Spec => []TypeOK
  <1>1. IInv => TypeOK
    BY DEF IInv
  <1> QED BY <1>1, InvariantIInv, PTL

\* However many calls race, AddItem's SingleOrDefault never meets two lines.
THEOREM CartsStayTidy == Spec => []OneLinePerProduct
  <1>1. IInv => OneLinePerProduct
    BY DEF IInv
  <1> QED BY <1>1, InvariantIInv, PTL

\* Only an AddItem that read the cart before it was emptied brings items back.
THEOREM EmptiedStaysEmptied == Spec => []NothingComesBack
  <1>1. IInv => NothingComesBack
    BY DEF IInv
  <1> QED BY <1>1, InvariantIInv, PTL

----------------------------------------------------------------------------
\* A cart without a time to live is the work of an unfinished or failed call.
THEOREM NoTtlIsUnfinished == Spec => []NoTtlMeansUnfinished
  <1> DEFINE Culprit(r, u) == /\ pc[r] \in {"keyExpire", "error"}
                              /\ call[r].user = u /\ call[r].op # "GetCart"
  <1>1. Init => NoTtlMeansUnfinished
    BY DEF Init, NoTtlMeansUnfinished
  <1>2. ASSUME TypeOK, TypeOK', NoTtlMeansUnfinished, [Next]_vars
        PROVE  NoTtlMeansUnfinished'
    <2> SUFFICES ASSUME NEW u \in Users, store'[u] # NoCart, u \notin ttl'
                 PROVE  \E r \in Requests : Culprit(r, u)'
      BY DEF NoTtlMeansUnfinished
    <2> USE <1>2
    <2>0. ASSUME NEW r \in Requests, Culprit(r, u), Culprit(r, u)'
          PROVE  \E s \in Requests : Culprit(s, u)'
      BY <2>0
    <2>1. ASSUME NEW r \in Requests, NEW c \in Calls, Begin(r, c)
          PROVE  \E s \in Requests : Culprit(s, u)'
      BY <2>1 DEF Begin, NoTtlMeansUnfinished, TypeOK
    <2>2. ASSUME NEW r \in Requests, HashGet(r)
          PROVE  \E s \in Requests : Culprit(s, u)'
      BY <2>2 DEF HashGet, NoTtlMeansUnfinished, TypeOK
    <2>3. ASSUME NEW r \in Requests, NEW next \in {"keyExpire", "error"},
                 WriteItem(r, next) \/ WriteEmpty(r, next)
          PROVE  \E s \in Requests : Culprit(s, u)'
      <3>1. call[r].user \in Users /\ pc[r] = "hashSet" /\ call[r].op # "GetCart"
        BY <2>3, RunningCall DEF WriteItem, WriteEmpty
      <3>2. /\ UNCHANGED <<ttl, call>> /\ pc' = [pc EXCEPT ![r] = next]
            /\ \A x \in Users \ {call[r].user} : store'[x] = store[x]
        BY <2>3, <3>1 DEF WriteItem, WriteEmpty, TypeOK
      <3>3. CASE u = call[r].user
        BY <3>1, <3>2, <3>3 DEF TypeOK
      <3>4. CASE u # call[r].user
        BY <3>1, <3>2, <3>4 DEF NoTtlMeansUnfinished, TypeOK
      <3> QED BY <3>3, <3>4
    <2>4. ASSUME NEW r \in Requests, NEW next \in {"ok", "error"}, KeyExpire(r, next)
          PROVE  \E s \in Requests : Culprit(s, u)'
      <3>1. u \notin ttl /\ store[u] # NoCart /\ call[r].user # u
        BY <2>4 DEF KeyExpire, TypeOK
      <3> QED BY <2>4, <3>1 DEF KeyExpire, NoTtlMeansUnfinished, TypeOK
    <2>5. ASSUME NEW r \in Requests, Fail(r)
          PROVE  \E s \in Requests : Culprit(s, u)'
      BY <2>5 DEF Fail, NoTtlMeansUnfinished, TypeOK
    <2>6. CASE Restart
      BY <2>6 DEF Restart, Running, Finished, NoTtlMeansUnfinished, TypeOK
    <2>7. ASSUME NEW x \in Users, Expire(x)
          PROVE  \E s \in Requests : Culprit(s, u)'
      <3>1. x # u /\ store[u] # NoCart /\ u \notin ttl
        BY <2>7 DEF Expire, TypeOK
      <3> QED BY <2>7, <3>1 DEF Expire, NoTtlMeansUnfinished
    <2>8. CASE UNCHANGED vars
      BY <2>8 DEF vars, NoTtlMeansUnfinished
    <2> QED BY <2>1, <2>2, <2>3, <2>4, <2>5, <2>6, <2>7, <2>8 DEF Next, Step
  <1> QED BY <1>1, <1>2, TypeCorrect, PTL DEF Spec

----------------------------------------------------------------------------
(* What a cart holds of each product                                       *)

LEMMA QuantityOfLine ==
    ASSUME NEW cart \in Cart, Tidy(cart), NEW p \in Products, NEW i \in Lines(cart, p)
    PROVE  Quantity(cart, p) = cart.items[i].quantity
  <1>1. cart # NoCart /\ Lines(cart, p) # {}
    BY NoCartAssumption
  <1>2. (CHOOSE j \in Lines(cart, p) : TRUE) \in Lines(cart, p)
    OBVIOUS
  <1>3. (CHOOSE j \in Lines(cart, p) : TRUE) = i
    BY <1>2 DEF Tidy, AtMostOneLine
  <1> QED BY <1>1, <1>3 DEF Quantity

LEMMA QuantityOfNoLine ==
    ASSUME NEW cart, NEW p \in Products, cart = NoCart \/ Lines(cart, p) = {}
    PROVE  Quantity(cart, p) = 0
  BY DEF Quantity

\* AddItem adds its quantity of its product and changes nothing else.
LEMMA WithItemContents ==
    ASSUME NEW cart \in Cart \cup {NoCart}, cart # NoCart => Tidy(cart),
           NEW u \in Users, NEW p \in Products, NEW q \in Nat
    PROVE  Contents(WithItem(cart, u, p, q)) = [Contents(cart) EXCEPT ![p] = @ + q]
  <1> DEFINE new == WithItem(cart, u, p, q)
  <1>1. Tidy(new)
    BY WithItemTidy
  <1>2. new \in Cart
    <2>1. CASE cart = NoCart
      <3>1. WithItem(NoCart, u, p, q) \in Cart
        BY WithItemNew
      <3> QED BY <2>1, <3>1
    <2>2. CASE cart \in Cart
      BY <2>2, WithItemLines
    <2> QED BY <2>1, <2>2
  <1> SUFFICES ASSUME NEW x \in Products
               PROVE  Quantity(new, x) = IF x = p THEN Quantity(cart, p) + q ELSE Quantity(cart, x)
    BY DEF Contents
  <1>3. CASE cart = NoCart
    <2>1. DOMAIN new.items = 1 .. 1 /\ new.items[1] = [productId |-> p, quantity |-> q]
      <3>1. /\ DOMAIN WithItem(NoCart, u, p, q).items = 1 .. 1
            /\ WithItem(NoCart, u, p, q).items[1] = [productId |-> p, quantity |-> q]
        BY WithItemNew
      <3> QED BY <1>3, <3>1
    <2>2. Quantity(cart, x) = 0 /\ Quantity(cart, p) = 0
      BY <1>3, QuantityOfNoLine
    <2> HIDE DEF new
    <2>3. CASE x = p
      <3>1. 1 \in Lines(new, x)
        BY <2>1, <2>3 DEF Lines
      <3>2. Quantity(new, x) = q
        BY <1>1, <1>2, <2>1, <3>1, QuantityOfLine
      <3> QED BY <2>2, <2>3, <3>2
    <2>4. CASE x # p
      <3>1. Lines(new, x) = {}
        BY <2>1, <2>4 DEF Lines
      <3> QED BY <2>2, <2>4, <3>1, QuantityOfNoLine
    <2> QED BY <2>3, <2>4
  <1>4. CASE cart \in Cart
    <2> DEFINE k == Len(cart.items)
    <2>1. k \in Nat /\ DOMAIN cart.items = 1 .. k /\ Tidy(cart)
      BY <1>4, NoCartAssumption DEF Cart
    <2>2. CASE Lines(cart, p) = {}
      <3>1. /\ DOMAIN new.items = 1 .. k + 1
            /\ new.items[k + 1] = [productId |-> p, quantity |-> q]
            /\ \A i \in 1 .. k : new.items[i] = cart.items[i]
        BY <1>4, <2>2, WithItemAppends
      <3>2. Quantity(cart, p) = 0
        BY <2>2, QuantityOfNoLine
      <3> HIDE DEF new, k
      <3>3. CASE x = p
        <4>1. k + 1 \in Lines(new, x)
          BY <2>1, <3>1, <3>3 DEF Lines
        <4>2. Quantity(new, x) = q
          BY <1>1, <1>2, <3>1, <4>1, QuantityOfLine
        <4> QED BY <3>2, <3>3, <4>2
      <3>4. CASE x # p
        <4>1. Lines(new, x) = Lines(cart, x)
          BY <2>1, <3>1, <3>4 DEF Lines
        <4>2. CASE Lines(cart, x) = {}
          BY <3>4, <4>1, <4>2, QuantityOfNoLine
        <4>3. ASSUME NEW i \in Lines(cart, x) PROVE Quantity(new, x) = Quantity(cart, x)
          <5>1. Quantity(new, x) = new.items[i].quantity
            BY <1>1, <1>2, <4>1, <4>3, QuantityOfLine
          <5>2. Quantity(cart, x) = cart.items[i].quantity
            BY <1>4, <2>1, QuantityOfLine
          <5>3. new.items[i] = cart.items[i]
            BY <2>1, <3>1 DEF Lines
          <5> QED BY <5>1, <5>2, <5>3
        <4> QED BY <3>4, <4>2, <4>3
      <3> QED BY <3>3, <3>4
    <2>3. CASE Lines(cart, p) # {}
      <3>1. /\ DOMAIN new.items = 1 .. k
            /\ \A i \in 1 .. k : new.items[i] = Raise(cart.items[i], p, q)
        BY <1>4, <2>3, WithItemRaises
      <3> HIDE DEF new, k
      <3>2. ASSUME NEW i \in 1 .. k
            PROVE  /\ new.items[i].productId = cart.items[i].productId
                   /\ new.items[i].quantity =
                        cart.items[i].quantity + (IF cart.items[i].productId = p THEN q ELSE 0)
                   /\ cart.items[i].quantity \in Nat
        <4>1. cart.items[i] \in Line
          BY <1>4, <2>1 DEF Cart
        <4>2. new.items[i] = Raise(cart.items[i], p, q)
          BY <3>1
        <4> QED BY <4>1, <4>2 DEF Raise, Line
      <3>3. Lines(new, x) = Lines(cart, x)
        BY <2>1, <3>1, <3>2 DEF Lines
      <3>4. CASE Lines(cart, x) = {}
        <4>1. x # p
          BY <2>3, <3>4
        <4> QED BY <3>3, <3>4, <4>1, QuantityOfNoLine
      <3>5. ASSUME NEW i \in Lines(cart, x)
            PROVE  Quantity(new, x) = IF x = p THEN Quantity(cart, p) + q ELSE Quantity(cart, x)
        <4>1. Quantity(new, x) = new.items[i].quantity
          BY <1>1, <1>2, <3>3, <3>5, QuantityOfLine
        <4>2. Quantity(cart, x) = cart.items[i].quantity
          BY <1>4, <2>1, QuantityOfLine
        <4>3. i \in 1 .. k /\ cart.items[i].productId = x
          BY <2>1 DEF Lines
        <4> QED BY <3>2, <4>1, <4>2, <4>3
      <3> QED BY <3>4, <3>5
    <2> QED BY <2>2, <2>3
  <1> QED BY <1>3, <1>4

----------------------------------------------------------------------------
(* Refinement of ShoppingCart                                              *)

\* A handler is only at commands of its operation.
InOperation ==
    \A r \in Requests :
        /\ pc[r] = "hashGet" => call[r].op # "EmptyCart"
        /\ pc[r] = "hashSet" => call[r].op # "GetCart"
        /\ pc[r] = "keyExpire" => call[r].op # "GetCart"

\* Of calls one at a time no two run on a cart, and what an AddItem holds is
\* in the store, unless the key has expired since.
Undisturbed ==
    /\ \A r, s \in Requests : Running(r) /\ Running(s) /\ call[r].user = call[s].user => r = s
    /\ \A u \in Users : \A r \in Holders(u) : store[u] \in {NoCart, seen[r]}

RInv == IInv /\ InOperation /\ sequential \in BOOLEAN /\ (sequential => Undisturbed)

\* The abstract carts, states and answers.
ACarts == [u \in Users |-> CartOf(u)]
AStates == [r \in Requests |-> StateOf(r)]
AAnswers == [r \in Requests |-> AnswerOf(r)]

\* What StateOf makes of a command.
StateAt(step) ==
    IF step \in {"hashGet", "hashSet"} THEN "open"
    ELSE IF step = "keyExpire" THEN "taken" ELSE IF step = "error" THEN "failed" ELSE step

LEMMA StateOfStep == \A r \in Requests : StateOf(r) = StateAt(pc[r])
  BY DEF StateOf, StateAt

LEMMA StatesOfSteps ==
    ASSUME TypeOK, NEW r \in Requests, NEW step, pc' = [pc EXCEPT ![r] = step]
    PROVE  AStates' = [AStates EXCEPT ![r] = StateAt(step)]
  <1>1. \A s \in Requests : StateOf(s)' = StateAt(pc'[s])
    BY DEF StateOf, StateAt
  <1>2. \A s \in Requests : pc'[s] = IF s = r THEN step ELSE pc[s]
    BY DEF TypeOK
  <1>3. AStates' = [s \in Requests |-> StateAt(pc'[s])]
    BY <1>1 DEF AStates
  <1>4. AStates = [s \in Requests |-> StateAt(pc[s])]
    BY StateOfStep DEF AStates
  <1> QED BY <1>2, <1>3, <1>4

\* CartOf, from what it reads.
CartMade(stored, holding, snapshots) ==
    IF stored = NoCart /\ holding # {}
    THEN Contents(snapshots[CHOOSE r \in holding : TRUE])
    ELSE Contents(stored)

LEMMA CartOfIs == \A u \in Users : CartOf(u) = CartMade(store[u], Holders(u), seen)
  BY DEF CartOf, CartMade

LEMMA CartMadeOfOne ==
    ASSUME NEW stored, NEW snapshots, NEW r, stored \in {NoCart, snapshots[r]}
    PROVE  CartMade(stored, {r}, snapshots) = Contents(snapshots[r])
  BY DEF CartMade

LEMMA CartMadeOfNone ==
    ASSUME NEW stored, NEW snapshots
    PROVE  CartMade(stored, {}, snapshots) = Contents(stored)
  BY DEF CartMade

LEMMA NoCartHoldsNothing == Contents(NoCart) = [p \in Products |-> 0]
                            /\ Contents(EmptyCart) = [p \in Products |-> 0]
  <1>1. \A p \in Products : Quantity(NoCart, p) = 0
    BY QuantityOfNoLine
  <1>2. \A p \in Products : Lines(EmptyCart, p) = {}
    BY DEF Lines, EmptyCart
  <1>3. \A p \in Products : Quantity(EmptyCart, p) = 0
    BY <1>2, QuantityOfNoLine
  <1> QED BY <1>1, <1>3 DEF Contents

\* Who holds a cart while r runs alone on it.
LEMMA AloneHolds ==
    ASSUME TypeOK, Undisturbed, NEW r \in Requests, Running(r)
    PROVE  LET u == call[r].user IN
           /\ call[r] \in Calls /\ u \in Users
           /\ pc[r] = "hashSet" /\ call[r].op = "AddItem" => Holders(u) = {r}
           /\ ~(pc[r] = "hashSet" /\ call[r].op = "AddItem") => Holders(u) = {}
  <1>1. call[r] \in Calls /\ call[r].user \in Users
    BY RunningCall DEF Running, Finished
  <1>2. \A s \in Holders(call[r].user) : s = r
    BY DEF Holders, Undisturbed, Running, Finished
  <1> QED BY <1>1, <1>2 DEF Holders

\* A step of r alone: the carts of the other users stay.
LEMMA OthersHold ==
    ASSUME TypeOK, NEW r \in Requests, call[r] \in Calls, call' = call,
           \A s \in Requests \ {r} : pc'[s] = pc[s] /\ seen'[s] = seen[s],
           NEW u \in Users, u # call[r].user, store'[u] = store[u]
    PROVE  Holders(u)' = Holders(u) /\ CartOf(u)' = CartOf(u)
  <1>1. Holders(u)' = Holders(u)
    BY DEF Holders
  <1>2. \A s \in Holders(u) : seen'[s] = seen[s]
    BY DEF Holders
  <1>3. Holders(u) # {} => (CHOOSE s \in Holders(u) : TRUE) \in Holders(u)
    OBVIOUS
  <1>4. CartOf(u)' = CartMade(store'[u], Holders(u)', seen')
    BY DEF CartOf, CartMade
  <1>5. CartMade(store[u], Holders(u), seen') = CartMade(store[u], Holders(u), seen)
    BY <1>2, <1>3 DEF CartMade
  <1> QED BY <1>1, <1>4, <1>5, CartOfIs

\* The answers stay when no GetCart returns.
LEMMA AnswersStay ==
    ASSUME TypeOK, call' = call, seen' = seen,
           \A r \in Requests : \/ pc'[r] = pc[r]
                               \/ pc[r] # "ok" /\ (pc'[r] # "ok" \/ call[r].op # "GetCart")
    PROVE  AAnswers' = AAnswers
  <1>1. \A r \in Requests : AnswerOf(r)' = AnswerOf(r)
    BY DEF AnswerOf
  <1> QED BY <1>1 DEF AAnswers

Abstract == <<ACarts, call, AStates, AAnswers>>

\* Calls one at a time: what each step does to the abstract state.
LEMMA AskStep ==
    ASSUME TypeOK, NEW r \in Requests, NEW c \in Calls, Begin(r, c)
    PROVE  /\ AStates[r] = "idle" /\ AStates' = [AStates EXCEPT ![r] = "open"]
           /\ call' = [call EXCEPT ![r] = c] /\ UNCHANGED <<ACarts, AAnswers>>
  <1>1. FirstCommand(c) \in {"hashSet", "hashGet"} /\ (FirstCommand(c) = "hashSet" => c.op # "AddItem")
    BY DEF FirstCommand
  <1>2. /\ pc[r] = "idle" /\ pc' = [pc EXCEPT ![r] = FirstCommand(c)]
        /\ call' = [call EXCEPT ![r] = c] /\ UNCHANGED <<store, seen>>
    BY DEF Begin
  <1>3. AStates[r] = "idle" /\ AStates' = [AStates EXCEPT ![r] = "open"]
    <2>1. StateAt("idle") = "idle" /\ StateAt(FirstCommand(c)) = "open"
      BY <1>1 DEF StateAt
    <2> QED BY <1>2, <2>1, StateOfStep, StatesOfSteps DEF AStates
  <1>4. \A u \in Users : Holders(u)' = Holders(u)
    BY <1>1, <1>2 DEF Holders, TypeOK
  <1>5. ASSUME NEW u \in Users PROVE CartOf(u)' = CartOf(u)
    <2>1. CartOf(u)' = CartMade(store'[u], Holders(u)', seen')
      BY DEF CartOf, CartMade
    <2> QED BY <1>2, <1>4, <2>1, CartOfIs
  <1>6. \A s \in Requests : AnswerOf(s)' = AnswerOf(s)
    BY <1>1, <1>2 DEF AnswerOf, TypeOK
  <1> QED BY <1>2, <1>3, <1>5, <1>6 DEF ACarts, AAnswers

LEMMA GetStep ==
    ASSUME RInv, Undisturbed, NEW r \in Requests, HashGet(r),
           NEW u \in Users, u = call[r].user
    PROVE  \/ UNCHANGED Abstract
           \/ /\ AStates[r] = "open" /\ call[r].op = "GetCart"
              /\ AStates' = [AStates EXCEPT ![r] = "ok"]
              /\ AAnswers' = [AAnswers EXCEPT ![r] = ACarts[u]]
              /\ UNCHANGED <<ACarts, call>>
  <1>0. TypeOK /\ InOperation
    BY DEF RInv, IInv
  <1>1. pc[r] = "hashGet" /\ Running(r)
    BY DEF HashGet, Running, Finished
  <1>2. /\ seen' = [seen EXCEPT ![r] = store[u]]
        /\ pc' = [pc EXCEPT ![r] = IF call[r].op = "AddItem" THEN "hashSet" ELSE "ok"]
        /\ UNCHANGED <<store, call>>
    BY DEF HashGet
  <1>3. call[r] \in Calls /\ u \in Users /\ Holders(u) = {}
    BY <1>0, <1>1, AloneHolds
  <1>4. CartOf(u) = Contents(store[u])
    BY <1>3, CartOfIs, CartMadeOfNone
  <1>5. \A s \in Requests \ {r} : pc'[s] = pc[s] /\ seen'[s] = seen[s]
    BY <1>0, <1>2 DEF TypeOK
  <1>6. seen'[r] = store[u] /\ pc'[r] = IF call[r].op = "AddItem" THEN "hashSet" ELSE "ok"
    BY <1>0, <1>2 DEF TypeOK
  <1>7. CartOf(u)' = Contents(store[u])
    <2>1. CartOf(u)' = CartMade(store[u], Holders(u)', seen')
      BY <1>2 DEF CartOf, CartMade
    <2>2. Holders(u)' \in {{}, {r}}
      BY <1>2, <1>3, <1>5 DEF Holders
    <2> QED BY <1>6, <2>1, <2>2, CartMadeOfNone, CartMadeOfOne, SMTT(30)
  <1>8. ACarts' = ACarts
    <2> SUFFICES ASSUME NEW x \in Users PROVE CartOf(x)' = CartOf(x)
      BY DEF ACarts
    <2>1. CASE x = u
      BY <1>4, <1>7, <2>1
    <2>2. CASE x # u
      <3>1. store'[x] = store[x] /\ call' = call
        BY <1>2
      <3> QED BY <1>0, <1>3, <1>5, <2>2, <3>1, OthersHold
    <2> QED BY <2>1, <2>2
  <1>9. CASE call[r].op = "AddItem"
    <2>1. AStates' = [AStates EXCEPT ![r] = "open"] /\ AStates[r] = "open"
      <3>1. StateAt("hashSet") = "open" /\ StateAt("hashGet") = "open"
        BY DEF StateAt
      <3>2. pc' = [pc EXCEPT ![r] = "hashSet"]
        BY <1>2, <1>9
      <3> QED BY <1>0, <1>1, <3>1, <3>2, StateOfStep, StatesOfSteps DEF AStates
    <2>2. AStates' = AStates
      BY <2>1 DEF AStates
    <2>3. \A s \in Requests : AnswerOf(s)' = AnswerOf(s)
      BY <1>1, <1>2, <1>5, <1>6, <1>9 DEF AnswerOf
    <2>4. AAnswers' = AAnswers
      BY <2>3 DEF AAnswers
    <2> QED BY <1>2, <1>8, <2>2, <2>4 DEF Abstract
  <1>10. CASE call[r].op # "AddItem"
    <2>1. call[r].op = "GetCart"
      BY <1>0, <1>1, <1>3, <1>10 DEF InOperation, Calls
    <2>2. AStates[r] = "open" /\ AStates' = [AStates EXCEPT ![r] = "ok"]
      <3>1. StateAt("ok") = "ok" /\ StateAt("hashGet") = "open"
        BY DEF StateAt
      <3>2. pc' = [pc EXCEPT ![r] = "ok"]
        BY <1>2, <1>10
      <3>3. AStates' = [AStates EXCEPT ![r] = StateAt("ok")]
        BY <1>0, <3>2, StatesOfSteps
      <3>4. AStates[r] = StateAt(pc[r])
        BY StateOfStep DEF AStates
      <3> QED BY <1>1, <3>1, <3>3, <3>4
    <2>3. AnswerOf(r)' = Contents(store[u])
      BY <1>2, <1>6, <1>10, <2>1 DEF AnswerOf
    <2>4. \A s \in Requests \ {r} : AnswerOf(s)' = AnswerOf(s)
      BY <1>2, <1>5 DEF AnswerOf
    <2>5. AAnswers' = [AAnswers EXCEPT ![r] = ACarts[u]]
      <3>1. ACarts[u] = Contents(store[u])
        BY <1>3, <1>4 DEF ACarts
      <3>2. \A s \in Requests : AnswerOf(s)' = IF s = r THEN ACarts[u] ELSE AnswerOf(s)
        BY <2>3, <2>4, <3>1
      <3> QED BY <3>2 DEF AAnswers
    <2> QED BY <1>2, <1>8, <2>1, <2>2, <2>5
  <1> QED BY <1>9, <1>10

\* What the two writing commands share: the call took effect on the cart of u.
Taken(r, u, outcome, cart) ==
    /\ AStates[r] = "open" /\ outcome \in {"taken", "failed"}
    /\ AStates' = [AStates EXCEPT ![r] = outcome]
    /\ ACarts' = [ACarts EXCEPT ![u] = cart]
    /\ UNCHANGED <<call, AAnswers>>

LEMMA WriteStep ==
    ASSUME RInv, Undisturbed, NEW r \in Requests, NEW next \in {"keyExpire", "error"},
           NEW u \in Users, u = call[r].user, NEW new,
           pc[r] = "hashSet", pc' = [pc EXCEPT ![r] = next],
           store' = [store EXCEPT ![u] = new], new # NoCart, UNCHANGED <<call, seen>>
    PROVE  Taken(r, u, StateAt(next), Contents(new))
  <1>0. TypeOK /\ InOperation
    BY DEF RInv, IInv
  <1>1. Running(r) /\ call[r] \in Calls
    BY <1>0, AloneHolds DEF Running, Finished
  <1>2. AStates[r] = "open" /\ AStates' = [AStates EXCEPT ![r] = StateAt(next)]
    <2>1. StateAt("hashSet") = "open"
      BY DEF StateAt
    <2> QED BY <1>0, <2>1, StateOfStep, StatesOfSteps DEF AStates
  <1>3. StateAt(next) \in {"taken", "failed"}
    BY DEF StateAt
  <1>4. \A s \in Requests \ {r} : pc'[s] = pc[s] /\ seen'[s] = seen[s]
    BY <1>0 DEF TypeOK
  <1>5. store'[u] = new /\ \A x \in Users \ {u} : store'[x] = store[x]
    BY <1>0 DEF TypeOK
  <1>6. CartOf(u)' = Contents(new)
    BY <1>5 DEF CartOf
  <1>7. \A x \in Users \ {u} : CartOf(x)' = CartOf(x)
    BY <1>0, <1>1, <1>4, <1>5, OthersHold
  <1>8. ACarts' = [ACarts EXCEPT ![u] = Contents(new)]
    BY <1>6, <1>7 DEF ACarts
  <1>9. AAnswers' = AAnswers
    <2>1. pc'[r] = next /\ next # "ok"
      BY <1>0 DEF TypeOK
    <2>2. ASSUME NEW s \in Requests
          PROVE  \/ pc'[s] = pc[s]
                 \/ pc[s] # "ok" /\ (pc'[s] # "ok" \/ call[s].op # "GetCart")
      <3>1. CASE s = r
        BY <2>1, <3>1
      <3>2. CASE s # r
        <4>1. pc'[s] = pc[s]
          BY <1>4, <3>2
        <4> QED BY <4>1
      <3> QED BY <3>1, <3>2
    <2> QED BY <1>0, <2>2, AnswersStay
  <1> QED BY <1>2, <1>3, <1>8, <1>9 DEF Taken

LEMMA AddStep ==
    ASSUME RInv, Undisturbed, NEW r \in Requests, NEW next \in {"keyExpire", "error"},
           NEW u \in Users, u = call[r].user, WriteItem(r, next)
    PROVE  LET c == call[r] IN
           /\ c.op = "AddItem"
           /\ Taken(r, u, StateAt(next), [ACarts[u] EXCEPT ![c.product] = @ + c.quantity])
  <1> DEFINE p == call[r].product
             q == call[r].quantity
             new == WithItem(seen[r], u, p, q)
  <1>0. TypeOK /\ IInv
    BY DEF RInv, IInv
  <1>1. /\ pc[r] = "hashSet" /\ call[r].op = "AddItem" /\ Running(r)
        /\ pc' = [pc EXCEPT ![r] = next] /\ UNCHANGED <<call, seen>>
        /\ store' = [store EXCEPT ![u] = new]
    BY DEF WriteItem, Running, Finished
  <1>2. p \in Products /\ q \in Nat /\ seen[r] \in Cart \cup {NoCart}
    BY <1>0, <1>1, RunningCall DEF TypeOK
  <1>3. seen[r] # NoCart => Tidy(seen[r])
    BY <1>0, TidyAround DEF IInv
  <1>4. new \in Cart
    <2>1. CASE seen[r] = NoCart
      <3>1. WithItem(NoCart, u, p, q) \in Cart
        BY <1>2, WithItemNew
      <3> QED BY <2>1, <3>1
    <2>2. CASE seen[r] \in Cart
      BY <1>2, <2>2, WithItemLines
    <2> QED BY <1>2, <2>1, <2>2
  <1>5. Contents(new) = [Contents(seen[r]) EXCEPT ![p] = @ + q]
    BY <1>2, <1>3, WithItemContents
  <1>6. CartOf(u) = Contents(seen[r])
    <2>1. Holders(u) = {r}
      BY <1>0, <1>1, AloneHolds
    <2>2. store[u] \in {NoCart, seen[r]}
      BY <2>1 DEF Undisturbed
    <2>3. CartOf(u) = CartMade(store[u], {r}, seen)
      BY <2>1, CartOfIs
    <2> QED BY <2>2, <2>3, CartMadeOfOne
  <1>7. ACarts[u] = Contents(seen[r])
    BY <1>6 DEF ACarts
  <1>8. new # NoCart
    BY <1>4, NoCartAssumption
  <1> HIDE DEF new
  <1>9. Taken(r, u, StateAt(next), Contents(new))
    BY <1>1, <1>8, WriteStep
  <1> HIDE DEF p, q
  <1>10. Taken(r, u, StateAt(next), [ACarts[u] EXCEPT ![p] = @ + q])
    BY <1>5, <1>7, <1>9
  <1> QED BY <1>1, <1>10 DEF p, q

LEMMA EmptyStep ==
    ASSUME RInv, Undisturbed, NEW r \in Requests, NEW next \in {"keyExpire", "error"},
           NEW u \in Users, u = call[r].user, WriteEmpty(r, next)
    PROVE  call[r].op = "EmptyCart" /\ Taken(r, u, StateAt(next), [p \in Products |-> 0])
  <1>1. EmptyCart # NoCart
    <2>1. EmptyCart \in Cart
      BY DEF EmptyCart, Cart
    <2> QED BY <2>1, NoCartAssumption
  <1>2. Taken(r, u, StateAt(next), Contents(EmptyCart))
    BY <1>1, WriteStep DEF WriteEmpty
  <1> QED BY <1>2, NoCartHoldsNothing DEF WriteEmpty

\* Steps after which calls have failed or a cart is gone.
Interrupted(failing, gone) ==
    /\ \A r \in failing : AStates[r] \in {"open", "taken"}
    /\ AStates' = [r \in Requests |-> IF r \in failing THEN "failed" ELSE AStates[r]]
    /\ ACarts' = [u \in Users |-> IF u \in gone THEN [p \in Products |-> 0] ELSE ACarts[u]]
    /\ UNCHANGED <<call, AAnswers>>

LEMMA ExpireStep ==
    ASSUME RInv, Undisturbed, NEW r \in Requests, NEW next \in {"ok", "error"},
           KeyExpire(r, next)
    PROVE  \/ /\ AStates[r] = "taken" /\ AStates' = [AStates EXCEPT ![r] = "ok"]
              /\ UNCHANGED <<ACarts, call, AAnswers>>
           \/ Interrupted({r}, {})
  <1>0. TypeOK /\ InOperation
    BY DEF RInv, IInv
  <1>1. /\ pc[r] = "keyExpire" /\ pc' = [pc EXCEPT ![r] = next]
        /\ UNCHANGED <<store, call, seen>>
    BY DEF KeyExpire
  <1>2. AStates[r] = "taken" /\ AStates' = [AStates EXCEPT ![r] = StateAt(next)]
    <2>1. StateAt("keyExpire") = "taken"
      BY DEF StateAt
    <2> QED BY <1>0, <1>1, <2>1, StateOfStep, StatesOfSteps DEF AStates
  <1>3. \A u \in Users : Holders(u)' = Holders(u)
    BY <1>0, <1>1 DEF Holders, TypeOK
  <1>4. ACarts' = ACarts
    <2> SUFFICES ASSUME NEW u \in Users PROVE CartOf(u)' = CartOf(u)
      BY DEF ACarts
    <2>1. CartOf(u)' = CartMade(store'[u], Holders(u)', seen')
      BY DEF CartOf, CartMade
    <2> QED BY <1>1, <1>3, <2>1, CartOfIs
  <1>5. AAnswers' = AAnswers
    <2>1. ASSUME NEW s \in Requests
          PROVE  \/ pc'[s] = pc[s]
                 \/ pc[s] # "ok" /\ (pc'[s] # "ok" \/ call[s].op # "GetCart")
      <3>1. CASE s = r
        BY <1>0, <1>1, <3>1 DEF InOperation
      <3>2. CASE s # r
        <4>1. pc'[s] = pc[s]
          BY <1>0, <1>1, <3>2 DEF TypeOK
        <4> QED BY <4>1
      <3> QED BY <3>1, <3>2
    <2> QED BY <1>0, <1>1, <2>1, AnswersStay
  <1>6. CASE next = "ok"
    BY <1>1, <1>2, <1>4, <1>5, <1>6 DEF StateAt
  <1>7. CASE next = "error"
    <2>1. StateAt(next) = "failed"
      BY <1>7 DEF StateAt
    <2>2. AStates' = [s \in Requests |-> IF s \in {r} THEN "failed" ELSE AStates[s]]
      BY <1>2, <2>1 DEF AStates
    <2>3. ACarts' = [u \in Users |-> IF u \in {} THEN [p \in Products |-> 0] ELSE ACarts[u]]
      BY <1>4 DEF ACarts
    <2> QED BY <1>1, <1>2, <1>5, <2>2, <2>3 DEF Interrupted
  <1> QED BY <1>6, <1>7

\* The carts of the users that the step leaves with nothing.
Gone == {u \in Users : CartOf(u)' = [p \in Products |-> 0]}

\* Calls fail and carts are dropped: what is left of each cart is all of it or nothing.
LEMMA InterruptedWhen ==
    ASSUME NEW failing \in SUBSET Requests,
           \A r \in failing : AStates[r] \in {"open", "taken"},
           \A r \in Requests : StateOf(r)' = IF r \in failing THEN "failed" ELSE StateOf(r),
           \A u \in Users : CartOf(u)' = CartOf(u) \/ CartOf(u)' = [p \in Products |-> 0],
           UNCHANGED <<call, AAnswers>>
    PROVE  Interrupted(failing, Gone)
  <1>1. AStates' = [r \in Requests |-> IF r \in failing THEN "failed" ELSE AStates[r]]
    BY DEF AStates
  <1>2. ACarts' = [u \in Users |-> IF u \in Gone THEN [p \in Products |-> 0] ELSE ACarts[u]]
    BY DEF ACarts, Gone
  <1> QED BY <1>1, <1>2 DEF Interrupted

\* Calls that fail hold no cart any more.
LEMMA FailStep ==
    ASSUME RInv, Undisturbed, NEW failing \in SUBSET Requests,
           \A r \in failing : Running(r),
           \A r \in Requests : pc'[r] = IF r \in failing THEN "error" ELSE pc[r],
           UNCHANGED <<store, call, seen>>
    PROVE  Interrupted(failing, Gone)
  <1>0. TypeOK
    BY DEF RInv, IInv
  <1>1. \A r \in failing : AStates[r] \in {"open", "taken"}
    <2> SUFFICES ASSUME NEW r \in failing PROVE StateAt(pc[r]) \in {"open", "taken"}
      BY StateOfStep DEF AStates
    <2>1. pc[r] \in {"hashGet", "hashSet", "keyExpire"}
      BY <1>0 DEF TypeOK, Running
    <2> QED BY <2>1 DEF StateAt
  <1>2. \A r \in Requests : StateOf(r)' = IF r \in failing THEN "failed" ELSE StateOf(r)
    <2>1. \A r \in Requests : StateOf(r)' = StateAt(pc'[r])
      BY DEF StateOf, StateAt
    <2>2. StateAt("error") = "failed"
      BY DEF StateAt
    <2> QED BY <2>1, <2>2, StateOfStep
  <1>3. AAnswers' = AAnswers
    <2>1. ASSUME NEW s \in Requests
          PROVE  \/ pc'[s] = pc[s]
                 \/ pc[s] # "ok" /\ (pc'[s] # "ok" \/ call[s].op # "GetCart")
      <3>1. CASE s \in failing
        <4>1. pc'[s] = "error" /\ pc[s] # "ok"
          BY <3>1 DEF Running, Finished
        <4> QED BY <4>1
      <3>2. CASE s \notin failing
        BY <3>2
      <3> QED BY <3>1, <3>2
    <2> QED BY <1>0, <2>1, AnswersStay
  <1>4. ASSUME NEW u \in Users
        PROVE  CartOf(u)' = CartOf(u) \/ CartOf(u)' = [p \in Products |-> 0]
    <2>1. CartOf(u)' = CartMade(store[u], Holders(u)', seen)
      BY DEF CartOf, CartMade
    <2>2. Holders(u)' = Holders(u) \ failing
      BY DEF Holders
    <2>3. \A r, s \in Holders(u) : r = s
      BY DEF Undisturbed, Holders, Running, Finished
    <2>4. Holders(u)' = Holders(u) \/ Holders(u)' = {}
      BY <2>2, <2>3
    <2>5. CASE Holders(u)' = Holders(u)
      BY <2>1, <2>5, CartOfIs
    <2>6. CASE Holders(u)' = {} /\ store[u] = NoCart
      BY <2>1, <2>6, CartMadeOfNone, NoCartHoldsNothing
    <2>7. CASE Holders(u)' = {} /\ store[u] # NoCart
      BY <2>1, <2>7, CartOfIs DEF CartMade
    <2> QED BY <2>4, <2>5, <2>6, <2>7
  <1> QED BY <1>1, <1>2, <1>3, <1>4, InterruptedWhen

\* A key that expires is not missed by the call that holds its cart.
LEMMA DropStep ==
    ASSUME RInv, Undisturbed, NEW x \in Users, Expire(x)
    PROVE  Interrupted({}, Gone)
  <1>0. TypeOK
    BY DEF RInv, IInv
  <1>1. UNCHANGED <<call, pc, seen>> /\ \A u \in Users : store'[u] = IF u = x THEN NoCart ELSE store[u]
    BY <1>0 DEF Expire, TypeOK
  <1>2. \A r \in Requests : StateOf(r)' = StateOf(r)
    BY <1>1 DEF StateOf
  <1>3. AAnswers' = AAnswers
    <2>1. \A r \in Requests : AnswerOf(r)' = AnswerOf(r)
      BY <1>1 DEF AnswerOf
    <2> QED BY <2>1 DEF AAnswers
  <1>4. ASSUME NEW u \in Users
        PROVE  CartOf(u)' = CartOf(u) \/ CartOf(u)' = [p \in Products |-> 0]
    <2>1. Holders(u)' = Holders(u)
      BY <1>1 DEF Holders
    <2>2. CartOf(u)' = CartMade(store'[u], Holders(u), seen)
      BY <1>1, <2>1 DEF CartOf, CartMade
    <2>3. CASE u # x
      BY <1>1, <2>2, <2>3, CartOfIs
    <2>4. CASE u = x /\ Holders(u) = {}
      <3>1. CartOf(u)' = CartMade(NoCart, {}, seen)
        BY <1>1, <2>2, <2>4
      <3> QED BY <3>1, CartMadeOfNone, NoCartHoldsNothing
    <2>5. ASSUME u = x, NEW r \in Holders(u) PROVE CartOf(u)' = CartOf(u)
      <3>1. Holders(u) = {r}
        BY DEF Undisturbed, Holders, Running, Finished
      <3>2. store[u] \in {NoCart, seen[r]}
        BY DEF Undisturbed
      <3>3. CartMade(store[u], {r}, seen) = Contents(seen[r])
        BY <3>2, CartMadeOfOne
      <3>4. CartMade(NoCart, {r}, seen) = Contents(seen[r])
        BY CartMadeOfOne
      <3>5. CartOf(u)' = CartMade(NoCart, {r}, seen)
        BY <1>1, <2>2, <2>5, <3>1
      <3>6. CartOf(u) = CartMade(store[u], {r}, seen)
        BY <3>1, CartOfIs
      <3> QED BY <3>3, <3>4, <3>5, <3>6
    <2> QED BY <2>3, <2>4, <2>5
  <1> QED BY <1>1, <1>2, <1>3, <1>4, InterruptedWhen

----------------------------------------------------------------------------
LEMMA InitRInv == MCInit => RInv
  BY InitIInv DEF MCInit, RInv, Init, InOperation, Undisturbed, Holders, Running, Finished

LEMMA InOperationStep == TypeOK /\ InOperation /\ [Next]_vars => InOperation'
  <1> SUFFICES ASSUME TypeOK, InOperation, [Next]_vars, NEW s \in Requests
               PROVE  /\ pc'[s] = "hashGet" => call'[s].op # "EmptyCart"
                      /\ pc'[s] = "hashSet" => call'[s].op # "GetCart"
                      /\ pc'[s] = "keyExpire" => call'[s].op # "GetCart"
    BY DEF InOperation
  <1> USE DEF InOperation, TypeOK
  <1>1. ASSUME NEW r \in Requests, NEW c \in Calls, Begin(r, c) PROVE InOperation'
    BY <1>1 DEF Begin, FirstCommand, Calls
  <1>2. ASSUME NEW r \in Requests, HashGet(r) PROVE InOperation'
    BY <1>2 DEF HashGet
  <1>3. ASSUME NEW r \in Requests, NEW next \in {"keyExpire", "error"},
               WriteItem(r, next) \/ WriteEmpty(r, next)
        PROVE  InOperation'
    BY <1>3 DEF WriteItem, WriteEmpty
  <1>4. ASSUME NEW r \in Requests, NEW next \in {"ok", "error"}, KeyExpire(r, next)
        PROVE  InOperation'
    BY <1>4 DEF KeyExpire
  <1>5. ASSUME NEW r \in Requests, Fail(r) PROVE InOperation'
    BY <1>5 DEF Fail
  <1>6. CASE Restart
    BY <1>6 DEF Restart
  <1>7. ASSUME NEW u \in Users, Expire(u) PROVE InOperation'
    BY <1>7 DEF Expire
  <1>8. CASE UNCHANGED vars
    BY <1>8 DEF vars
  <1> QED BY <1>1, <1>2, <1>3, <1>4, <1>5, <1>6, <1>7, <1>8 DEF Next, Step

\* What an AddItem holds stays in the store while it runs alone.
LEMMA UndisturbedStep ==
    ASSUME TypeOK, Undisturbed, [Next]_vars, ~Overlapping'
    PROVE  Undisturbed'
  <1> DEFINE Kept == \A u \in Users : \A s \in Holders(u) : store[u] \in {NoCart, seen[s]}
  <1>1. Kept
    BY DEF Undisturbed
  <1>2. \A r, s \in Requests : Running(r) /\ Running(s) /\ call[r].user = call[s].user => r = s
    BY DEF Undisturbed
  <1>3. SUFFICES Kept'
    BY DEF Undisturbed, Overlapping
  <1> USE DEF Holders, TypeOK
  <1>4. ASSUME NEW r \in Requests, NEW c \in Calls, Begin(r, c) PROVE Kept'
    BY <1>1, <1>4 DEF Begin, FirstCommand
  <1>5. ASSUME NEW r \in Requests, HashGet(r) PROVE Kept'
    BY <1>1, <1>5 DEF HashGet
  <1>6. ASSUME NEW r \in Requests, NEW next \in {"keyExpire", "error"},
               WriteItem(r, next) \/ WriteEmpty(r, next)
        PROVE  Kept'
    <2> SUFFICES ASSUME NEW u \in Users, NEW s \in Holders(u)'
                 PROVE  store'[u] \in {NoCart, seen'[s]}
      OBVIOUS
    <2>1. /\ pc[r] = "hashSet" /\ pc' = [pc EXCEPT ![r] = next] /\ UNCHANGED <<call, seen>>
          /\ \A x \in Users : x # call[r].user => store'[x] = store[x]
      BY <1>6 DEF WriteItem, WriteEmpty
    <2>2. s # r /\ s \in Holders(u)
      BY <2>1
    <2>3. Running(r) /\ Running(s)
      BY <2>1, <2>2 DEF Running, Finished
    <2>4. u # call[r].user
      BY <1>2, <2>2, <2>3
    <2> QED BY <1>1, <2>1, <2>2, <2>4
  <1>7. ASSUME NEW r \in Requests, NEW next \in {"ok", "error"}, KeyExpire(r, next) PROVE Kept'
    BY <1>1, <1>7 DEF KeyExpire
  <1>8. ASSUME NEW r \in Requests, Fail(r) PROVE Kept'
    BY <1>1, <1>8 DEF Fail
  <1>9. CASE Restart
    BY <1>1, <1>9 DEF Restart
  <1>10. ASSUME NEW u \in Users, Expire(u) PROVE Kept'
    BY <1>1, <1>10 DEF Expire
  <1>11. CASE UNCHANGED vars
    BY <1>1, <1>11 DEF vars
  <1> QED BY <1>4, <1>5, <1>6, <1>7, <1>8, <1>9, <1>10, <1>11 DEF Next, Step

LEMMA StepRInv == RInv /\ [MCNext]_mcVars => RInv'
  <1> SUFFICES ASSUME RInv, [MCNext]_mcVars PROVE RInv'
    OBVIOUS
  <1>1. [Next]_vars /\ sequential' = sequential
    BY DEF MCNext, mcVars
  <1>2. IInv' /\ InOperation'
    BY <1>1, StepIInv, InOperationStep DEF RInv, IInv
  <1>3. ASSUME sequential PROVE Undisturbed'
    <2>1. TypeOK /\ Undisturbed
      BY <1>3 DEF RInv, IInv
    <2>2. CASE MCNext
      BY <1>1, <1>3, <2>1, <2>2, UndisturbedStep DEF MCNext
    <2>3. CASE UNCHANGED mcVars
      <3>1. UNCHANGED vars
        BY <2>3 DEF mcVars
      <3>2. Overlapping' <=> Overlapping
        BY <3>1 DEF vars, Overlapping, Running
      <3>3. ~Overlapping
        BY <2>1 DEF Undisturbed, Overlapping
      <3> QED BY <1>1, <2>1, <3>2, <3>3, UndisturbedStep
    <2> QED BY <2>2, <2>3
  <1> QED BY <1>1, <1>2, <1>3 DEF RInv

\* One step of a shopping cart, on the abstract state.
ShoppingStep ==
    \/ UNCHANGED Abstract
    \/ \E r \in Requests :
         \/ \E c \in Calls :
              /\ AStates[r] = "idle" /\ AStates' = [AStates EXCEPT ![r] = "open"]
              /\ call' = [call EXCEPT ![r] = c] /\ UNCHANGED <<ACarts, AAnswers>>
         \/ /\ AStates[r] = "open" /\ call[r].op = "GetCart"
            /\ AStates' = [AStates EXCEPT ![r] = "ok"]
            /\ AAnswers' = [AAnswers EXCEPT ![r] = ACarts[call[r].user]]
            /\ UNCHANGED <<ACarts, call>>
         \/ /\ call[r].op = "AddItem"
            /\ \E outcome \in {"taken", "failed"} :
                 Taken(r, call[r].user, outcome,
                       [ACarts[call[r].user] EXCEPT ![call[r].product] = @ + call[r].quantity])
         \/ /\ call[r].op = "EmptyCart"
            /\ \E outcome \in {"taken", "failed"} :
                 Taken(r, call[r].user, outcome, [p \in Products |-> 0])
         \/ /\ AStates[r] = "taken" /\ AStates' = [AStates EXCEPT ![r] = "ok"]
            /\ UNCHANGED <<ACarts, call, AAnswers>>
    \/ \E failing \in SUBSET Requests, gone \in SUBSET Users : Interrupted(failing, gone)

LEMMA StoreStep ==
    ASSUME RInv, Undisturbed, [Next]_vars
    PROVE  ShoppingStep
  <1>0. TypeOK
    BY DEF RInv, IInv
  <1>1. ASSUME NEW r \in Requests, NEW c \in Calls, Begin(r, c) PROVE ShoppingStep
    <2>1. /\ AStates[r] = "idle" /\ AStates' = [AStates EXCEPT ![r] = "open"]
          /\ call' = [call EXCEPT ![r] = c] /\ UNCHANGED <<ACarts, AAnswers>>
      BY <1>0, <1>1, AskStep
    <2> QED BY <2>1 DEF ShoppingStep
  <1>2. ASSUME NEW r \in Requests, pc[r] # "idle" PROVE call[r].user \in Users
    BY <1>0, <1>2, RunningCall
  <1>3. ASSUME NEW r \in Requests, HashGet(r) PROVE ShoppingStep
    <2>1. call[r].user \in Users
      BY <1>2, <1>3 DEF HashGet
    <2>2. \A u \in Users : u = call[r].user =>
           \/ UNCHANGED Abstract
           \/ /\ AStates[r] = "open" /\ call[r].op = "GetCart"
              /\ AStates' = [AStates EXCEPT ![r] = "ok"]
              /\ AAnswers' = [AAnswers EXCEPT ![r] = ACarts[u]]
              /\ UNCHANGED <<ACarts, call>>
      BY <1>3, GetStep
    <2> QED BY <2>1, <2>2 DEF ShoppingStep
  <1>4. \A next \in {"keyExpire", "error"} : StateAt(next) \in {"taken", "failed"}
    BY DEF StateAt
  <1>5. ASSUME NEW r \in Requests, NEW next \in {"keyExpire", "error"}, WriteItem(r, next)
        PROVE  ShoppingStep
    <2>1. call[r].user \in Users
      BY <1>2, <1>5 DEF WriteItem
    <2>2. \A u \in Users : u = call[r].user =>
            /\ call[r].op = "AddItem"
            /\ Taken(r, u, StateAt(next),
                     [ACarts[u] EXCEPT ![call[r].product] = @ + call[r].quantity])
      BY <1>5, AddStep
    <2> QED BY <1>4, <2>1, <2>2 DEF ShoppingStep
  <1>6. ASSUME NEW r \in Requests, NEW next \in {"keyExpire", "error"}, WriteEmpty(r, next)
        PROVE  ShoppingStep
    <2>1. call[r].user \in Users
      BY <1>2, <1>6 DEF WriteEmpty
    <2>2. \A u \in Users : u = call[r].user =>
            call[r].op = "EmptyCart" /\ Taken(r, u, StateAt(next), [p \in Products |-> 0])
      BY <1>6, EmptyStep
    <2> QED BY <1>4, <2>1, <2>2 DEF ShoppingStep
  <1>7. ASSUME NEW r \in Requests, NEW next \in {"ok", "error"}, KeyExpire(r, next)
        PROVE  ShoppingStep
    BY <1>7, ExpireStep DEF ShoppingStep
  <1>8. ASSUME NEW failing \in SUBSET Requests, Interrupted(failing, Gone) PROVE ShoppingStep
    <2>1. Gone \in SUBSET Users
      BY DEF Gone
    <2> QED BY <1>8, <2>1 DEF ShoppingStep
  <1>9. ASSUME NEW r \in Requests, Fail(r) PROVE ShoppingStep
    <2>1. \A s \in Requests : pc'[s] = IF s \in {r} THEN "error" ELSE pc[s]
      BY <1>0, <1>9 DEF Fail, TypeOK
    <2>2. Interrupted({r}, Gone)
      BY <1>9, <2>1, FailStep DEF Fail
    <2> QED BY <1>8, <2>2
  <1>10. CASE Restart
    <2> DEFINE failing == {s \in Requests : Running(s)}
    <2>1. \A s \in Requests : pc'[s] = IF s \in failing THEN "error" ELSE pc[s]
      BY <1>10 DEF Restart
    <2>2. \A s \in failing : Running(s)
      OBVIOUS
    <2>3. UNCHANGED <<store, call, seen>> /\ failing \in SUBSET Requests
      BY <1>10 DEF Restart
    <2> HIDE DEF failing
    <2>4. Interrupted(failing, Gone)
      BY <2>1, <2>2, <2>3, FailStep
    <2> QED BY <1>8, <2>3, <2>4
  <1>11. ASSUME NEW u \in Users, Expire(u) PROVE ShoppingStep
    <2>1. Interrupted({}, Gone)
      BY <1>11, DropStep
    <2> QED BY <1>8, <2>1
  <1>12. CASE UNCHANGED vars
    <2>1. UNCHANGED Abstract
      BY <1>12 DEF vars, Abstract, ACarts, AStates, AAnswers, CartOf, StateOf, AnswerOf, Holders
    <2> QED BY <2>1 DEF ShoppingStep
  <1> QED BY <1>1, <1>3, <1>5, <1>6, <1>7, <1>9, <1>10, <1>11, <1>12 DEF Next, Step

\* What a client of the store sees, as the variables of ShoppingCart.
Shown == <<[u \in Users |-> Seen(CartOf(u), Contents(NoCart))],
           Seen(call, [r \in Requests |-> NoCall]),
           [r \in Requests |-> Seen(StateOf(r), "idle")],
           [r \in Requests |-> Seen(AnswerOf(r), NoCall)]>>

\* Calls one at a time are seen as they are; others are not seen at all.
LEMMA ShownIsAbstract == sequential = TRUE => Shown = Abstract
  BY DEF Shown, Abstract, ACarts, AStates, AAnswers, Seen

LEMMA ShoppingStepIsStep ==
    ASSUME sequential = TRUE, sequential' = TRUE, ShoppingStep
    PROVE  [Promise!Next]_Shown
  <1>1. /\ [u \in Users |-> Seen(CartOf(u), Contents(NoCart))] = ACarts
        /\ [u \in Users |-> Seen(CartOf(u), Contents(NoCart))]' = ACarts'
        /\ Seen(call, [r \in Requests |-> NoCall]) = call
        /\ Seen(call, [r \in Requests |-> NoCall])' = call'
        /\ [r \in Requests |-> Seen(StateOf(r), "idle")] = AStates
        /\ [r \in Requests |-> Seen(StateOf(r), "idle")]' = AStates'
        /\ [r \in Requests |-> Seen(AnswerOf(r), NoCall)] = AAnswers
        /\ [r \in Requests |-> Seen(AnswerOf(r), NoCall)]' = AAnswers'
    BY DEF ACarts, AStates, AAnswers, Seen
  <1>2. CASE UNCHANGED Abstract
    BY <1>1, <1>2 DEF Shown, Abstract
  <1>3. ASSUME NEW r \in Requests, NEW c \in Calls,
               AStates[r] = "idle", AStates' = [AStates EXCEPT ![r] = "open"],
               call' = [call EXCEPT ![r] = c], UNCHANGED <<ACarts, AAnswers>>
        PROVE  Promise!Next
    <2>1. Promise!Ask(r, c)
      BY <1>1, <1>3 DEF Promise!Ask
    <2> QED BY <2>1 DEF Promise!Next
  <1>4. ASSUME NEW r \in Requests, AStates[r] = "open", call[r].op = "GetCart",
               AStates' = [AStates EXCEPT ![r] = "ok"],
               AAnswers' = [AAnswers EXCEPT ![r] = ACarts[call[r].user]],
               UNCHANGED <<ACarts, call>>
        PROVE  Promise!Next
    <2>1. Promise!GetCart(r)
      BY <1>1, <1>4 DEF Promise!GetCart
    <2> QED BY <2>1 DEF Promise!Next
  <1>5. ASSUME NEW r \in Requests, NEW outcome \in {"taken", "failed"}, call[r].op # "GetCart",
               NEW cart, Taken(r, call[r].user, outcome, cart), cart = Promise!After(call[r])
        PROVE  Promise!Next
    <2>1. Promise!Take(r, outcome)
      BY <1>1, <1>5 DEF Promise!Take, Taken
    <2> QED BY <2>1 DEF Promise!Next
  <1>6. ASSUME NEW r \in Requests, call[r].op = "AddItem"
        PROVE  Promise!After(call[r]) =
                 [ACarts[call[r].user] EXCEPT ![call[r].product] = @ + call[r].quantity]
    BY <1>1, <1>6 DEF Promise!After
  <1>7. ASSUME NEW r \in Requests, call[r].op = "EmptyCart"
        PROVE  Promise!After(call[r]) = [p \in Products |-> 0]
    BY <1>7 DEF Promise!After, Promise!Nothing
  <1>8. ASSUME NEW r \in Requests, AStates[r] = "taken", AStates' = [AStates EXCEPT ![r] = "ok"],
               UNCHANGED <<ACarts, call, AAnswers>>
        PROVE  Promise!Next
    <2>1. Promise!Return(r)
      BY <1>1, <1>8 DEF Promise!Return
    <2> QED BY <2>1 DEF Promise!Next
  <1>9. ASSUME NEW failing \in SUBSET Requests, NEW gone \in SUBSET Users,
               Interrupted(failing, gone)
        PROVE  Promise!Next
    <2>1. Promise!Interrupt(failing, gone)
      BY <1>1, <1>9 DEF Promise!Interrupt, Promise!Nothing, Interrupted
    <2> QED BY <2>1 DEF Promise!Next
  <1>10. ASSUME NEW r \in Requests, call[r].op = "AddItem", NEW outcome \in {"taken", "failed"},
                Taken(r, call[r].user, outcome,
                      [ACarts[call[r].user] EXCEPT ![call[r].product] = @ + call[r].quantity])
         PROVE  Promise!Next
    BY <1>5, <1>6, <1>10
  <1>11. ASSUME NEW r \in Requests, call[r].op = "EmptyCart", NEW outcome \in {"taken", "failed"},
                Taken(r, call[r].user, outcome, [p \in Products |-> 0])
         PROVE  Promise!Next
    BY <1>5, <1>7, <1>11
  <1> QED BY <1>2, <1>3, <1>4, <1>8, <1>9, <1>10, <1>11 DEF ShoppingStep

\* Calls that do not overlap on a cart find an atomic shopping cart, for every
\* number of users, products and calls: each takes effect in one step, before it
\* is answered, exactly once when it is answered OK and at most once when it
\* fails, whatever commands fail and whenever the service restarts or a key expires.
THEOREM StoreImplementsCart == MCSpec => ImplementsShoppingCart
  <1>1. MCInit => Promise!Init
    <2> SUFFICES ASSUME MCInit PROVE Promise!Init
      OBVIOUS
    <2>1. \A u \in Users : Holders(u) = {} /\ store[u] = NoCart
      BY DEF MCInit, Init, Holders
    <2>2. \A u \in Users : CartOf(u) = Contents(NoCart)
      BY <2>1 DEF CartOf
    <2>3. \A r \in Requests : StateOf(r) = "idle"
      <3>1. StateAt("idle") = "idle"
        BY DEF StateAt
      <3> QED BY <3>1, StateOfStep DEF MCInit, Init
    <2>4. \A r \in Requests : AnswerOf(r) = NoCall
      BY DEF MCInit, Init, AnswerOf
    <2>5. call = [r \in Requests |-> NoCall]
      BY DEF MCInit, Init
    <2> QED BY <2>2, <2>3, <2>4, <2>5, NoCartHoldsNothing DEF Promise!Init, Promise!Nothing, Seen
  <1>2. RInv /\ [MCNext]_mcVars => [Promise!Next]_Shown
    <2> SUFFICES ASSUME RInv, [MCNext]_mcVars PROVE [Promise!Next]_Shown
      OBVIOUS
    <2>1. [Next]_vars /\ sequential' = sequential /\ sequential \in BOOLEAN
      BY DEF MCNext, mcVars, RInv
    <2>2. CASE sequential = TRUE
      <3>1. ShoppingStep
        BY <2>1, <2>2, StoreStep DEF RInv
      <3> QED BY <2>1, <2>2, <3>1, ShoppingStepIsStep
    <2>3. CASE sequential = FALSE
      BY <2>1, <2>3 DEF Shown, Seen
    <2> QED BY <2>1, <2>2, <2>3
  <1>3. MCInit => RInv
    BY InitRInv
  <1> QED BY <1>1, <1>2, <1>3, StepRInv, PTL
         DEF MCSpec, ImplementsShoppingCart, Promise!Spec, Shown
=============================================================================
