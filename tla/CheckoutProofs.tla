--------------------------- MODULE CheckoutProofs ---------------------------
(***************************************************************************)
(* Theorems about Checkout, for any number of users, products, orders and  *)
(* pieces.                                                                 *)
(***************************************************************************)
EXTENDS Checkout, SumTheorems, TLAPS

(* How the records about an order at the several services agree.           *)
Agree(o) ==
    /\ charged[o] # None => charged[o] = items[o] /\ items[o] \in Goods
    /\ shipped[o] # None => shipped[o] = items[o] /\ charged[o] # None
    /\ published[o] # None => published[o] = items[o] /\ shipped[o] # None
    /\ o \in emailed => shipped[o] # None

(* What PlaceOrder has done when it is at a step, and when it has ended.   *)
Done(o) ==
    /\ pc[o] \in {"idle", "getUserCart", "prepare", "chargeCard"} => charged[o] = None
    /\ pc[o] = "chargeCard" => items[o] \in Goods
    /\ pc[o] = "shipOrder" => charged[o] # None /\ shipped[o] = None
    /\ pc[o] \in {"emptyUserCart", "sendOrderConfirmation", "sendToPostProcessor", "ok"}
         => shipped[o] # None
    /\ pc[o] = "Internal" => shipped[o] = None
    /\ pc[o] = "Unavailable" => charged[o] # None

(* What may still happen to an order through the calls given up on.        *)
Pending(o) ==
    /\ <<o, "chargeCard">> \in late =>
           pc[o] \in {"Internal", "lost"} /\ charged[o] = None /\ items[o] \in Goods
    /\ <<o, "shipOrder">> \in late =>
           pc[o] \in {"Unavailable", "lost"} /\ charged[o] # None /\ shipped[o] = None
    /\ <<o, "emptyUserCart">> \in late => shipped[o] # None
    /\ <<o, "sendOrderConfirmation">> \in late => shipped[o] # None

(* While an order may empty the cart, the cart holds at most what the      *)
(* order read and what AddItems raised it by since.                        *)
Covered(o) ==
    WillEmpty(o) => \A p \in Products : carts[user[o]][p] <= items[o][p] + grown[o][p]

IInv == \A o \in Orders : Agree(o) /\ Done(o) /\ Pending(o) /\ Covered(o)

----------------------------------------------------------------------------
(* Types                                                                   *)

LEMMA EmptyType == Empty \in Contents
  BY DEF Empty, Contents

\* A failure ends the order or goes on with a later call.
LEMMA FailureType ==
    ASSUME NEW step \in Steps \ {"sendToPostProcessor"}
    PROVE  AfterFailure(step) \in Steps \cup Ended
  BY DEF AfterFailure, AfterConfirmation, Steps, Effects, Ended

\* The cart that an AddItem writes back.
LEMMA ItemType ==
    ASSUME NEW h \in Holdings
    PROVE  /\ h.user \in Users /\ h.product \in Products /\ h.quantity \in Nat \ {0}
           /\ h.cart \in Contents /\ WithItem(h) \in Contents
           /\ \A p \in Products : WithItem(h)[p] =
                  IF p = h.product THEN h.cart[p] + h.quantity ELSE h.cart[p]
  <1>1. /\ h.user \in Users /\ h.product \in Products /\ h.quantity \in Nat \ {0}
        /\ h.cart \in [Products -> Nat]
    BY CheckoutAssumption DEF Holdings, Contents
  <1>2. WithItem(h) = [h.cart EXCEPT ![h.product] = h.cart[h.product] + h.quantity]
    BY DEF WithItem
  <1>3. \A p \in Products : h.cart[p] \in Nat
    BY <1>1
  <1>4. h.cart[h.product] + h.quantity \in Nat
    BY <1>1, <1>3
  <1>5. WithItem(h) \in [Products -> Nat]
    BY <1>1, <1>2, <1>4
  <1>6. \A p \in Products : WithItem(h)[p] =
            IF p = h.product THEN h.cart[p] + h.quantity ELSE h.cart[p]
    BY <1>1, <1>2
  <1> QED BY <1>1, <1>5, <1>6 DEF Contents

\* A cart is what it was, and what it has grown by, at most.
LEMMA GrowthType ==
    ASSUME NEW c \in Contents, NEW d \in Contents
    PROVE  /\ Growth(c, d) \in Contents
           /\ \A p \in Products : /\ Growth(c, d)[p] \in Nat
                                 /\ d[p] <= c[p] + Growth(c, d)[p]
  BY DEF Growth, Contents

\* What the write of an AddItem does, its types known.
LEMMA HashSetStep ==
    ASSUME TypeOK, NEW a \in Adders, HashSet(a)
    PROVE  LET h == holding[a]  u == h.user IN
           /\ h \in Holdings /\ u \in Users /\ a \in Holders(u)
           /\ carts'[u] = WithItem(h) /\ carts'[u] \in Contents
           /\ \A v \in Users : v # u => carts'[v] = carts[v] /\ added'[v] = added[v]
           /\ added'[u] \in Contents
           /\ \A p \in Products : added'[u][p] =
                  IF p = h.product THEN added[u][p] + h.quantity ELSE added[u][p]
           /\ \A o \in Orders : grown'[o] =
                  IF WillEmpty(o) /\ user[o] = u
                  THEN [p \in Products |-> grown[o][p] + Growth(carts[u], WithItem(h))[p]]
                  ELSE grown[o]
  <1> DEFINE h == holding[a]
             u == h.user
  <1>1. h # None /\ h \in Holdings
    BY DEF HashSet, TypeOK
  <1>2. /\ u \in Users /\ h.product \in Products /\ h.quantity \in Nat
        /\ WithItem(h) \in Contents
    BY <1>1, ItemType
  <1>3. a \in Holders(u)
    BY <1>1 DEF Holders
  <1>4. carts' = [carts EXCEPT ![u] = WithItem(h)]
    BY DEF HashSet
  <1>5. carts'[u] = WithItem(h) /\ \A v \in Users : v # u => carts'[v] = carts[v]
    BY <1>2, <1>4 DEF TypeOK
  <1>6. added' = [added EXCEPT ![u] = [added[u] EXCEPT ![h.product] = added[u][h.product] + h.quantity]]
    BY DEF HashSet
  <1>7. /\ added'[u] = [added[u] EXCEPT ![h.product] = added[u][h.product] + h.quantity]
        /\ \A v \in Users : v # u => added'[v] = added[v]
    BY <1>2, <1>6 DEF TypeOK
  <1>8. added[u] \in Contents
    BY <1>2 DEF TypeOK
  <1>9. /\ added'[u] \in Contents
        /\ \A p \in Products : added'[u][p] =
              IF p = h.product THEN added[u][p] + h.quantity ELSE added[u][p]
    BY <1>2, <1>7, <1>8 DEF Contents
  <1>10. \A o \in Orders : grown'[o] =
            IF WillEmpty(o) /\ user[o] = u
            THEN [p \in Products |-> grown[o][p] + Growth(carts[u], WithItem(h))[p]]
            ELSE grown[o]
    BY DEF HashSet
  <1> QED BY <1>1, <1>2, <1>3, <1>5, <1>7, <1>9, <1>10

LEMMA InitType == Init => TypeOK
  <1> SUFFICES ASSUME Init PROVE TypeOK
    OBVIOUS
  <1>1. producer \in BOOLEAN
    BY DEF Init, NewProducer
  <1>2. /\ carts \in [Users -> Contents] /\ added \in [Users -> Contents]
        /\ items \in [Orders -> Contents] /\ grown \in [Orders -> Contents]
    BY EmptyType DEF Init
  <1>3. /\ pc \in [Orders -> {"idle"} \cup Steps \cup Ended]
        /\ user \in [Orders -> Users \cup {NoUser}]
        /\ \A o \in Orders : pc[o] # "idle" => user[o] \in Users
    BY DEF Init
  <1> QED BY <1>1, <1>2, <1>3 DEF Init, TypeOK

LEMMA EffectType ==
    ASSUME TypeOK, NEW o \in Orders,
           Charge(o) \/ Ship(o) \/ EmptyCart(o) \/ Confirm(o)
    PROVE  /\ carts' \in [Users -> Contents]
           /\ charged' \in [Orders -> Contents \cup {None}]
           /\ shipped' \in [Orders -> Contents \cup {None}]
           /\ emailed' \subseteq Orders
           /\ published' \in [Orders -> Contents \cup {None}]
           /\ added' \in [Users -> Contents]
           /\ grown' \in [Orders -> Contents]
           /\ emptied' \subseteq Orders
           /\ holding' \in [Adders -> Holdings \cup {None}]
           /\ missed' \in [Adders -> SUBSET Orders]
           /\ undone' \subseteq Orders
           /\ overtaken' \subseteq Adders
           /\ overlapped' \subseteq Orders
  <1>1. items[o] \in Contents
    BY DEF TypeOK
  <1>2. CASE Charge(o)
    BY <1>1, <1>2 DEF Charge, TypeOK, history
  <1>3. CASE Ship(o)
    BY <1>1, <1>3 DEF Ship, TypeOK, history
  <1>4. CASE EmptyCart(o)
    <2>1. missed' \in [Adders -> SUBSET Orders]
      BY <1>4 DEF EmptyCart, NoteMissed, TypeOK
    <2> QED BY <1>4, <2>1, EmptyType DEF EmptyCart, TypeOK
  <1>5. CASE Confirm(o)
    BY <1>5 DEF Confirm, TypeOK, history
  <1> QED BY <1>2, <1>3, <1>4, <1>5

LEMMA AnsweredType ==
    ASSUME TypeOK, NEW o \in Orders, NEW step \in Steps, NEW next \in Steps \cup Ended,
           Answered(o, step, next)
    PROVE  /\ late' \subseteq Orders \X Effects
           /\ pc' \in [Orders -> {"idle"} \cup Steps \cup Ended]
           /\ user' \in [Orders -> Users \cup {NoUser}]
           /\ \A x \in Orders : pc'[x] # "idle" => user'[x] \in Users
           /\ cancelled' \subseteq Orders
           /\ producer' \in BOOLEAN
           /\ user[o] \in Users
  BY DEF Answered, TypeOK, Steps, Effects, Ended

LEMMA DieType ==
    ASSUME TypeOK, Die
    PROVE  TypeOK'
  <1>1. late' \subseteq Orders \X Effects
    BY DEF Die, TypeOK
  <1>2. pc' \in [Orders -> {"idle"} \cup Steps \cup Ended]
    BY DEF Die, TypeOK, Ended
  <1>3. \A x \in Orders : pc'[x] # "idle" => user'[x] \in Users
    BY DEF Die, TypeOK, Running, Steps, Effects
  <1>4. producer' \in BOOLEAN
    BY DEF Die, NewProducer
  <1> QED
    BY <1>1, <1>2, <1>3, <1>4 DEF Die, TypeOK, services, history

LEMMA NextType == TypeOK /\ [Next]_vars => TypeOK'
  <1> SUFFICES ASSUME TypeOK, [Next]_vars PROVE TypeOK'
    OBVIOUS
  <1>1. ASSUME NEW a \in Adders, HashSet(a)
        PROVE  TypeOK'
    <2> DEFINE h == holding[a]
               u == h.user
    <2>1. h \in Holdings /\ u \in Users /\ WithItem(h) \in Contents /\ carts[u] \in Contents
      BY <1>1, HashSetStep DEF TypeOK
    <2>2. carts' \in [Users -> Contents]
      BY <1>1, <2>1 DEF HashSet, TypeOK
    <2>3. added' \in [Users -> Contents]
      <3>1. added'[u] \in Contents /\ \A v \in Users : v # u => added'[v] = added[v]
        BY <1>1, HashSetStep
      <3>2. added' = [v \in Users |-> added'[v]]
        BY <1>1 DEF HashSet, TypeOK
      <3> HIDE DEF u, h
      <3>3. \A v \in Users : added'[v] \in Contents
        BY <3>1 DEF TypeOK
      <3> QED BY <3>2, <3>3
    <2>4. grown' \in [Orders -> Contents]
      <3>1. \A p \in Products : Growth(carts[u], WithItem(h))[p] \in Nat
        BY <2>1, GrowthType
      <3>2. \A o \in Orders : \A p \in Products : grown[o][p] \in Nat
        BY DEF TypeOK, Contents
      <3>3. \A o \in Orders : [p \in Products |-> grown[o][p] + Growth(carts[u], WithItem(h))[p]] \in Contents
        BY <3>1, <3>2 DEF Contents
      <3>4. \A o \in Orders : grown[o] \in Contents
        BY DEF TypeOK
      <3> QED BY <1>1, <3>3, <3>4 DEF HashSet
    <2>5. holding' \in [Adders -> Holdings \cup {None}] /\ missed' \in [Adders -> SUBSET Orders]
      BY <1>1 DEF HashSet, LetGo, TypeOK
    <2>6. undone' \subseteq Orders /\ overtaken' \subseteq Adders
      BY <1>1 DEF HashSet, Holders, TypeOK
    <2> QED BY <1>1, <2>2, <2>3, <2>4, <2>5, <2>6 DEF HashSet, TypeOK, local
  <1>13. ASSUME NEW a \in Adders, NEW u \in Users, NEW p \in Products, NEW q \in Quantities,
                HashGet(a, u, p, q)
         PROVE  TypeOK'
    <2>1. [user |-> u, product |-> p, quantity |-> q, cart |-> carts[u]] \in Holdings
      BY DEF Holdings, TypeOK
    <2> QED BY <1>13, <2>1 DEF HashGet, TypeOK, services, local, history
  <1>14. ASSUME NEW a \in Adders, AddItemFails(a)
         PROVE  TypeOK'
    BY <1>14 DEF AddItemFails, LetGo, TypeOK, services, local
  <1>15. ASSUME NEW u \in Users, PutAway(u)
         PROVE  TypeOK'
    BY <1>15, EmptyType DEF PutAway, TypeOK, local, history
  <1>2. ASSUME NEW u \in Users, NEW o \in Orders, PlaceOrder(o, u)
        PROVE  TypeOK'
    BY <1>2 DEF PlaceOrder, TypeOK, services, Steps, Effects
  <1>3. ASSUME NEW o \in Orders, Cancel(o)
        PROVE  TypeOK'
    BY <1>3 DEF Cancel, TypeOK, services, history
  <1>4. ASSUME NEW o \in Orders, GetUserCart(o)
        PROVE  TypeOK'
    <2>1. Answered(o, "getUserCart", "prepare") /\ "prepare" \in Steps
          /\ "getUserCart" \in Steps
      BY <1>4 DEF GetUserCart, Steps
    <2>2. carts[user[o]] \in Contents
      BY <2>1, AnsweredType DEF TypeOK
    <2> QED BY <1>4, <2>1, <2>2, AnsweredType, EmptyType DEF GetUserCart, TypeOK, services
  <1>5. ASSUME NEW o \in Orders, Prepare(o)
        PROVE  TypeOK'
    <2>1. Answered(o, "prepare", "chargeCard") /\ "prepare" \in Steps
          /\ "chargeCard" \in Steps
      BY <1>5 DEF Prepare, Steps, Effects
    <2> QED BY <1>5, <2>1, AnsweredType DEF Prepare, TypeOK, services, history
  <1>6. ASSUME NEW o \in Orders, NEW step \in Effects, NEW next \in Steps \cup Ended,
               Answered(o, step, next), UNCHANGED items,
               Charge(o) \/ Ship(o) \/ EmptyCart(o) \/ Confirm(o)
        PROVE  TypeOK'
    <2>1. step \in Steps
      BY DEF Steps
    <2>2. items' \in [Orders -> Contents]
      BY <1>6 DEF TypeOK
    <2> QED BY <1>6, <2>1, <2>2, AnsweredType, EffectType DEF TypeOK
  <1>7. ASSUME NEW o \in Orders, NEW step \in Steps, Failed(o, step)
        PROVE  TypeOK'
    <2>1. pc' \in [Orders -> {"idle"} \cup Steps \cup Ended]
      BY <1>7, FailureType DEF Failed, TypeOK
    <2>2. \A x \in Orders : pc'[x] # "idle" => user'[x] \in Users
      BY <1>7 DEF Failed, TypeOK, Steps, Effects
    <2>3. late' \subseteq Orders \X Effects
      BY <1>7 DEF Failed, TypeOK
    <2> QED BY <1>7, <2>1, <2>2, <2>3 DEF Failed, TypeOK, services, history
  <1>8. ASSUME NEW o \in Orders, SendToPostProcessor(o)
        PROVE  TypeOK'
    <2>1. published' \in [Orders -> Contents \cup {None}]
      BY <1>8 DEF SendToPostProcessor, TypeOK
    <2>2. pc' \in [Orders -> {"idle"} \cup Steps \cup Ended]
          /\ \A x \in Orders : pc'[x] # "idle" => user'[x] \in Users
      BY <1>8 DEF SendToPostProcessor, TypeOK, Ended, Steps
    <2> QED BY <1>8, <2>1, <2>2 DEF SendToPostProcessor, TypeOK, history
  <1>9. ASSUME NEW o \in Orders, NEW step \in Effects, ArriveLate(o, step)
        PROVE  TypeOK'
    <2>1. Charge(o) \/ Ship(o) \/ EmptyCart(o) \/ Confirm(o)
      BY <1>9 DEF ArriveLate
    <2>2. late' \subseteq Orders \X Effects /\ UNCHANGED local
      BY <1>9 DEF ArriveLate, TypeOK
    <2> QED BY <2>1, <2>2, EffectType DEF TypeOK, local
  <1>10. CASE Die
    BY <1>10, DieType
  <1>11. CASE UNCHANGED vars
    BY <1>11 DEF vars, TypeOK, services, local, history
  <1>12. ASSUME NEW o \in Orders, Handle(o)
         PROVE  TypeOK'
    <2>1. {"shipOrder", "emptyUserCart", "sendOrderConfirmation", AfterConfirmation}
            \subseteq Steps \cup Ended
      BY DEF AfterConfirmation, Steps, Effects, Ended
    <2>2. {"chargeCard", "shipOrder", "emptyUserCart", "sendOrderConfirmation"} \subseteq Effects
      BY DEF Effects
    <2>3. CASE ChargeCard(o)
      BY <2>1, <2>2, <2>3, <1>6 DEF ChargeCard
    <2>4. CASE ShipOrder(o)
      BY <2>1, <2>2, <2>4, <1>6 DEF ShipOrder
    <2>5. CASE EmptyUserCart(o)
      BY <2>1, <2>2, <2>5, <1>6 DEF EmptyUserCart
    <2>6. CASE SendOrderConfirmation(o)
      BY <2>1, <2>2, <2>6, <1>6 DEF SendOrderConfirmation
    <2> QED BY <1>4, <1>5, <1>7, <1>8, <1>10, <1>12, <2>3, <2>4, <2>5, <2>6 DEF Handle, Panic
  <1> QED BY <1>1, <1>2, <1>3, <1>9, <1>10, <1>11, <1>12, <1>13, <1>14, <1>15
          DEF Next, Kill, ClearCart, Expire

\* Type correctness: the variables keep their types, whatever fails.
THEOREM TypeCorrect == Spec => []TypeOK
  BY InitType, NextType, PTL DEF Spec

----------------------------------------------------------------------------
(* The inductive invariant                                                 *)

LEMMA InitInv == Init => IInv
  BY DEF Init, IInv, Agree, Done, Pending, Covered, WillEmpty, Steps, Effects

\* Covered survives a step that leaves the order where it was, or moves it
\* past reading the cart, while the cart stays or is emptied.
LEMMA CoveredStays ==
    ASSUME TypeOK, TypeOK', NEW x \in Orders, Covered(x),
           carts' = carts \/ \E u \in Users : carts' = [carts EXCEPT ![u] = Empty],
           items'[x] = items[x], grown'[x] = grown[x], user'[x] = user[x],
           WillEmpty(x)' => WillEmpty(x) /\ user[x] \in Users
    PROVE  Covered(x)'
  <1> SUFFICES ASSUME WillEmpty(x)', NEW p \in Products
               PROVE  carts'[user[x]][p] <= items[x][p] + grown[x][p]
    BY DEF Covered
  <1>1. /\ carts[user[x]][p] \in Nat /\ items[x][p] \in Nat /\ grown[x][p] \in Nat
        /\ carts[user[x]][p] <= items[x][p] + grown[x][p]
    BY DEF Covered, TypeOK, Contents
  <1>2. carts'[user[x]][p] \in {0, carts[user[x]][p]}
    BY DEF Empty, TypeOK
  <1> QED BY <1>1, <1>2

\* The same for an order whose step it is not.
LEMMA OtherOrder ==
    ASSUME TypeOK, TypeOK', NEW x \in Orders, Agree(x), Done(x), Pending(x), Covered(x),
           carts' = carts \/ \E u \in Users : carts' = [carts EXCEPT ![u] = Empty],
           charged'[x] = charged[x], shipped'[x] = shipped[x],
           published'[x] = published[x], x \in emailed' <=> x \in emailed,
           pc'[x] = pc[x], user'[x] = user[x], items'[x] = items[x], grown'[x] = grown[x],
           \A step \in Effects : <<x, step>> \in late' <=> <<x, step>> \in late
    PROVE  Agree(x)' /\ Done(x)' /\ Pending(x)' /\ Covered(x)'
  <1>1. Agree(x)' /\ Done(x)'
    BY DEF Agree, Done
  <1>2. Pending(x)'
    BY DEF Pending, Effects
  <1>3. WillEmpty(x)' <=> WillEmpty(x)
    BY DEF WillEmpty, Effects
  <1>4. WillEmpty(x) => pc[x] # "idle"
    BY DEF Pending, Done, Agree, WillEmpty
  <1>5. WillEmpty(x) => user[x] \in Users
    BY <1>4 DEF TypeOK
  <1>6. Covered(x)'
    BY <1>3, <1>5, CoveredStays
  <1> QED BY <1>1, <1>2, <1>6

\* The order of the step: Covered again, with the pc it moves to.
LEMMA OwnCovered ==
    ASSUME TypeOK, TypeOK', NEW o \in Orders, Agree(o), Done(o), Pending(o), Covered(o),
           carts' = carts \/ \E u \in Users : carts' = [carts EXCEPT ![u] = Empty],
           items'[o] = items[o], grown'[o] = grown[o], user'[o] = user[o],
           WillEmpty(o)' => WillEmpty(o)
    PROVE  Covered(o)'
  <1>1. WillEmpty(o) => pc[o] # "idle"
    BY DEF Pending, Done, Agree, WillEmpty
  <1> QED BY <1>1, CoveredStays DEF TypeOK

LEMMA AnsweredInv ==
    ASSUME TypeOK, IInv, TypeOK', NEW o \in Orders,
           \/ Prepare(o) \/ ChargeCard(o) \/ ShipOrder(o) \/ EmptyUserCart(o)
           \/ SendOrderConfirmation(o) \/ SendToPostProcessor(o)
    PROVE  IInv'
  <1> USE DEF Answered, Prepare, ChargeCard, ShipOrder, EmptyUserCart,
              SendOrderConfirmation, SendToPostProcessor, Charge, Ship, EmptyCart,
              Confirm, services, history, AfterConfirmation
  <1>1. Agree(o) /\ Done(o) /\ Pending(o) /\ Covered(o)
    BY DEF IInv
  <1>2. late' = late /\ user' = user /\ items' = items /\ grown' = grown
    OBVIOUS
  <1>3. carts' = carts \/ \E u \in Users : carts' = [carts EXCEPT ![u] = Empty]
    BY DEF TypeOK
  <1>4. Agree(o)'
    BY <1>1, <1>2, NoneAssumption DEF Agree, Done, TypeOK
  <1>5. Done(o)'
    BY <1>1, <1>2, NoneAssumption DEF Agree, Done, Pending, TypeOK
  <1>6. Pending(o)'
    BY <1>1, <1>2, NoneAssumption DEF Agree, Done, Pending, TypeOK
  <1>7. Covered(o)'
    <2>1. WillEmpty(o)' => WillEmpty(o)
      BY <1>2 DEF WillEmpty, TypeOK
    <2> QED BY <1>1, <1>2, <1>3, <2>1, OwnCovered
  <1>8. ASSUME NEW x \in Orders, x # o
        PROVE  Agree(x)' /\ Done(x)' /\ Pending(x)' /\ Covered(x)'
    <2>1. Agree(x) /\ Done(x) /\ Pending(x) /\ Covered(x)
      BY DEF IInv
    <2>2. /\ charged'[x] = charged[x] /\ shipped'[x] = shipped[x]
          /\ published'[x] = published[x] /\ (x \in emailed' <=> x \in emailed)
          /\ pc'[x] = pc[x]
      BY <1>8 DEF TypeOK
    <2> QED BY <1>2, <1>3, <2>1, <2>2, OtherOrder
  <1> QED BY <1>4, <1>5, <1>6, <1>7, <1>8 DEF IInv

LEMMA GetUserCartInv ==
    ASSUME TypeOK, IInv, TypeOK', NEW o \in Orders, GetUserCart(o)
    PROVE  IInv'
  <1> USE DEF GetUserCart, Answered, services
  <1>1. Agree(o) /\ Done(o) /\ Pending(o) /\ user[o] \in Users
    BY DEF IInv, TypeOK
  <1>2. charged[o] = None /\ shipped[o] = None /\ published[o] = None /\ o \notin emailed
    BY <1>1 DEF Agree, Done
  <1>3. Agree(o)' /\ Done(o)' /\ Pending(o)'
    BY <1>1, <1>2 DEF Agree, Done, Pending, TypeOK
  <1>4. Covered(o)'
    BY <1>1 DEF Covered, TypeOK, Empty, Contents
  <1>5. ASSUME NEW x \in Orders, x # o
        PROVE  Agree(x)' /\ Done(x)' /\ Pending(x)' /\ Covered(x)'
    <2>1. Agree(x) /\ Done(x) /\ Pending(x) /\ Covered(x)
      BY DEF IInv
    <2>2. pc'[x] = pc[x] /\ items'[x] = items[x] /\ grown'[x] = grown[x]
      BY <1>5 DEF TypeOK
    <2> QED BY <2>1, <2>2, OtherOrder
  <1> QED BY <1>3, <1>4, <1>5 DEF IInv

LEMMA FailedInv ==
    ASSUME TypeOK, IInv, TypeOK', NEW o \in Orders, NEW step \in Steps, Failed(o, step)
    PROVE  IInv'
  <1> USE DEF Failed, services, history
  <1>1. Agree(o) /\ Done(o) /\ Pending(o) /\ Covered(o)
    BY DEF IInv
  <1>2. \A x \in Orders, s \in Effects :
            <<x, s>> \in late' => <<x, s>> \in late \/ (x = o /\ s = step)
    OBVIOUS
  <1>3. /\ pc[o] = step /\ pc'[o] = AfterFailure(step)
        /\ \A x \in Orders : x # o => pc'[x] = pc[x]
    BY DEF TypeOK
  <1>4. Agree(o)'
    BY <1>1 DEF Agree
  <1>5. Done(o)'
    BY <1>1, <1>3 DEF Agree, Done, AfterFailure, AfterConfirmation, Steps, Effects
  <1>6. Pending(o)'
    <2>1. \A s \in Effects : <<o, s>> \in late' => <<o, s>> \in late \/ s = pc[o]
      BY <1>2, <1>3
    <2>2. \A s \in Effects : <<o, s>> \in late' /\ s # pc[o] =>
            pc'[o] = pc[o] \/ pc[o] \in {"emptyUserCart", "sendOrderConfirmation"}
            \/ s \in {"emptyUserCart", "sendOrderConfirmation"}
      BY <1>1, <2>1 DEF Pending, Steps, Effects
    <2>3. CASE step \in {"chargeCard", "shipOrder"}
      BY <1>1, <1>3, <2>1, <2>3 DEF Pending, Done, Agree, AfterFailure, Effects
    <2>4. CASE step \in {"emptyUserCart", "sendOrderConfirmation"}
      BY <1>1, <1>3, <2>1, <2>4 DEF Pending, Done, Agree, Effects
    <2>5. CASE step \in {"getUserCart", "prepare"}
      BY <1>1, <1>3, <2>1, <2>5 DEF Pending, Done, Agree, Effects
    <2> QED BY <2>3, <2>4, <2>5 DEF Steps, Effects
  <1>7. Covered(o)'
    <2>1. <<o, "emptyUserCart">> \in late' =>
              <<o, "emptyUserCart">> \in late \/ pc[o] = "emptyUserCart"
      BY <1>2, <1>3 DEF Effects
    <2>2. pc'[o] \notin {"prepare", "chargeCard", "shipOrder", "emptyUserCart"}
      BY <1>3 DEF AfterFailure, AfterConfirmation, Steps, Effects
    <2>3. WillEmpty(o)' => WillEmpty(o)
      BY <2>1, <2>2 DEF WillEmpty
    <2> QED BY <1>1, <2>3, OwnCovered
  <1>8. ASSUME NEW x \in Orders, x # o
        PROVE  Agree(x)' /\ Done(x)' /\ Pending(x)' /\ Covered(x)'
    <2>1. Agree(x) /\ Done(x) /\ Pending(x) /\ Covered(x)
      BY DEF IInv
    <2>2. \A s \in Effects : <<x, s>> \in late' <=> <<x, s>> \in late
      BY <1>2, <1>8
    <2> QED BY <1>3, <1>8, <2>1, <2>2, OtherOrder
  <1> QED BY <1>4, <1>5, <1>6, <1>7, <1>8 DEF IInv

LEMMA DieInv ==
    ASSUME TypeOK, IInv, TypeOK', Die
    PROVE  IInv'
  <1> USE DEF Die, services, history
  <1> SUFFICES ASSUME NEW o \in Orders
               PROVE  Agree(o)' /\ Done(o)' /\ Pending(o)' /\ Covered(o)'
    BY DEF IInv
  <1>1. Agree(o) /\ Done(o) /\ Pending(o) /\ Covered(o)
    BY DEF IInv
  <1>2. pc'[o] = IF Running(o) THEN "lost" ELSE pc[o]
    BY DEF TypeOK
  <1>3. \A s \in Effects : <<o, s>> \in late' => <<o, s>> \in late \/ s = pc[o]
    OBVIOUS
  <1>4. Agree(o)' /\ Done(o)'
    BY <1>1, <1>2 DEF Agree, Done, Running, Steps, Effects
  <1>5. Pending(o)'
    <2>1. CASE Running(o)
      BY <1>1, <1>2, <1>3, <2>1 DEF Pending, Done, Agree, Running, Steps, Effects
    <2>2. CASE ~Running(o)
      <3>1. pc[o] \notin Effects
        BY <2>2 DEF Running, Steps
      <3> QED BY <1>1, <1>2, <1>3, <2>2, <3>1 DEF Pending, Effects
    <2> QED BY <2>1, <2>2
  <1>6. Covered(o)'
    <2>1. <<o, "emptyUserCart">> \in late' =>
              <<o, "emptyUserCart">> \in late \/ pc[o] = "emptyUserCart"
      BY <1>3 DEF Effects
    <2>2. WillEmpty(o)' => WillEmpty(o)
      BY <1>2, <2>1 DEF WillEmpty
    <2> QED BY <1>1, <2>2, OwnCovered
  <1> QED BY <1>4, <1>5, <1>6

LEMMA ArriveLateInv ==
    ASSUME TypeOK, IInv, TypeOK', NEW o \in Orders, NEW step \in Effects, ArriveLate(o, step)
    PROVE  IInv'
  <1> USE DEF ArriveLate, Charge, Ship, EmptyCart, Confirm, local, history
  <1>1. Agree(o) /\ Done(o) /\ Pending(o) /\ Covered(o)
    BY DEF IInv
  <1>2. \A x \in Orders, s \in Effects :
            <<x, s>> \in late' <=> <<x, s>> \in late /\ ~(x = o /\ s = step)
    OBVIOUS
  <1>3. pc' = pc /\ user' = user /\ items' = items /\ grown' = grown /\ published' = published
    OBVIOUS
  <1>4. carts' = carts \/ \E u \in Users : carts' = [carts EXCEPT ![u] = Empty]
    <2>1. step = "emptyUserCart" => pc[o] # "idle"
      BY <1>1 DEF Pending, Done, Agree
    <2> QED BY <2>1 DEF TypeOK
  <1>5. Agree(o)' /\ Done(o)'
    BY <1>1, <1>3, NoneAssumption DEF Agree, Done, Pending, TypeOK
  <1>6. Pending(o)'
    BY <1>1, <1>2, <1>3, NoneAssumption DEF Agree, Done, Pending, Effects, TypeOK
  <1>7. Covered(o)'
    <2>1. WillEmpty(o)' => WillEmpty(o)
      BY <1>2, <1>3 DEF WillEmpty, Effects
    <2> QED BY <1>1, <1>3, <1>4, <2>1, OwnCovered
  <1>8. ASSUME NEW x \in Orders, x # o
        PROVE  Agree(x)' /\ Done(x)' /\ Pending(x)' /\ Covered(x)'
    <2>1. Agree(x) /\ Done(x) /\ Pending(x) /\ Covered(x)
      BY DEF IInv
    <2>2. /\ charged'[x] = charged[x] /\ shipped'[x] = shipped[x]
          /\ (x \in emailed' <=> x \in emailed)
      BY <1>8 DEF TypeOK
    <2>3. \A s \in Effects : <<x, s>> \in late' <=> <<x, s>> \in late
      BY <1>2, <1>8
    <2> QED BY <1>3, <1>4, <2>1, <2>2, <2>3, OtherOrder
  <1> QED BY <1>5, <1>6, <1>7, <1>8 DEF IInv

LEMMA ShopperInv ==
    ASSUME TypeOK, IInv, TypeOK',
           \/ \E a \in Adders, u \in Users, p \in Products, q \in Quantities : HashGet(a, u, p, q)
           \/ \E a \in Adders : HashSet(a) \/ AddItemFails(a)
           \/ \E u \in Users : PutAway(u)
           \/ \E u \in Users, o \in Orders : PlaceOrder(o, u)
           \/ \E o \in Orders : Cancel(o)
           \/ UNCHANGED vars
    PROVE  IInv'
  <1> SUFFICES ASSUME NEW x \in Orders
               PROVE  Agree(x)' /\ Done(x)' /\ Pending(x)' /\ Covered(x)'
    BY DEF IInv
  <1>1. Agree(x) /\ Done(x) /\ Pending(x) /\ Covered(x)
    BY DEF IInv
  <1>2. ASSUME NEW a \in Adders, HashSet(a)
        PROVE  Agree(x)' /\ Done(x)' /\ Pending(x)' /\ Covered(x)'
    <2>1. UNCHANGED <<charged, shipped, emailed, published, late, pc, user, items>>
      BY <1>2 DEF HashSet, local
    <2>2. Agree(x)' /\ Done(x)' /\ Pending(x)'
      BY <1>1, <2>1 DEF Agree, Done, Pending
    <2>3. Covered(x)'
      <3> DEFINE h == holding[a]
                 u == h.user
      <3> SUFFICES ASSUME WillEmpty(x), NEW q \in Products
                   PROVE  carts'[user[x]][q] <= items[x][q] + grown'[x][q]
        BY <2>1 DEF Covered, WillEmpty
      <3>1. user[x] \in Users
        BY <1>1 DEF Pending, Done, Agree, WillEmpty, TypeOK
      <3>2. /\ carts[user[x]][q] \in Nat /\ items[x][q] \in Nat /\ grown[x][q] \in Nat
            /\ carts[user[x]][q] <= items[x][q] + grown[x][q]
        BY <1>1, <3>1 DEF Covered, TypeOK, Contents
      <3>3. /\ u \in Users /\ carts'[u] = WithItem(h) /\ WithItem(h) \in Contents
            /\ \A v \in Users : v # u => carts'[v] = carts[v]
            /\ grown'[x] = IF user[x] = u
                           THEN [p \in Products |-> grown[x][p] + Growth(carts[u], WithItem(h))[p]]
                           ELSE grown[x]
        BY <1>2, HashSetStep
      <3>4. CASE user[x] # u
        BY <3>1, <3>2, <3>3, <3>4
      <3>5. CASE user[x] = u
        <4>1. /\ Growth(carts[u], WithItem(h))[q] \in Nat
              /\ WithItem(h)[q] <= carts[u][q] + Growth(carts[u], WithItem(h))[q]
          BY <3>3, GrowthType DEF TypeOK
        <4>2. grown'[x][q] = grown[x][q] + Growth(carts[u], WithItem(h))[q]
          BY <3>3, <3>5
        <4>3. carts'[user[x]][q] = WithItem(h)[q] /\ WithItem(h)[q] \in Nat
          BY <3>3, <3>5 DEF Contents
        <4> HIDE DEF u, h
        <4> QED BY <3>2, <3>5, <4>1, <4>2, <4>3
      <3> QED BY <3>4, <3>5
    <2> QED BY <2>2, <2>3
  <1>3. ASSUME NEW u \in Users, NEW o \in Orders, PlaceOrder(o, u)
        PROVE  Agree(x)' /\ Done(x)' /\ Pending(x)' /\ Covered(x)'
    <2>1. /\ UNCHANGED <<carts, charged, shipped, emailed, published, late, items, grown>>
          /\ pc[o] = "idle" /\ pc' = [pc EXCEPT ![o] = "getUserCart"]
          /\ user' = [user EXCEPT ![o] = u]
      BY <1>3 DEF PlaceOrder, services
    <2>2. CASE x = o
      <3>1. pc'[o] = "getUserCart" /\ user'[o] = u
        BY <2>1 DEF TypeOK
      <3>2. Agree(o)' /\ Done(o)' /\ Pending(o)' /\ <<o, "emptyUserCart">> \notin late
        BY <1>1, <2>1, <2>2, <3>1 DEF Agree, Done, Pending
      <3> QED BY <2>1, <2>2, <3>1, <3>2 DEF Covered, WillEmpty
    <2>3. CASE x # o
      <3>1. pc'[x] = pc[x] /\ user'[x] = user[x]
        BY <2>1, <2>3 DEF TypeOK
      <3> QED BY <1>1, <2>1, <3>1, OtherOrder
    <2> QED BY <2>2, <2>3
  <1>4. ASSUME NEW o \in Orders, Cancel(o) \/ UNCHANGED vars
        PROVE  Agree(x)' /\ Done(x)' /\ Pending(x)' /\ Covered(x)'
    BY <1>1, <1>4, OtherOrder DEF Cancel, vars, services, local, history
  <1>5. ASSUME NEW a \in Adders, NEW u \in Users, NEW p \in Products, NEW q \in Quantities,
               HashGet(a, u, p, q)
        PROVE  Agree(x)' /\ Done(x)' /\ Pending(x)' /\ Covered(x)'
    BY <1>1, <1>5, OtherOrder DEF HashGet, services, local, history
  <1>6. ASSUME NEW a \in Adders, AddItemFails(a)
        PROVE  Agree(x)' /\ Done(x)' /\ Pending(x)' /\ Covered(x)'
    BY <1>1, <1>6, OtherOrder DEF AddItemFails, services, local, history
  <1>7. ASSUME NEW u \in Users, PutAway(u)
        PROVE  Agree(x)' /\ Done(x)' /\ Pending(x)' /\ Covered(x)'
    BY <1>1, <1>7, OtherOrder DEF PutAway, local, history
  <1> QED BY <1>2, <1>3, <1>4, <1>5, <1>6, <1>7

LEMMA NextInv == TypeOK /\ IInv /\ [Next]_vars => IInv'
  <1> SUFFICES ASSUME TypeOK, IInv, [Next]_vars PROVE IInv'
    OBVIOUS
  <1>1. TypeOK'
    BY NextType
  <1>2. ASSUME NEW o \in Orders, Handle(o)
        PROVE  IInv'
    BY <1>1, <1>2, GetUserCartInv, AnsweredInv, FailedInv, DieInv DEF Handle, Panic
  <1> QED BY <1>1, <1>2, ShopperInv, ArriveLateInv, DieInv DEF Next, Kill, ClearCart, Expire

\* The invariant that carries everything below.
LEMMA Invariant == Spec => [](TypeOK /\ IInv)
  <1>1. Init => TypeOK /\ IInv
    BY InitType, InitInv
  <1>2. TypeOK /\ IInv /\ [Next]_vars => TypeOK' /\ IInv'
    BY NextType, NextInv
  <1> QED BY <1>1, <1>2, PTL DEF Spec

----------------------------------------------------------------------------
(* Theorems                                                                *)

\* The records of an order at the services never disagree: what is shipped
\* was paid for, what is published and confirmed was shipped.
THEOREM OrdersDoNotMix == Spec => []OneOrderThroughout
  <1>1. IInv => OneOrderThroughout
    BY DEF IInv, Agree, OneOrderThroughout
  <1> QED BY <1>1, Invariant, PTL

\* The status of the answer says what has and what has not been done.
THEOREM StatusTrue == Spec => []StatusIsHonest
  <1>1. IInv => StatusIsHonest
    BY DEF IInv, Agree, Done, Pending, StatusIsHonest
  <1> QED BY <1>1, Invariant, PTL

\* No order charges for nothing but shipping.
THEOREM NeverForNothing == Spec => []SomethingIsPaidFor
  <1>1. TypeOK /\ IInv => SomethingIsPaidFor
    BY DEF IInv, Agree, SomethingIsPaidFor, TypeOK
  <1> QED BY <1>1, Invariant, PTL

----------------------------------------------------------------------------
(* Refinement of Order                                                     *)

\* What a step of the handler of o makes of Told.
LEMMA ToldStep ==
    ASSUME TypeOK, NEW o \in Orders, NEW end \in Steps \cup Ended,
           pc[o] \in Steps, pc' = [pc EXCEPT ![o] = end]
    PROVE  /\ Told[o] = "nothing"
           /\ end \in Steps => Told' = Told
           /\ end = "ok" => Told' = [Told EXCEPT ![o] = "ok"]
           /\ end \in Ended \ {"ok"} =>
                  Told' = [x \in Orders |-> IF x \in {o} THEN "failed" ELSE Told[x]]
  BY DEF Told, TypeOK, Steps, Effects, Ended

\* The process died: the orders it was working on have failed.
LEMMA ToldDie ==
    ASSUME TypeOK, Die
    PROVE  LET os == {o \in Orders : Running(o)} IN
           /\ \A o \in os : Told[o] = "nothing"
           /\ Told' = [o \in Orders |-> IF o \in os THEN "failed" ELSE Told[o]]
  BY DEF Die, Told, TypeOK, Running, Steps, Effects, Ended

LEMMA HandleRefines ==
    ASSUME TypeOK, IInv, NEW o \in Orders, Handle(o)
    PROVE  [Promise!Next]_<<charged, shipped, Told>>
  <1> USE DEF Answered, Charge, Ship, EmptyCart, Confirm, services, history
  <1>1. Agree(o) /\ Done(o) /\ Pending(o)
    BY DEF IInv
  <1>2. CASE GetUserCart(o) \/ Prepare(o) \/ EmptyUserCart(o)
    <2>1. UNCHANGED <<charged, shipped>> /\ UNCHANGED Told
      BY <1>2, ToldStep DEF GetUserCart, Prepare, EmptyUserCart, Steps, Effects
    <2> QED BY <2>1
  <1>3. CASE ChargeCard(o)
    <2>1. UNCHANGED Told
      BY <1>3, ToldStep DEF ChargeCard, Steps, Effects
    <2>2. charged[o] = None /\ items[o] \in Goods /\ UNCHANGED shipped
          /\ charged' = [charged EXCEPT ![o] = items[o]]
      BY <1>1, <1>3 DEF ChargeCard, Done
    <2>3. Promise!Pay(o)
      BY <2>1, <2>2 DEF Promise!Pay, TypeOK
    <2> QED BY <2>3 DEF Promise!Next
  <1>4. CASE ShipOrder(o)
    <2>1. UNCHANGED Told
      BY <1>4, ToldStep DEF ShipOrder, Steps, Effects
    <2>2. charged[o] # None /\ shipped[o] = None /\ UNCHANGED charged
          /\ shipped' = [shipped EXCEPT ![o] = charged[o]]
      BY <1>1, <1>4 DEF ShipOrder, Done, Agree
    <2>3. Promise!Send(o)
      BY <2>1, <2>2 DEF Promise!Send
    <2> QED BY <2>3 DEF Promise!Next
  <1>5. ASSUME NEW end \in {"sendToPostProcessor", "ok"}, UNCHANGED <<charged, shipped>>,
               pc[o] \in {"sendOrderConfirmation", "sendToPostProcessor"},
               pc' = [pc EXCEPT ![o] = end]
        PROVE  [Promise!Next]_<<charged, shipped, Told>>
    <2>1. shipped[o] # None
      BY <1>1, <1>5 DEF Done
    <2>2. /\ Told[o] = "nothing"
          /\ Told' = Told \/ Told' = [Told EXCEPT ![o] = "ok"]
      BY <1>5, ToldStep DEF Steps, Effects, Ended
    <2> QED BY <1>5, <2>1, <2>2 DEF Promise!Confirm, Promise!Next
  <1>6. CASE SendOrderConfirmation(o) \/ SendToPostProcessor(o)
    BY <1>5, <1>6 DEF SendOrderConfirmation, SendToPostProcessor, AfterConfirmation
  <1>7. CASE Panic(o)
    <2>1. UNCHANGED <<charged, shipped>>
      BY <1>7 DEF Panic, Die
    <2>2. o \in {x \in Orders : Running(x)}
      BY <1>7 DEF Panic, Running, Steps
    <2>3. Promise!Disappoint({x \in Orders : Running(x)})
      BY <1>7, <2>1, <2>2, ToldDie DEF Panic, Promise!Disappoint
    <2> QED BY <2>3 DEF Promise!Next
  <1>8. ASSUME NEW step \in Steps, Failed(o, step)
        PROVE  [Promise!Next]_<<charged, shipped, Told>>
    <2>1. UNCHANGED <<charged, shipped>> /\ pc[o] = step
          /\ pc' = [pc EXCEPT ![o] = AfterFailure(step)]
      BY <1>8 DEF Failed
    <2>2. CASE step = "emptyUserCart"
      BY <2>1, <2>2, ToldStep DEF AfterFailure, Steps, Effects
    <2>3. CASE step = "sendOrderConfirmation"
      BY <1>5, <2>1, <2>3 DEF AfterFailure, AfterConfirmation
    <2>4. CASE step \notin {"emptyUserCart", "sendOrderConfirmation"}
      <3>1. AfterFailure(step) \in Ended \ {"ok"}
        BY <2>4 DEF AfterFailure, Ended
      <3>2. Promise!Disappoint({o})
        BY <2>1, <3>1, ToldStep DEF Promise!Disappoint
      <3> QED BY <3>2 DEF Promise!Next
    <2> QED BY <2>2, <2>3, <2>4
  <1> QED BY <1>2, <1>3, <1>4, <1>6, <1>7, <1>8 DEF Handle

\* PlaceOrder keeps the promise of module Order: whatever fails, comes late,
\* is cancelled or dies, an order is charged at most once, only what was
\* charged is shipped, and success is only told of what was shipped.
THEOREM CheckoutImplementsOrder == Spec => ImplementsOrder
  <1>1. Init => Promise!Init
    BY DEF Init, Promise!Init, Told, Ended
  <1>2. TypeOK /\ IInv /\ [Next]_vars => [Promise!Next]_<<charged, shipped, Told>>
    <2> SUFFICES ASSUME TypeOK, IInv, [Next]_vars
                 PROVE  [Promise!Next]_<<charged, shipped, Told>>
      OBVIOUS
    <2>1. ASSUME NEW a \in Adders, HashSet(a) \/ AddItemFails(a)
          PROVE  [Promise!Next]_<<charged, shipped, Told>>
      BY <2>1 DEF HashSet, AddItemFails, services, local, Told
    <2>7. ASSUME NEW a \in Adders, NEW u \in Users, NEW p \in Products, NEW q \in Quantities,
                 HashGet(a, u, p, q)
          PROVE  [Promise!Next]_<<charged, shipped, Told>>
      BY <2>7 DEF HashGet, services, local, Told
    <2>8. ASSUME NEW u \in Users, PutAway(u)
          PROVE  [Promise!Next]_<<charged, shipped, Told>>
      BY <2>8 DEF PutAway, local, Told
    <2>2. ASSUME NEW u \in Users, NEW o \in Orders, PlaceOrder(o, u)
          PROVE  [Promise!Next]_<<charged, shipped, Told>>
      BY <2>2 DEF PlaceOrder, services, Told, TypeOK, Ended
    <2>3. ASSUME NEW o \in Orders, Cancel(o)
          PROVE  [Promise!Next]_<<charged, shipped, Told>>
      BY <2>3 DEF Cancel, services, Told
    <2>4. ASSUME NEW o \in Orders, NEW step \in Effects, ArriveLate(o, step)
          PROVE  [Promise!Next]_<<charged, shipped, Told>>
      <3>1. Agree(o) /\ Pending(o) /\ UNCHANGED Told
        BY <2>4 DEF IInv, ArriveLate, local, Told
      <3>2. CASE step = "chargeCard"
        <4>1. Promise!Pay(o)
          BY <2>4, <3>1, <3>2
             DEF ArriveLate, Charge, Ship, EmptyCart, Confirm, Pending, Promise!Pay, TypeOK
        <4> QED BY <4>1 DEF Promise!Next
      <3>3. CASE step = "shipOrder"
        <4>1. Promise!Send(o)
          BY <2>4, <3>1, <3>3
             DEF ArriveLate, Charge, Ship, EmptyCart, Confirm, Pending, Agree, Promise!Send
        <4> QED BY <4>1 DEF Promise!Next
      <3>4. CASE step \in {"emptyUserCart", "sendOrderConfirmation"}
        BY <2>4, <3>1, <3>4 DEF ArriveLate, EmptyCart, Confirm
      <3> QED BY <3>2, <3>3, <3>4 DEF Effects
    <2>5. CASE Kill
      <3>1. UNCHANGED <<charged, shipped>>
        BY <2>5 DEF Kill, Die, services
      <3>2. {o \in Orders : Running(o)} # {}
        BY <2>5 DEF Kill
      <3>3. Promise!Disappoint({o \in Orders : Running(o)})
        BY <2>5, <3>1, <3>2, ToldDie DEF Kill, Promise!Disappoint
      <3> QED BY <3>3 DEF Promise!Next
    <2>6. CASE UNCHANGED vars
      BY <2>6 DEF vars, services, local, Told
    <2> QED BY <2>1, <2>2, <2>3, <2>4, <2>5, <2>6, <2>7, <2>8, HandleRefines
            DEF Next, ClearCart, Expire
  <1> QED BY <1>1, <1>2, Invariant, PTL DEF Spec, ImplementsOrder, Promise!Spec

----------------------------------------------------------------------------
(* What a user is charged for                                              *)

\* What order o charges its user u for, of a product; what all orders do.
BillOf(c, w, u, p) == [o \in Orders |-> IF w[o] = u /\ c[o] # None THEN c[o][p] ELSE 0]
Total(c, w, u, p) == SumOver(BillOf(c, w, u, p), Orders)

\* Past the call that empties the cart.
Emptying == {"sendOrderConfirmation", "sendToPostProcessor", "ok", "lost"}

\* Of two orders of a user in flight together each is an overlapped one.
Apart == \A x, y \in Orders :
    x # y /\ InFlight(x) /\ InFlight(y) /\ user[x] = user[y] => x \in overlapped

\* An order empties the cart once, after it was charged.
EmptiesOnce(o) ==
    /\ o \in emptied =>
        charged[o] # None /\ pc[o] \in Emptying /\ <<o, "emptyUserCart">> \notin late
    /\ <<o, "emptyUserCart">> \in late => pc[o] \in Emptying

\* The order emptied the cart, and nothing undid it; or it still may.
ForGood(o) == o \in emptied \ (overlapped \cup undone)

MayEmpty(o) ==
    /\ o \notin overlapped \cup undone
    /\ \/ o \in emptied
       \/ pc[o] \in {"shipOrder", "emptyUserCart"}
       \/ <<o, "emptyUserCart">> \in late

Settled(u) == \A o \in ChargedOrders(u) : ForGood(o)
Closing(u) == \A o \in ChargedOrders(u) : MayEmpty(o)

\* What u was charged for and contents c together were all put in her cart.
Fits(c, u) == \A p \in Products : Total(charged, user, u, p) + c[p] <= added[u][p]

\* The order has read the cart and is to be charged for it.
Reading(o, u) == user[o] = u /\ o \notin overlapped /\ pc[o] \in {"prepare", "chargeCard"}

\* While each of the charged orders may empty the cart, what was charged for was put in.  Once
\* they all have, so was what is in the cart, what an AddItem that read it since is to write
\* back, and what the next order has read.
Balanced(u) ==
    /\ Closing(u) => Fits(Empty, u)
    /\ Settled(u) =>
        /\ Fits(carts[u], u)
        /\ \A a \in Holders(u) : missed[a] \cap ChargedOrders(u) = {} => Fits(holding[a].cart, u)
        /\ \A o \in Orders : Reading(o, u) => Fits(items[o], u)

BooksInv ==
    /\ Apart
    /\ \A o \in Orders : EmptiesOnce(o)
    /\ \A u \in Users : Balanced(u)

LEMMA BillType ==
    ASSUME TypeOK, NEW u, NEW p \in Products
    PROVE  \A o \in Orders : BillOf(charged, user, u, p)[o] \in Nat
  BY DEF BillOf, TypeOK, Contents

LEMMA TotalType ==
    ASSUME TypeOK, NEW u, NEW p \in Products
    PROVE  Total(charged, user, u, p) \in Nat
  BY BillType, SumIsNat, CheckoutAssumption DEF Total

\* The total is at least what the property adds up.
LEMMA ChargedIsOfTotal ==
    ASSUME TypeOK, NEW u, NEW p \in Products
    PROVE  /\ MapThenSumSet(LAMBDA o : charged[o][p], ChargedOrders(u)) \in Nat
           /\ MapThenSumSet(LAMBDA o : charged[o][p], ChargedOrders(u))
                <= Total(charged, user, u, p)
  <1> DEFINE S == ChargedOrders(u)
             f == BillOf(charged, user, u, p)
             Step(g) == [s \in SUBSET S |-> IF s = {} THEN 0
                          ELSE charged[First(s)][p] + g[s \ {First(s)}]]
             h == CHOOSE g : g = Step(g)
  <1>1. IsFiniteSet(S) /\ S \in SUBSET Orders
    BY CheckoutAssumption, FS_Subset DEF ChargedOrders
  <1>2. ASSUME NEW g PROVE SumStep(f, S, g) = Step(g)
    <2>1. \A s \in SUBSET S : s # {} => f[First(s)] = charged[First(s)][p]
      BY DEF First, BillOf, ChargedOrders
    <2> HIDE DEF f, S
    <2> QED BY <2>1 DEF SumStep
  <1>3. \E g : g = Step(g)
    <2> HIDE DEF f, S
    <2>1. PICK g : Sums(f, S, g)
      BY <1>1, SumsExist
    <2>2. g = SumStep(f, S, g)
      BY <2>1 DEF Sums
    <2>3. SumStep(f, S, g) = Step(g)
      BY <1>2
    <2> HIDE DEF Step
    <2>4. g = Step(g)
      BY <2>2, <2>3
    <2> QED BY <2>4
  <1>4. h = Step(h)
    <2> HIDE DEF Step
    <2> QED BY <1>3
  <1>5. Sums(f, S, h)
    <2> HIDE DEF Step, h, f, S
    <2> QED BY <1>2, <1>4 DEF Sums
  <1>6. MapThenSumSet(LAMBDA o : charged[o][p], S) = h[S]
    BY DEF MapThenSumSet, MapThenFoldSet, First
  <1>7. \A o \in Orders : f[o] \in Nat
    BY BillType
  <1> HIDE DEF h, S, f
  <1>8. SumOver(f, S) = h[S]
    BY <1>1, <1>5, SumOverIs
  <1>9. SumOver(f, S) <= SumOver(f, Orders)
    BY <1>1, <1>7, SumOfPart, CheckoutAssumption
  <1>10. SumOver(f, S) \in Nat
    BY <1>1, <1>7, SumIsNat
  <1> QED BY <1>6, <1>8, <1>9, <1>10 DEF S, f, Total

\* Settled books are closing ones.
LEMMA ForGoodIsMayEmpty ==
    ASSUME NEW o, ForGood(o)
    PROVE  MayEmpty(o)
  BY DEF ForGood, MayEmpty

LEMMA BooksAreEnough == TypeOK /\ BooksInv => ChargedOnce
  <1> SUFFICES ASSUME TypeOK, BooksInv, NEW u \in Users, NEW p \in Products,
                      \A o \in ChargedOrders(u) : InOrder(o)
               PROVE  MapThenSumSet(LAMBDA o : charged[o][p], ChargedOrders(u)) <= added[u][p]
    BY DEF ChargedOnce
  <1> DEFINE T == Total(charged, user, u, p)
             m == MapThenSumSet(LAMBDA o : charged[o][p], ChargedOrders(u))
  <1>1. m \in Nat /\ m <= T
    BY ChargedIsOfTotal
  <1>2. T \in Nat /\ added[u][p] \in Nat /\ Empty[p] = 0
    BY TotalType DEF TypeOK, Contents, Empty
  <1>3. Closing(u)
    BY DEF Closing, InOrder, MayEmpty
  <1>4. T + Empty[p] <= added[u][p]
    BY <1>3 DEF BooksInv, Balanced, Fits
  <1> HIDE DEF T, m
  <1>5. m <= added[u][p]
    BY <1>1, <1>2, <1>4
  <1> QED BY <1>5 DEF m

LEMMA InitBooks == Init => BooksInv
  <1> SUFFICES ASSUME Init PROVE BooksInv
    OBVIOUS
  <1>1. Apart /\ \A o \in Orders : EmptiesOnce(o)
    BY DEF Init, Apart, EmptiesOnce, InFlight, Running, Steps, Effects
  <1>2. ASSUME NEW u \in Users PROVE Balanced(u)
    <2>1. Fits(Empty, u)
      <3> SUFFICES ASSUME NEW p \in Products
                   PROVE  Total(charged, user, u, p) + Empty[p] <= added[u][p]
        BY DEF Fits
      <3>1. \A o \in Orders : BillOf(charged, user, u, p)[o] = 0
        BY DEF Init, BillOf
      <3>2. Total(charged, user, u, p) = 0
        BY <3>1, SumOfZeros, CheckoutAssumption DEF Total
      <3> QED BY <3>2 DEF Init, Empty
    <2>2. carts[u] = Empty /\ Holders(u) = {} /\ \A o \in Orders : ~Reading(o, u)
      BY DEF Init, Holders, Reading
    <2> QED BY <2>1, <2>2 DEF Balanced
  <1> QED BY <1>1, <1>2 DEF BooksInv

\* How far an order gets in a step that is not the call of PlaceOrder, not the reading of its
\* cart and not its payment.
Onward(x) ==
    /\ Running(x)' => Running(x)
    /\ pc'[x] \in {"prepare", "chargeCard"} => pc[x] \in {"prepare", "chargeCard"}
    /\ pc'[x] \in {"shipOrder", "emptyUserCart"} => pc[x] \in {"shipOrder", "emptyUserCart"}
    /\ pc[x] \in Emptying => pc'[x] \in Emptying
    /\ <<x, "emptyUserCart">> \in late' =>
         <<x, "emptyUserCart">> \in late \/ (pc[x] = "emptyUserCart" /\ pc'[x] \in Emptying)

LEMMA OnwardKeepsFlight ==
    ASSUME NEW x, Onward(x) PROVE InFlight(x)' => InFlight(x)
  BY DEF Onward, InFlight, Running, Steps, Effects

LEMMA StaysOnward ==
    ASSUME NEW x, pc'[x] = pc[x],
           <<x, "emptyUserCart">> \in late' => <<x, "emptyUserCart">> \in late
    PROVE  Onward(x)
  BY DEF Onward, Running

\* The records that the charging for a cart is about stay as they are.
Quiet == UNCHANGED <<carts, holding, charged, user, items, added,
                     emptied, missed, undone, overlapped>>

LEMMA AnsweredOnward ==
    ASSUME TypeOK, NEW o \in Orders, NEW step, NEW next, Answered(o, step, next),
           <<step, next>> \in {<<"prepare", "chargeCard">>, <<"shipOrder", "emptyUserCart">>,
                               <<"emptyUserCart", "sendOrderConfirmation">>,
                               <<"sendOrderConfirmation", "sendToPostProcessor">>,
                               <<"sendOrderConfirmation", "ok">>}
    PROVE  \A x \in Orders : Onward(x)
  BY DEF Answered, Onward, Running, Steps, Effects, Emptying, TypeOK

LEMMA FailedOnward ==
    ASSUME TypeOK, NEW o \in Orders, NEW step \in Steps, Failed(o, step)
    PROVE  \A x \in Orders : Onward(x)
  <1> SUFFICES ASSUME NEW x \in Orders PROVE Onward(x)
    OBVIOUS
  <1>1. <<x, "emptyUserCart">> \in late' =>
            <<x, "emptyUserCart">> \in late \/ (x = o /\ step = "emptyUserCart")
    BY DEF Failed
  <1>2. pc[o] = step /\ pc' = [pc EXCEPT ![o] = AfterFailure(step)]
    BY DEF Failed
  <1>3. CASE x # o
    BY <1>1, <1>2, <1>3, StaysOnward DEF TypeOK
  <1>4. CASE x = o
    <2>1. pc'[o] = AfterFailure(step)
      BY <1>2 DEF TypeOK
    <2> QED BY <1>1, <1>2, <1>4, <2>1
            DEF Onward, Running, AfterFailure, AfterConfirmation, Steps, Effects, Emptying, Failed
  <1> QED BY <1>3, <1>4

LEMMA DieOnward ==
    ASSUME TypeOK, Die
    PROVE  \A x \in Orders : Onward(x)
  <1> SUFFICES ASSUME NEW x \in Orders PROVE Onward(x)
    OBVIOUS
  <1>1. pc'[x] = IF Running(x) THEN "lost" ELSE pc[x]
    BY DEF Die, TypeOK
  <1>2. <<x, "emptyUserCart">> \in late' =>
            <<x, "emptyUserCart">> \in late \/ pc[x] = "emptyUserCart"
    BY DEF Die
  <1> QED BY <1>1, <1>2 DEF Onward, Running, Steps, Effects, Emptying

\* The steps, as far as the charging for a cart goes.
LEMMA StepKinds ==
    ASSUME TypeOK, [Next]_vars
    PROVE  \/ Quiet /\ \A x \in Orders : Onward(x)
           \/ \E a \in Adders, u \in Users, p \in Products, q \in Quantities : HashGet(a, u, p, q)
           \/ \E a \in Adders : HashSet(a) \/ AddItemFails(a)
           \/ \E u \in Users : PutAway(u)
           \/ \E u \in Users, o \in Orders : PlaceOrder(o, u)
           \/ \E o \in Orders : GetUserCart(o) \/ ChargeCard(o) \/ ArriveLate(o, "chargeCard")
           \/ \E o \in Orders : EmptyUserCart(o) \/ ArriveLate(o, "emptyUserCart")
  <1> USE DEF Quiet, services, history, local
  <1>1. ASSUME NEW o \in Orders, Cancel(o)
        PROVE  Quiet /\ \A x \in Orders : Onward(x)
    BY <1>1, StaysOnward DEF Cancel
  <1>2. CASE UNCHANGED vars
    BY <1>2, StaysOnward DEF vars
  <1>3. CASE Die
    BY <1>3, DieOnward DEF Die
  <1>4. ASSUME NEW o \in Orders, NEW step \in Steps, Failed(o, step)
        PROVE  Quiet /\ \A x \in Orders : Onward(x)
    BY <1>4, FailedOnward DEF Failed
  <1>5. ASSUME NEW o \in Orders,
               Prepare(o) \/ ShipOrder(o) \/ SendOrderConfirmation(o) \/ SendToPostProcessor(o)
        PROVE  Quiet /\ \A x \in Orders : Onward(x)
    <2>1. CASE Prepare(o)
      BY <2>1, AnsweredOnward DEF Prepare, Answered
    <2>2. CASE ShipOrder(o)
      BY <2>2, AnsweredOnward DEF ShipOrder, Ship, Answered
    <2>3. CASE SendOrderConfirmation(o)
      BY <2>3, AnsweredOnward DEF SendOrderConfirmation, AfterConfirmation, Confirm, Answered
    <2>4. CASE SendToPostProcessor(o)
      <3>1. Quiet /\ late' = late /\ pc[o] = "sendToPostProcessor" /\ pc' = [pc EXCEPT ![o] = "ok"]
        BY <2>4 DEF SendToPostProcessor
      <3> QED BY <3>1 DEF Onward, Running, Steps, Effects, Emptying, TypeOK
    <2> QED BY <1>5, <2>1, <2>2, <2>3, <2>4
  <1>6. ASSUME NEW o \in Orders, ArriveLate(o, "shipOrder") \/ ArriveLate(o, "sendOrderConfirmation")
        PROVE  Quiet /\ \A x \in Orders : Onward(x)
    BY <1>6, StaysOnward DEF ArriveLate, Ship, Confirm, Charge, EmptyCart
  <1> HIDE DEF Quiet
  <1> QED BY <1>1, <1>2, <1>3, <1>4, <1>5, <1>6
          DEF Next, Handle, Panic, Kill, Effects, ClearCart, Expire

\* An order in flight is an order of a user.
LEMMA InFlightIsOfUser ==
    ASSUME TypeOK, IInv, NEW x \in Orders, InFlight(x)
    PROVE  pc[x] # "idle" /\ user[x] \in Users
  BY DEF IInv, Pending, Done, Agree, InFlight, Running, Steps, Effects, TypeOK

\* Orders stay apart when none is placed.
LEMMA ApartStays ==
    ASSUME Apart, UNCHANGED user, overlapped \subseteq overlapped',
           \A x \in Orders : InFlight(x)' => InFlight(x)
    PROVE  Apart'
  BY DEF Apart

LEMMA EmptiesOnceStays ==
    ASSUME NEW x \in Orders, EmptiesOnce(x), Onward(x), x \in emptied' => x \in emptied,
           charged[x] # None => charged'[x] # None
    PROVE  EmptiesOnce(x)'
  BY DEF EmptiesOnce, Onward, Emptying

\* What no payment changes.
LEMMA SameTotals ==
    ASSUME NEW u, UNCHANGED charged, \A x \in Orders : charged[x] # None => user'[x] = user[x]
    PROVE  /\ ChargedOrders(u)' = ChargedOrders(u)
           /\ \A p \in Products : Total(charged', user', u, p) = Total(charged, user, u, p)
  <1>1. ChargedOrders(u)' = ChargedOrders(u)
    BY DEF ChargedOrders
  <1>2. ASSUME NEW p \in Products
        PROVE  Total(charged', user', u, p) = Total(charged, user, u, p)
    <2>1. BillOf(charged', user', u, p) = BillOf(charged, user, u, p)
      BY DEF BillOf
    <2> QED BY <2>1, Zenon DEF Total
  <1> QED BY <1>1, <1>2

\* The books of a user that no payment and no AddItem changes, and whose cart is at most
\* emptied and read.
LEMMA BalancedStays ==
    ASSUME NEW u \in Users, Balanced(u),
           ChargedOrders(u)' = ChargedOrders(u), added'[u] = added[u],
           \A p \in Products : Total(charged', user', u, p) = Total(charged, user, u, p),
           \A x \in ChargedOrders(u) : (MayEmpty(x)' => MayEmpty(x)) /\ (ForGood(x)' => ForGood(x)),
           carts'[u] \in {carts[u], Empty},
           \A a \in Holders(u)' :
               \/ holding'[a].cart = carts[u]
               \/ /\ a \in Holders(u) /\ holding'[a].cart = holding[a].cart
                  /\ missed[a] \subseteq missed'[a],
           \A x \in Orders : Reading(x, u)' =>
               items'[x] = carts[u] \/ (Reading(x, u) /\ items'[x] = items[x])
    PROVE  Balanced(u)'
  <1> DEFINE Holds(c) == \A p \in Products : Total(charged, user, u, p) + c[p] <= added[u][p]
  <1>1. \A c : Fits(c, u) <=> Holds(c)
    BY DEF Fits
  <1>2. /\ Fits(Empty, u)' <=> Holds(Empty)
        /\ Fits(carts[u], u)' <=> Holds(carts'[u])
        /\ \A a : Fits(holding[a].cart, u)' <=> Holds(holding'[a].cart)
        /\ \A x : Fits(items[x], u)' <=> Holds(items'[x])
    BY DEF Fits, Empty
  <1>3. Closing(u)' => Closing(u)
    BY DEF Closing
  <1>4. Settled(u)' => Settled(u)
    BY DEF Settled
  <1>5. Settled(u) => Closing(u)
    BY ForGoodIsMayEmpty DEF Settled, Closing
  <1> HIDE DEF Holds
  <1>6. Closing(u)' => Fits(Empty, u)'
    BY <1>1, <1>2, <1>3 DEF Balanced
  <1>7. Settled(u)' => Fits(carts[u], u)'
    BY <1>1, <1>2, <1>4, <1>5 DEF Balanced
  <1>8. ASSUME Settled(u)', NEW a \in Holders(u)', missed'[a] \cap ChargedOrders(u) = {}
        PROVE  Fits(holding[a].cart, u)'
    BY <1>1, <1>2, <1>4, <1>8 DEF Balanced
  <1>9. ASSUME Settled(u)', NEW x \in Orders, Reading(x, u)'
        PROVE  Fits(items[x], u)'
    BY <1>1, <1>2, <1>4, <1>9 DEF Balanced
  <1> QED BY <1>6, <1>7, <1>8, <1>9 DEF Balanced

LEMMA OnwardMayEmpty ==
    ASSUME NEW x \in Orders, Onward(x), overlapped \subseteq overlapped', undone \subseteq undone',
           x \in emptied' => x \in emptied
    PROVE  (MayEmpty(x)' => MayEmpty(x)) /\ (ForGood(x)' => ForGood(x))
  BY DEF MayEmpty, ForGood, Onward

LEMMA QuietBooks ==
    ASSUME BooksInv, Quiet, \A x \in Orders : Onward(x)
    PROVE  BooksInv'
  <1> USE DEF Quiet
  <1>1. Apart'
    BY ApartStays, OnwardKeepsFlight DEF BooksInv
  <1>2. \A x \in Orders : EmptiesOnce(x)'
    BY EmptiesOnceStays DEF BooksInv
  <1>3. ASSUME NEW u \in Users PROVE Balanced(u)'
    <2>1. \A x \in ChargedOrders(u) : (MayEmpty(x)' => MayEmpty(x)) /\ (ForGood(x)' => ForGood(x))
      BY OnwardMayEmpty DEF ChargedOrders
    <2>2. \A x \in Orders : Reading(x, u)' => Reading(x, u)
      BY DEF Reading, Onward
    <2>3. \A a \in Holders(u)' : a \in Holders(u)
      BY DEF Holders
    <2> QED BY <2>1, <2>2, <2>3, SameTotals, BalancedStays DEF BooksInv
  <1> QED BY <1>1, <1>2, <1>3 DEF BooksInv

\* The calls of the shopper that raise no cart.
LEMMA ShopperBooks ==
    ASSUME TypeOK, BooksInv,
           \/ \E a \in Adders, u \in Users, p \in Products, q \in Quantities : HashGet(a, u, p, q)
           \/ \E a \in Adders : AddItemFails(a)
           \/ \E u \in Users : PutAway(u)
    PROVE  BooksInv'
  <1>1. UNCHANGED <<charged, late, pc, user, items, added, emptied, undone, overlapped>>
    BY DEF HashGet, AddItemFails, PutAway, services, local, history
  <1>2. Apart' /\ \A x \in Orders : EmptiesOnce(x)'
    BY <1>1 DEF BooksInv, Apart, EmptiesOnce, InFlight, Running
  <1>3. ASSUME NEW v \in Users PROVE Balanced(v)'
    <2>1. \A x \in ChargedOrders(v) : (MayEmpty(x)' => MayEmpty(x)) /\ (ForGood(x)' => ForGood(x))
      BY <1>1 DEF MayEmpty, ForGood
    <2>2. \A x \in Orders : Reading(x, v)' => Reading(x, v)
      BY <1>1 DEF Reading
    <2>3. carts'[v] \in {carts[v], Empty}
      BY DEF HashGet, AddItemFails, PutAway, services, TypeOK
    <2>4. ASSUME NEW b \in Holders(v)'
          PROVE  \/ holding'[b].cart = carts[v]
                 \/ /\ b \in Holders(v) /\ holding'[b].cart = holding[b].cart
                    /\ missed[b] \subseteq missed'[b]
      <3>1. b \in Adders /\ holding'[b] # None /\ holding'[b].user = v
        BY <2>4 DEF Holders
      <3>2. CASE \E u \in Users : PutAway(u)
        BY <3>1, <3>2 DEF PutAway, history, Holders
      <3>3. ASSUME NEW a \in Adders, AddItemFails(a)
            PROVE  /\ b \in Holders(v) /\ holding'[b].cart = holding[b].cart
                   /\ missed[b] \subseteq missed'[b]
        <4>1. b # a
          BY <3>1, <3>3 DEF AddItemFails, LetGo, TypeOK
        <4> QED BY <3>1, <3>3, <4>1 DEF AddItemFails, LetGo, Holders, TypeOK
      <3>4. ASSUME NEW a \in Adders, NEW u \in Users, NEW p \in Products, NEW q \in Quantities,
                   HashGet(a, u, p, q)
            PROVE  \/ holding'[b].cart = carts[v]
                   \/ /\ b \in Holders(v) /\ holding'[b].cart = holding[b].cart
                      /\ missed[b] \subseteq missed'[b]
        <4> DEFINE h == [user |-> u, product |-> p, quantity |-> q, cart |-> carts[u]]
        <4>1. holding' = [holding EXCEPT ![a] = h] /\ missed' = missed
          BY <3>4 DEF HashGet, history
        <4>2. h.user = u /\ h.cart = carts[u]
          OBVIOUS
        <4> HIDE DEF h
        <4>3. CASE b = a
          BY <3>1, <4>1, <4>2, <4>3 DEF TypeOK
        <4>4. CASE b # a
          BY <3>1, <4>1, <4>4 DEF Holders, TypeOK
        <4> QED BY <4>3, <4>4
      <3> QED BY <3>2, <3>3, <3>4
    <2> QED BY <1>1, <2>1, <2>2, <2>3, <2>4, SameTotals, BalancedStays DEF BooksInv
  <1> QED BY <1>2, <1>3 DEF BooksInv

\* What an AddItem writes back is what was in the cart once, and the item it was asked for.
LEMMA HashSetBooks ==
    ASSUME TypeOK, BooksInv, NEW a \in Adders, HashSet(a)
    PROVE  BooksInv'
  <1> PICK h : h = holding[a]
    OBVIOUS
  <1> PICK u : u = h.user
    OBVIOUS
  <1>1. /\ UNCHANGED <<charged, late, pc, user, items, emptied, overlapped>>
        /\ undone' = undone \cup missed[a]
        /\ holding' = [holding EXCEPT ![a] = None] /\ missed' = [missed EXCEPT ![a] = {}]
    BY DEF HashSet, LetGo, local
  <1>2. Apart' /\ \A x \in Orders : EmptiesOnce(x)'
    BY <1>1 DEF BooksInv, Apart, EmptiesOnce, InFlight, Running
  <1>3. ASSUME NEW v \in Users
        PROVE  /\ \A x \in ChargedOrders(v) : (MayEmpty(x)' => MayEmpty(x)) /\ (ForGood(x)' => ForGood(x))
               /\ \A x \in Orders : Reading(x, v)' => Reading(x, v)
               /\ \A b \in Holders(v)' : /\ b # a /\ b \in Holders(v)
                                        /\ holding'[b] = holding[b] /\ missed'[b] = missed[b]
    BY <1>1 DEF MayEmpty, ForGood, Reading, Holders, TypeOK
  <1>4. ASSUME NEW v \in Users, v # u PROVE Balanced(v)'
    <2>1. carts'[v] = carts[v] /\ added'[v] = added[v]
      BY <1>4, HashSetStep
    <2> QED BY <1>1, <1>3, <2>1, SameTotals, BalancedStays DEF BooksInv
  <1>5. ASSUME u \in Users PROVE Balanced(u)'
    <2> DEFINE T(p) == Total(charged, user, u, p)
    <2>1. /\ h \in Holdings /\ a \in Holders(u)
          /\ carts'[u] = WithItem(h)
          /\ \A p \in Products : added'[u][p] =
                 IF p = h.product THEN added[u][p] + h.quantity ELSE added[u][p]
      BY HashSetStep
    <2>2. /\ h.quantity \in Nat /\ h.cart \in Contents
          /\ \A p \in Products : WithItem(h)[p] =
                 IF p = h.product THEN h.cart[p] + h.quantity ELSE h.cart[p]
      BY <2>1, ItemType
    <2>3. \A p \in Products : T(p) \in Nat /\ added[u][p] \in Nat /\ h.cart[p] \in Nat
      BY <1>5, <2>2, TotalType DEF TypeOK, Contents
    <2>4. ChargedOrders(u)' = ChargedOrders(u)
          /\ \A p \in Products : Total(charged', user', u, p) = T(p)
      BY <1>1, SameTotals
    <2>5. ASSUME NEW c \in Contents, Fits(c, u)
          PROVE  \A p \in Products : T(p) + c[p] <= added'[u][p]
      <3> SUFFICES ASSUME NEW p \in Products PROVE T(p) + c[p] <= added'[u][p]
        OBVIOUS
      <3>1. T(p) + c[p] <= added[u][p] /\ c[p] \in Nat
        BY <2>5 DEF Fits, Contents
      <3> HIDE DEF T
      <3> QED BY <2>1, <2>2, <2>3, <3>1
    <2>6. ASSUME Fits(h.cart, u)
          PROVE  \A p \in Products : T(p) + carts'[u][p] <= added'[u][p]
      <3> SUFFICES ASSUME NEW p \in Products PROVE T(p) + carts'[u][p] <= added'[u][p]
        OBVIOUS
      <3>1. T(p) + h.cart[p] <= added[u][p]
        BY <2>6 DEF Fits
      <3> HIDE DEF T
      <3> QED BY <2>1, <2>2, <2>3, <3>1
    <2>7. Balanced(u)
      BY <1>5 DEF BooksInv
    <2>8. Closing(u)' => Fits(Empty, u)'
      <3>1. Closing(u)' => Closing(u)
        BY <1>3, <1>5, <2>4 DEF Closing
      <3>2. Closing(u) => \A p \in Products : T(p) + Empty[p] <= added'[u][p]
        BY <2>5, <2>7, EmptyType DEF Balanced
      <3> QED BY <2>4, <3>1, <3>2 DEF Fits, Empty
    <2>9. Settled(u)' => Settled(u) /\ missed[a] \cap ChargedOrders(u) = {}
      <3>1. Settled(u)' => Settled(u)
        BY <1>3, <1>5, <2>4 DEF Settled
      <3>2. Settled(u)' => \A x \in ChargedOrders(u) : x \notin undone'
        BY <2>4 DEF Settled, ForGood
      <3> QED BY <1>1, <3>1, <3>2
    <2>10. Settled(u)' => Fits(carts[u], u)'
      <3>1. Settled(u)' => Fits(h.cart, u)
        BY <2>1, <2>7, <2>9 DEF Balanced
      <3> QED BY <2>4, <2>6, <3>1 DEF Fits
    <2>11. ASSUME Settled(u)', NEW b \in Holders(u)', missed'[b] \cap ChargedOrders(u) = {}
           PROVE  Fits(holding[b].cart, u)'
      <3>1. b \in Holders(u) /\ holding'[b] = holding[b] /\ missed'[b] = missed[b]
        BY <1>3, <1>5, <2>11
      <3>2. Fits(holding[b].cart, u)
        BY <2>7, <2>9, <2>11, <3>1 DEF Balanced
      <3>3. holding[b].cart \in Contents
        BY <3>1, ItemType DEF Holders, TypeOK
      <3>4. \A p \in Products : T(p) + holding[b].cart[p] <= added'[u][p]
        BY <2>5, <3>2, <3>3
      <3> QED BY <2>4, <3>1, <3>4 DEF Fits
    <2>12. ASSUME Settled(u)', NEW x \in Orders, Reading(x, u)'
           PROVE  Fits(items[x], u)'
      <3>1. Fits(items[x], u) /\ items[x] \in Contents /\ items'[x] = items[x]
        BY <1>1, <1>3, <1>5, <2>7, <2>9, <2>12 DEF Balanced, TypeOK
      <3>2. \A p \in Products : T(p) + items[x][p] <= added'[u][p]
        BY <2>5, <3>1
      <3> QED BY <2>4, <3>1, <3>2 DEF Fits
    <2> QED BY <2>4, <2>8, <2>10, <2>11, <2>12 DEF Balanced
  <1>6. \A v \in Users : Balanced(v)'
    BY <1>4, <1>5
  <1> QED BY <1>2, <1>6 DEF BooksInv

LEMMA PlaceOrderBooks ==
    ASSUME TypeOK, IInv, BooksInv, NEW o \in Orders, NEW u \in Users, PlaceOrder(o, u)
    PROVE  BooksInv'
  <1> DEFINE others == {x \in Orders : InFlight(x) /\ user[x] = u}
  <1>1. /\ UNCHANGED <<carts, holding, charged, late, items, added, emptied, missed, undone>>
        /\ pc[o] = "idle" /\ pc' = [pc EXCEPT ![o] = "getUserCart"]
        /\ user' = [user EXCEPT ![o] = u]
    BY DEF PlaceOrder, services
  <1>2. overlapped' = IF others = {} THEN overlapped ELSE overlapped \cup others \cup {o}
    BY DEF PlaceOrder
  <1>3. pc'[o] = "getUserCart" /\ user'[o] = u
        /\ \A x \in Orders : x # o => pc'[x] = pc[x] /\ user'[x] = user[x]
    BY <1>1 DEF TypeOK
  <1>4. \A x \in Orders : x # o => (InFlight(x)' <=> InFlight(x))
    BY <1>1, <1>3 DEF InFlight, Running
  <1>5. overlapped \subseteq overlapped' /\ (others # {} => others \cup {o} \subseteq overlapped')
    BY <1>2
  <1>6. charged[o] = None /\ <<o, "emptyUserCart">> \notin late
    BY <1>1 DEF IInv, Done, Pending, Agree
  <1>7. Apart'
    <2> SUFFICES ASSUME NEW x \in Orders, NEW y \in Orders, x # y, InFlight(x)', InFlight(y)',
                        user'[x] = user'[y]
                 PROVE  x \in overlapped'
      BY DEF Apart
    <2>1. CASE x # o /\ y # o
      BY <1>3, <1>4, <1>5, <2>1 DEF BooksInv, Apart
    <2>2. CASE x = o
      <3>1. y \in others
        BY <1>3, <1>4, <2>2
      <3> QED BY <1>5, <2>2, <3>1
    <2>3. CASE y = o
      <3>1. x \in others
        BY <1>3, <1>4, <2>3
      <3> QED BY <1>5, <3>1
    <2> QED BY <2>1, <2>2, <2>3
  <1>8. \A x \in Orders : EmptiesOnce(x)'
    BY <1>1, <1>3, <1>6 DEF BooksInv, EmptiesOnce
  <1>9. \A x \in Orders : charged[x] # None =>
            /\ user'[x] = user[x]
            /\ MayEmpty(x)' => MayEmpty(x)
            /\ ForGood(x)' => ForGood(x)
    BY <1>1, <1>3, <1>5, <1>6 DEF MayEmpty, ForGood
  <1>10. ASSUME NEW v \in Users PROVE Balanced(v)'
    <2>1. \A x \in Orders : Reading(x, v)' => Reading(x, v)
      BY <1>3, <1>5 DEF Reading
    <2>2. \A b \in Holders(v)' : b \in Holders(v)
      BY <1>1 DEF Holders
    <2>3. \A x \in ChargedOrders(v) : x \in Orders /\ charged[x] # None
      BY DEF ChargedOrders
    <2> QED BY <1>1, <1>9, <2>1, <2>2, <2>3, SameTotals, BalancedStays DEF BooksInv
  <1> QED BY <1>7, <1>8, <1>10 DEF BooksInv

LEMMA GetUserCartBooks ==
    ASSUME TypeOK, IInv, BooksInv, NEW o \in Orders, GetUserCart(o)
    PROVE  BooksInv'
  <1>1. /\ UNCHANGED <<carts, holding, charged, late, user, added, emptied, missed, undone, overlapped>>
        /\ pc[o] = "getUserCart" /\ pc' = [pc EXCEPT ![o] = "prepare"]
        /\ items' = [items EXCEPT ![o] = carts[user[o]]]
    BY DEF GetUserCart, Answered, services
  <1>2. /\ pc'[o] = "prepare" /\ items'[o] = carts[user[o]]
        /\ \A x \in Orders : x # o => pc'[x] = pc[x] /\ items'[x] = items[x]
    BY <1>1 DEF TypeOK
  <1>3. Running(o) /\ charged[o] = None
    BY <1>1 DEF IInv, Done, Running, Steps
  <1>4. Apart'
    BY <1>1, <1>2, <1>3, ApartStays DEF BooksInv, InFlight, Running
  <1>5. \A x \in Orders : EmptiesOnce(x)'
    BY <1>1, <1>2 DEF BooksInv, EmptiesOnce, Emptying
  <1>6. ASSUME NEW v \in Users PROVE Balanced(v)'
    <2>1. \A x \in ChargedOrders(v) : (MayEmpty(x)' => MayEmpty(x)) /\ (ForGood(x)' => ForGood(x))
      BY <1>1, <1>2, <1>3 DEF MayEmpty, ForGood, ChargedOrders
    <2>2. \A x \in Orders : Reading(x, v)' =>
              items'[x] = carts[v] \/ (Reading(x, v) /\ items'[x] = items[x])
      BY <1>1, <1>2 DEF Reading
    <2>3. \A b \in Holders(v)' : b \in Holders(v)
      BY <1>1 DEF Holders
    <2> QED BY <1>1, <2>1, <2>2, <2>3, SameTotals, BalancedStays DEF BooksInv
  <1> QED BY <1>4, <1>5, <1>6 DEF BooksInv

LEMMA SumOfOrdersChangesAt ==
    ASSUME NEW f, NEW e, NEW o \in Orders, \A y \in Orders : f[y] \in Int,
           \A y \in Orders : e[y] \in Int, \A y \in Orders \ {o} : f[y] = e[y]
    PROVE  SumOver(e, Orders) = SumOver(f, Orders) - f[o] + e[o]
  BY SumChangesAt, CheckoutAssumption

\* What a payment adds to the total of its user.
LEMMA TotalOfCharge ==
    ASSUME TypeOK, TypeOK', NEW o \in Orders, charged[o] = None,
           charged' = [charged EXCEPT ![o] = items[o]], UNCHANGED user, NEW p \in Products
    PROVE  /\ Total(charged', user, user[o], p) = Total(charged, user, user[o], p) + items[o][p]
           /\ \A u : u # user[o] => Total(charged', user, u, p) = Total(charged, user, u, p)
  <1>1. items[o] \in Contents /\ items[o] # None
    BY NoneAssumption DEF TypeOK
  <1>2. charged'[o] = items[o] /\ \A x \in Orders : x # o => charged'[x] = charged[x]
    BY DEF TypeOK
  <1>3. ASSUME NEW u, u # user[o]
        PROVE  Total(charged', user, u, p) = Total(charged, user, u, p)
    <2>1. BillOf(charged', user, u, p) = BillOf(charged, user, u, p)
      BY <1>2, <1>3 DEF BillOf
    <2> QED BY <2>1, Zenon DEF Total
  <1> DEFINE u == user[o]
             f == BillOf(charged, user, u, p)
             e == BillOf(charged', user, u, p)
  <1>4. /\ \A y \in Orders : f[y] \in Int
        /\ \A y \in Orders : e[y] \in Int
    <2>1. \A y \in Orders : f[y] \in Nat
      BY BillType
    <2>2. \A y \in Orders : e[y] \in Nat
      BY DEF BillOf, TypeOK, Contents
    <2>3. \A n : n \in Nat => n \in Int
      OBVIOUS
    <2> QED BY <2>1, <2>2, <2>3, Zenon
  <1>5. f[o] = 0 /\ e[o] = items[o][p] /\ \A y \in Orders \ {o} : f[y] = e[y]
    BY <1>1, <1>2 DEF BillOf
  <1>6. SumOver(e, Orders) = SumOver(f, Orders) - f[o] + e[o]
    <2> HIDE DEF e, f
    <2> QED BY <1>4, <1>5, SumOfOrdersChangesAt, Zenon
  <1>7. SumOver(f, Orders) \in Int
    <2> HIDE DEF e, f
    <2> QED BY <1>4, SumIsInt, CheckoutAssumption
  <1>8. items[o][p] \in Nat
    BY <1>1 DEF Contents
  <1> HIDE DEF f, e
  <1>9. SumOver(e, Orders) = SumOver(f, Orders) + items[o][p]
    BY <1>5, <1>6, <1>7, <1>8
  <1> QED BY <1>3, <1>9 DEF Total, f, e

\* The books of a user who is not charged.
LEMMA OthersBalanced ==
    ASSUME TypeOK, TypeOK', BooksInv, NEW o \in Orders, charged[o] = None,
           charged' = [charged EXCEPT ![o] = items[o]],
           UNCHANGED <<carts, holding, user, items, added, emptied, missed, undone, overlapped>>,
           \A x \in Orders : x # o => Onward(x), NEW u \in Users, u # user[o]
    PROVE  Balanced(u)'
  <1>1. ChargedOrders(u)' = ChargedOrders(u) /\ o \notin ChargedOrders(u)
    BY DEF ChargedOrders, TypeOK
  <1>2. \A x \in ChargedOrders(u) : (MayEmpty(x)' => MayEmpty(x)) /\ (ForGood(x)' => ForGood(x))
    BY <1>1, OnwardMayEmpty DEF ChargedOrders
  <1>3. \A p \in Products : Total(charged', user', u, p) = Total(charged, user, u, p)
    BY TotalOfCharge
  <1>4. \A x \in Orders : Reading(x, u)' => Reading(x, u)
    BY DEF Reading, Onward
  <1>5. \A b \in Holders(u)' : b \in Holders(u)
    BY DEF Holders
  <1> QED BY <1>1, <1>2, <1>3, <1>4, <1>5, BalancedStays DEF BooksInv

LEMMA ChargeCardBooks ==
    ASSUME TypeOK, IInv, TypeOK', BooksInv, NEW o \in Orders, ChargeCard(o)
    PROVE  BooksInv'
  <1>1. /\ UNCHANGED <<carts, holding, late, user, items, added, emptied, missed, undone, overlapped>>
        /\ pc[o] = "chargeCard" /\ pc' = [pc EXCEPT ![o] = "shipOrder"]
        /\ charged' = [charged EXCEPT ![o] = items[o]]
    BY DEF ChargeCard, Answered, Charge, history
  <1>2. pc'[o] = "shipOrder" /\ \A x \in Orders : x # o => pc'[x] = pc[x]
    BY <1>1 DEF TypeOK
  <1>3. /\ InFlight(o) /\ charged[o] = None /\ user[o] \in Users
        /\ o \notin emptied /\ <<o, "emptyUserCart">> \notin late
    BY <1>1 DEF IInv, Done, BooksInv, EmptiesOnce, Emptying, InFlight, Running, Steps, Effects, TypeOK
  <1>4. \A x \in Orders : x # o => Onward(x)
    BY <1>1, <1>2, StaysOnward
  <1>5. Apart'
    BY <1>1, <1>2, <1>3, ApartStays DEF BooksInv, InFlight, Running
  <1>6. \A x \in Orders : EmptiesOnce(x)'
    <2> TAKE x \in Orders
    <2>1. EmptiesOnce(x)
      BY DEF BooksInv
    <2>2. CASE x = o
      BY <1>1, <1>2, <1>3, <2>2 DEF EmptiesOnce
    <2>3. CASE x # o
      <3>1. charged'[x] = charged[x]
        BY <1>1, <2>3 DEF TypeOK
      <3> QED BY <1>1, <1>2, <2>1, <2>3, <3>1 DEF EmptiesOnce
    <2> QED BY <2>2, <2>3
  <1>7. Balanced(user[o])'
    <2> DEFINE u == user[o]
    <2>1. items[o] # None /\ ChargedOrders(u)' = ChargedOrders(u) \cup {o} /\ o \notin ChargedOrders(u)
      BY <1>1, <1>3, NoneAssumption DEF ChargedOrders, TypeOK
    <2>2. ~Settled(u)'
      BY <1>1, <1>3, <2>1 DEF Settled, ForGood
    <2> SUFFICES ASSUME \A x \in ChargedOrders(u) \cup {o} : MayEmpty(x)', NEW p \in Products
                 PROVE  Total(charged', user, u, p) + Empty[p] <= added[u][p]
      BY <1>1, <2>1, <2>2 DEF Balanced, Closing, Fits, Empty
    <2>3. o \notin overlapped
      BY <1>1 DEF MayEmpty
    <2>4. \A x \in ChargedOrders(u) : MayEmpty(x)
      BY <1>1, <1>4, <2>1, OnwardMayEmpty DEF ChargedOrders
    <2>5. Settled(u)
      <3> SUFFICES ASSUME NEW x \in ChargedOrders(u), ~ForGood(x) PROVE FALSE
        BY DEF Settled
      <3>1. InFlight(x)
        BY <2>4 DEF MayEmpty, ForGood, InFlight, Running, Steps, Effects
      <3>2. x \in Orders /\ user[x] = user[o] /\ x # o
        BY <2>1 DEF ChargedOrders
      <3> QED BY <1>3, <2>3, <3>1, <3>2 DEF BooksInv, Apart
    <2>6. Total(charged, user, u, p) + items[o][p] <= added[u][p]
      BY <1>1, <1>3, <2>3, <2>5 DEF BooksInv, Balanced, Fits, Reading
    <2>7. Total(charged', user, u, p) = Total(charged, user, u, p) + items[o][p]
      BY <1>1, <1>3, TotalOfCharge
    <2>8. /\ items[o][p] \in Nat /\ added[u][p] \in Nat /\ Empty[p] = 0
          /\ Total(charged, user, u, p) \in Nat
      BY <1>3, TotalType DEF TypeOK, Contents, Empty
    <2> HIDE DEF u
    <2> QED BY <2>6, <2>7, <2>8
  <1>8. \A u \in Users : Balanced(u)'
    BY <1>1, <1>3, <1>4, <1>7, OthersBalanced
  <1> QED BY <1>5, <1>6, <1>8 DEF BooksInv

\* A payment that was given up on belongs to an order that ended: it empties no cart, and the
\* books of its user are closed.
LEMMA LateChargeBooks ==
    ASSUME TypeOK, IInv, TypeOK', BooksInv, NEW o \in Orders, ArriveLate(o, "chargeCard")
    PROVE  BooksInv'
  <1>1. /\ UNCHANGED <<carts, holding, pc, user, items, added, emptied, missed, undone, overlapped>>
        /\ <<o, "chargeCard">> \in late /\ late' = late \ {<<o, "chargeCard">>}
        /\ charged' = [charged EXCEPT ![o] = items[o]]
    BY DEF ArriveLate, Charge, history, local
  <1>2. \A x \in Orders : Onward(x)
    BY <1>1, StaysOnward
  <1>3. /\ charged[o] = None /\ pc[o] \in {"Internal", "lost"}
        /\ o \notin emptied /\ <<o, "emptyUserCart">> \notin late
    BY <1>1 DEF IInv, Pending, Agree, BooksInv, EmptiesOnce
  <1>4. Apart'
    BY <1>1, <1>2, ApartStays, OnwardKeepsFlight DEF BooksInv
  <1>5. \A x \in Orders : EmptiesOnce(x)'
    <2> TAKE x \in Orders
    <2>1. EmptiesOnce(x)
      BY DEF BooksInv
    <2>2. charged[x] # None => charged'[x] # None
      BY <1>1, <1>3 DEF TypeOK
    <2> QED BY <1>1, <1>2, <2>1, <2>2, EmptiesOnceStays
  <1>6. Balanced(user[o])'
    <2>1. o \in ChargedOrders(user[o])'
      BY <1>1, NoneAssumption DEF ChargedOrders, TypeOK
    <2>2. ~MayEmpty(o)' /\ ~ForGood(o)'
      BY <1>1, <1>3 DEF MayEmpty, ForGood
    <2> QED BY <1>1, <2>1, <2>2 DEF Balanced, Closing, Settled
  <1>7. \A u \in Users : Balanced(u)'
    BY <1>1, <1>2, <1>3, <1>6, OthersBalanced
  <1> QED BY <1>4, <1>5, <1>7 DEF BooksInv

LEMMA EmptyCartBooks ==
    ASSUME TypeOK, IInv, BooksInv, NEW o \in Orders,
           EmptyUserCart(o) \/ ArriveLate(o, "emptyUserCart")
    PROVE  BooksInv'
  <1> PICK u : u = user[o]
    OBVIOUS
  <1>1. /\ UNCHANGED <<charged, holding, user, items, added, undone, overlapped>>
        /\ carts' = [carts EXCEPT ![u] = Empty] /\ emptied' = emptied \cup {o}
        /\ missed' = [a \in Adders |-> IF a \in Holders(u) THEN missed[a] \cup {o} ELSE missed[a]]
    BY DEF EmptyUserCart, ArriveLate, Charge, Ship, EmptyCart, Confirm, Answered, local, NoteMissed
  <1>2. \/ pc[o] = "emptyUserCart" /\ late' = late /\ pc' = [pc EXCEPT ![o] = "sendOrderConfirmation"]
        \/ pc' = pc /\ <<o, "emptyUserCart">> \in late /\ late' = late \ {<<o, "emptyUserCart">>}
    BY DEF EmptyUserCart, ArriveLate, Answered, local
  <1>3. \A x \in Orders : Onward(x)
    <2>1. CASE EmptyUserCart(o)
      BY <2>1, AnsweredOnward DEF EmptyUserCart
    <2>2. CASE ArriveLate(o, "emptyUserCart")
      BY <2>2, StaysOnward DEF ArriveLate, local
    <2> QED BY <2>1, <2>2
  <1>4. InFlight(o) /\ o \notin emptied /\ charged[o] # None
    BY <1>2 DEF IInv, Agree, Done, Pending, BooksInv, EmptiesOnce, Emptying, InFlight, Running,
                Steps, Effects
  <1>5. u \in Users /\ pc'[o] \in Emptying /\ <<o, "emptyUserCart">> \notin late'
    BY <1>2, <1>4, InFlightIsOfUser DEF BooksInv, EmptiesOnce, Emptying, TypeOK
  <1>6. carts'[u] = Empty /\ \A v \in Users : v # u => carts'[v] = carts[v]
    BY <1>1, <1>5 DEF TypeOK
  <1>7. Apart'
    BY <1>1, <1>3, ApartStays, OnwardKeepsFlight DEF BooksInv
  <1>8. \A x \in Orders : EmptiesOnce(x)'
    <2> TAKE x \in Orders
    <2>1. CASE x = o
      BY <1>1, <1>4, <1>5, <2>1 DEF EmptiesOnce
    <2>2. CASE x # o
      BY <1>1, <1>3, <2>2, EmptiesOnceStays DEF BooksInv
    <2> QED BY <2>1, <2>2
  <1>9. ASSUME NEW v \in Users, v # u PROVE Balanced(v)'
    <2>1. \A x \in ChargedOrders(v) : x # o /\ x \in Orders
      BY <1>9 DEF ChargedOrders
    <2>2. \A x \in ChargedOrders(v) : (MayEmpty(x)' => MayEmpty(x)) /\ (ForGood(x)' => ForGood(x))
      BY <1>1, <1>3, <2>1, OnwardMayEmpty
    <2>3. carts'[v] = carts[v]
      BY <1>6, <1>9
    <2>4. \A x \in Orders : Reading(x, v)' => Reading(x, v)
      BY <1>1, <1>3 DEF Reading, Onward
    <2>5. \A b \in Holders(v)' : b \in Holders(v) /\ missed[b] \subseteq missed'[b]
      BY <1>1 DEF Holders
    <2> QED BY <1>1, <2>2, <2>3, <2>4, <2>5, SameTotals, BalancedStays DEF BooksInv
  <1>10. Balanced(u)'
    <2>1. /\ ChargedOrders(u)' = ChargedOrders(u) /\ o \in ChargedOrders(u)
          /\ \A p \in Products : Total(charged', user', u, p) = Total(charged, user, u, p)
      BY <1>1, <1>4, SameTotals DEF ChargedOrders
    <2>2. Closing(u)' => Closing(u)
      <3> SUFFICES ASSUME Closing(u)', NEW x \in ChargedOrders(u) PROVE MayEmpty(x)
        BY DEF Closing
      <3>1. MayEmpty(x)'
        BY <2>1 DEF Closing
      <3>2. CASE x = o
        BY <1>1, <1>2, <3>1, <3>2 DEF MayEmpty
      <3>3. CASE x # o
        BY <1>1, <1>3, <3>1, <3>3, OnwardMayEmpty DEF ChargedOrders
      <3> QED BY <3>2, <3>3
    <2>3. Closing(u)' => Fits(Empty, u)'
      BY <1>1, <1>5, <2>1, <2>2 DEF BooksInv, Balanced, Fits, Empty
    <2>4. Settled(u)' => Closing(u)'
      BY ForGoodIsMayEmpty DEF Settled, Closing, ForGood, MayEmpty
    <2>5. Settled(u)' => Fits(carts[u], u)'
      BY <1>6, <2>3, <2>4 DEF Fits, Empty
    <2>6. \A b \in Holders(u)' : o \in missed'[b] \cap ChargedOrders(u)'
      BY <1>1, <2>1 DEF Holders
    <2>7. Settled(u)' => \A x \in Orders : ~Reading(x, u)'
      <3> SUFFICES ASSUME Settled(u)', NEW x \in Orders, Reading(x, u)' PROVE FALSE
        OBVIOUS
      <3>1. pc[x] \in {"prepare", "chargeCard"} /\ InFlight(x) /\ x # o /\ user[x] = u
            /\ x \notin overlapped
        BY <1>1, <1>3, <1>5 DEF Reading, Onward, InFlight, Running, Steps, Effects, Emptying
      <3> QED BY <1>4, <3>1 DEF BooksInv, Apart
    <2> QED BY <2>3, <2>5, <2>6, <2>7 DEF Balanced
  <1>11. \A v \in Users : Balanced(v)'
    BY <1>9, <1>10
  <1> QED BY <1>7, <1>8, <1>11 DEF BooksInv

LEMMA NextBooks == TypeOK /\ IInv /\ BooksInv /\ [Next]_vars => BooksInv'
  <1> SUFFICES ASSUME TypeOK, IInv, BooksInv, [Next]_vars PROVE BooksInv'
    OBVIOUS
  <1>1. TypeOK'
    BY NextType
  <1> QED BY <1>1, StepKinds, QuietBooks, ShopperBooks, HashSetBooks, PlaceOrderBooks,
             GetUserCartBooks, ChargeCardBooks, LateChargeBooks, EmptyCartBooks

LEMMA BooksKept == Spec => [](TypeOK /\ IInv /\ BooksInv)
  <1>1. Init => BooksInv
    BY InitBooks
  <1>2. TypeOK /\ IInv /\ BooksInv /\ [Next]_vars => BooksInv'
    BY NextBooks
  <1> QED BY <1>1, <1>2, Invariant, PTL DEF Spec

\* A shopper whose orders do not overlap, each of which empties the cart for good, no AddItem
\* that had read it before writing it back, is never charged twice for a piece she put in the
\* cart once: whatever fails, comes late, is cancelled or dies, and however AddItems interleave.
THEOREM NothingIsChargedTwice == Spec => []ChargedOnce
  <1>1. TypeOK /\ BooksInv => ChargedOnce
    BY BooksAreEnough
  <1> QED BY <1>1, BooksKept, PTL

----------------------------------------------------------------------------
(* What a cart loses                                                       *)

(* An AddItem that no other has overtaken writes back no less than there   *)
(* is: since it read the cart, the cart has only been emptied.             *)
Current(a) ==
    holding[a] # None /\ a \notin overtaken =>
        \A p \in Products : carts[holding[a].user][p] <= holding[a].cart[p]

AllCurrent == \A a \in Adders : Current(a)

\* What steps do to carts and to the AddItems that hold one.
LEMMA CartSteps ==
    ASSUME TypeOK, IInv, BooksInv, [Next]_vars
    PROVE  \/ UNCHANGED <<carts, holding, overtaken>>
           \/ \E o \in Orders : /\ EmptyCart(o) /\ WillEmpty(o) /\ shipped[o] # None
                               /\ o \notin emptied
           \/ \E u \in Users : ClearCart(u) \/ Expire(u)
           \/ \E a \in Adders : HashSet(a) \/ AddItemFails(a)
           \/ \E a \in Adders, u \in Users, p \in Products, q \in Quantities : HashGet(a, u, p, q)
  <1> USE DEF services, history
  <1>1. ASSUME NEW o \in Orders, Handle(o)
        PROVE  (EmptyCart(o) /\ pc[o] = "emptyUserCart") \/ UNCHANGED <<carts, holding, overtaken>>
    BY <1>1 DEF Handle, GetUserCart, Prepare, ChargeCard, ShipOrder, EmptyUserCart,
                SendOrderConfirmation, SendToPostProcessor, Panic, Failed, Die,
                Answered, Charge, Ship, Confirm
  <1>2. ASSUME NEW o \in Orders, NEW step \in Effects, ArriveLate(o, step)
        PROVE  \/ EmptyCart(o) /\ <<o, "emptyUserCart">> \in late
               \/ UNCHANGED <<carts, holding, overtaken>>
    BY <1>2 DEF ArriveLate, Charge, Ship, Confirm
  <1>3. ASSUME NEW o \in Orders, Cancel(o) \/ \E v \in Users : PlaceOrder(o, v)
        PROVE  UNCHANGED <<carts, holding, overtaken>>
    BY <1>3 DEF Cancel, PlaceOrder
  <1>4. Kill \/ UNCHANGED vars => UNCHANGED <<carts, holding, overtaken>>
    BY DEF Kill, Die, vars
  <1>5. ASSUME NEW o \in Orders, EmptyCart(o),
               pc[o] = "emptyUserCart" \/ <<o, "emptyUserCart">> \in late
        PROVE  EmptyCart(o) /\ WillEmpty(o) /\ shipped[o] # None /\ o \notin emptied
    BY <1>5 DEF IInv, Done, Pending, WillEmpty, BooksInv, EmptiesOnce, Emptying
  <1> QED BY <1>1, <1>2, <1>3, <1>4, <1>5 DEF Next

LEMMA NextCurrent == TypeOK /\ TypeOK' /\ IInv /\ BooksInv /\ AllCurrent /\ [Next]_vars => AllCurrent'
  <1> SUFFICES ASSUME TypeOK, TypeOK', IInv, BooksInv, AllCurrent, [Next]_vars, NEW b \in Adders
               PROVE  Current(b)'
    BY DEF AllCurrent
  <1>1. Current(b)
    BY DEF AllCurrent
  <1>2. holding[b] # None => holding[b].user \in Users /\ holding[b].cart \in Contents
    BY ItemType DEF TypeOK
  <1>3. ASSUME NEW u \in Users, carts' = [carts EXCEPT ![u] = Empty], UNCHANGED <<holding, overtaken>>
        PROVE  Current(b)'
    <2> SUFFICES ASSUME holding[b] # None, b \notin overtaken, NEW p \in Products
                 PROVE  carts'[holding[b].user][p] <= holding[b].cart[p]
      BY <1>3 DEF Current
    <2>1. carts'[holding[b].user] \in {Empty, carts[holding[b].user]}
      BY <1>2, <1>3 DEF TypeOK
    <2>2. Empty[p] = 0 /\ holding[b].cart[p] \in Nat
      BY <1>2 DEF Empty, Contents
    <2> QED BY <1>1, <2>1, <2>2 DEF Current
  <1>4. CASE UNCHANGED <<carts, holding, overtaken>>
    BY <1>1, <1>4 DEF Current
  <1>5. ASSUME NEW o \in Orders, EmptyCart(o), WillEmpty(o)
        PROVE  Current(b)'
    <2>1. user[o] \in Users
      BY <1>5 DEF IInv, Pending, Done, Agree, WillEmpty, TypeOK
    <2> QED BY <1>3, <1>5, <2>1 DEF EmptyCart
  <1>6. ASSUME NEW u \in Users, ClearCart(u) \/ Expire(u)
        PROVE  Current(b)'
    BY <1>3, <1>6 DEF ClearCart, Expire, PutAway, history
  <1>7. ASSUME NEW a \in Adders, HashSet(a)
        PROVE  Current(b)'
    <2>1. holding' = [holding EXCEPT ![a] = None] /\ overtaken' = (overtaken \cup Holders(holding[a].user)) \ {a}
      BY <1>7 DEF HashSet, LetGo
    <2>2. CASE b = a
      BY <2>1, <2>2 DEF Current, TypeOK
    <2>3. CASE b # a
      <3> SUFFICES ASSUME holding[b] # None, b \notin overtaken, b \notin Holders(holding[a].user),
                          NEW p \in Products
                   PROVE  carts'[holding[b].user][p] <= holding[b].cart[p]
        BY <2>1, <2>3 DEF Current, TypeOK
      <3>1. holding[b].user # holding[a].user
        BY DEF Holders
      <3>2. carts'[holding[b].user] = carts[holding[b].user]
        BY <1>2, <1>7, <3>1, HashSetStep
      <3> QED BY <1>1, <3>2 DEF Current
    <2> QED BY <2>2, <2>3
  <1>8. ASSUME NEW a \in Adders, AddItemFails(a)
        PROVE  Current(b)'
    <2>1. holding' = [holding EXCEPT ![a] = None] /\ overtaken' = overtaken \ {a} /\ carts' = carts
      BY <1>8 DEF AddItemFails, LetGo, services
    <2> QED BY <1>1, <2>1 DEF Current, TypeOK
  <1>9. ASSUME NEW a \in Adders, NEW u \in Users, NEW p \in Products, NEW q \in Quantities,
               HashGet(a, u, p, q)
        PROVE  Current(b)'
    <2> DEFINE h == [user |-> u, product |-> p, quantity |-> q, cart |-> carts[u]]
    <2>1. holding' = [holding EXCEPT ![a] = h] /\ overtaken' = overtaken /\ carts' = carts
      BY <1>9 DEF HashGet, services, history
    <2>2. CASE b = a
      <3>1. holding'[b] = h
        BY <2>1, <2>2 DEF TypeOK
      <3>2. \A r \in Products : carts[u][r] \in Nat
        BY DEF TypeOK, Contents
      <3>3. h.user = u /\ h.cart = carts[u]
        OBVIOUS
      <3> HIDE DEF h
      <3> QED BY <2>1, <3>1, <3>2, <3>3 DEF Current
    <2>3. CASE b # a
      BY <1>1, <2>1, <2>3 DEF Current, TypeOK
    <2> QED BY <2>2, <2>3
  <1> QED BY <1>4, <1>5, <1>6, <1>7, <1>8, <1>9, CartSteps

\* What a cart loses is taken by the shopper, by the hour, by an AddItem that another one
\* overtook, or by an order that shipped, and by that no more than it shipped and AddItems
\* put in since: whatever AddItems, orders, failures and late calls interleave.
THEOREM LossesHaveCauses == Spec => EveryLossHasACause
  <1>1. ASSUME TypeOK, IInv, BooksInv, AllCurrent, TypeOK', [Next]_vars, NEW u \in Users, NEW p \in Products,
               carts'[u][p] < carts[u][p]
        PROVE  \/ ClearCart(u) \/ Expire(u)
               \/ \E a \in overtaken : holding[a].user = u /\ HashSet(a)
               \/ \E o \in emptied' \ emptied :
                      /\ user[o] = u /\ shipped[o] # None
                      /\ carts[u][p] <= shipped[o][p] + grown[o][p]
    <2>1. carts[u][p] \in Nat /\ carts'[u][p] \in Nat
      BY <1>1 DEF TypeOK, Contents
    <2>2. carts'[u] # carts[u]
      BY <1>1, <2>1
    <2>3. ASSUME NEW o \in Orders, EmptyCart(o), WillEmpty(o), shipped[o] # None, o \notin emptied
          PROVE  \E x \in emptied' \ emptied :
                    /\ user[x] = u /\ shipped[x] # None
                    /\ carts[u][p] <= shipped[x][p] + grown[x][p]
      <3>1. carts' = [carts EXCEPT ![user[o]] = Empty] /\ o \in emptied'
        BY <2>3 DEF EmptyCart
      <3>2. user[o] = u
        BY <1>1, <2>2, <3>1 DEF TypeOK
      <3>3. shipped[o] = items[o]
        BY <1>1, <2>3 DEF IInv, Agree
      <3>4. carts[u][p] <= items[o][p] + grown[o][p]
        BY <1>1, <2>3, <3>2 DEF IInv, Covered
      <3> QED BY <2>3, <3>1, <3>2, <3>3, <3>4
    <2>4. ASSUME NEW v \in Users, ClearCart(v) \/ Expire(v)
          PROVE  ClearCart(u) \/ Expire(u)
      <3>1. carts' = [carts EXCEPT ![v] = Empty]
        BY <2>4 DEF ClearCart, Expire, PutAway
      <3>2. u = v
        BY <1>1, <2>2, <3>1 DEF TypeOK
      <3> QED BY <2>4, <3>2
    <2>5. ASSUME NEW a \in Adders, HashSet(a)
          PROVE  a \in overtaken /\ holding[a].user = u
      <3> DEFINE h == holding[a]
      <3>1. /\ h \in Holdings /\ carts'[h.user] = WithItem(h)
            /\ \A v \in Users : v # h.user => carts'[v] = carts[v]
        BY <1>1, <2>5, HashSetStep
      <3>2. h.user = u
        BY <2>2, <3>1
      <3>3. /\ h.cart[p] \in Nat /\ h.quantity \in Nat
            /\ carts'[u][p] = IF p = h.product THEN h.cart[p] + h.quantity ELSE h.cart[p]
        BY <3>1, <3>2, ItemType DEF Contents
      <3>4. h.cart[p] < carts[u][p]
        <4> HIDE DEF h
        <4> QED BY <1>1, <2>1, <3>3
      <3>5. ~(carts[u][p] <= h.cart[p])
        BY <2>1, <3>3, <3>4
      <3>6. h # None
        BY <2>5 DEF HashSet
      <3> QED BY <1>1, <3>2, <3>5, <3>6 DEF AllCurrent, Current
    <2>6. CASE \E a \in Adders : AddItemFails(a)
      BY <2>2, <2>6 DEF AddItemFails, services
    <2>7. CASE \E a \in Adders, v \in Users, r \in Products, q \in Quantities : HashGet(a, v, r, q)
      BY <2>2, <2>7 DEF HashGet, services
    <2> QED BY <1>1, <2>2, <2>3, <2>4, <2>5, <2>6, <2>7, CartSteps
  <1>2. Init => AllCurrent
    BY DEF Init, AllCurrent, Current
  <1>3. TypeOK /\ IInv /\ BooksInv /\ AllCurrent /\ TypeOK' /\ [Next]_vars =>
            [\A u \in Users, p \in Products :
                 carts'[u][p] < carts[u][p] =>
                     \/ ClearCart(u) \/ Expire(u)
                     \/ \E a \in overtaken : holding[a].user = u /\ HashSet(a)
                     \/ \E o \in emptied' \ emptied :
                            /\ user[o] = u /\ shipped[o] # None
                            /\ carts[u][p] <= shipped[o][p] + grown[o][p]]_vars
    BY <1>1
  <1> QED BY <1>2, <1>3, NextCurrent, BooksKept, PTL DEF Spec, EveryLossHasACause
=============================================================================
