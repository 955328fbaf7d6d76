------------------------------ MODULE Checkout ------------------------------
(***************************************************************************)
(* The checkout service (src/checkout/main.go): PlaceOrder as the saga it  *)
(* is, one action per remote call.  Several orders run at once in one Go   *)
(* process, over the cart, shipping, payment and email services and the    *)
(* orders topic.  A call that fails may still take effect, at once or much *)
(* later; the caller may cancel; the process may die between any two calls *)
(* and does when it publishes without a producer.  Meanwhile the shopper's *)
(* own calls work on the cart: AddItem reads it and writes it back later.  *)
(***************************************************************************)
EXTENDS Naturals, FiniteSetsExt

CONSTANTS Users, Products,
          Orders,           \* calls of PlaceOrder
          Adders,           \* handlers of AddItem
          Quantities,       \* quantities an AddItem may ask for
          MaxAdds,          \* bound: an AddItem starts only below so many pieces added
          KafkaConfigured,  \* KAFKA_ADDR is set
          None, NoUser

ASSUME CheckoutAssumption ==
    /\ MaxAdds \in Nat
    /\ Quantities \subseteq Nat \ {0}
    /\ KafkaConfigured \in BOOLEAN
    /\ IsFiniteSet(Orders) /\ IsFiniteSet(Users)

\* Quantities per product: a cart, the goods of an order.
Contents == [Products -> Nat]
Goods    == {c \in Contents : \E p \in Products : c[p] > 0}

\* What an AddItem has been asked for, and the cart it has read.
Holdings == [user : Users, product : Products, quantity : Quantities, cart : Contents]

ASSUME NoneAssumption == None \notin Contents \cup Holdings /\ NoUser \notin Users

VARIABLES carts,      \* the cart service: carts[u]
          holding,    \* holding[a]: what AddItem handler a is to write
          charged,    \* the payment service: what order o was charged for
          shipped,    \* the shipping service: what was shipped for o
          emailed,    \* the email service: orders confirmed
          published,  \* the orders topic: what the message of o lists
          late,       \* failed calls that may still take effect
          pc,         \* pc[o]: the next call of PlaceOrder, or how it ended
          user,       \* user[o]: req.UserId
          items,      \* items[o]: prep.cartItems
          cancelled,  \* orders whose context is done
          producer,   \* KafkaProducerClient is not nil
          \* History, for the properties only:
          added,      \* added[u][p]: pieces ever put in u's cart
          grown,      \* grown[o][p]: by how much AddItems raised the cart o has read
          emptied,    \* orders whose EmptyCart took effect
          missed,     \* missed[a]: orders that emptied the cart after a read it
          undone,     \* orders that such a handler wrote the cart back after
          overtaken,  \* handlers that hold a cart another AddItem has written to
          overlapped  \* orders in flight together with another one of the user

services == <<carts, charged, shipped, emailed, published>>
local    == <<pc, user, items, cancelled, producer>>
history  == <<added, grown, emptied, missed, undone, overtaken, overlapped>>
vars     == <<services, holding, late, local, history>>

\* The calls that change something at the service they go to.
Effects == {"chargeCard", "shipOrder", "emptyUserCart", "sendOrderConfirmation"}
Steps   == Effects \cup {"getUserCart", "prepare", "sendToPostProcessor"}

\* status.Errorf(codes.Internal), status.Errorf(codes.Unavailable), no answer.
Ended   == {"ok", "Internal", "Unavailable", "lost"}

Running(o) == pc[o] \in Steps

\* The order may still read or empty the cart.
InFlight(o) == Running(o) \/ <<o, "emptyUserCart">> \in late

\* The order has read the cart and may still empty it.
WillEmpty(o) ==
    \/ pc[o] \in {"prepare", "chargeCard", "shipOrder", "emptyUserCart"}
    \/ <<o, "emptyUserCart">> \in late

\* The AddItem handlers that have read the cart of u.
Holders(u) == {a \in Adders : holding[a] # None /\ holding[a].user = u}

Empty == [p \in Products |-> 0]

\* The services and the handlers hold contents: no quantity is negative.
TypeOK ==
    /\ carts \in [Users -> Contents]
    /\ holding \in [Adders -> Holdings \cup {None}]
    /\ charged \in [Orders -> Contents \cup {None}]
    /\ shipped \in [Orders -> Contents \cup {None}]
    /\ emailed \subseteq Orders
    /\ published \in [Orders -> Contents \cup {None}]
    /\ late \subseteq Orders \X Effects
    /\ pc \in [Orders -> {"idle"} \cup Steps \cup Ended]
    /\ user \in [Orders -> Users \cup {NoUser}]
    /\ \A o \in Orders : pc[o] # "idle" => user[o] \in Users
    /\ items \in [Orders -> Contents]
    /\ cancelled \subseteq Orders
    /\ producer \in BOOLEAN
    /\ added \in [Users -> Contents]
    /\ grown \in [Orders -> Contents]
    /\ emptied \subseteq Orders
    /\ missed \in [Adders -> SUBSET Orders]
    /\ undone \subseteq Orders
    /\ overtaken \subseteq Adders
    /\ overlapped \subseteq Orders

\* CreateKafkaProducer may fail; main logs the error and goes on without.
NewProducer == IF KafkaConfigured THEN BOOLEAN ELSE {FALSE}

Init ==
    /\ carts = [u \in Users |-> Empty]
    /\ holding = [a \in Adders |-> None]
    /\ charged = [o \in Orders |-> None]
    /\ shipped = [o \in Orders |-> None]
    /\ emailed = {}
    /\ published = [o \in Orders |-> None]
    /\ late = {}
    /\ pc = [o \in Orders |-> "idle"]
    /\ user = [o \in Orders |-> NoUser]
    /\ items = [o \in Orders |-> Empty]
    /\ cancelled = {}
    /\ producer \in NewProducer
    /\ added = [u \in Users |-> Empty]
    /\ grown = [o \in Orders |-> Empty]
    /\ emptied = {}
    /\ missed = [a \in Adders |-> {}]
    /\ undone = {}
    /\ overtaken = {}
    /\ overlapped = {}

----------------------------------------------------------------------------
(* The shopper                                                             *)

\* AddItemAsync reads the whole cart ...
HashGet(a, u, p, q) ==
    /\ holding[a] = None
    /\ added[u][p] + q <= MaxAdds
    /\ holding' = [holding EXCEPT ![a] =
                      [user |-> u, product |-> p, quantity |-> q, cart |-> carts[u]]]
    /\ UNCHANGED <<services, late, local, history>>

\* The handler is through with the cart it held.
LetGo(a) ==
    /\ holding' = [holding EXCEPT ![a] = None]
    /\ missed' = [missed EXCEPT ![a] = {}]

WithItem(h) == [h.cart EXCEPT ![h.product] = @ + h.quantity]

\* By how much cart d holds more than cart c.
Growth(c, d) == [p \in Products |-> IF d[p] > c[p] THEN d[p] - c[p] ELSE 0]

\* ... and writes it back with the item, over whatever is there now.
HashSet(a) ==
    LET h == holding[a]  u == h.user IN
    /\ h # None
    /\ carts' = [carts EXCEPT ![u] = WithItem(h)]
    /\ LetGo(a)
    /\ added' = [added EXCEPT ![u][h.product] = @ + h.quantity]
    /\ grown' = [o \in Orders |->
                    IF WillEmpty(o) /\ user[o] = u
                    THEN [p \in Products |-> grown[o][p] + Growth(carts[u], WithItem(h))[p]]
                    ELSE grown[o]]
    /\ undone' = undone \cup missed[a]
    /\ overtaken' = (overtaken \cup Holders(u)) \ {a}
    /\ UNCHANGED <<charged, shipped, emailed, published, late, local, emptied, overlapped>>

\* The write fails, or the cart service dies: the cart stays.
AddItemFails(a) ==
    /\ holding[a] # None
    /\ LetGo(a)
    /\ overtaken' = overtaken \ {a}
    /\ UNCHANGED <<services, late, local, added, grown, emptied, undone, overlapped>>

\* The cart of u is empty from now on, although no order emptied it.
PutAway(u) ==
    /\ carts[u] # Empty
    /\ carts' = [carts EXCEPT ![u] = Empty]
    /\ UNCHANGED <<charged, shipped, emailed, published, holding, late, local, history>>

\* The shopper empties the cart.
ClearCart(u) == PutAway(u)

\* Valkey drops the key, sixty minutes after it was last written.
Expire(u) == PutAway(u)

\* PlaceOrder is called.
PlaceOrder(o, u) ==
    LET others == {x \in Orders : InFlight(x) /\ user[x] = u} IN
    /\ pc[o] = "idle"
    /\ pc' = [pc EXCEPT ![o] = "getUserCart"]
    /\ user' = [user EXCEPT ![o] = u]
    /\ overlapped' = IF others = {} THEN overlapped ELSE overlapped \cup others \cup {o}
    /\ UNCHANGED <<services, holding, late, items, cancelled, producer,
                   added, grown, emptied, missed, undone, overtaken>>

\* The caller gives up: the context of the handler is done from now on.
Cancel(o) ==
    /\ Running(o) /\ o \notin cancelled
    /\ cancelled' = cancelled \cup {o}
    /\ UNCHANGED <<services, holding, late, pc, user, items, producer, history>>

----------------------------------------------------------------------------
(* What the services do when a call reaches them                           *)

\* Mutant: the cart as it is now is shipped, not the one that was paid for.
ShipTheCart(o) ==
    /\ shipped' = [shipped EXCEPT ![o] = carts[user[o]]]
    /\ UNCHANGED <<carts, charged, emailed, published, holding, history>>

Charge(o) ==
    /\ charged' = [charged EXCEPT ![o] = items[o]]
    /\ UNCHANGED <<carts, shipped, emailed, published, holding, history>>

Ship(o) ==
    /\ shipped' = [shipped EXCEPT ![o] = items[o]]
    /\ UNCHANGED <<carts, charged, emailed, published, holding, history>>

\* History: the handlers that hold the cart of u do not know that o emptied it.
NoteMissed(o, u) ==
    missed' = [a \in Adders |-> IF a \in Holders(u) THEN missed[a] \cup {o} ELSE missed[a]]

\* Mutant: the cart is not emptied.
KeepCart(o) ==
    /\ emptied' = emptied \cup {o}
    /\ NoteMissed(o, user[o])
    /\ UNCHANGED <<services, holding, added, grown, undone, overtaken, overlapped>>

EmptyCart(o) ==
    /\ carts' = [carts EXCEPT ![user[o]] = Empty]
    /\ emptied' = emptied \cup {o}
    /\ NoteMissed(o, user[o])
    /\ UNCHANGED <<charged, shipped, emailed, published, holding,
                   added, grown, undone, overtaken, overlapped>>

Confirm(o) ==
    /\ emailed' = emailed \cup {o}
    /\ UNCHANGED <<carts, charged, shipped, published, holding, history>>

\* A call that the handler gave up on arrives after all.
ArriveLate(o, step) ==
    /\ <<o, step>> \in late
    /\ late' = late \ {<<o, step>>}
    /\ \/ step = "chargeCard" /\ Charge(o)
       \/ step = "shipOrder" /\ Ship(o)
       \/ step = "emptyUserCart" /\ EmptyCart(o)
       \/ step = "sendOrderConfirmation" /\ Confirm(o)
    /\ UNCHANGED local

----------------------------------------------------------------------------
(* PlaceOrder, call by call                                                *)

\* The call answers, and PlaceOrder goes on with the next one.
Answered(o, step, next) ==
    /\ pc[o] = step /\ o \notin cancelled
    /\ pc' = [pc EXCEPT ![o] = next]
    /\ UNCHANGED <<late, user, cancelled, producer>>

GetUserCart(o) ==
    /\ Answered(o, "getUserCart", "prepare")
    /\ items' = [items EXCEPT ![o] = carts[user[o]]]
    /\ grown' = [grown EXCEPT ![o] = Empty]
    /\ UNCHANGED <<services, holding, added, emptied, missed, undone, overtaken, overlapped>>

\* Mutant: an empty cart is quoted too.
PrepareAnything(o) ==
    /\ Answered(o, "prepare", "chargeCard")
    /\ UNCHANGED <<services, holding, items, history>>

\* Prices, shipping quote and conversions.  An empty cart marshals to
\* "items": null, which the shipping service answers with 400.
Prepare(o) ==
    /\ Answered(o, "prepare", "chargeCard")
    /\ items[o] \in Goods
    /\ UNCHANGED <<services, holding, items, history>>

ChargeCard(o) == Answered(o, "chargeCard", "shipOrder") /\ Charge(o) /\ UNCHANGED items

ShipOrder(o) == Answered(o, "shipOrder", "emptyUserCart") /\ Ship(o) /\ UNCHANGED items

EmptyUserCart(o) ==
    /\ Answered(o, "emptyUserCart", "sendOrderConfirmation")
    /\ EmptyCart(o)
    /\ UNCHANGED items

AfterConfirmation == IF KafkaConfigured THEN "sendToPostProcessor" ELSE "ok"

SendOrderConfirmation(o) ==
    /\ Answered(o, "sendOrderConfirmation", AfterConfirmation)
    /\ Confirm(o)
    /\ UNCHANGED items

\* Mutant: a failed shipment is passed over like a failed confirmation.
AfterFailureGoOn(step) ==
    CASE step = "shipOrder"             -> "emptyUserCart"
      [] step = "emptyUserCart"         -> "sendOrderConfirmation"
      [] step = "sendOrderConfirmation" -> AfterConfirmation
      [] OTHER                          -> "Internal"

\* The error paths: the last two calls may fail and the order go on.
AfterFailure(step) ==
    CASE step = "shipOrder"             -> "Unavailable"
      [] step = "emptyUserCart"         -> "sendOrderConfirmation"
      [] step = "sendOrderConfirmation" -> AfterConfirmation
      [] OTHER                          -> "Internal"

\* A call fails, or fails to answer.  It is not called back.
Failed(o, step) ==
    /\ step # "sendToPostProcessor"
    /\ pc[o] = step
    /\ pc' = [pc EXCEPT ![o] = AfterFailure(step)]
    /\ late' \in {late, late \cup ({<<o, step>>} \cap (Orders \X Effects))}
    /\ UNCHANGED <<services, holding, user, items, cancelled, producer, history>>

\* RequiredAcks is NoResponse: the message may be lost, and the handler goes
\* on after a success, an error or the end of its context all the same.
SendToPostProcessor(o) ==
    /\ pc[o] = "sendToPostProcessor" /\ producer
    /\ published' \in {published, [published EXCEPT ![o] = items[o]]}
    /\ pc' = [pc EXCEPT ![o] = "ok"]
    /\ UNCHANGED <<carts, charged, shipped, emailed, holding, late, user, items, cancelled,
                   producer, history>>

\* The process ends and is started again: every order it was working on is
\* lost, but for the calls already sent.
Die ==
    /\ pc' = [o \in Orders |-> IF Running(o) THEN "lost" ELSE pc[o]]
    /\ \E sent \in SUBSET {o \in Orders : pc[o] \in Effects} :
           late' = late \cup {<<o, pc[o]>> : o \in sent}
    /\ producer' \in NewProducer
    /\ UNCHANGED <<services, holding, user, items, cancelled, history>>

\* The nil KafkaProducerClient is called; no handler recovers the panic.
Panic(o) == pc[o] = "sendToPostProcessor" /\ ~producer /\ Die

\* SIGTERM: main is blocked in Serve and never reaches GracefulStop.
Kill == (\E o \in Orders : Running(o)) /\ Die

Handle(o) ==
    \/ GetUserCart(o) \/ Prepare(o)
    \/ ChargeCard(o) \/ ShipOrder(o)
    \/ EmptyUserCart(o) \/ SendOrderConfirmation(o)
    \/ SendToPostProcessor(o) \/ Panic(o)
    \/ \E step \in Steps : Failed(o, step)

Next ==
    \/ \E u \in Users : \/ \E a \in Adders, p \in Products, q \in Quantities : HashGet(a, u, p, q)
                        \/ ClearCart(u) \/ Expire(u)
                        \/ \E o \in Orders : PlaceOrder(o, u)
    \/ \E a \in Adders : HashSet(a) \/ AddItemFails(a)
    \/ \E o \in Orders : \/ Cancel(o)
                         \/ Handle(o)
                         \/ \E step \in Effects : ArriveLate(o, step)
    \/ Kill

Spec == Init /\ [][Next]_vars

----------------------------------------------------------------------------
\* What leaves the shop is what was paid for, and what the accounts, fed from
\* the topic, and the customer are told of is what was shipped: none of the
\* failures, cancellations and late calls of PlaceOrder mixes orders up.
OneOrderThroughout ==
    \A o \in Orders :
        /\ shipped[o] # None => shipped[o] = charged[o]
        /\ published[o] # None => published[o] = shipped[o]
        /\ o \in emailed => shipped[o] # None

\* What the status tells the caller: after Internal nothing was or will be
\* shipped; after Unavailable the card was charged, for something; after a
\* success the goods were shipped, although their cart may still be full.
StatusIsHonest ==
    \A o \in Orders :
        /\ pc[o] = "Internal" => shipped[o] = None /\ <<o, "shipOrder">> \notin late
        /\ pc[o] = "Unavailable" => charged[o] \in Goods
        /\ pc[o] = "ok" => charged[o] \in Goods /\ shipped[o] = charged[o]

\* Nobody pays shipping for an empty cart.
SomethingIsPaidFor == \A o \in Orders : charged[o] \in Goods \cup {None}

\* A cart loses something only when the shopper empties it, when it expires,
\* when an AddItem writes back a cart that another AddItem has written to since,
\* or to an order of its user whose goods were shipped: then at most those goods
\* and what AddItems put in after the order read it.  (That much is really lost:
\* EmptyCart does not subtract.)
EveryLossHasACause ==
    [][\A u \in Users, p \in Products :
           carts'[u][p] < carts[u][p] =>
               \/ ClearCart(u) \/ Expire(u)
               \/ \E a \in overtaken : holding[a].user = u /\ HashSet(a)
               \/ \E o \in emptied' \ emptied :
                      /\ user[o] = u /\ shipped[o] # None
                      /\ carts[u][p] <= shipped[o][p] + grown[o][p]]_vars

ChargedOrders(u) == {o \in Orders : user[o] = u /\ charged[o] # None}

\* The order emptied the cart it was charged for, for good, or is still on the
\* way to.
InOrder(o) ==
    /\ o \notin overlapped \cup undone
    /\ o \in emptied \/ pc[o] \in {"shipOrder", "emptyUserCart"}

\* As long as the orders of a user do not overlap, each empties the cart, and no
\* AddItem that had read the cart before an order emptied it writes it back, no
\* piece put in the cart once is charged for twice: whatever AddItems overwrite
\* each other, carts are put away and expire, and orders fail.
ChargedOnce ==
    \A u \in Users :
        (\A o \in ChargedOrders(u) : InOrder(o)) =>
            \A p \in Products :
                MapThenSumSet(LAMBDA o : charged[o][p], ChargedOrders(u)) <= added[u][p]

----------------------------------------------------------------------------
(* Refinement: the saga keeps the promise of module Order.                 *)

Told == [o \in Orders |-> IF pc[o] = "ok" THEN "ok"
                          ELSE IF pc[o] \in Ended THEN "failed"
                          ELSE "nothing"]

Promise == INSTANCE Order WITH paid <- charged, sent <- shipped, told <- Told

\* Every step of PlaceOrder, of a late call or of a death is a step of the
\* promise or changes nothing that it speaks of.
ImplementsOrder == Promise!Spec
=============================================================================
