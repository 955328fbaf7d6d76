----------------------------- MODULE OrderTotal -----------------------------
(***************************************************************************)
(* How PlaceOrder computes the amount it charges: the localized shipping   *)
(* cost, plus cost times quantity for each line, where the product is a    *)
(* loop of additions (MultiplySlow) and every addition goes through Must,  *)
(* which panics and takes the whole checkout process down when Sum refuses *)
(* an operand.  One action per call of Sum.                                *)
(***************************************************************************)
EXTENDS Money, FiniteSetsExt

CONSTANTS UserCurrency,   \* req.UserCurrency
          ShippingCosts,  \* what convertCurrency may return for the quote
          ItemCosts,      \* what convertCurrency may return for a price
          MaxLines,       \* bound: lines of a cart
          MaxQuantity     \* bound: quantity of a line

\* A quote is 8.99 per item and the cheapest product costs 0.99 USD; no rate of
\* the currency table takes them below one unit and half a unit respectively.
ASSUME OrderTotalAssumption ==
    /\ UserCurrency \in CurrencyCodes
    /\ ShippingCosts \subseteq
         {m \in MoneySet : IsValid(m) /\ m.currencyCode = UserCurrency
                           /\ m.units >= 1 /\ m.nanos >= 0}
    /\ ItemCosts \subseteq
         {m \in MoneySet : IsValid(m) /\ m.currencyCode = UserCurrency
                           /\ m.units >= 0 /\ m.nanos >= 0
                           /\ (m.units >= 1 \/ 2 * m.nanos >= NanosMod)}
    /\ MaxLines \in Nat /\ MaxQuantity \in Nat

\* An OrderItem: the localized cost and the quantity of the cart line.
OrderLine == [cost : ItemCosts, quantity : 1 .. MaxQuantity]

VARIABLES pc,       \* next step of the computation
          shipping, \* prep.shippingCostLocalized
          count,    \* len(prep.orderItems)
          items,    \* prep.orderItems
          total,    \* the running total
          idx,      \* index of the current line
          out, n    \* MultiplySlow's accumulator and countdown

vars == <<pc, shipping, count, items, total, idx, out, n>>

\* The variables hold amounts, lines and a countdown that never goes below zero.
TypeOK ==
    /\ pc \in {"shipping", "line", "multiply", "charge", "panic"}
    /\ shipping \in ShippingCosts
    /\ count \in 1 .. MaxLines
    /\ items \in [1 .. count -> OrderLine]
    /\ total \in MoneySet
    /\ idx \in 1 .. count + 1
    /\ out \in MoneySet
    /\ n \in 0 .. MaxQuantity

Init ==
    /\ pc = "shipping"
    /\ shipping \in ShippingCosts
    /\ count \in 1 .. MaxLines
    /\ items \in [1 .. count -> OrderLine]
    /\ total = Zero(UserCurrency)
    /\ idx = 1
    /\ out = Zero(UserCurrency)
    /\ n = 0

----------------------------------------------------------------------------
\* Assigns the money of a sum to v, or panics (which is what Must does).
Must(sum, v, next) ==
    IF sum.err = "nil"
    THEN v' = sum.money /\ pc' = next
    ELSE UNCHANGED v /\ pc' = "panic"

\* total = Must(Sum(total, prep.shippingCostLocalized))
AddShipping ==
    /\ pc = "shipping"
    /\ Must(Sum(total, shipping), total, "line")
    /\ UNCHANGED <<shipping, count, items, idx, out, n>>

\* The call of MultiplySlow(it.Cost, uint32(quantity)).
StartLine ==
    /\ pc = "line" /\ idx <= count
    /\ out' = items[idx].cost
    /\ n' = items[idx].quantity
    /\ pc' = "multiply"
    /\ UNCHANGED <<shipping, count, items, total, idx>>

\* Mutant: the loop runs once more than it should.
OneTooMany == n > 0

MoreToAdd == n > 1

\* One turn of MultiplySlow's loop.
MultiplyStep ==
    /\ pc = "multiply" /\ MoreToAdd
    /\ Must(Sum(out, items[idx].cost), out, "multiply")
    /\ n' = n - 1
    /\ UNCHANGED <<shipping, count, items, total, idx>>

\* Mutant: the price of one piece is added whatever the quantity.
AddOnePiece ==
    /\ pc = "multiply" /\ ~MoreToAdd
    /\ Must(Sum(total, items[idx].cost), total, "line")
    /\ idx' = idx + 1
    /\ UNCHANGED <<shipping, count, items, out, n>>

\* total = Must(Sum(total, multPrice))
AddLine ==
    /\ pc = "multiply" /\ ~MoreToAdd
    /\ Must(Sum(total, out), total, "line")
    /\ idx' = idx + 1
    /\ UNCHANGED <<shipping, count, items, out, n>>

\* The loop is over: chargeCard(total).
Finish ==
    /\ pc = "line" /\ idx > count
    /\ pc' = "charge"
    /\ UNCHANGED <<shipping, count, items, total, idx, out, n>>

Next == AddShipping \/ StartLine \/ MultiplyStep \/ AddLine \/ Finish

Spec == Init /\ [][Next]_vars /\ WF_vars(Next)

----------------------------------------------------------------------------
\* The exact price of a line, in nanos.
LineValue(line) == line.quantity * Value(line.cost)

\* The code's Must never panics on an order whose prices come from the catalog
\* and the currency service: no partial sum is ever an invalid amount.
NeverPanics == pc # "panic"

\* MultiplySlow adds exactly: with n left to do, quantity - n + 1 pieces are in.
PartialProductExact ==
    pc = "multiply" =>
        Value(out) = (items[idx].quantity - n + 1) * Value(items[idx].cost)

\* The amount given to the payment service is a legal amount, in the currency
\* of the request, equal to shipping plus cost times quantity of every line.
ChargeIsExact ==
    pc = "charge" =>
        /\ IsValid(total)
        /\ total.currencyCode = UserCurrency
        /\ Value(total) = Value(shipping)
             + MapThenSumSet(LAMBDA i : LineValue(items[i]), 1 .. count)

\* The step that adds a line adds exactly its price, to the nano, whatever
\* carries and borrows Sum makes on the way.
LineAddedExactly ==
    [][idx' = idx + 1 /\ pc' # "panic" =>
          Value(total') = Value(total) + LineValue(items[idx])]_vars

=============================================================================
