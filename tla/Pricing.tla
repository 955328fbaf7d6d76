------------------------------ MODULE Pricing ------------------------------
(***************************************************************************)
(* What a shopper sees and what she pays.  The cart page prices a product  *)
(* through the frontend (ProductCatalog.service.ts, which converts unless  *)
(* the currency is USD, and CartItems.tsx, which adds up), the order       *)
(* through the checkout service (which always converts).  Both ask the     *)
(* same currency service, whose table other clients change in between.     *)
(***************************************************************************)
EXTENDS Currency, ShippingQuote

CONSTANTS USD,
          Prices,        \* bound: the prices of the catalog, in USD
          Quantities,    \* bound: the pieces that carts hold
          NoPage, NoOrder

InUSD(m) == m \in MoneySet /\ m.currencyCode = USD /\ m.units >= 0
            /\ m.nanos \in 0 .. NanosMod - 1

ASSUME PricingAssumption ==
    /\ USD \in Known
    /\ \A price \in Prices : InUSD(price) /\ 2 * Value(price) >= NanosMod
    /\ Quantities \subseteq Nat \ {0}
    /\ NanosMod % 100 = 0

VARIABLES card,      \* the amount on the card of the product in the mobile app, in nanos
          price,     \* the product's priceUsd
          quantity,  \* pieces in the cart
          selected,  \* selectedCurrency of the page
          page,      \* what the cart page shows
          order      \* what the order was charged

priceVars == <<currency, card, price, quantity, selected, page, order>>

Sheet == [code : CurrencyCodes, quantity : Quantities,
          cost : MoneySet, shipping : MoneySet, total : MoneySet]

PriceInit ==
    /\ CurrencyInit
    /\ card = NoPage
    /\ price \in Prices
    /\ quantity \in Quantities
    /\ selected = USD
    /\ page = NoPage
    /\ order = NoOrder

----------------------------------------------------------------------------
NANOS_MULTIPLE == NanosMod \div 100

\* get_quote: the quote for n pieces as Money.
get_quote(n) ==
    LET quote == Quote(n)
    IN  [units |-> quote.dollars, nanos |-> quote.cents * NANOS_MULTIPLE, currencyCode |-> USD]

\* What an amount in USD is worth in another currency, in nanos and without noise.
Exact(m, code) == (getDouble(m) * Rates[code]) \div Rates[USD]

\* No rate of the table takes a price below half a unit or a quote below one,
\* which is what module OrderTotal assumes of an order.
ASSUME RatesAssumption ==
    \A code \in Known :
        /\ \A m \in Prices : 2 * (Exact(m, code) - 1) >= NanosMod
        /\ \A n \in Quantities : Exact(get_quote(n), code) - 1 >= NanosMod

\* getProductPrice: the frontend does not convert to the default currency.
getProductPrice(code) == IF code = USD THEN price ELSE Converted(price, code)

\* Mutant: the nanos that exceed a unit are forgotten.
ExceedLost(cost, shipping, n, code) ==
    [units |-> cost.units * n + shipping.units,
     nanos |-> (cost.nanos * n + shipping.nanos) % NanosMod, currencyCode |-> code]

\* The total of CartItems.tsx.
ShownTotal(cost, shipping, n, code) ==
    LET nanoSum == cost.nanos * n + shipping.nanos IN
    [units |-> cost.units * n + shipping.units + nanoSum \div NanosMod,
     nanos |-> nanoSum % NanosMod, currencyCode |-> code]

\* The total of PlaceOrder: Sum after Sum, one per piece.
ChargedTotal(cost, shipping, n, code) ==
    LET times[k \in 1 .. n] == IF k = 1 THEN cost ELSE Sum(times[k - 1], cost).money
    IN  Sum(Sum(Zero(code), shipping).money, times[n]).money

\* The pages ask for the cart and the quote again, in the currency selected.
ViewCart ==
    LET cost     == getProductPrice(selected)
        shipping == Converted(get_quote(quantity), selected)
    IN  /\ page = NoPage
        /\ page' = [code |-> selected, quantity |-> quantity, cost |-> cost,
                    shipping |-> shipping,
                    total |-> ShownTotal(cost, shipping, quantity, selected)]
        /\ LookUp(selected)
        /\ UNCHANGED <<card, price, quantity, selected, order>>

\* setSelectedCurrency: the cart in the new currency is still to be fetched.
SelectCurrency(code) ==
    /\ code # selected
    /\ selected' = code
    /\ page' = NoPage
    /\ UNCHANGED <<currency, card, price, quantity, order>>

\* The cart changes in another tab: this page is not told.
ChangeCart(n) ==
    /\ n # quantity
    /\ quantity' = n
    /\ UNCHANGED <<currency, card, price, selected, page, order>>

\* The form of the page is sent: PlaceOrder prices the cart as it is now.
PlaceOrder ==
    LET cost     == Converted(price, selected)
        shipping == Converted(get_quote(quantity), selected)
    IN  /\ page # NoPage /\ order = NoOrder
        /\ order' = [code |-> selected, quantity |-> quantity, cost |-> cost,
                     shipping |-> shipping,
                     total |-> ChargedTotal(cost, shipping, quantity, selected)]
        /\ LookUp(selected)
        /\ UNCHANGED <<card, price, quantity, selected, page>>

\* Another client converts to whatever code it likes.
ConvertElsewhere(code) ==
    /\ LookUp(code)
    /\ UNCHANGED <<card, price, quantity, selected, page, order>>

\* The list of products in the mobile app, whose currency is always USD.  The card divides
\* the nanos by 10^8, so that each counts ten times.
ViewCard ==
    /\ card = NoPage
    /\ card' = price.units * NanosMod + price.nanos * 10
    /\ UNCHANGED <<currency, price, quantity, selected, page, order>>

PriceNext ==
    \/ ViewCard
    \/ ViewCart
    \/ \E code \in Supported : SelectCurrency(code)
    \/ \E n \in Quantities : ChangeCart(n)
    \/ PlaceOrder
    \/ \E code \in CurrencyCodes : ConvertElsewhere(code)

PriceSpec == PriceInit /\ [][PriceNext]_priceVars

----------------------------------------------------------------------------
\* The zeros right behind the decimal point that getDouble loses.
LeadingZero(m) == m.nanos # 0 /\ m.nanos < NanosMod \div 10

Near(l, r) == l.currencyCode = r.currencyCode /\ Value(l) - Value(r) \in -1 .. 1

\* Placed from a page that shows the cart as it is, an order costs what the
\* page said, to the nano: the two ways to a price and the two ways to a total
\* agree.  They do not in USD, where only the checkout converts, for a price
\* with a zero behind the point; for others they agree to the nano per piece.
ShownIsCharged ==
    page # NoPage /\ order # NoOrder /\ page.code = order.code
      /\ page.quantity = order.quantity /\ order.code \in Known =>
        /\ page.shipping = order.shipping
        /\ order.code # USD => page.cost = order.cost /\ page.total = order.total
        /\ order.code = USD /\ ~LeadingZero(price) =>
             /\ Near(page.cost, order.cost)
             /\ Value(page.total) - Value(order.total) \in -order.quantity .. order.quantity

\* An order in a currency with a rate is made of the amounts that module
\* OrderTotal assumes: legal ones, of half a unit at least, and its total is
\* legal and exact.
OrderIsMoney ==
    order # NoOrder /\ order.code \in Known =>
        /\ \A m \in {order.cost, order.shipping, order.total} :
               IsValid(m) /\ IsPositive(m) /\ m.currencyCode = order.code
        /\ Value(order.total) = Value(order.shipping) + order.quantity * Value(order.cost)

\* demo.proto:193, of the nanos that getDouble reads: "Number of nano (10^-9)
\* units of the amount."  So an order in the currency of the catalog costs the
\* price of the catalog, but for the rounding.
OrderCostIsPrice ==
    order # NoOrder /\ order.code = USD => Near(order.cost, price)

\* demo.proto:193, of the nanos the card reads: "Number of nano (10^-9) units of
\* the amount."  So the card shows the price of the catalog.
AppCardIsPrice == card # NoPage => card = Value(price)

=============================================================================
