----------------------------- MODULE MCAmounts -----------------------------
(***************************************************************************)
(* Everything about money in one run: the additions of an order, Sum on    *)
(* pairs of amounts, the quote of every number of pieces, and the two ways *)
(* to a price.  The four share no variable, so the run takes them one at a *)
(* time.  Amounts are in cents,                                            *)
(* int32 is shrunk in proportion (2^31 is 2.147 * 10^9), and the rates are *)
(* those of server.cpp in hundredths; XXX is a code that has none.         *)
(***************************************************************************)
EXTENDS OrderTotal, MoneyPairs, Pricing, TLC

CONSTANTS GBP, JPY,
          MaxPieces  \* bound

VARIABLES checking,
          pieces     \* the pieces that a quote is asked for

mcVars == <<vars, pairVars, priceVars, pieces, checking>>

Dollars(u, cents) == [units |-> u, nanos |-> cents, currencyCode |-> USD]

\* Shipping costs one unit at least, a piece half a unit at least; with and without carries.
MCShippingCosts == {Dollars(1, 0), Dollars(8, 99), Dollars(17, 98)}
MCItemCosts == {Dollars(0, 50), Dollars(0, 99), Dollars(1, 0), Dollars(2, 99)}

\* Amounts from -2 to 2 units, with legal and illegal nanos, in two currencies and none.
MCSamples == [units : -2 .. 2, nanos : {-100, -99, -60, -1, 0, 1, 50, 99, 100},
              currencyCode : {USD, GBP, NoCode}]

MCRates == (USD :> 113) @@ (GBP :> 86) @@ (JPY :> 12640)

\* Of init.sql: the book, the flashlight, the kit and the imager.
MCPrices == {Dollars(0, 99), Dollars(57, 8), Dollars(21, 95), Dollars(175, 0)}

\* What is not being checked starts in one state.
OneOrder == shipping = Dollars(1, 0) /\ count = 1 /\ items = <<[cost |-> Dollars(1, 0), quantity |-> 1]>>
OnePair == l = Dollars(1, 0) /\ r = Dollars(1, 0)
OnePrice == price = Dollars(175, 0) /\ quantity = 1 /\ noise = [c \in Known |-> 0]

MCInit ==
    /\ \/ checking = "order" /\ OnePair /\ OnePrice
       \/ checking = "pair" /\ OneOrder /\ OnePrice
       \/ checking = "price" /\ OneOrder /\ OnePair
       \/ checking = "quote" /\ OneOrder /\ OnePair /\ OnePrice
    /\ pieces = 1
    /\ Init /\ PairInit /\ PriceInit

MCNext ==
    /\ UNCHANGED checking
    /\ \/ checking = "order" /\ Next /\ UNCHANGED <<pairVars, priceVars, pieces>>
       \/ checking = "pair" /\ Exchange /\ UNCHANGED <<vars, priceVars, pieces>>
       \/ checking = "price" /\ PriceNext /\ UNCHANGED <<vars, pairVars, pieces>>
       \/ /\ checking = "quote" /\ pieces < MaxPieces
          /\ pieces' = pieces + 1
          /\ UNCHANGED <<vars, pairVars, priceVars>>

MCSpec == MCInit /\ [][MCNext]_mcVars

\* However many pieces: parsing, multiplying and cutting off (quote.rs) lose
\* one cent of a quote at most, and up to 28 pieces none.
QuoteWithinACent ==
    LET quote == Quote(pieces)
        short == calculateQuote(pieces) - (100 * quote.dollars + quote.cents)
    IN  short \in 0 .. 1 /\ (pieces <= 28 => short = 0)

=============================================================================
