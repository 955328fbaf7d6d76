--------------------------- MODULE ShippingQuote ---------------------------
(***************************************************************************)
(* The quote for a number of pieces: 8.99 a piece, rounded by the quote    *)
(* service (src/quote/app/routes.php) and sent as a decimal, which the     *)
(* shipping service (src/shipping/src/shipping_service/quote.rs) parses    *)
(* into a double and splits by multiplying it by 100 and cutting it off.   *)
(* The double next to a decimal may lie below it, and the product below    *)
(* the whole number of cents; amounts are cents here, and doubles are      *)
(* exact: 53 significant bits, rounded to nearest.                         *)
(***************************************************************************)
EXTENDS Integers

CONSTANT CostPerItem  \* in cents, 899 in the code

ASSUME QuoteAssumption == CostPerItem \in Nat /\ CostPerItem >= 100

\* calculateQuote: round(8.99 * n, 2), in cents.
calculateQuote(n) == CostPerItem * n

Log2(x) ==
    LET log[i \in 1 .. x] == IF i = 1 THEN 0 ELSE 1 + log[i \div 2]
    IN  log[x]

\* 2^n modulo m.
PowerMod(n, m) ==
    LET power[i \in 0 .. n] == IF i = 0 THEN 1 % m ELSE (2 * power[i - 1]) % m
    IN  power[n]

\* The last place of the double next to v cents is 1 / 2^Places(v) dollars.
Places(v) == 52 - Log2(v \div 100)

\* By how much that double is below v cents, in hundredths of its last place
\* (a negative number if it is above).
Below(v) ==
    LET rest == (v * PowerMod(Places(v), 100)) % 100
    IN  IF rest < 50 THEN rest ELSE rest - 100

\* The double times 100 is rounded in turn, to a double whose last place is
\* larger by the factor 2^6 or 2^7, as it is 6 or 7 binary places longer: it
\* stays below v if it is below by more than half a place of it.
ProductIsBelow(v) ==
    LET half == IF Log2(v) - Log2(v \div 100) = 6 THEN 32 ELSE 64
    IN  Below(v) > half

\* Mutant: the dollars are rounded, not cut off.
RoundedDollars(v) == [dollars |-> (v + 50) \div 100, cents |-> v % 100]

\* create_quote_from_float: value.floor(), and (value * 100) as u32 % 100.
create_quote_from_float(v) ==
    [dollars |-> v \div 100,
     cents   |-> (IF ProductIsBelow(v) THEN v - 1 ELSE v) % 100]

Quote(n) == create_quote_from_float(calculateQuote(n))
=============================================================================
