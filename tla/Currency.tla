------------------------------ MODULE Currency ------------------------------
(***************************************************************************)
(* The currency service (src/currency/src/server.cpp).  Its table of rates *)
(* is one unordered_map that Convert reads with operator[], which inserts  *)
(* a zero rate for a code that it does not hold.  Amounts go through a     *)
(* double: getDouble reads the nanos digit by digit, getUnitsAndNanos cuts *)
(* the result off after the last nano.  The shop converts prices and       *)
(* quotes: amounts that are not negative, in a currency of the table.      *)
(***************************************************************************)
EXTENDS Money

CONSTANTS NanoDigits,  \* decimal digits of the nanos, 9 in the code
          Rates        \* currency_conversion at the start, in hundredths

Known == DOMAIN Rates

\* The powers of ten up to a unit, in nanos.
Tens[d \in 0 .. NanoDigits] == IF d = 0 THEN 1 ELSE 10 * Tens[d - 1]

ASSUME CurrencyAssumption ==
    /\ NanoDigits \in Nat \ {0} /\ NanosMod = Tens[NanoDigits]
    /\ Known \subseteq CurrencyCodes
    /\ Rates \in [Known -> Nat \ {0}]

VARIABLES table,  \* currency_conversion: a partial function from codes
          noise   \* by how many nanos the double is off, per target code

currency == <<table, noise>>

CurrencyInit == table = Rates /\ noise \in [Known -> -1 .. 1]

----------------------------------------------------------------------------
\* The loop of getDouble: every digit, the lowest first, is put behind the
\* decimal point and moves the others back by one place.  The loop ends when
\* nothing but zeros is left, so the zeros right behind the point are lost.
\* The decimal is an integer here, in nanos.
Decimal(nanos) ==
    LET turn[x \in 0 .. NanosMod - 1] ==
          [decimal \in 0 .. NanosMod - 1 |->
             IF x = 0 THEN decimal
             ELSE turn[x \div 10][decimal \div 10 + (x % 10) * (NanosMod \div 10)]]
    IN  turn[nanos][0]

\* getDouble, in nanos.
getDouble(m) == m.units * NanosMod + Decimal(m.nanos)

getUnitsAndNanos(value, code) ==
    [units |-> value \div NanosMod, nanos |-> value % NanosMod, currencyCode |-> code]

\* operator[]: the rate, and zero for a code that the table does not hold.
Rate(code) == IF code \in DOMAIN table THEN table[code] ELSE 0

\* The double is off by a few units in its last place: the nanos that are cut
\* off may be one more or one less.  Zero is exact.
Rounded(exact, code) == IF exact = 0 THEN 0 ELSE exact + noise[code]

\* The response of Convert: nothing, in a code without a rate.
Converted(from, code) ==
    IF Rate(code) = 0
    THEN Zero(code)
    ELSE getUnitsAndNanos(
           Rounded((getDouble(from) * Rate(code)) \div Rate(from.currencyCode), code), code)

\* What operator[] leaves behind in the table.
LookUp(code) ==
    /\ table' = [c \in DOMAIN table \cup {code} |-> Rate(c)]
    /\ UNCHANGED noise

\* GetSupportedCurrencies.
Supported == DOMAIN table

=============================================================================
