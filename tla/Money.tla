------------------------------- MODULE Money -------------------------------
(***************************************************************************)
(* The money arithmetic of the checkout service (src/checkout/money).      *)
(*                                                                         *)
(* An amount is whole units plus billionths of a unit ("nanos"), with a    *)
(* currency code.  NanosMod is the number of nanos in a unit (10^9 in the  *)
(* code) and Int32Half is 2^31: nanos is an int32 and its arithmetic       *)
(* wraps, so both are parameters and the configurations shrink them        *)
(* together.  Units is an int64 that no price of the shop comes near, and  *)
(* is left unbounded.                                                      *)
(***************************************************************************)
EXTENDS Integers

CONSTANTS NanosMod,      \* nanos per unit
          Int32Half,     \* 2^31: int32 is -Int32Half .. Int32Half - 1
          CurrencyCodes, \* every currency code a message may carry
          NoCode         \* the empty currency code

\* The sum of two legal nanos fits an int32 (2 * (10^9 - 1) < 2^31).
ASSUME MoneyAssumption ==
    /\ NanosMod \in Nat /\ NanosMod > 1
    /\ Int32Half \in Nat /\ 2 * (NanosMod - 1) < Int32Half
    /\ NoCode \in CurrencyCodes

MoneySet == [units : Int, nanos : Int, currencyCode : CurrencyCodes]

Zero(code) == [units |-> 0, nanos |-> 0, currencyCode |-> code]

\* The amount in nanos, the reference every operation is compared with.
Value(m) == m.units * NanosMod + m.nanos

----------------------------------------------------------------------------
(* Go's integers: two's complement of 32 bits, division towards zero.      *)

Wrap32(x) ==
    IF x \in -Int32Half .. Int32Half - 1
    THEN x
    ELSE ((x + Int32Half) % (2 * Int32Half)) - Int32Half

Quotient(a, b)  == IF a >= 0 THEN a \div b ELSE -((-a) \div b)
Remainder(a, b) == a - b * Quotient(a, b)

----------------------------------------------------------------------------
(* Predicates                                                              *)

signMatches(m) == m.nanos = 0 \/ m.units = 0 \/ (m.nanos < 0 <=> m.units < 0)

validNanos(nanos) == -NanosMod < nanos /\ nanos < NanosMod

IsValid(m) == signMatches(m) /\ validNanos(m.nanos)

IsZero(m) == m.units = 0 /\ m.nanos = 0

\* && binds tighter than || in the code: IsValid guards the first disjunct only.
IsPositive(m) ==
    (IsValid(m) /\ m.units > 0) \/ (m.units = 0 /\ m.nanos > 0)

IsNegative(m) ==
    (IsValid(m) /\ m.units < 0) \/ (m.units = 0 /\ m.nanos < 0)

AreSameCurrency(l, r) ==
    l.currencyCode = r.currencyCode /\ l.currencyCode # NoCode

AreEquals(l, r) ==
    /\ l.currencyCode = r.currencyCode
    /\ l.units = r.units
    /\ l.nanos = r.nanos

----------------------------------------------------------------------------
(* Arithmetic.  A result carries the error of the Go pair: "nil" when      *)
(* there is none.                                                          *)

Negate(m) == [m EXCEPT !.units = -@, !.nanos = Wrap32(-@)]

\* The branch of Sum for sums whose units and nanos agree in sign.
SameSign(units, nanos) ==
    \/ units = 0 /\ nanos = 0
    \/ units > 0 /\ nanos >= 0
    \/ units < 0 /\ nanos <= 0

\* Mutant: the carry is dropped.
CarryLost(units, nanos, code) ==
    [units |-> units, nanos |-> Remainder(nanos, NanosMod), currencyCode |-> code]

\* Mutant: units and nanos are added and nothing more.
NotNormalised(units, nanos, code) ==
    [units |-> units, nanos |-> nanos, currencyCode |-> code]

\* Mutant: the borrow of a negative result is taken from the wrong side.
BorrowUnsigned(units, nanos, code) ==
    IF SameSign(units, nanos)
    THEN [units |-> units + Quotient(nanos, NanosMod),
          nanos |-> Remainder(nanos, NanosMod), currencyCode |-> code]
    ELSE [units |-> units - 1, nanos |-> Wrap32(nanos + NanosMod), currencyCode |-> code]

\* Moves a carry or a borrow between nanos and units.
Normalise(units, nanos, code) ==
    IF SameSign(units, nanos)
    THEN [units |-> units + Quotient(nanos, NanosMod),
          nanos |-> Remainder(nanos, NanosMod), currencyCode |-> code]
    ELSE IF units > 0
    THEN [units |-> units - 1, nanos |-> Wrap32(nanos + NanosMod), currencyCode |-> code]
    ELSE [units |-> units + 1, nanos |-> Wrap32(nanos - NanosMod), currencyCode |-> code]

\* Mutant: the currency of the right operand is not looked at.
SumAnyCurrency(l, r) ==
    IF ~IsValid(l) \/ ~IsValid(r)
    THEN [err |-> "ErrInvalidValue", money |-> Zero(NoCode)]
    ELSE [err |-> "nil",
          money |-> Normalise(l.units + r.units, Wrap32(l.nanos + r.nanos), l.currencyCode)]

Sum(l, r) ==
    IF ~IsValid(l) \/ ~IsValid(r)
    THEN [err |-> "ErrInvalidValue", money |-> Zero(NoCode)]
    ELSE IF l.currencyCode # r.currencyCode
    THEN [err |-> "ErrMismatchingCurrency", money |-> Zero(NoCode)]
    ELSE [err |-> "nil",
          money |-> Normalise(l.units + r.units, Wrap32(l.nanos + r.nanos), l.currencyCode)]

=============================================================================
