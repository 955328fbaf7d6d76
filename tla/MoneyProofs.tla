---------------------------- MODULE MoneyProofs ----------------------------
(***************************************************************************)
(* What Sum returns on all pairs of amounts; that the amount charged for   *)
(* an order is legal and exact and computing it never panics; and that the *)
(* prices the page shows are those the order is charged: for every width   *)
(* of the nanos, catalog, cart, table of rates and bounds.                 *)
(***************************************************************************)
EXTENDS OrderTotal, MoneyPairs, Pricing, SumTheorems, TLAPS

(* Sum on pairs of amounts *)

\* Values that fit an int32 are not changed by its arithmetic.
LEMMA WrapFits ==
    ASSUME NEW x \in Int, -Int32Half <= x, x < Int32Half
    PROVE  Wrap32(x) = x
  BY MoneyAssumption DEF Wrap32

\* Go's division by NanosMod of a sum of two legal nanos: a carry of 0 or 1,
\* up or down.
LEMMA CarryOfNonNegative ==
    ASSUME NEW a \in Int, 0 <= a, a < 2 * NanosMod
    PROVE  /\ a < NanosMod => Quotient(a, NanosMod) = 0 /\ Remainder(a, NanosMod) = a
           /\ a >= NanosMod => /\ Quotient(a, NanosMod) = 1
                               /\ Remainder(a, NanosMod) = a - NanosMod
  <1>1. ASSUME a < NanosMod PROVE a \div NanosMod = 0
    BY <1>1, MoneyAssumption
  <1>2. ASSUME a >= NanosMod PROVE a \div NanosMod = 1
    BY <1>2, MoneyAssumption
  <1> QED BY <1>1, <1>2, MoneyAssumption DEF Quotient, Remainder

LEMMA CarryOfNegative ==
    ASSUME NEW a \in Int, a < 0, -2 * NanosMod < a
    PROVE  /\ -NanosMod < a => Quotient(a, NanosMod) = 0 /\ Remainder(a, NanosMod) = a
           /\ a <= -NanosMod => /\ Quotient(a, NanosMod) = -1
                                /\ Remainder(a, NanosMod) = a + NanosMod
  <1>1. ASSUME -NanosMod < a PROVE (-a) \div NanosMod = 0
    BY <1>1, MoneyAssumption
  <1>2. ASSUME a <= -NanosMod PROVE (-a) \div NanosMod = 1
    BY <1>2, MoneyAssumption
  <1> QED BY <1>1, <1>2, MoneyAssumption DEF Quotient, Remainder

\* The units and nanos that Normalise gets are sums of legal amounts; away from
\* the case OnlyNanosLeft it returns a legal amount worth the same.
LEMMA NormaliseExact ==
    ASSUME NEW u \in Int, NEW a \in Int, NEW code \in CurrencyCodes,
           -2 * NanosMod < a, a < 2 * NanosMod,
           u > 0 => a > -NanosMod, u < 0 => a < NanosMod,
           ~(u = 0 /\ a # 0 /\ a < NanosMod)
    PROVE  LET m == Normalise(u, a, code)
           IN  /\ m \in MoneySet
               /\ m.currencyCode = code
               /\ IsValid(m)
               /\ Value(m) = u * NanosMod + a
  <1> DEFINE m == Normalise(u, a, code)
             Good == /\ m \in MoneySet /\ m.currencyCode = code
                     /\ IsValid(m) /\ Value(m) = u * NanosMod + a
  <1> USE MoneyAssumption
  <1>1. CASE SameSign(u, a) /\ a >= 0
    <2>1. CASE a < NanosMod
      <3>1. m = [units |-> u, nanos |-> a, currencyCode |-> code]
        BY <1>1, <2>1, CarryOfNonNegative DEF Normalise
      <3> QED BY <1>1, <2>1, <3>1
              DEF SameSign, MoneySet, IsValid, signMatches, validNanos, Value
    <2>2. CASE a >= NanosMod
      <3>1. m = [units |-> u + 1, nanos |-> a - NanosMod, currencyCode |-> code]
        BY <1>1, <2>2, CarryOfNonNegative DEF Normalise
      <3>2. (u + 1) * NanosMod + (a - NanosMod) = u * NanosMod + a
        OBVIOUS
      <3> QED BY <1>1, <2>2, <3>1, <3>2
              DEF SameSign, MoneySet, IsValid, signMatches, validNanos, Value
    <2> QED BY <2>1, <2>2
  <1>2. CASE SameSign(u, a) /\ a < 0
    <2>1. CASE -NanosMod < a
      <3>1. m = [units |-> u, nanos |-> a, currencyCode |-> code]
        BY <1>2, <2>1, CarryOfNegative DEF Normalise
      <3> QED BY <1>2, <2>1, <3>1
              DEF SameSign, MoneySet, IsValid, signMatches, validNanos, Value
    <2>2. CASE a <= -NanosMod
      <3>1. m = [units |-> u - 1, nanos |-> a + NanosMod, currencyCode |-> code]
        BY <1>2, <2>2, CarryOfNegative DEF Normalise
      <3>2. (u - 1) * NanosMod + (a + NanosMod) = u * NanosMod + a
        OBVIOUS
      <3> QED BY <1>2, <2>2, <3>1, <3>2
              DEF SameSign, MoneySet, IsValid, signMatches, validNanos, Value
    <2> QED BY <2>1, <2>2
  <1>3. CASE ~SameSign(u, a) /\ u > 0
    <2>1. -NanosMod < a /\ a < 0
      BY <1>3 DEF SameSign
    <2>2. m = [units |-> u - 1, nanos |-> a + NanosMod, currencyCode |-> code]
      BY <1>3, <2>1, WrapFits DEF Normalise
    <2>3. (u - 1) * NanosMod + (a + NanosMod) = u * NanosMod + a
      OBVIOUS
    <2> QED BY <1>3, <2>1, <2>2, <2>3
            DEF MoneySet, IsValid, signMatches, validNanos, Value
  <1>4. CASE ~SameSign(u, a) /\ u <= 0
    <2>1. 0 < a /\ a < 2 * NanosMod /\ (u < 0 => a < NanosMod) /\ (u = 0 => a >= NanosMod)
      BY <1>4 DEF SameSign
    <2>2. m = [units |-> u + 1, nanos |-> a - NanosMod, currencyCode |-> code]
      BY <1>4, <2>1, WrapFits DEF Normalise
    <2>3. (u + 1) * NanosMod + (a - NanosMod) = u * NanosMod + a
      OBVIOUS
    <2> QED BY <1>4, <2>1, <2>2, <2>3
            DEF MoneySet, IsValid, signMatches, validNanos, Value
  <1> QED BY <1>1, <1>2, <1>3, <1>4

\* The operands of a sum that Sum accepts, away from the case in which only
\* nanos are left (see MoneyPairs).
Summable(first, second) ==
    /\ IsValid(first) /\ IsValid(second) /\ first.currencyCode = second.currencyCode
    /\ ~(/\ first.units + second.units = 0
         /\ first.nanos + second.nanos # 0
         /\ first.nanos + second.nanos < NanosMod)

\* Sum returns a legal amount worth exactly the sum of its operands.
LEMMA SumExact ==
    ASSUME NEW first \in MoneySet, NEW second \in MoneySet, Summable(first, second)
    PROVE  LET s == Sum(first, second)
           IN  /\ s.err = "nil"
               /\ s.money \in MoneySet
               /\ s.money.currencyCode = first.currencyCode
               /\ IsValid(s.money)
               /\ Value(s.money) = Value(first) + Value(second)
  <1> DEFINE u == first.units + second.units
             a == first.nanos + second.nanos
  <1> USE MoneyAssumption
  <1>1. /\ u \in Int /\ a \in Int
        /\ first.units \in Int /\ second.units \in Int
        /\ first.nanos \in Int /\ second.nanos \in Int
        /\ first.currencyCode \in CurrencyCodes
    BY DEF MoneySet
  <1>2. -2 * NanosMod < a /\ a < 2 * NanosMod
    BY <1>1 DEF Summable, IsValid, validNanos
  <1>3. Wrap32(a) = a
    BY <1>1, WrapFits DEF Summable, IsValid, validNanos
  <1>4. (u > 0 => a > -NanosMod) /\ (u < 0 => a < NanosMod)
    BY <1>1 DEF Summable, IsValid, signMatches, validNanos
  <1>5. ~(u = 0 /\ a # 0 /\ a < NanosMod)
    BY DEF Summable
  <1>6. /\ Normalise(u, a, first.currencyCode) \in MoneySet
        /\ Normalise(u, a, first.currencyCode).currencyCode = first.currencyCode
        /\ IsValid(Normalise(u, a, first.currencyCode))
        /\ Value(Normalise(u, a, first.currencyCode)) = u * NanosMod + a
    <2> HIDE DEF u, a
    <2> QED BY <1>1, <1>2, <1>4, <1>5, NormaliseExact
  <1>7. Sum(first, second) = [err |-> "nil", money |-> Normalise(u, a, first.currencyCode)]
    BY <1>3 DEF Sum, Summable
  <1>8. u * NanosMod + a = Value(first) + Value(second)
    BY <1>1 DEF Value
  <1> QED BY <1>6, <1>7, <1>8

\* An amount is its three fields.
LEMMA Fields ==
    ASSUME NEW m \in MoneySet
    PROVE  m = [units |-> m.units, nanos |-> m.nanos, currencyCode |-> m.currencyCode]
  BY DEF MoneySet

LEMMA Distributes ==
    ASSUME NEW a \in Int, NEW b \in Int, NEW c \in Int
    PROVE  (a - b) * c = a * c - b * c
  OBVIOUS

\* A legal amount is determined by its value: its units and nanos agree in sign.
LEMMA ValueDetermines ==
    ASSUME NEW m \in MoneySet, NEW o \in MoneySet, IsValid(m), IsValid(o),
           m.currencyCode = o.currencyCode, Value(m) = Value(o)
    PROVE  m = o
  <1> USE MoneyAssumption
  <1>1. /\ m.units \in Int /\ m.nanos \in Int /\ o.units \in Int /\ o.nanos \in Int
        /\ -NanosMod < m.nanos /\ m.nanos < NanosMod
        /\ -NanosMod < o.nanos /\ o.nanos < NanosMod
        /\ m.units > 0 => m.nanos >= 0
        /\ m.units < 0 => m.nanos <= 0
        /\ o.units > 0 => o.nanos >= 0
        /\ o.units < 0 => o.nanos <= 0
    BY DEF MoneySet, IsValid, signMatches, validNanos
  <1> DEFINE d == m.units - o.units
             e == o.nanos - m.nanos
  <1>2. d \in Int /\ e \in Int /\ d * NanosMod = e
    <2>1. d * NanosMod = m.units * NanosMod - o.units * NanosMod
      BY <1>1, Distributes
    <2>2. m.units * NanosMod \in Int /\ o.units * NanosMod \in Int
      BY <1>1
    <2>3. m.units * NanosMod + m.nanos = o.units * NanosMod + o.nanos
      BY DEF Value
    <2> DEFINE p == m.units * NanosMod
               q == o.units * NanosMod
    <2>4. p \in Int /\ q \in Int /\ p + m.nanos = q + o.nanos /\ d * NanosMod = p - q
      BY <2>1, <2>2, <2>3
    <2>5. d \in Int /\ e \in Int
      BY <1>1
    <2> HIDE DEF p, q, d
    <2> QED BY <1>1, <2>4, <2>5
  <1>3. d > -2 /\ d < 2
    <2>1. -2 * NanosMod < e /\ e < 2 * NanosMod
      BY <1>1
    <2> HIDE DEF d, e
    <2>2. ASSUME d >= 2 PROVE FALSE
      <3>1. d * NanosMod >= 2 * NanosMod
        BY <1>2, <2>2
      <3> QED BY <1>2, <2>1, <3>1
    <2>3. ASSUME d <= -2 PROVE FALSE
      <3>1. d * NanosMod <= -2 * NanosMod
        BY <1>2, <2>3
      <3> QED BY <1>2, <2>1, <3>1
    <2> QED BY <1>2, <2>2, <2>3
  <1>4. CASE d = 0
    <2>0. e = 0
      <3> HIDE DEF d, e
      <3> QED BY <1>2, <1>4
    <2>1. m.units = o.units /\ m.nanos = o.nanos
      BY <1>1, <1>4, <2>0
    <2>2. m = [units |-> o.units, nanos |-> o.nanos, currencyCode |-> o.currencyCode]
      BY <2>1, Fields
    <2> QED BY <2>2, Fields
  <1>5. CASE d = 1
    BY <1>1, <1>2, <1>5
  <1>6. CASE d = -1
    BY <1>1, <1>2, <1>6
  <1> QED BY <1>2, <1>3, <1>4, <1>5, <1>6

LEMMA NegateExact ==
    ASSUME NEW m \in MoneySet, IsValid(m)
    PROVE  /\ Negate(m) \in MoneySet /\ IsValid(Negate(m))
           /\ Negate(m).currencyCode = m.currencyCode
           /\ Negate(m).units = -m.units /\ Negate(m).nanos = -m.nanos
           /\ Value(Negate(m)) = -Value(m)
  <1> USE MoneyAssumption
  <1>1. m.units \in Int /\ m.nanos \in Int /\ -NanosMod < m.nanos /\ m.nanos < NanosMod
    BY DEF MoneySet, IsValid, validNanos
  <1>2. Wrap32(-m.nanos) = -m.nanos
    BY <1>1, WrapFits
  <1>3. Negate(m) = [units |-> -m.units, nanos |-> -m.nanos, currencyCode |-> m.currencyCode]
    <2>1. Negate(m) = [m EXCEPT !.units = -m.units, !.nanos = -m.nanos]
      BY <1>2 DEF Negate
    <2>2. m = [units |-> m.units, nanos |-> m.nanos, currencyCode |-> m.currencyCode]
      BY Fields
    <2> QED BY <2>1, <2>2
  <1>4. Negate(m) \in MoneySet
    BY <1>1, <1>3 DEF MoneySet
  <1>5. IsValid(Negate(m))
    BY <1>1, <1>3 DEF IsValid, signMatches, validNanos
  <1>6. (-m.units) * NanosMod + (-m.nanos) = -(m.units * NanosMod + m.nanos)
    BY <1>1
  <1> QED BY <1>3, <1>4, <1>5, <1>6 DEF Value

LEMMA OperandsAreMoney == PairSpec => [](l \in MoneySet /\ r \in MoneySet)
  <1> DEFINE Inv == l \in MoneySet /\ r \in MoneySet
  <1>1. PairInit => Inv
    BY SamplesAssumption DEF PairInit
  <1>2. Inv /\ [Exchange]_pairVars => Inv'
    BY DEF Exchange, pairVars
  <1> QED BY <1>1, <1>2, PTL DEF PairSpec

\* Sum refuses exactly what it should, and its result is legal and exact
\* except where only nanos are left (money.Sum, money.go:81-109).
THEOREM SumCorrect == PairSpec => []SumIsExact
  <1>1. ASSUME l \in MoneySet, r \in MoneySet PROVE SumIsExact
    <2> USE <1>1
    <2>1. Sum(l, r).err = "nil" <=> Compatible
      BY DEF Sum, Compatible
    <2>2. Compatible /\ ~OnlyNanosLeft => Summable(l, r)
      BY DEF Compatible, OnlyNanosLeft, Summable
    <2> QED BY <2>1, <2>2, SumExact DEF SumIsExact
  <1> QED BY <1>1, OperandsAreMoney, PTL

\* Sum does not look at the order of its operands, errors included.
LEMMA SumCommutes ==
    ASSUME NEW m \in MoneySet, NEW o \in MoneySet PROVE Sum(m, o) = Sum(o, m)
  <1>1. m.units + o.units = o.units + m.units /\ m.nanos + o.nanos = o.nanos + m.nanos
    BY DEF MoneySet
  <1> QED BY <1>1 DEF Sum

LEMMA TakenBack ==
    ASSUME l \in MoneySet, r \in MoneySet PROVE TakingBackUndoes
  <1> DEFINE s == Sum(l, r).money
             t == Sum(s, Negate(r))
  <1> SUFFICES ASSUME Compatible, ~OnlyNanosLeft, ~(s.units = r.units /\ s.nanos # r.nanos)
               PROVE  t.money = l
    BY DEF TakingBackUndoes
  <1>1. /\ s \in MoneySet /\ IsValid(s) /\ s.currencyCode = l.currencyCode
        /\ Value(s) = Value(l) + Value(r)
    BY SumExact DEF Compatible, OnlyNanosLeft, Summable
  <1>2. /\ Negate(r) \in MoneySet /\ IsValid(Negate(r)) /\ Value(Negate(r)) = -Value(r)
        /\ Negate(r).currencyCode = l.currencyCode
        /\ Negate(r).units = -r.units /\ Negate(r).nanos = -r.nanos
    BY NegateExact DEF Compatible
  <1> HIDE DEF s
  <1>3. s.units + Negate(r).units = 0 => s.units = r.units
    BY <1>1, <1>2 DEF MoneySet
  <1>4. s.nanos + Negate(r).nanos # 0 => s.nanos # r.nanos
    BY <1>1, <1>2 DEF MoneySet
  <1>5. Summable(s, Negate(r))
    BY <1>1, <1>2, <1>3, <1>4 DEF Summable, s
  <1>6. /\ t.money \in MoneySet /\ IsValid(t.money) /\ t.money.currencyCode = l.currencyCode
        /\ Value(t.money) = Value(s) + Value(Negate(r))
    BY <1>1, <1>2, <1>5, SumExact
  <1>7. Value(l) \in Int /\ Value(r) \in Int
    BY MoneyAssumption DEF Value, MoneySet
  <1>8. Value(t.money) = Value(l)
    BY <1>1, <1>2, <1>6, <1>7
  <1> QED BY <1>6, <1>8, ValueDetermines DEF Compatible

\* The order of the operands does not matter, and either of them can be taken
\* back (money.Sum and money.Negate).
THEOREM SumReversible == PairSpec => SumIsReversible
  <1>1. ASSUME l \in MoneySet, r \in MoneySet, [Exchange]_pairVars
        PROVE  [Sum(l', r') = Sum(l, r) /\ TakingBackUndoes]_pairVars
    BY <1>1, SumCommutes, TakenBack DEF Exchange
  <1> QED BY <1>1, OperandsAreMoney, PTL DEF PairSpec, SumIsReversible

----------------------------------------------------------------------------
(* The total of an order *)

\* A legal amount in the user's currency that is not negative.
Payable(m) ==
    /\ m \in MoneySet /\ IsValid(m) /\ m.currencyCode = UserCurrency
    /\ m.units >= 0 /\ m.nanos >= 0

\* A whole unit at least: whatever is added to it never has only nanos left.
Whole(m) == Payable(m) /\ m.units >= 1

\* The invariant that carries NeverPanics: the running total holds a whole unit
\* from the shipping cost on; MultiplySlow's accumulator is the price of one
\* piece, half a unit at least, and a whole unit as soon as two are added.
IInv ==
    /\ TypeOK
    /\ NeverPanics
    /\ pc = "shipping" => total = Zero(UserCurrency)
    /\ pc # "shipping" => Whole(total)
    /\ pc = "multiply" =>
         /\ idx <= count
         /\ n >= 1
         /\ Payable(out)
         /\ out = items[idx].cost \/ Whole(out)
    /\ PartialProductExact

----------------------------------------------------------------------------
\* A legal amount worth a unit or more has a whole unit and no negative part.
LEMMA WholeByValue ==
    ASSUME NEW m \in MoneySet, IsValid(m), Value(m) >= NanosMod
    PROVE  m.units >= 1 /\ m.nanos >= 0
  <1> USE MoneyAssumption
  <1>1. m.units \in Int /\ m.nanos \in Int
    BY DEF MoneySet
  <1>2. m.units >= 1
    <2>1. m.nanos < NanosMod
      BY DEF IsValid, validNanos
    <2>2. m.units * NanosMod > 0
      BY <1>1, <2>1 DEF Value
    <2> QED BY <1>1, <2>2
  <1> QED BY <1>1, <1>2 DEF IsValid, signMatches

\* A whole amount is worth at least a unit.
LEMMA ValueOfWhole ==
    ASSUME NEW m, Whole(m)
    PROVE  Value(m) \in Int /\ Value(m) >= NanosMod
  <1> USE MoneyAssumption
  <1>1. m.units \in Int /\ m.nanos \in Int /\ m.units >= 1 /\ m.nanos >= 0
    BY DEF Whole, Payable, MoneySet
  <1>2. m.units * NanosMod >= NanosMod
    BY <1>1
  <1> QED BY <1>1, <1>2 DEF Value

LEMMA ValueOfPayable ==
    ASSUME NEW m, Payable(m)
    PROVE  Value(m) \in Int /\ Value(m) >= 0
  <1> USE MoneyAssumption
  <1>1. m.units \in Int /\ m.nanos \in Int /\ m.units >= 0 /\ m.nanos >= 0
    BY DEF Payable, MoneySet
  <1>2. m.units * NanosMod \in Int /\ m.units * NanosMod >= 0
    BY <1>1
  <1> QED BY <1>1, <1>2 DEF Value

\* Adding anything payable to or from a whole amount gives a whole amount.
LEMMA WholeSum ==
    ASSUME NEW first, NEW second, Payable(first), Payable(second), Whole(first) \/ Whole(second)
    PROVE  LET s == Sum(first, second)
           IN  s.err = "nil" /\ Whole(s.money) /\ Value(s.money) = Value(first) + Value(second)
  <1> USE MoneyAssumption
  <1>1. /\ first.units \in Int /\ first.nanos \in Int /\ first.units >= 0
        /\ second.units \in Int /\ second.nanos \in Int /\ second.units >= 0
        /\ first.units + second.units >= 1
    BY DEF Whole, Payable, MoneySet
  <1>2. Summable(first, second)
    BY <1>1 DEF Summable, Payable
  <1>3. first \in MoneySet /\ second \in MoneySet /\ first.currencyCode = UserCurrency
    BY DEF Payable
  <1> DEFINE s == Sum(first, second)
  <1>4. /\ s.err = "nil" /\ s.money \in MoneySet /\ s.money.currencyCode = UserCurrency
        /\ IsValid(s.money) /\ Value(s.money) = Value(first) + Value(second)
    BY <1>2, <1>3, SumExact
  <1>5. Value(s.money) >= NanosMod
    <2> HIDE DEF s
    <2> QED BY <1>4, ValueOfWhole, ValueOfPayable DEF Payable
  <1>6. s.money.units >= 1 /\ s.money.nanos >= 0
    <2> HIDE DEF s
    <2> QED BY <1>4, <1>5, WholeByValue
  <1>7. s.money.units >= 0
    <2> HIDE DEF s
    <2> QED BY <1>4, <1>6 DEF MoneySet
  <1> QED BY <1>4, <1>6, <1>7 DEF Whole, Payable

\* Doubling a price of half a unit or more gives a whole amount.
LEMMA DoubleSum ==
    ASSUME NEW c \in ItemCosts
    PROVE  LET s == Sum(c, c)
           IN  s.err = "nil" /\ Whole(s.money) /\ Value(s.money) = Value(c) + Value(c)
  <1> USE MoneyAssumption, OrderTotalAssumption
  <1>1. Payable(c)
    BY DEF Payable
  <1>2. CASE c.units >= 1
    BY <1>1, <1>2, WholeSum DEF Whole
  <1>3. CASE ~(c.units >= 1)
    <2>1. /\ c \in MoneySet /\ c.units = 0 /\ c.nanos \in Int
          /\ c.nanos + c.nanos >= NanosMod
      BY <1>3 DEF MoneySet
    <2>2. Summable(c, c)
      BY <1>1, <2>1 DEF Summable, Payable
    <2> DEFINE s == Sum(c, c)
    <2>3. /\ s.err = "nil" /\ s.money \in MoneySet /\ s.money.currencyCode = UserCurrency
          /\ IsValid(s.money) /\ Value(s.money) = Value(c) + Value(c)
      BY <1>1, <2>1, <2>2, SumExact DEF Payable
    <2>4. Value(c) = c.nanos
      BY <2>1 DEF Value
    <2> HIDE DEF s
    <2>5. s.money.units >= 1 /\ s.money.nanos >= 0
      BY <2>1, <2>3, <2>4, WholeByValue
    <2>6. s.money.units >= 0
      BY <2>3, <2>5 DEF MoneySet
    <2>7. s.err = "nil" /\ Whole(s.money) /\ Value(s.money) = Value(c) + Value(c)
      BY <2>3, <2>5, <2>6 DEF Whole, Payable
    <2> QED BY <2>7 DEF s
  <1> QED BY <1>2, <1>3

----------------------------------------------------------------------------
LEMMA InitIInv == Init => IInv
  BY OrderTotalAssumption
     DEF Init, IInv, TypeOK, NeverPanics, PartialProductExact, Zero, MoneySet

LEMMA StepIInv == IInv /\ [Next]_vars => IInv'
  <1> SUFFICES ASSUME IInv, [Next]_vars PROVE IInv'
    OBVIOUS
  <1> USE OrderTotalAssumption
  <1>0. TypeOK /\ NeverPanics
    BY DEF IInv
  <1>c. ASSUME NEW i \in 1 .. count
        PROVE  /\ items[i].cost \in ItemCosts /\ Payable(items[i].cost)
               /\ items[i].cost \in MoneySet /\ Value(items[i].cost) \in Int
               /\ items[i].quantity \in 1 .. MaxQuantity
    <2>1. items[i] \in OrderLine
      BY <1>0, <1>c DEF TypeOK
    <2>2. items[i].cost \in ItemCosts /\ items[i].quantity \in 1 .. MaxQuantity
      BY <2>1 DEF OrderLine
    <2>3. Payable(items[i].cost)
      BY <2>2 DEF Payable
    <2> QED BY <2>2, <2>3, ValueOfPayable DEF Payable
  <1>1. CASE AddShipping
    <2>1. Payable(total)
      BY <1>1, MoneyAssumption DEF IInv, AddShipping, Payable, Zero, MoneySet,
                                   IsValid, signMatches, validNanos
    <2>2. Whole(shipping)
      BY <1>0 DEF TypeOK, Whole, Payable, MoneySet
    <2>3. /\ Sum(total, shipping).err = "nil"
          /\ Whole(Sum(total, shipping).money)
      BY <2>1, <2>2, WholeSum DEF Whole
    <2>4. total' = Sum(total, shipping).money /\ pc' = "line"
      BY <1>1, <2>3 DEF AddShipping, Must
    <2>5. UNCHANGED <<shipping, count, items, idx, out, n>>
      BY <1>1 DEF AddShipping
    <2>6. TypeOK'
      BY <1>0, <2>3, <2>4, <2>5 DEF TypeOK, Whole, Payable
    <2> QED BY <2>3, <2>4, <2>5, <2>6 DEF IInv, NeverPanics, PartialProductExact
  <1>2. CASE StartLine
    <2>1. idx \in 1 .. count
      BY <1>0, <1>2 DEF StartLine, TypeOK
    <2>2. /\ pc' = "multiply" /\ out' = items[idx].cost /\ n' = items[idx].quantity
          /\ UNCHANGED <<shipping, count, items, total, idx>>
      BY <1>2 DEF StartLine
    <2>3. TypeOK'
      BY <1>0, <1>c, <2>1, <2>2 DEF TypeOK
    <2>4. Whole(total)'
      BY <1>2, <2>2 DEF IInv, StartLine, Whole, Payable
    <2>5. Payable(out)'
      BY <1>c, <2>1, <2>2
    <2>6. PartialProductExact'
      <3>1. Value(out') = Value(items[idx].cost)
        BY <2>2
      <3>2. n' \in Int /\ items'[idx'].quantity = n' /\ items'[idx'].cost = items[idx].cost
        BY <1>c, <2>1, <2>2
      <3>3. ASSUME NEW v \in Int, NEW k \in Int PROVE v = (k - k + 1) * v
        OBVIOUS
      <3>4. Value(items[idx].cost) \in Int
        BY <1>c, <2>1
      <3> QED BY <3>1, <3>2, <3>3, <3>4, <2>2 DEF PartialProductExact, Value
    <2> QED BY <1>c, <2>1, <2>2, <2>3, <2>4, <2>5, <2>6 DEF IInv, NeverPanics
  <1>3. CASE MultiplyStep
    <2> DEFINE c == items[idx].cost
               s == Sum(out, c)
    <2>1. /\ pc = "multiply" /\ n > 1 /\ n \in Int /\ idx \in 1 .. count
          /\ Payable(out) /\ (out = c \/ Whole(out)) /\ Whole(total)
      BY <1>0, <1>3 DEF IInv, MultiplyStep, MoreToAdd, TypeOK
    <2>2. c \in ItemCosts /\ Payable(c) /\ Value(c) \in Int
      BY <1>c, <2>1
    <2>3. s.err = "nil" /\ Whole(s.money) /\ Value(s.money) = Value(out) + Value(c)
      <3>1. CASE out = c
        BY <2>2, <3>1, DoubleSum
      <3>2. CASE Whole(out)
        BY <2>1, <2>2, <3>2, WholeSum
      <3> QED BY <2>1, <3>1, <3>2
    <2>4. /\ out' = s.money /\ pc' = "multiply" /\ n' = n - 1
          /\ UNCHANGED <<shipping, count, items, total, idx>>
      BY <1>3, <2>3 DEF MultiplyStep, Must
    <2> HIDE DEF s
    <2>5. TypeOK'
      BY <1>0, <2>1, <2>3, <2>4 DEF TypeOK, Whole, Payable
    <2>6. Whole(out)' /\ Payable(out)'
      BY <2>3, <2>4 DEF Whole, Payable
    <2>7. Whole(total)'
      BY <2>1, <2>4 DEF Whole, Payable
    <2>8. PartialProductExact'
      <3> DEFINE q == items[idx].quantity
                 v == Value(c)
      <3>1. Value(out) = (q - n + 1) * v
        BY <2>1 DEF IInv, PartialProductExact
      <3>2. q \in Int /\ n \in Int /\ v \in Int
        BY <1>c, <2>1, <2>2
      <3>3. (q - n + 1) * v + v = (q - (n - 1) + 1) * v
        <4> HIDE DEF q, v
        <4> QED BY <3>2
      <3>4. Value(out') = (q - n' + 1) * v
        BY <2>3, <2>4, <3>1, <3>3
      <3>5. items'[idx'] = items[idx]
        BY <2>4
      <3> QED BY <3>4, <3>5 DEF PartialProductExact, Value
    <2> QED BY <2>1, <2>4, <2>5, <2>6, <2>7, <2>8 DEF IInv, NeverPanics
  <1>4. CASE AddLine
    <2> DEFINE s == Sum(total, out)
    <2>1. /\ pc = "multiply" /\ idx \in 1 .. count
          /\ Payable(out) /\ Whole(total)
      BY <1>0, <1>4 DEF IInv, AddLine, TypeOK
    <2>2. s.err = "nil" /\ Whole(s.money)
      BY <2>1, WholeSum DEF Whole
    <2>3. /\ total' = s.money /\ pc' = "line" /\ idx' = idx + 1
          /\ UNCHANGED <<shipping, count, items, out, n>>
      BY <1>4, <2>2 DEF AddLine, Must
    <2> HIDE DEF s
    <2>4. TypeOK'
      BY <1>0, <2>1, <2>2, <2>3 DEF TypeOK, Whole, Payable
    <2>5. Whole(total)'
      BY <2>2, <2>3 DEF Whole, Payable
    <2> QED BY <2>3, <2>4, <2>5 DEF IInv, NeverPanics, PartialProductExact
  <1>5. CASE Finish
    BY <1>0, <1>5 DEF Finish, IInv, TypeOK, NeverPanics, PartialProductExact, Whole, Payable
  <1>6. CASE UNCHANGED vars
    BY <1>6 DEF vars, IInv, TypeOK, NeverPanics, PartialProductExact, Whole, Payable,
                OrderLine, Value, IsValid, signMatches, validNanos
  <1> QED BY <1>1, <1>2, <1>3, <1>4, <1>5, <1>6 DEF Next

LEMMA InvariantIInv == Spec => []IInv
  BY InitIInv, StepIInv, PTL DEF Spec

\* Every state of the computation has the declared types.
THEOREM TypeCorrect == Spec => []TypeOK
  <1>1. IInv => TypeOK
    BY DEF IInv
  <1> QED BY <1>1, InvariantIInv, PTL

\* Must never panics: an order whose shipping costs a unit and whose pieces
\* cost half a unit never takes the process down, whatever it holds.
THEOREM TotalNeverPanics == Spec => []NeverPanics
  <1>1. IInv => NeverPanics
    BY DEF IInv
  <1> QED BY <1>1, InvariantIInv, PTL

\* MultiplySlow is multiplication.
THEOREM ProductExact == Spec => []PartialProductExact
  <1>1. IInv => PartialProductExact
    BY DEF IInv
  <1> QED BY <1>1, InvariantIInv, PTL

\* AddLine adds the price of the line.
LEMMA AddLineExact ==
    ASSUME IInv, AddLine
    PROVE  /\ idx \in 1 .. count /\ pc' = "line"
           /\ Value(total') = Value(total) + LineValue(items[idx])
           /\ Value(total) \in Int /\ LineValue(items[idx]) \in Int
  <1>1. /\ pc = "multiply" /\ idx \in 1 .. count /\ n = 1
        /\ Payable(out) /\ Whole(total)
    BY DEF AddLine, MoreToAdd, IInv, TypeOK
  <1>2. Value(Sum(total, out).money) = Value(total) + Value(out)
        /\ Sum(total, out).err = "nil"
    BY <1>1, WholeSum DEF Whole
  <1>3. total' = Sum(total, out).money /\ pc' = "line"
    BY <1>2 DEF AddLine, Must
  <1>4. Value(out) = (items[idx].quantity - n + 1) * Value(items[idx].cost)
    BY <1>1 DEF IInv, PartialProductExact
  <1>5. items[idx].quantity \in Int
    <2>1. idx \in 1 .. count /\ items \in [1 .. count -> OrderLine]
      BY <1>1 DEF IInv, TypeOK
    <2>2. items[idx] \in OrderLine
      BY <2>1
    <2> QED BY <2>2, OrderTotalAssumption DEF OrderLine
  <1>6. items[idx].quantity - n + 1 = items[idx].quantity
    BY <1>1, <1>5
  <1>7. Value(out) = LineValue(items[idx])
    BY <1>4, <1>6 DEF LineValue
  <1> QED BY <1>1, <1>2, <1>3, <1>7, ValueOfWhole, ValueOfPayable

\* Each line raises the total by exactly its price times its quantity.
THEOREM LinesAddExactly == Spec => LineAddedExactly
  <1>1. IInv /\ IInv' /\ [Next]_vars =>
          [idx' = idx + 1 /\ pc' # "panic" =>
             Value(total') = Value(total) + LineValue(items[idx])]_vars
    <2> SUFFICES ASSUME IInv, Next, idx' = idx + 1, pc' # "panic"
                 PROVE  Value(total') = Value(total) + LineValue(items[idx])
      OBVIOUS
    <2>1. idx \in Int
      BY DEF IInv, TypeOK
    <2>2. AddLine
      BY <2>1 DEF Next, AddShipping, StartLine, MultiplyStep, Finish
    <2> QED BY <2>2, AddLineExact
  <1> QED BY <1>1, InvariantIInv, PTL DEF Spec, LineAddedExactly

----------------------------------------------------------------------------
(* The amount charged *)

LineValues == [i \in 1 .. count |-> LineValue(items[i])]

\* The running total is the shipping cost and the lines that have been added.
TotalInv ==
    /\ pc = "shipping" => idx = 1
    /\ pc # "shipping" =>
         Value(total) = Value(shipping) + SumOver(LineValues, 1 .. idx - 1)
    /\ pc = "charge" => idx = count + 1

LEMMA LinesAreSum ==
    ASSUME count \in Nat
    PROVE  MapThenSumSet(LAMBDA i : LineValue(items[i]), 1 .. count)
             = SumOver(LineValues, 1 .. count)
  <1> DEFINE S == 1 .. count
             Step(g) == [s \in SUBSET S |-> IF s = {} THEN 0
                          ELSE LineValue(items[First(s)]) + g[s \ {First(s)}]]
             h == CHOOSE g : g = Step(g)
  <1>1. IsFiniteSet(S)
    BY FS_Interval
  <1>2. ASSUME NEW g PROVE SumStep(LineValues, S, g) = Step(g)
    <2>1. \A s \in SUBSET S : s # {} => LineValues[First(s)] = LineValue(items[First(s)])
      BY DEF First, LineValues
    <2> QED BY <2>1 DEF SumStep
  <1>3. \E g : g = Step(g)
    <2>1. PICK g : Sums(LineValues, S, g)
      BY <1>1, SumsExist
    <2>2. g = SumStep(LineValues, S, g)
      BY <2>1 DEF Sums
    <2>3. SumStep(LineValues, S, g) = Step(g)
      BY <1>2
    <2> HIDE DEF Step
    <2>4. g = Step(g)
      BY <2>2, <2>3
    <2> QED BY <2>4
  <1>4. h = Step(h)
    <2> HIDE DEF Step
    <2> QED BY <1>3
  <1>5. Sums(LineValues, S, h)
    <2> HIDE DEF Step, h
    <2> QED BY <1>2, <1>4 DEF Sums
  <1>6. MapThenSumSet(LAMBDA i : LineValue(items[i]), S) = h[S]
    BY DEF MapThenSumSet, MapThenFoldSet, First
  <1> HIDE DEF h, S
  <1>7. SumOver(LineValues, S) = h[S]
    BY <1>1, <1>5, SumOverIs
  <1> QED BY <1>6, <1>7 DEF S

LEMMA TotalStep == IInv /\ TotalInv /\ [Next]_vars => TotalInv'
  <1> SUFFICES ASSUME IInv, TotalInv, [Next]_vars PROVE TotalInv'
    OBVIOUS
  <1>1. CASE AddShipping
    <2>1. /\ Payable(total) /\ Value(total) = 0 /\ Whole(shipping) /\ idx = 1
      <3>1. pc = "shipping" /\ total = Zero(UserCurrency) /\ idx = 1
        BY <1>1 DEF AddShipping, IInv, TotalInv
      <3>2. Payable(total) /\ Value(total) = 0
        BY <3>1, MoneyAssumption, OrderTotalAssumption
           DEF Payable, Zero, MoneySet, IsValid, signMatches, validNanos, Value
      <3> QED BY <3>1, <3>2, OrderTotalAssumption DEF IInv, TypeOK, Whole, Payable, MoneySet
    <2>2. /\ Sum(total, shipping).err = "nil"
          /\ Value(Sum(total, shipping).money) = Value(total) + Value(shipping)
      BY <2>1, WholeSum DEF Whole
    <2>3. total' = Sum(total, shipping).money /\ pc' = "line"
      BY <1>1, <2>2 DEF AddShipping, Must
    <2>4. UNCHANGED <<shipping, idx>>
      BY <1>1 DEF AddShipping
    <2>5. Value(shipping) \in Int
      BY <2>1, ValueOfWhole
    <2>6. SumOver(LineValues', 1 .. idx - 1) = 0
      <3>1. 1 .. idx - 1 = {}
        BY <2>1
      <3> QED BY <3>1, SumOfNothing, Zenon
    <2>7. Value(total') = Value(shipping)
      BY <2>1, <2>2, <2>3, <2>5
    <2> QED BY <2>3, <2>4, <2>5, <2>6, <2>7 DEF TotalInv
  <1>2. CASE AddLine
    <2> DEFINE S == 1 .. idx - 1
    <2>1. /\ idx \in 1 .. count /\ pc = "multiply" /\ pc' = "line" /\ idx' = idx + 1
          /\ Value(total') = Value(total) + LineValue(items[idx])
          /\ UNCHANGED <<shipping, count, items>>
      BY <1>2, AddLineExact DEF AddLine
    <2>2. \A i \in 1 .. count : LineValues[i] \in Int
      <3> SUFFICES ASSUME NEW i \in 1 .. count PROVE LineValue(items[i]) \in Int
        BY DEF LineValues
      <3>1. items[i] \in OrderLine
        BY DEF IInv, TypeOK
      <3>2. items[i].quantity \in Int /\ Value(items[i].cost) \in Int
        BY <3>1, OrderTotalAssumption, MoneyAssumption DEF OrderLine, Value, MoneySet
      <3> QED BY <3>2 DEF LineValue
    <2>3. S \cup {idx} = 1 .. idx' - 1 /\ idx \notin S /\ S \subseteq 1 .. count
      BY <2>1 DEF IInv, TypeOK
    <2>4. IsFiniteSet(S)
      BY <2>1, FS_Interval
    <2> HIDE DEF S
    <2>5. SumOver(LineValues, S \cup {idx}) = SumOver(LineValues, S) + LineValues[idx]
      BY <2>1, <2>2, <2>3, <2>4, SumGainsElement
    <2>6. LineValues[idx] = LineValue(items[idx]) /\ LineValues' = LineValues
      BY <2>1 DEF LineValues
    <2>7. Value(total) = Value(shipping) + SumOver(LineValues, S)
      BY <2>1 DEF TotalInv, S
    <2>8. /\ Value(shipping) \in Int /\ SumOver(LineValues, S) \in Int
          /\ LineValues[idx] \in Int
      <3>1. SumOver(LineValues, S) \in Int
        BY <2>2, <2>3, <2>4, SumIsInt
      <3>2. shipping \in MoneySet
        BY OrderTotalAssumption DEF IInv, TypeOK
      <3> QED BY <2>1, <2>2, <3>1, <3>2, MoneyAssumption DEF Value, MoneySet
    <2>9. Value(total') = Value(shipping) + SumOver(LineValues, S \cup {idx})
      BY <2>1, <2>5, <2>6, <2>7, <2>8
    <2>10. Value(total') = Value(shipping') + SumOver(LineValues', 1 .. idx' - 1)
      BY <2>1, <2>3, <2>6, <2>9, Zenon
    <2> QED BY <2>1, <2>10 DEF TotalInv
  <1>3. ASSUME UNCHANGED <<shipping, count, items, total, idx>>,
               pc # "shipping", pc' = "charge" => idx = count + 1
        PROVE  TotalInv'
    <2>1. LineValues' = LineValues /\ Value(total') = Value(total) /\ Value(shipping') = Value(shipping)
      BY <1>3 DEF LineValues
    <2>2. Value(total') = Value(shipping') + SumOver(LineValues', 1 .. idx' - 1)
      BY <1>3, <2>1 DEF TotalInv
    <2>3. pc' = "shipping" => pc = "shipping"
      BY DEF Next, AddShipping, StartLine, MultiplyStep, AddLine, Finish, vars, Must
    <2> QED BY <1>3, <2>2, <2>3 DEF TotalInv
  <1>4. CASE StartLine \/ Finish
    BY <1>3, <1>4 DEF StartLine, Finish, IInv, TypeOK
  <1>5. CASE MultiplyStep
    BY <1>3, <1>5 DEF MultiplyStep, Must
  <1>6. CASE UNCHANGED vars
    <2>1. CASE pc # "shipping"
      BY <1>3, <1>6, <2>1 DEF vars, TotalInv
    <2>2. CASE pc = "shipping"
      BY <1>6, <2>2 DEF vars, TotalInv
    <2> QED BY <2>1, <2>2
  <1> QED BY <1>1, <1>2, <1>4, <1>5, <1>6 DEF Next

\* The card is charged shipping plus price times quantity of every line, to the nano, as a legal
\* amount in the currency of the request (PlaceOrder in src/checkout/main.go).
THEOREM ChargeExact == Spec => []ChargeIsExact
  <1> DEFINE J == IInv /\ TotalInv
  <1>1. Init => TotalInv
    BY DEF Init, TotalInv
  <1>2. IInv /\ TotalInv => ChargeIsExact
    <2> SUFFICES ASSUME IInv, TotalInv, pc = "charge" PROVE ChargeIsExact
      BY DEF ChargeIsExact
    <2>1. count \in Nat /\ 1 .. idx - 1 = 1 .. count
      BY OrderTotalAssumption DEF IInv, TypeOK, TotalInv
    <2>2. Value(total) = Value(shipping) + SumOver(LineValues, 1 .. idx - 1)
      BY DEF TotalInv
    <2>3. Value(total) = Value(shipping) + SumOver(LineValues, 1 .. count)
      BY <2>1, <2>2, Zenon
    <2>4. IsValid(total) /\ total.currencyCode = UserCurrency
      BY DEF IInv, Whole, Payable
    <2> QED BY <2>1, <2>3, <2>4, LinesAreSum, Zenon DEF ChargeIsExact
  <1> QED BY <1>1, <1>2, InvariantIInv, TotalStep, PTL DEF Spec

----------------------------------------------------------------------------
(* Currencies *)

\* The recursion of Tens has a solution, so Tens is one.
LEMMA TensIsRecursive == Tens = [d \in 0 .. NanoDigits |-> IF d = 0 THEN 1 ELSE 10 * Tens[d - 1]]
  <1> DEFINE Solves(b, f) == f = [d \in 0 .. b |-> IF d = 0 THEN 1 ELSE 10 * f[d - 1]]
             A == {b \in Nat : \E f : Solves(b, f)}
  <1>1. 0 \in A
    <2>1. Solves(0, [d \in 0 .. 0 |-> 1])
      OBVIOUS
    <2> QED BY <2>1
  <1>2. ASSUME NEW b \in Nat, b \in A PROVE b + 1 \in A
    <2>1. PICK f : Solves(b, f)
      BY <1>2
    <2> DEFINE g == [d \in 0 .. b + 1 |-> IF d = b + 1 THEN 10 * f[b] ELSE f[d]]
    <2>2. ASSUME NEW d \in 0 .. b + 1 PROVE g[d] = IF d = 0 THEN 1 ELSE 10 * g[d - 1]
      <3>1. CASE d = b + 1
        BY <3>1
      <3>2. CASE d \in 0 .. b
        <4>1. g[d] = f[d] /\ (d # 0 => g[d - 1] = f[d - 1])
          BY <3>2
        <4>2. f[d] = IF d = 0 THEN 1 ELSE 10 * f[d - 1]
          BY <2>1, <3>2
        <4> QED BY <4>1, <4>2
      <3> QED BY <3>1, <3>2
    <2>3. Solves(b + 1, g)
      BY <2>2
    <2> HIDE DEF g, Solves
    <2> QED BY <2>3
  <1> HIDE DEF Solves
  <1>3. NanoDigits \in A
    <2>1. Nat \subseteq A
      <3> HIDE DEF A
      <3> QED BY <1>1, <1>2, NatInductionSet
    <2> QED BY <2>1, CurrencyAssumption
  <1>4. \E f : Solves(NanoDigits, f)
    BY <1>3
  <1>5. \E f : f = [d \in 0 .. NanoDigits |-> IF d = 0 THEN 1 ELSE 10 * f[d - 1]]
    BY <1>4 DEF Solves
  <1> QED BY <1>5 DEF Tens

LEMMA TensStep ==
    ASSUME NEW d \in Nat, d < NanoDigits
    PROVE  Tens[0] = 1 /\ Tens[d + 1] = 10 * Tens[d]
  <1>1. 0 \in 0 .. NanoDigits /\ d + 1 \in 0 .. NanoDigits
    BY CurrencyAssumption
  <1>2. \A e \in 0 .. NanoDigits : Tens[e] = IF e = 0 THEN 1 ELSE 10 * Tens[e - 1]
    <2> DEFINE f == Tens
    <2>1. f = [e \in 0 .. NanoDigits |-> IF e = 0 THEN 1 ELSE 10 * f[e - 1]]
      BY TensIsRecursive
    <2> HIDE DEF f
    <2>2. \A e \in 0 .. NanoDigits : f[e] = IF e = 0 THEN 1 ELSE 10 * f[e - 1]
      BY <2>1
    <2> QED BY <2>2 DEF f
  <1>3. Tens[d + 1] = 10 * Tens[(d + 1) - 1] /\ (d + 1) - 1 = d
    BY <1>1, <1>2
  <1> QED BY <1>1, <1>2, <1>3

LEMMA TensAreNat == \A d \in 0 .. NanoDigits : Tens[d] \in Nat \ {0}
  <1> DEFINE A == {d \in Nat : d <= NanoDigits => Tens[d] \in Nat \ {0}}
  <1> USE CurrencyAssumption
  <1>1. 0 \in A
    BY TensStep
  <1>2. ASSUME NEW d \in Nat, d \in A PROVE d + 1 \in A
    <2> SUFFICES ASSUME d + 1 <= NanoDigits PROVE Tens[d + 1] \in Nat \ {0}
      OBVIOUS
    <2>1. Tens[d + 1] = 10 * Tens[d]
      BY TensStep
    <2>2. Tens[d] \in Nat \ {0}
      BY <1>2
    <2> QED BY <2>1, <2>2
  <1>3. Nat \subseteq A
    <2> HIDE DEF A
    <2> QED BY <1>1, <1>2, NatInductionSet
  <1> QED BY <1>3

\* The powers of ten multiply.
LEMMA TensMultiply ==
    ASSUME NEW a \in Nat, NEW b \in Nat, a + b <= NanoDigits
    PROVE  Tens[a + b] = Tens[a] * Tens[b]
  <1> DEFINE A == {d \in Nat : d + b <= NanoDigits => Tens[d + b] = Tens[d] * Tens[b]}
  <1> USE CurrencyAssumption
  <1>1. 0 \in A
    <2>1. Tens[b] \in Nat /\ Tens[0] = 1
      BY TensAreNat, TensStep
    <2> QED BY <2>1
  <1>2. ASSUME NEW d \in Nat, d \in A PROVE d + 1 \in A
    <2> SUFFICES ASSUME (d + 1) + b <= NanoDigits PROVE Tens[(d + 1) + b] = Tens[d + 1] * Tens[b]
      OBVIOUS
    <2>1. Tens[d + b] = Tens[d] * Tens[b]
      BY <1>2
    <2>2. Tens[(d + b) + 1] = 10 * Tens[d + b] /\ Tens[d + 1] = 10 * Tens[d]
      BY TensStep
    <2>3. (d + 1) + b = (d + b) + 1
      OBVIOUS
    <2>4. Tens[d] \in Nat /\ Tens[b] \in Nat
      BY TensAreNat
    <2>5. (10 * Tens[d]) * Tens[b] = 10 * (Tens[d] * Tens[b])
      BY <2>4
    <2> QED BY <2>1, <2>2, <2>3, <2>5
  <1>3. Nat \subseteq A
    <2> HIDE DEF A
    <2> QED BY <1>1, <1>2, NatInductionSet
  <1> QED BY <1>3

\* The turn of getDouble's loop on what it keeps in decimal.
Turned(x, decimal) == decimal \div 10 + (x % 10) * (NanosMod \div 10)

\* f is what getDouble's loop makes of every x up to b.
TurnsOf(b, f) ==
    [x \in 0 .. b |->
       [decimal \in 0 .. NanosMod - 1 |->
          IF x = 0 THEN decimal ELSE f[x \div 10][Turned(x, decimal)]]]

Turns(b, f) == f = TurnsOf(b, f)

\* A unit is a multiple of ten nanos.
LEMMA UnitIsTens ==
    /\ NanosMod = 10 * Tens[NanoDigits - 1] /\ Tens[NanoDigits - 1] \in Nat \ {0}
    /\ NanosMod \div 10 = Tens[NanoDigits - 1]
  <1> DEFINE t == Tens[NanoDigits - 1]
  <1>1. NanoDigits - 1 \in Nat /\ NanoDigits - 1 < NanoDigits /\ (NanoDigits - 1) + 1 = NanoDigits
    BY CurrencyAssumption
  <1>2. Tens[NanoDigits] = 10 * t
    BY <1>1, TensStep
  <1>3. t \in Nat \ {0}
    BY <1>1, TensAreNat
  <1> HIDE DEF t
  <1>4. NanosMod = 10 * t /\ (10 * t) \div 10 = t
    BY <1>2, <1>3, CurrencyAssumption
  <1> QED BY <1>3, <1>4 DEF t

LEMMA TurnedFits ==
    ASSUME NEW x \in Nat, NEW decimal \in 0 .. NanosMod - 1
    PROVE  Turned(x, decimal) \in 0 .. NanosMod - 1
  <1> DEFINE t == Tens[NanoDigits - 1]
  <1>1. NanosMod = 10 * t /\ t \in Nat \ {0} /\ NanosMod \div 10 = t
    BY UnitIsTens
  <1> HIDE DEF t
  <1>2. x % 10 \in 0 .. 9
    OBVIOUS
  <1>3. decimal \div 10 \in 0 .. t - 1
    BY <1>1
  <1>4. (x % 10) * t \in 0 .. 9 * t
    <2> DEFINE rest == x % 10
    <2> HIDE DEF rest
    <2>1. rest \in 0 .. 9
      BY <1>2 DEF rest
    <2>2. rest * t \in Nat /\ rest * t <= 9 * t
      BY <1>1, <2>1
    <2> QED BY <1>1, <2>2 DEF rest
  <1> QED BY <1>1, <1>3, <1>4 DEF Turned

LEMMA TurnsGrow ==
    ASSUME NEW b \in Nat, NEW f, Turns(b, f)
    PROVE  \E g : Turns(b + 1, g)
  <1> DEFINE g == [x \in 0 .. b + 1 |->
                     IF x = b + 1
                     THEN [d \in 0 .. NanosMod - 1 |-> f[x \div 10][Turned(x, d)]]
                     ELSE f[x]]
  <1>1. ASSUME NEW x \in 0 .. b + 1
        PROVE  g[x] = [d \in 0 .. NanosMod - 1 |->
                         IF x = 0 THEN d ELSE g[x \div 10][Turned(x, d)]]
    <2>2. x # 0 => x \div 10 \in 0 .. b
      OBVIOUS
    <2>3. x # 0 => g[x \div 10] = f[x \div 10]
      BY <2>2
    <2>4. CASE x = b + 1
      <3>1. g[x] = [d \in 0 .. NanosMod - 1 |-> f[x \div 10][Turned(x, d)]] /\ x # 0
        BY <2>4
      <3> HIDE DEF g
      <3> QED BY <2>3, <3>1
    <2>5. CASE x # b + 1
      <3>1. x \in 0 .. b /\ g[x] = f[x]
        BY <2>5
      <3>2. f[x] = [d \in 0 .. NanosMod - 1 |->
                      IF x = 0 THEN d ELSE f[x \div 10][Turned(x, d)]]
        BY <3>1 DEF Turns, TurnsOf
      <3> HIDE DEF g
      <3> QED BY <2>3, <3>1, <3>2
    <2> QED BY <2>4, <2>5
  <1>2. Turns(b + 1, g)
    <2>1. DOMAIN g = 0 .. b + 1 /\ g = [x \in 0 .. b + 1 |-> g[x]]
      OBVIOUS
    <2> HIDE DEF g
    <2> QED BY <1>1, <2>1 DEF Turns, TurnsOf
  <1> HIDE DEF g
  <1> QED BY <1>2

\* Division by a positive number has one quotient and one remainder.
LEMMA DivisionIs ==
    ASSUME NEW m \in Nat \ {0}, NEW p \in Nat, NEW rest \in Nat, rest < m
    PROVE  (p * m + rest) \div m = p /\ (p * m + rest) % m = rest
  <1> DEFINE k == p * m + rest
             q == k \div m
             s == k % m
  <1>1. k \in Nat /\ p * m \in Nat
    OBVIOUS
  <1>2. q \in Int /\ s \in Int /\ 0 <= s /\ s < m /\ k = m * q + s
    <2> HIDE DEF k
    <2> QED BY <1>1
  <1>3. m * q + s = p * m + rest
    BY <1>2
  <1> HIDE DEF q, s, k
  <1>4. (q - p) * m = rest - s
    <2>1. (q - p) * m = q * m - p * m /\ q * m = m * q
      BY <1>2
    <2> DEFINE a == q * m
               b == p * m
    <2>2. a \in Int /\ b \in Int
      BY <1>2
    <2>3. a + s = b + rest /\ (q - p) * m = a - b
      BY <1>3, <2>1
    <2> HIDE DEF a, b
    <2> QED BY <1>2, <2>2, <2>3
  <1>5. q - p < 1
    <2> SUFFICES ASSUME q - p >= 1 PROVE FALSE
      BY <1>2
    <2> DEFINE e == q - p
    <2>1. e \in Int /\ e >= 1
      BY <1>2
    <2> HIDE DEF e
    <2>2. e * m >= m
      BY <2>1
    <2> QED BY <1>2, <1>4, <2>2 DEF e
  <1>6. q - p > -1
    <2> SUFFICES ASSUME q - p <= -1 PROVE FALSE
      BY <1>2
    <2> DEFINE e == q - p
    <2>1. e \in Int /\ e <= -1
      BY <1>2
    <2> HIDE DEF e
    <2>2. e * m <= -m
      BY <2>1
    <2> QED BY <1>2, <1>4, <2>2 DEF e
  <1>7. q = p
    BY <1>2, <1>5, <1>6
  <1>8. s = rest
    BY <1>2, <1>4, <1>7
  <1> QED BY <1>7, <1>8 DEF q, s, k

\* Taking the next digit of a number whose lowest digits are below t.
LEMMA NextDigit ==
    ASSUME NEW n0 \in Nat, NEW t \in Nat \ {0}
    PROVE  /\ (n0 \div t) \div 10 = n0 \div (10 * t)
           /\ n0 % (10 * t) = (n0 % t) + ((n0 \div t) % 10) * t
  <1> DEFINE q == n0 \div t
             rest == n0 % t
             p == q \div 10
             s == q % 10
  <1>1. q \in Nat /\ rest \in Nat /\ rest < t /\ n0 = t * q + rest
    OBVIOUS
  <1> HIDE DEF q, rest
  <1>2. p \in Nat /\ s \in 0 .. 9 /\ q = 10 * p + s
    BY <1>1
  <1> HIDE DEF p, s
  <1>3. s * t \in Nat /\ s * t <= 9 * t
    BY <1>2
  <1>4. n0 = p * (10 * t) + (s * t + rest)
    <2>1. t * (10 * p + s) = p * (10 * t) + s * t
      BY <1>2
    <2>2. p * (10 * t) \in Nat
      BY <1>2
    <2> DEFINE a == p * (10 * t)
               b == s * t
    <2>3. n0 = (a + b) + rest /\ a \in Nat /\ b \in Nat
      BY <1>1, <1>2, <1>3, <2>1, <2>2
    <2> HIDE DEF a, b
    <2>4. n0 = a + (b + rest)
      BY <1>1, <2>3
    <2> QED BY <2>4 DEF a, b
  <1> DEFINE m == 10 * t
             low == s * t + rest
  <1>5. m \in Nat \ {0} /\ low \in Nat /\ low < m /\ n0 = p * m + low
    <2> DEFINE b == s * t
    <2>1. b \in Nat /\ b <= 9 * t /\ low = b + rest /\ n0 = p * m + low
      BY <1>3, <1>4
    <2> HIDE DEF b, low
    <2> QED BY <1>1, <2>1
  <1> HIDE DEF m, low
  <1>6. n0 \div m = p /\ n0 % m = low
    BY <1>2, <1>5, DivisionIs
  <1> QED BY <1>6 DEF m, low, p, s, q, rest

\* getDouble's loop has a solution, which gives every decimal.
LEMMA DecimalTurns ==
    \E f : Turns(NanosMod - 1, f) /\ \A nanos \in 0 .. NanosMod - 1 : Decimal(nanos) = f[nanos][0]
  <1> DEFINE A == {b \in Nat : \E f : Turns(b, f)}
  <1>1. 0 \in A
    <2> DEFINE f == [x \in 0 .. 0 |-> [d \in 0 .. NanosMod - 1 |-> d]]
    <2>1. Turns(0, f)
      BY DEF Turns, TurnsOf
    <2> HIDE DEF f
    <2> QED BY <2>1
  <1>2. ASSUME NEW b \in Nat, b \in A PROVE b + 1 \in A
    BY <1>2, TurnsGrow
  <1>3. NanosMod - 1 \in A
    <2>1. Nat \subseteq A
      <3> HIDE DEF A
      <3> QED BY <1>1, <1>2, NatInductionSet
    <2> QED BY <2>1, MoneyAssumption
  <1>4. PICK f0 : Turns(NanosMod - 1, f0)
    BY <1>3
  <1> DEFINE f == CHOOSE g : g = TurnsOf(NanosMod - 1, g)
  <1>5. f = TurnsOf(NanosMod - 1, f)
    <2>1. \E g : g = TurnsOf(NanosMod - 1, g)
      BY <1>4 DEF Turns
    <2> QED BY <2>1, Zenon
  <1>6. \A nanos \in 0 .. NanosMod - 1 : Decimal(nanos) = f[nanos][0]
    BY DEF Decimal, TurnsOf, Turned
  <1> HIDE DEF f
  <1> QED BY <1>5, <1>6 DEF Turns

\* One turn of the loop.
LEMMA TurnOf ==
    ASSUME NEW f, Turns(NanosMod - 1, f), NEW x \in 0 .. NanosMod - 1,
           NEW d \in 0 .. NanosMod - 1
    PROVE  f[x][d] = IF x = 0 THEN d ELSE f[x \div 10][Turned(x, d)]
  <1>1. f = TurnsOf(NanosMod - 1, f)
    BY DEF Turns
  <1>2. f[x] = [e \in 0 .. NanosMod - 1 |-> IF x = 0 THEN e ELSE f[x \div 10][Turned(x, e)]]
    BY <1>1 DEF TurnsOf
  <1> QED BY <1>2

\* Whatever getDouble makes of the nanos, it is less than a unit.
LEMMA DecimalFits == \A nanos \in 0 .. NanosMod - 1 : Decimal(nanos) \in 0 .. NanosMod - 1
  <1>1. PICK f : /\ Turns(NanosMod - 1, f)
                 /\ \A nanos \in 0 .. NanosMod - 1 : Decimal(nanos) = f[nanos][0]
    BY DecimalTurns
  <1> DEFINE P == 0 .. NanosMod - 1
             A == {b \in Nat : \A x \in 0 .. b : x \in P => \A d \in P : f[x][d] \in P}
  <1>2. 0 \in A
    <2> SUFFICES ASSUME NEW x \in 0 .. 0, x \in P, NEW d \in P PROVE f[x][d] \in P
      OBVIOUS
    <2>1. f[x][d] = d
      BY <1>1, TurnOf
    <2> QED BY <2>1
  <1>3. ASSUME NEW b \in Nat, b \in A PROVE b + 1 \in A
    <2> SUFFICES ASSUME NEW x \in 0 .. b + 1, x \in P, NEW d \in P PROVE f[x][d] \in P
      OBVIOUS
    <2>1. CASE x \in 0 .. b
      BY <1>3, <2>1
    <2>2. CASE x = b + 1
      <3>1. x # 0 /\ x \div 10 \in 0 .. b /\ x \div 10 \in P
        BY <2>2, MoneyAssumption
      <3>2. Turned(x, d) \in P
        BY TurnedFits
      <3>3. f[x][d] = f[x \div 10][Turned(x, d)]
        BY <1>1, <3>1, TurnOf
      <3>4. f[x \div 10][Turned(x, d)] \in P
        BY <1>3, <3>1, <3>2
      <3> QED BY <3>3, <3>4
    <2> QED BY <2>1, <2>2
  <1>4. Nat \subseteq A
    <2> HIDE DEF A
    <2> QED BY <1>2, <1>3, NatInductionSet
  <1>5. NanosMod - 1 \in A /\ 0 \in P
    BY <1>4, MoneyAssumption
  <1>6. \A x \in P : f[x][0] \in P
    BY <1>5
  <1> QED BY <1>1, <1>6

\* The first d digits of the nanos make a number of at least Tens[d - 1], unless
\* the first of all is zero.
LEMMA DigitsLeft ==
    ASSUME NEW nanos \in Nat, nanos >= Tens[NanoDigits - 1], NEW d \in Nat, d < NanoDigits
    PROVE  nanos \div Tens[d] > 0
  <1>1. d \in 0 .. NanoDigits /\ NanoDigits - 1 - d \in 0 .. NanoDigits
        /\ NanoDigits - 1 - d \in Nat /\ (NanoDigits - 1 - d) + d = NanoDigits - 1
    BY CurrencyAssumption
  <1> DEFINE t == Tens[d]
             e == Tens[NanoDigits - 1 - d]
  <1>2. t \in Nat \ {0} /\ e \in Nat \ {0}
    BY <1>1, TensAreNat
  <1>3. Tens[NanoDigits - 1] = e * t
    <2>1. (NanoDigits - 1 - d) + d <= NanoDigits
      BY <1>1, CurrencyAssumption
    <2>2. Tens[(NanoDigits - 1 - d) + d] = e * t
      BY <1>1, <2>1, TensMultiply
    <2> QED BY <1>1, <2>2
  <1> HIDE DEF t, e
  <1>4. e * t >= t
    BY <1>2
  <1>5. nanos >= t
    BY <1>2, <1>3, <1>4
  <1>6. nanos \div t > 0
    BY <1>2, <1>5
  <1> QED BY <1>6 DEF t

\* getDouble reads the nanos as they are when their first digit is not zero, and
\* zero itself.
LEMMA DecimalReads ==
    ASSUME NEW nanos \in 0 .. NanosMod - 1, nanos = 0 \/ nanos >= NanosMod \div 10
    PROVE  Decimal(nanos) = nanos
  <1>1. PICK f : /\ Turns(NanosMod - 1, f)
                 /\ \A x \in 0 .. NanosMod - 1 : Decimal(x) = f[x][0]
    BY DecimalTurns
  <1>2. 0 \in 0 .. NanosMod - 1 /\ Decimal(nanos) = f[nanos][0]
    BY <1>1, MoneyAssumption
  <1>3. CASE nanos = 0
    <2>1. f[nanos][0] = 0
      BY <1>1, <1>2, <1>3, TurnOf
    <2> QED BY <1>2, <1>3, <2>1
  <1>4. CASE nanos >= NanosMod \div 10
    <2> DEFINE Left(d) == nanos \div Tens[d]
               Read(d) == (nanos % Tens[d]) * Tens[NanoDigits - d]
               A == {d \in Nat : d <= NanoDigits =>
                       /\ Left(d) \in 0 .. NanosMod - 1 /\ Read(d) \in 0 .. NanosMod - 1
                       /\ f[nanos][0] = f[Left(d)][Read(d)]}
    <2>1. 0 \in A
      <3>1. Tens[0] = 1 /\ NanoDigits - 0 = NanoDigits /\ NanosMod \in Nat
        BY TensStep, CurrencyAssumption, MoneyAssumption
      <3>2. nanos \div 1 = nanos /\ nanos % 1 = 0 /\ 0 * NanosMod = 0
        BY <3>1
      <3>3. Left(0) = nanos /\ Read(0) = 0
        BY <3>1, <3>2, CurrencyAssumption
      <3> HIDE DEF Left, Read
      <3> QED BY <1>2, <3>3
    <2>2. ASSUME NEW d \in Nat, d \in A PROVE d + 1 \in A
      <3> SUFFICES ASSUME d + 1 <= NanoDigits
                   PROVE  /\ Left(d + 1) \in 0 .. NanosMod - 1
                          /\ Read(d + 1) \in 0 .. NanosMod - 1
                          /\ f[nanos][0] = f[Left(d + 1)][Read(d + 1)]
        OBVIOUS
      <3>1. Left(d) \in 0 .. NanosMod - 1 /\ Read(d) \in 0 .. NanosMod - 1
            /\ f[nanos][0] = f[Left(d)][Read(d)]
        BY <2>2, CurrencyAssumption
      <3>2. Left(d) # 0
        BY <1>4, DigitsLeft, UnitIsTens, CurrencyAssumption
      <3>3. Left(d) \div 10 = Left(d + 1) /\ Turned(Left(d), Read(d)) = Read(d + 1)
        <4> DEFINE t == Tens[d]
                   e == Tens[NanoDigits - 1 - d]
        <4>1. /\ d \in 0 .. NanoDigits /\ NanoDigits - 1 - d \in 0 .. NanoDigits
              /\ NanoDigits - 1 - d \in Nat /\ (NanoDigits - 1 - d) + d = NanoDigits - 1
              /\ (NanoDigits - 1 - d) + 1 = NanoDigits - d /\ NanoDigits - (d + 1) = NanoDigits - 1 - d
              /\ NanoDigits - 1 - d < NanoDigits /\ d < NanoDigits /\ NanoDigits - 1 <= NanoDigits
          BY CurrencyAssumption
        <4>2. t \in Nat \ {0} /\ e \in Nat \ {0} /\ nanos \in Nat
          BY <4>1, TensAreNat
        <4>3. Tens[d + 1] = 10 * t /\ Tens[NanoDigits - d] = 10 * e
          <5>1. Tens[(NanoDigits - 1 - d) + 1] = 10 * Tens[NanoDigits - 1 - d]
            BY <4>1, TensStep
          <5> QED BY <4>1, <5>1, TensStep
        <4>4. NanosMod \div 10 = e * t
          <5>1. Tens[(NanoDigits - 1 - d) + d] = e * t
            BY <4>1, TensMultiply
          <5> QED BY <4>1, <5>1, UnitIsTens
        <4>5. Tens[NanoDigits - (d + 1)] = e
          BY <4>1
        <4> HIDE DEF t, e
        <4>6. /\ (nanos \div t) \div 10 = nanos \div (10 * t)
              /\ nanos % (10 * t) = (nanos % t) + ((nanos \div t) % 10) * t
          BY <4>2, NextDigit
        <4>7. ((nanos % t) * (10 * e)) \div 10 = (nanos % t) * e
          <5> DEFINE rest == nanos % t
          <5>1. rest \in Nat
            BY <4>2
          <5> HIDE DEF rest
          <5>2. rest * (10 * e) = 10 * (rest * e) /\ rest * e \in Nat
            BY <4>2, <5>1
          <5> DEFINE k == rest * e
          <5> HIDE DEF k
          <5>3. k \in Nat => (10 * k) \div 10 = k
            OBVIOUS
          <5> QED BY <5>2, <5>3 DEF rest, k
        <4>8. (nanos % t) * e + ((nanos \div t) % 10) * (e * t) = (nanos % (10 * t)) * e
          <5> DEFINE rest == nanos % t
                     s == (nanos \div t) % 10
          <5>1. rest \in Nat /\ s \in Nat
            BY <4>2
          <5> HIDE DEF rest, s
          <5>2. rest * e + s * (e * t) = (rest + s * t) * e
            BY <4>2, <5>1
          <5>3. nanos % (10 * t) = rest + s * t
            BY <4>6 DEF rest, s
          <5> QED BY <5>2, <5>3 DEF rest, s
        <4>9. Left(d) = nanos \div t /\ Read(d) = (nanos % t) * (10 * e)
              /\ Left(d + 1) = nanos \div (10 * t) /\ Read(d + 1) = (nanos % (10 * t)) * e
          BY <4>3, <4>5 DEF t
        <4> HIDE DEF Left, Read
        <4> QED BY <4>4, <4>6, <4>7, <4>8, <4>9 DEF Turned
      <3> HIDE DEF Left, Read, A
      <3>4. Left(d) \in Nat /\ Left(d) \div 10 \in 0 .. NanosMod - 1
        BY <3>1, MoneyAssumption
      <3>5. Turned(Left(d), Read(d)) \in 0 .. NanosMod - 1
        BY <3>1, <3>4, TurnedFits
      <3>6. f[Left(d)][Read(d)] = f[Left(d) \div 10][Turned(Left(d), Read(d))]
        BY <1>1, <3>1, <3>2, TurnOf
      <3> QED BY <3>1, <3>3, <3>4, <3>5, <3>6
    <2>3. NanoDigits \in A
      <3>1. Nat \subseteq A
        <4> HIDE DEF A
        <4> QED BY <2>1, <2>2, NatInductionSet
      <3> QED BY <3>1, CurrencyAssumption
    <2>4. Left(NanoDigits) = 0 /\ Read(NanoDigits) = nanos
      <3>1. Tens[NanoDigits] = NanosMod /\ Tens[NanoDigits - NanoDigits] = 1
        BY TensStep, CurrencyAssumption
      <3>2. nanos \div NanosMod = 0 /\ nanos % NanosMod = nanos /\ nanos * 1 = nanos
        BY MoneyAssumption
      <3> QED BY <3>1, <3>2
    <2>5. f[nanos][0] = f[Left(NanoDigits)][Read(NanoDigits)]
      BY <2>3, CurrencyAssumption
    <2> HIDE DEF Left, Read
    <2>6. f[0][nanos] = nanos
      BY <1>1, <1>2, TurnOf
    <2> QED BY <1>2, <2>4, <2>5, <2>6
  <1> QED BY <1>3, <1>4

----------------------------------------------------------------------------
(* Two ways to a total *)

\* A legal amount in a currency that is not negative.
Legal(m, code) ==
    /\ m \in MoneySet /\ IsValid(m) /\ m.currencyCode = code
    /\ m.units >= 0 /\ m.nanos >= 0

\* The one legal amount of so many nanos.
LEMMA AmountOf ==
    ASSUME NEW v \in Nat, NEW code \in CurrencyCodes
    PROVE  LET m == getUnitsAndNanos(v, code)
           IN  Legal(m, code) /\ Value(m) = v /\ (v > 0 => IsPositive(m))
  <1> USE MoneyAssumption
  <1> DEFINE q == v \div NanosMod
             s == v % NanosMod
  <1>1. q \in Nat /\ s \in 0 .. NanosMod - 1 /\ v = NanosMod * q + s
    OBVIOUS
  <1>2. getUnitsAndNanos(v, code) = [units |-> q, nanos |-> s, currencyCode |-> code]
    BY DEF getUnitsAndNanos
  <1> HIDE DEF q, s
  <1>3. NanosMod * q = q * NanosMod
    BY <1>1
  <1>4. Value([units |-> q, nanos |-> s, currencyCode |-> code]) = v
    BY <1>1, <1>3 DEF Value
  <1>5. v > 0 => q > 0 \/ s > 0
    BY <1>1
  <1> QED BY <1>1, <1>2, <1>4, <1>5
          DEF Legal, MoneySet, IsValid, signMatches, validNanos, IsPositive

LEMMA LegalIsAmount ==
    ASSUME NEW code \in CurrencyCodes, NEW m, Legal(m, code)
    PROVE  Value(m) \in Nat /\ m = getUnitsAndNanos(Value(m), code)
  <1> USE MoneyAssumption
  <1>1. Value(m) \in Nat
    <2>1. m.units \in Nat /\ m.nanos \in Nat
      BY DEF Legal, MoneySet
    <2>2. m.units * NanosMod \in Nat
      BY <2>1
    <2> QED BY <2>1, <2>2 DEF Value
  <1> DEFINE o == getUnitsAndNanos(Value(m), code)
  <1>2. Legal(o, code) /\ Value(o) = Value(m)
    BY <1>1, AmountOf
  <1> HIDE DEF o
  <1>3. m = o
    BY <1>2, ValueDetermines DEF Legal
  <1> QED BY <1>1, <1>3 DEF o

\* Sum adds legal amounts exactly when they make a unit or more.
LEMMA LegalSum ==
    ASSUME NEW code \in CurrencyCodes, NEW a \in Nat, NEW b \in Nat, a + b >= NanosMod
    PROVE  Sum(getUnitsAndNanos(a, code), getUnitsAndNanos(b, code)).money
             = getUnitsAndNanos(a + b, code)
  <1> DEFINE x == getUnitsAndNanos(a, code)
             y == getUnitsAndNanos(b, code)
             s == Sum(x, y)
  <1>1. Legal(x, code) /\ Value(x) = a /\ Legal(y, code) /\ Value(y) = b
    BY AmountOf
  <1> HIDE DEF x, y
  <1>2. /\ x.units \in Nat /\ x.nanos \in Nat /\ y.units \in Nat /\ y.nanos \in Nat
        /\ x \in MoneySet /\ y \in MoneySet
    BY <1>1 DEF Legal, MoneySet
  <1>3. Summable(x, y)
    <2> SUFFICES ASSUME x.units + y.units = 0 PROVE x.nanos + y.nanos >= NanosMod
      BY <1>1, <1>2, MoneyAssumption DEF Summable, Legal
    <2>1. x.units = 0 /\ y.units = 0
      BY <1>2
    <2> QED BY <1>1, <1>2, <2>1, MoneyAssumption DEF Value
  <1>4. /\ s.money \in MoneySet /\ s.money.currencyCode = code
        /\ IsValid(s.money) /\ Value(s.money) = a + b
    BY <1>1, <1>2, <1>3, SumExact DEF Legal
  <1>5. s.money.units >= 1 /\ s.money.nanos >= 0 /\ s.money.units \in Int
    BY <1>4, WholeByValue DEF MoneySet
  <1> HIDE DEF s
  <1>6. Legal(s.money, code)
    BY <1>4, <1>5 DEF Legal
  <1>7. s.money = getUnitsAndNanos(a + b, code)
    BY <1>4, <1>6, LegalIsAmount
  <1> QED BY <1>7 DEF s, x, y

LEMMA ProductGrows ==
    ASSUME NEW j \in Nat, NEW a \in Nat
    PROVE  j * a \in Nat /\ (j + 1) * a = j * a + a /\ (j >= 1 => j * a >= a)
  OBVIOUS

\* PlaceOrder's way: Sum after Sum.
LEMMA ChargedIsExact ==
    ASSUME NEW code \in CurrencyCodes, NEW a \in Nat, NEW b \in Nat, NEW k \in Nat \ {0},
           2 * a >= NanosMod, b >= NanosMod
    PROVE  ChargedTotal(getUnitsAndNanos(a, code), getUnitsAndNanos(b, code), k, code)
             = getUnitsAndNanos(b + k * a, code)
  <1> USE MoneyAssumption
  <1> DEFINE cost == getUnitsAndNanos(a, code)
             Times(j) == getUnitsAndNanos(j * a, code)
             Step(t) == [j \in 1 .. k |-> IF j = 1 THEN cost ELSE Sum(t[j - 1], cost).money]
             w == [j \in 1 .. k |-> Times(j)]
             times == CHOOSE t : t = Step(t)
  <1>1. Times(1) = cost
    OBVIOUS
  <1>2. ASSUME NEW j \in Nat, j >= 1 PROVE Sum(Times(j), cost).money = Times(j + 1)
    <2>1. j * a \in Nat /\ (j + 1) * a = j * a + a /\ j * a >= a
      BY <1>2, ProductGrows
    <2>2. j * a + a >= NanosMod
      <3> DEFINE p == j * a
      <3> HIDE DEF p
      <3> QED BY <2>1 DEF p
    <2>3. Sum(getUnitsAndNanos(j * a, code), cost).money = getUnitsAndNanos(j * a + a, code)
      <3> DEFINE p == j * a
      <3>1. p \in Nat /\ p + a >= NanosMod
        BY <2>1, <2>2
      <3> HIDE DEF p
      <3>2. Sum(getUnitsAndNanos(p, code), cost).money = getUnitsAndNanos(p + a, code)
        BY <3>1, LegalSum
      <3> QED BY <3>2 DEF p
    <2> QED BY <2>1, <2>3
  <1> HIDE DEF Times, cost
  <1>3. w = Step(w)
    <2> SUFFICES ASSUME NEW j \in 1 .. k
                 PROVE  w[j] = IF j = 1 THEN cost ELSE Sum(w[j - 1], cost).money
      OBVIOUS
    <2>1. CASE j = 1
      BY <1>1, <2>1
    <2>2. CASE j # 1
      <3>1. j - 1 \in 1 .. k /\ j - 1 \in Nat /\ j - 1 >= 1 /\ (j - 1) + 1 = j
        BY <2>2
      <3>2. Sum(Times(j - 1), cost).money = Times(j)
        BY <1>2, <3>1
      <3> QED BY <2>2, <3>1, <3>2
    <2> QED BY <2>1, <2>2
  <1>4. times = Step(times)
    <2> HIDE DEF Step, w
    <2> QED BY <1>3
  <1> HIDE DEF w, times
  <1>5. \A j \in 1 .. k : times[j] = IF j = 1 THEN cost ELSE Sum(times[j - 1], cost).money
    BY <1>4
  <1> DEFINE A == {j \in Nat : j + 1 <= k => times[j + 1] = Times(j + 1)}
  <1>6. 0 \in A
    BY <1>1, <1>5
  <1>7. ASSUME NEW j \in Nat, j \in A PROVE j + 1 \in A
    <2> SUFFICES ASSUME (j + 1) + 1 <= k PROVE times[(j + 1) + 1] = Times((j + 1) + 1)
      OBVIOUS
    <2>1. times[j + 1] = Times(j + 1)
      BY <1>7
    <2>2. (j + 1) + 1 \in 1 .. k /\ (j + 1) + 1 # 1 /\ ((j + 1) + 1) - 1 = j + 1
      OBVIOUS
    <2>3. times[(j + 1) + 1] = Sum(times[j + 1], cost).money
      BY <1>5, <2>2
    <2>4. Sum(Times(j + 1), cost).money = Times((j + 1) + 1)
      BY <1>2
    <2> QED BY <2>1, <2>3, <2>4
  <1>8. times[k] = Times(k)
    <2>1. Nat \subseteq A
      <3> HIDE DEF A
      <3> QED BY <1>6, <1>7, NatInductionSet
    <2>2. k - 1 \in Nat /\ (k - 1) + 1 = k
      OBVIOUS
    <2>3. k - 1 \in A
      BY <2>1, <2>2
    <2> HIDE DEF Times
    <2> QED BY <2>2, <2>3
  <1>9. ChargedTotal(cost, getUnitsAndNanos(b, code), k, code)
          = Sum(Sum(Zero(code), getUnitsAndNanos(b, code)).money, times[k]).money
    BY DEF ChargedTotal, times
  <1>10. Sum(Zero(code), getUnitsAndNanos(b, code)).money = getUnitsAndNanos(b, code)
    <2>1. Zero(code) = getUnitsAndNanos(0, code)
      <3>1. 0 \div NanosMod = 0 /\ 0 % NanosMod = 0
        OBVIOUS
      <3> QED BY <3>1 DEF Zero, getUnitsAndNanos
    <2>2. Sum(getUnitsAndNanos(0, code), getUnitsAndNanos(b, code)).money
            = getUnitsAndNanos(0 + b, code)
      BY LegalSum
    <2> QED BY <2>1, <2>2
  <1>11. Sum(getUnitsAndNanos(b, code), getUnitsAndNanos(k * a, code)).money
           = getUnitsAndNanos(b + k * a, code)
    <2> DEFINE p == k * a
    <2>1. p \in Nat
      BY ProductGrows
    <2> HIDE DEF p
    <2>2. Sum(getUnitsAndNanos(b, code), getUnitsAndNanos(p, code)).money
            = getUnitsAndNanos(b + p, code)
      BY <2>1, LegalSum
    <2> QED BY <2>2 DEF p
  <1> QED BY <1>8, <1>9, <1>10, <1>11 DEF Times, cost

\* CartItems.tsx's way: units and nanos apart, and the carry.
LEMMA ShownIsExact ==
    ASSUME NEW code \in CurrencyCodes, NEW cost, NEW ship, NEW k \in Nat,
           Legal(cost, code), Legal(ship, code)
    PROVE  ShownTotal(cost, ship, k, code)
             = getUnitsAndNanos(Value(ship) + k * Value(cost), code)
  <1> USE MoneyAssumption
  <1> DEFINE cu == cost.units
             cn == cost.nanos
             su == ship.units
             sn == ship.nanos
             S == cn * k + sn
             q == S \div NanosMod
             s == S % NanosMod
             U == cu * k + su + q
  <1>1. cu \in Nat /\ cn \in Nat /\ su \in Nat /\ sn \in Nat
    BY DEF Legal, MoneySet
  <1>2. ShownTotal(cost, ship, k, code) = [units |-> U, nanos |-> s, currencyCode |-> code]
    BY DEF ShownTotal
  <1>3. Value(ship) + k * Value(cost) = (su * NanosMod + sn) + k * (cu * NanosMod + cn)
    BY DEF Value
  <1> HIDE DEF cu, cn, su, sn
  <1>4. S \in Nat /\ cu * k \in Nat
    <2>1. cn * k \in Nat /\ cu * k \in Nat
      BY <1>1
    <2> DEFINE p == cn * k
    <2> HIDE DEF p
    <2>2. p \in Nat => p + sn \in Nat
      BY <1>1
    <2> QED BY <2>1, <2>2 DEF p
  <1>5. q \in Nat /\ s \in Nat /\ s < NanosMod /\ S = NanosMod * q + s
    <2> HIDE DEF S
    <2> QED BY <1>4
  <1> HIDE DEF q, s
  <1>6. (su * NanosMod + sn) + k * (cu * NanosMod + cn) = U * NanosMod + s
    <2>1. k * (cu * NanosMod + cn) = (cu * k) * NanosMod + cn * k
      BY <1>1
    <2> DEFINE c == cu * k
               d == cn * k
    <2>2. c \in Nat /\ d \in Nat
      BY <1>1
    <2>3. d + sn = NanosMod * q + s
      BY <1>5
    <2>4. U = c + su + q
      OBVIOUS
    <2>5. k * (cu * NanosMod + cn) = c * NanosMod + d
      BY <2>1
    <2> HIDE DEF c, d, U
    <2>6. (c + su + q) * NanosMod = c * NanosMod + su * NanosMod + NanosMod * q
      BY <1>1, <1>5, <2>2
    <2> DEFINE e == c * NanosMod
               g == su * NanosMod
               h == NanosMod * q
    <2>7. e \in Nat /\ g \in Nat /\ h \in Nat
      BY <1>1, <1>5, <2>2
    <2>8. (c + su + q) * NanosMod = e + g + h /\ d + sn = h + s
      BY <2>3, <2>6
    <2> HIDE DEF e, g, h
    <2>9. (g + sn) + (e + d) = (e + g + h) + s
      BY <1>1, <1>5, <2>2, <2>7, <2>8
    <2> QED BY <2>4, <2>5, <2>8, <2>9 DEF e, g
  <1>7. U \in Nat
    <2> DEFINE c == cu * k
    <2>1. c \in Nat /\ U = c + su + q
      BY <1>4
    <2> HIDE DEF c, U
    <2> QED BY <1>1, <1>5, <2>1
  <1> HIDE DEF U
  <1>8. (U * NanosMod + s) \div NanosMod = U /\ (U * NanosMod + s) % NanosMod = s
    BY <1>5, <1>7, DivisionIs
  <1> QED BY <1>2, <1>3, <1>6, <1>8 DEF getUnitsAndNanos


----------------------------------------------------------------------------
(* What is shown and what is charged *)

\* An amount in USD in a currency with a rate.
Amount(m, code) == getUnitsAndNanos(Exact(m, code) + noise[code], code)

\* No client changes a rate: a code that is asked for is only added.
RatesKept == Known \subseteq DOMAIN table /\ \A c \in Known : table[c] = Rates[c]

\* The page and the order show the figures of one moment.
PageInv ==
    page # NoPage =>
        /\ page.quantity \in Quantities
        /\ page.code \in Known =>
             /\ page.cost = IF page.code = USD THEN price ELSE Amount(price, page.code)
             /\ page.shipping = Amount(get_quote(page.quantity), page.code)
             /\ page.total = ShownTotal(page.cost, page.shipping, page.quantity, page.code)

OrderInv ==
    order # NoOrder =>
        /\ order.quantity \in Quantities
        /\ order.code \in Known =>
             /\ order.cost = Amount(price, order.code)
             /\ order.shipping = Amount(get_quote(order.quantity), order.code)
             /\ order.total = ChargedTotal(order.cost, order.shipping, order.quantity, order.code)

PriceInv ==
    /\ price \in Prices /\ quantity \in Quantities
    /\ noise \in [Known -> -1 .. 1]
    /\ RatesKept
    /\ PageInv
    /\ OrderInv

\* What getDouble reads of a price or a quote is an amount, and is kept to be so.
LEMMA QuoteInUSD == ASSUME NEW k \in Quantities PROVE InUSD(get_quote(k))
  <1> USE MoneyAssumption
  <1> DEFINE v == calculateQuote(k)
             d == v \div 100
             w == IF ProductIsBelow(v) THEN v - 1 ELSE v
             c == w % 100
             q == NanosMod \div 100
  <1>1. v \in Nat /\ v >= 100
    <2>1. CostPerItem \in Nat /\ CostPerItem >= 100 /\ k \in Nat /\ k >= 1
      BY QuoteAssumption, PricingAssumption
    <2>2. CostPerItem * k \in Nat /\ CostPerItem * k >= CostPerItem
      BY <2>1
    <2>3. v = CostPerItem * k
      BY DEF calculateQuote
    <2> HIDE DEF v
    <2> QED BY <2>1, <2>2, <2>3
  <1>2. get_quote(k) = [units |-> d, nanos |-> c * q, currencyCode |-> USD]
    BY DEF get_quote, Quote, create_quote_from_float, NANOS_MULTIPLE
  <1> HIDE DEF v
  <1>3. d \in Nat
    BY <1>1
  <1>4. w \in Nat
    BY <1>1
  <1> HIDE DEF w, d
  <1>5. c \in 0 .. 99
    BY <1>4
  <1>6. q \in Nat /\ NanosMod = 100 * q /\ q > 0
    BY PricingAssumption
  <1> HIDE DEF c, q
  <1>7. c * q \in Nat /\ c * q <= 99 * q
    BY <1>5, <1>6
  <1> DEFINE p == c * q
  <1>8. p \in Nat /\ p < NanosMod
    <2> HIDE DEF p
    <2> QED BY <1>6, <1>7 DEF p
  <1>9. USD \in CurrencyCodes
    BY PricingAssumption, CurrencyAssumption
  <1> HIDE DEF p
  <1>10. get_quote(k) = [units |-> d, nanos |-> p, currencyCode |-> USD]
    BY <1>2 DEF p
  <1> QED BY <1>3, <1>8, <1>9, <1>10 DEF InUSD, MoneySet

\* The powers of 2 modulo m are a recursion that has a solution of integers.
LEMMA PowerModIsInt == ASSUME NEW e \in Nat, NEW m \in Nat \ {0} PROVE PowerMod(e, m) \in Int
  <1> DEFINE Powers(b, f) == f = [i \in 0 .. b |-> IF i = 0 THEN 1 % m ELSE (2 * f[i - 1]) % m]
             A == {b \in Nat : \E f : Powers(b, f) /\ f[b] \in Int}
  <1>1. 0 \in A
    <2> DEFINE g == [i \in 0 .. 0 |-> 1 % m]
    <2>1. Powers(0, g) /\ g[0] \in Int
      OBVIOUS
    <2> HIDE DEF g, Powers
    <2> QED BY <2>1
  <1>2. ASSUME NEW b \in Nat, b \in A PROVE b + 1 \in A
    <2>1. PICK f : Powers(b, f) /\ f[b] \in Int
      BY <1>2
    <2> DEFINE g == [i \in 0 .. b + 1 |-> IF i = b + 1 THEN (2 * f[b]) % m ELSE f[i]]
    <2>2. ASSUME NEW i \in 0 .. b + 1 PROVE g[i] = IF i = 0 THEN 1 % m ELSE (2 * g[i - 1]) % m
      <3>1. CASE i = b + 1
        BY <3>1
      <3>2. CASE i \in 0 .. b
        <4>1. g[i] = f[i] /\ (i # 0 => g[i - 1] = f[i - 1])
          BY <3>2
        <4>2. f[i] = IF i = 0 THEN 1 % m ELSE (2 * f[i - 1]) % m
          BY <2>1, <3>2
        <4> QED BY <4>1, <4>2
      <3> QED BY <3>1, <3>2
    <2>3. Powers(b + 1, g)
      BY <2>2
    <2>4. g[b + 1] = (2 * f[b]) % m
      OBVIOUS
    <2>5. (2 * f[b]) % m \in Int
      BY <2>1
    <2> HIDE DEF g, Powers
    <2> QED BY <2>3, <2>4, <2>5
  <1>3. e \in A
    <2>1. Nat \subseteq A
      <3> HIDE DEF A
      <3> QED BY <1>1, <1>2, NatInductionSet
    <2> QED BY <2>1
  <1> DEFINE p == CHOOSE f : Powers(e, f)
  <1>4. PICK f : Powers(e, f) /\ f[e] \in Int
    BY <1>3
  <1>5. Powers(e, p)
    <2> HIDE DEF Powers
    <2> QED BY <1>4
  <1>6. PowerMod(e, m) = p[e]
    BY DEF PowerMod
  <1> HIDE DEF p
  <1> DEFINE B == {i \in Nat : i <= e => p[i] \in Int}
  <1>7. 0 \in B
    BY <1>5
  <1>8. ASSUME NEW i \in Nat, i \in B PROVE i + 1 \in B
    <2> SUFFICES ASSUME i + 1 <= e PROVE p[i + 1] \in Int
      OBVIOUS
    <2>1. p[i + 1] = (2 * p[i]) % m
      <3>1. i + 1 \in 0 .. e /\ i + 1 # 0 /\ (i + 1) - 1 = i
        OBVIOUS
      <3> QED BY <1>5, <3>1
    <2>2. p[i] \in Int
      BY <1>8
    <2> QED BY <2>1, <2>2
  <1>9. e \in B
    <2>1. Nat \subseteq B
      <3> HIDE DEF B
      <3> QED BY <1>7, <1>8, NatInductionSet
    <2> QED BY <2>1
  <1> QED BY <1>6, <1>9

\* What parsing, multiplying and cutting off (create_quote_from_float) take off
\* the quote of k pieces.
Short(k) == calculateQuote(k) - (100 * Quote(k).dollars + Quote(k).cents)

\* A whole number of dollars is not below itself as a double, so it is never the
\* hundred cents of a dollar that get lost: a quote is a cent short at most, for
\* every price and number of pieces whose quote a double holds to the cent.
THEOREM QuoteLosesACentAtMost ==
    ASSUME NEW k \in Nat \ {0}, Places(calculateQuote(k)) \in Nat
    PROVE  Short(k) \in 0 .. 1
  <1> DEFINE v == calculateQuote(k)
             P == PowerMod(Places(v), 100)
  <1>1. v \in Nat /\ v >= 100
    <2>1. CostPerItem \in Nat /\ CostPerItem >= 100 /\ k >= 1
      BY QuoteAssumption
    <2>2. CostPerItem * k \in Nat /\ CostPerItem * k >= CostPerItem
      BY <2>1
    <2>3. v = CostPerItem * k
      BY DEF calculateQuote
    <2> HIDE DEF v
    <2> QED BY <2>1, <2>2, <2>3
  <1>2. P \in Int
    <2>1. Places(v) \in Nat
      OBVIOUS
    <2> QED BY <2>1, PowerModIsInt
  <1>3. Below(v) = IF (v * P) % 100 < 50 THEN (v * P) % 100 ELSE ((v * P) % 100) - 100
    BY DEF Below
  <1> DEFINE w == IF ProductIsBelow(v) THEN v - 1 ELSE v
  <1>4. Quote(k).dollars = v \div 100 /\ Quote(k).cents = w % 100
    BY DEF Quote, create_quote_from_float
  <1>5. Short(k) = v - (100 * (v \div 100) + (w % 100))
    <2> HIDE DEF v, w
    <2>1. Short(k) = v - (100 * Quote(k).dollars + Quote(k).cents)
      BY DEF Short, v
    <2> QED BY <1>4, <2>1
  <1> HIDE DEF v, P
  <1>6. ASSUME v % 100 = 0 PROVE ~ProductIsBelow(v)
    <2> DEFINE d == v \div 100
               z == d * P
    <2>1. d \in Int /\ v = 100 * d
      BY <1>1, <1>6
    <2>2. z \in Int /\ v * P = 100 * z
      <3> HIDE DEF d
      <3> QED BY <1>2, <2>1
    <2> HIDE DEF z
    <2>3. (v * P) % 100 = 0
      <3>1. (100 * z) % 100 = 0
        BY <2>2
      <3> QED BY <2>2, <3>1
    <2>4. Below(v) = 0
      BY <1>3, <2>3
    <2> QED BY <2>4 DEF ProductIsBelow
  <1> DEFINE q == v \div 100
             c == v % 100
  <1>7. q \in Int /\ c \in 0 .. 99 /\ v = 100 * q + c
    BY <1>1
  <1>8. CASE ProductIsBelow(v)
    <2>1. c # 0 /\ w = v - 1
      BY <1>6, <1>8
    <2> HIDE DEF w, q, c
    <2>2. w = 100 * q + (c - 1)
      BY <1>7, <2>1
    <2>3. w % 100 = c - 1
      BY <1>7, <2>1, <2>2
    <2>4. Short(k) = (100 * q + c) - (100 * q + (c - 1))
      BY <1>5, <1>7, <2>3 DEF q
    <2> QED BY <1>7, <2>4
  <1>9. CASE ~ProductIsBelow(v)
    <2>1. w = v
      BY <1>9
    <2>2. w % 100 = c
      BY <2>1
    <2> HIDE DEF w, q, c
    <2>3. Short(k) = (100 * q + c) - (100 * q + c)
      BY <1>5, <1>7, <2>2 DEF q
    <2> QED BY <1>7, <2>3
  <1> QED BY <1>8, <1>9

LEMMA ReadsNatural == ASSUME NEW m, InUSD(m) PROVE getDouble(m) \in Nat
  <1>1. m.units \in Nat /\ Decimal(m.nanos) \in Nat
    BY DecimalFits DEF InUSD, MoneySet
  <1>2. m.units * NanosMod \in Nat
    BY <1>1, MoneyAssumption
  <1> QED BY <1>1, <1>2 DEF getDouble

LEMMA ExactIsNatural ==
    ASSUME NEW m, InUSD(m), NEW code \in Known PROVE Exact(m, code) \in Nat
  <1> DEFINE g == getDouble(m)
             R == Rates[code]
             U == Rates[USD]
  <1>1. g \in Nat
    BY ReadsNatural
  <1>2. R \in Nat \ {0} /\ U \in Nat \ {0}
    BY CurrencyAssumption, PricingAssumption
  <1>3. Exact(m, code) = (g * R) \div U
    BY DEF Exact
  <1> HIDE DEF g, R, U
  <1> DEFINE p == g * R
  <1>4. p \in Nat
    BY <1>1, <1>2
  <1> HIDE DEF p
  <1>5. p \div U \in Nat
    BY <1>2, <1>4
  <1> QED BY <1>3, <1>5 DEF p

\* The price and the quote in a currency with a rate, in nanos: as large as the
\* additions of an order need them.
LEMMA PriceOf ==
    ASSUME NEW code \in Known, NEW m \in Prices, NEW e \in -1 .. 1
    PROVE  Exact(m, code) + e \in Nat /\ 2 * (Exact(m, code) + e) >= NanosMod
  <1>1. InUSD(m)
    BY PricingAssumption
  <1>2. Exact(m, code) \in Nat
    BY <1>1, ExactIsNatural
  <1>3. 2 * (Exact(m, code) - 1) >= NanosMod
    BY RatesAssumption
  <1> DEFINE x == Exact(m, code)
  <1> HIDE DEF x
  <1>4. x \in Nat /\ 2 * (x - 1) >= NanosMod
    BY <1>2, <1>3 DEF x
  <1>5. x + e \in Nat /\ 2 * (x + e) >= NanosMod
    BY <1>4, MoneyAssumption
  <1> QED BY <1>5 DEF x

LEMMA QuoteOf ==
    ASSUME NEW code \in Known, NEW k \in Quantities, NEW e \in -1 .. 1
    PROVE  Exact(get_quote(k), code) + e \in Nat /\ Exact(get_quote(k), code) + e >= NanosMod
  <1>1. InUSD(get_quote(k))
    BY QuoteInUSD
  <1>2. Exact(get_quote(k), code) \in Nat
    BY <1>1, ExactIsNatural
  <1>3. Exact(get_quote(k), code) - 1 >= NanosMod
    BY RatesAssumption
  <1> DEFINE x == Exact(get_quote(k), code)
  <1> HIDE DEF x
  <1>4. x \in Nat /\ x - 1 >= NanosMod
    BY <1>2, <1>3 DEF x
  <1>5. x + e \in Nat /\ x + e >= NanosMod
    BY <1>4, MoneyAssumption
  <1> QED BY <1>5 DEF x

\* Convert in a currency with a rate.
LEMMA ConvertedIs ==
    ASSUME RatesKept, NEW code \in Known, NEW m, m.currencyCode = USD, Exact(m, code) # 0
    PROVE  Converted(m, code) = Amount(m, code)
  <1>1. Rate(code) = Rates[code] /\ Rate(USD) = Rates[USD]
    BY PricingAssumption DEF RatesKept, Rate
  <1>2. Rates[code] # 0
    BY CurrencyAssumption
  <1>3. Rounded(Exact(m, code), code) = Exact(m, code) + noise[code]
    BY DEF Rounded
  <1> QED BY <1>1, <1>2, <1>3 DEF Converted, Amount, Exact

LEMMA PriceConverted ==
    ASSUME PriceInv, NEW code \in Known PROVE Converted(price, code) = Amount(price, code)
  <1>1. InUSD(price) /\ price \in Prices
    BY PricingAssumption DEF PriceInv
  <1>2. Exact(price, code) # 0
    <2>1. 2 * (Exact(price, code) - 1) >= NanosMod
      BY <1>1, RatesAssumption
    <2> DEFINE x == Exact(price, code)
    <2> HIDE DEF x
    <2>2. 2 * (x - 1) >= NanosMod
      BY <2>1 DEF x
    <2>3. x # 0
      BY <2>2, MoneyAssumption
    <2> QED BY <2>3 DEF x
  <1> QED BY <1>1, <1>2, ConvertedIs DEF PriceInv, InUSD

LEMMA QuoteConverted ==
    ASSUME PriceInv, NEW code \in Known, NEW k \in Quantities
    PROVE  Converted(get_quote(k), code) = Amount(get_quote(k), code)
  <1>1. InUSD(get_quote(k))
    BY QuoteInUSD
  <1>2. Exact(get_quote(k), code) # 0
    <2>1. Exact(get_quote(k), code) - 1 >= NanosMod
      BY RatesAssumption
    <2> DEFINE x == Exact(get_quote(k), code)
    <2> HIDE DEF x
    <2>2. x - 1 >= NanosMod
      BY <2>1 DEF x
    <2>3. x # 0
      BY <2>2, MoneyAssumption
    <2> QED BY <2>3 DEF x
  <1> QED BY <1>1, <1>2, ConvertedIs DEF PriceInv, InUSD

LEMMA InitPriceInv == PriceInit => PriceInv
  BY DEF PriceInit, CurrencyInit, PriceInv, RatesKept, PageInv, OrderInv, Known

LEMMA LookUpKeepsRates ==
    ASSUME NEW code, RatesKept, LookUp(code) PROVE RatesKept' /\ noise' = noise
  <1>1. table' = [c \in DOMAIN table \cup {code} |-> Rate(c)] /\ noise' = noise
    BY DEF LookUp
  <1>2. \A c \in DOMAIN table : table'[c] = table[c]
    BY <1>1 DEF Rate
  <1>3. DOMAIN table \subseteq DOMAIN table'
    BY <1>1
  <1> QED BY <1>1, <1>2, <1>3 DEF RatesKept

LEMMA PageKept ==
    ASSUME PageInv, page' = page, price' = price, noise' = noise PROVE PageInv'
  BY DEF PageInv, Amount

LEMMA OrderKept ==
    ASSUME OrderInv, order' = order, price' = price, noise' = noise PROVE OrderInv'
  BY DEF OrderInv, Amount

LEMMA StepPriceInv == PriceInv /\ [PriceNext]_priceVars => PriceInv'
  <1> SUFFICES ASSUME PriceInv, [PriceNext]_priceVars PROVE PriceInv'
    OBVIOUS
  <1>1. /\ price \in Prices /\ quantity \in Quantities /\ noise \in [Known -> -1 .. 1]
        /\ RatesKept /\ PageInv /\ OrderInv
    BY DEF PriceInv
  <1>2. CASE ViewCard
    <2>1. /\ price' = price /\ quantity' = quantity /\ page' = page /\ order' = order
          /\ table' = table /\ noise' = noise
      BY <1>2 DEF ViewCard, currency
    <2>2. RatesKept'
      BY <1>1, <2>1 DEF RatesKept
    <2> QED BY <1>1, <2>1, <2>2, PageKept, OrderKept DEF PriceInv
  <1>3. CASE ViewCart
    <2>1. /\ price' = price /\ quantity' = quantity /\ order' = order /\ LookUp(selected)
          /\ page' = [code |-> selected, quantity |-> quantity,
                      cost |-> getProductPrice(selected),
                      shipping |-> Converted(get_quote(quantity), selected),
                      total |-> ShownTotal(getProductPrice(selected),
                                           Converted(get_quote(quantity), selected),
                                           quantity, selected)]
      BY <1>3 DEF ViewCart
    <2>2. RatesKept' /\ noise' = noise
      BY <1>1, <2>1, LookUpKeepsRates
    <2>3. /\ page'.code = selected /\ page'.quantity = quantity
          /\ page'.cost = getProductPrice(selected)
          /\ page'.shipping = Converted(get_quote(quantity), selected)
          /\ page'.total = ShownTotal(page'.cost, page'.shipping, page'.quantity, page'.code)
      BY <2>1
    <2>4. selected \in Known =>
            /\ page'.cost = IF selected = USD THEN price ELSE Amount(price, selected)
            /\ page'.shipping = Amount(get_quote(quantity), selected)
      BY <1>1, <2>3, PriceConverted, QuoteConverted DEF getProductPrice
    <2>5. PageInv'
      BY <1>1, <2>1, <2>2, <2>3, <2>4 DEF PageInv, Amount
    <2> QED BY <1>1, <2>1, <2>2, <2>5, OrderKept DEF PriceInv
  <1>4. ASSUME NEW code \in Supported, SelectCurrency(code) PROVE PriceInv'
    <2>1. /\ price' = price /\ quantity' = quantity /\ page' = NoPage /\ order' = order
          /\ table' = table /\ noise' = noise
      BY <1>4 DEF SelectCurrency, currency
    <2>2. RatesKept'
      BY <1>1, <2>1 DEF RatesKept
    <2>3. PageInv'
      BY <2>1 DEF PageInv
    <2> QED BY <1>1, <2>1, <2>2, <2>3, OrderKept DEF PriceInv
  <1>5. ASSUME NEW k \in Quantities, ChangeCart(k) PROVE PriceInv'
    <2>1. /\ price' = price /\ quantity' = k /\ page' = page /\ order' = order
          /\ table' = table /\ noise' = noise
      BY <1>5 DEF ChangeCart, currency
    <2>2. RatesKept'
      BY <1>1, <2>1 DEF RatesKept
    <2> QED BY <1>1, <2>1, <2>2, PageKept, OrderKept DEF PriceInv
  <1>6. CASE PlaceOrder
    <2>1. /\ price' = price /\ quantity' = quantity /\ page' = page /\ LookUp(selected)
          /\ order' = [code |-> selected, quantity |-> quantity,
                       cost |-> Converted(price, selected),
                       shipping |-> Converted(get_quote(quantity), selected),
                       total |-> ChargedTotal(Converted(price, selected),
                                              Converted(get_quote(quantity), selected),
                                              quantity, selected)]
      BY <1>6 DEF PlaceOrder
    <2>2. RatesKept' /\ noise' = noise
      BY <1>1, <2>1, LookUpKeepsRates
    <2>3. /\ order'.code = selected /\ order'.quantity = quantity
          /\ order'.cost = Converted(price, selected)
          /\ order'.shipping = Converted(get_quote(quantity), selected)
          /\ order'.total = ChargedTotal(order'.cost, order'.shipping, order'.quantity, order'.code)
      BY <2>1
    <2>4. selected \in Known =>
            /\ order'.cost = Amount(price, selected)
            /\ order'.shipping = Amount(get_quote(quantity), selected)
      BY <1>1, <2>3, PriceConverted, QuoteConverted
    <2>5. OrderInv'
      BY <1>1, <2>1, <2>2, <2>3, <2>4 DEF OrderInv, Amount
    <2> QED BY <1>1, <2>1, <2>2, <2>5, PageKept DEF PriceInv
  <1>7. ASSUME NEW code \in CurrencyCodes, ConvertElsewhere(code) PROVE PriceInv'
    <2>1. /\ price' = price /\ quantity' = quantity /\ page' = page /\ order' = order
          /\ LookUp(code)
      BY <1>7 DEF ConvertElsewhere
    <2>2. RatesKept' /\ noise' = noise
      BY <1>1, <2>1, LookUpKeepsRates
    <2> QED BY <1>1, <2>1, <2>2, PageKept, OrderKept DEF PriceInv
  <1>8. CASE UNCHANGED priceVars
    <2>1. /\ price' = price /\ quantity' = quantity /\ page' = page /\ order' = order
          /\ table' = table /\ noise' = noise
      BY <1>8 DEF priceVars, currency
    <2>2. RatesKept'
      BY <1>1, <2>1 DEF RatesKept
    <2> QED BY <1>1, <2>1, <2>2, PageKept, OrderKept DEF PriceInv
  <1> QED BY <1>2, <1>3, <1>4, <1>5, <1>6, <1>7, <1>8 DEF PriceNext

LEMMA PriceInvariant == PriceSpec => []PriceInv
  BY InitPriceInv, StepPriceInv, PTL DEF PriceSpec

\* What an order in a currency with a rate is charged.
LEMMA OrderFigures ==
    ASSUME PriceInv, order # NoOrder, order.code \in Known
    PROVE  LET a == Exact(price, order.code) + noise[order.code]
               b == Exact(get_quote(order.quantity), order.code) + noise[order.code]
           IN  /\ a \in Nat /\ b \in Nat /\ 2 * a >= NanosMod /\ b >= NanosMod
               /\ order.quantity \in Nat \ {0} /\ order.code \in CurrencyCodes
               /\ order.cost = getUnitsAndNanos(a, order.code)
               /\ order.shipping = getUnitsAndNanos(b, order.code)
               /\ order.total = getUnitsAndNanos(b + order.quantity * a, order.code)
  <1> DEFINE code == order.code
             k == order.quantity
             e == noise[code]
             a == Exact(price, code) + e
             b == Exact(get_quote(k), code) + e
  <1>1. /\ k \in Quantities /\ price \in Prices /\ e \in -1 .. 1 /\ code \in Known
        /\ order.cost = Amount(price, code) /\ order.shipping = Amount(get_quote(k), code)
        /\ order.total = ChargedTotal(order.cost, order.shipping, k, code)
    BY DEF PriceInv, OrderInv
  <1>2. order.cost = getUnitsAndNanos(a, code) /\ order.shipping = getUnitsAndNanos(b, code)
    BY <1>1 DEF Amount
  <1> HIDE DEF code, k, e
  <1>3. a \in Nat /\ b \in Nat /\ 2 * a >= NanosMod /\ b >= NanosMod
    BY <1>1, PriceOf, QuoteOf
  <1>4. k \in Nat \ {0} /\ code \in CurrencyCodes
    BY <1>1, PricingAssumption, CurrencyAssumption
  <1> HIDE DEF a, b
  <1>5. ChargedTotal(getUnitsAndNanos(a, code), getUnitsAndNanos(b, code), k, code)
          = getUnitsAndNanos(b + k * a, code)
    BY <1>3, <1>4, ChargedIsExact
  <1>6. order.total = getUnitsAndNanos(b + k * a, code)
    BY <1>1, <1>2, <1>5
  <1> QED BY <1>2, <1>3, <1>4, <1>6 DEF a, b, code, k, e

\* An order in a currency with a rate is made of legal amounts, large enough for
\* the additions of OrderTotal, and its total is exact.
THEOREM OrdersAreMoney == PriceSpec => []OrderIsMoney
  <1>1. PriceInv => OrderIsMoney
    <2> SUFFICES ASSUME PriceInv, order # NoOrder, order.code \in Known
                 PROVE  /\ \A m \in {order.cost, order.shipping, order.total} :
                              IsValid(m) /\ IsPositive(m) /\ m.currencyCode = order.code
                        /\ Value(order.total)
                             = Value(order.shipping) + order.quantity * Value(order.cost)
      BY DEF OrderIsMoney
    <2> DEFINE code == order.code
               k == order.quantity
               a == Exact(price, code) + noise[code]
               b == Exact(get_quote(k), code) + noise[code]
               t == b + k * a
    <2>1. /\ a \in Nat /\ b \in Nat /\ 2 * a >= NanosMod /\ b >= NanosMod
          /\ k \in Nat \ {0} /\ code \in CurrencyCodes
          /\ order.cost = getUnitsAndNanos(a, code)
          /\ order.shipping = getUnitsAndNanos(b, code)
          /\ order.total = getUnitsAndNanos(t, code)
      BY OrderFigures
    <2> HIDE DEF a, b
    <2>2. t \in Nat /\ t > 0 /\ a > 0 /\ b > 0
      <3> DEFINE p == k * a
      <3>1. p \in Nat
        BY <2>1
      <3> HIDE DEF p
      <3>2. b + p \in Nat /\ b + p > 0 /\ a > 0 /\ b > 0
        BY <2>1, <3>1, MoneyAssumption
      <3> QED BY <3>2 DEF p
    <2> HIDE DEF t, k
    <2>3. /\ Legal(order.cost, code) /\ Value(order.cost) = a /\ IsPositive(order.cost)
          /\ Legal(order.shipping, code) /\ Value(order.shipping) = b /\ IsPositive(order.shipping)
          /\ Legal(order.total, code) /\ Value(order.total) = t /\ IsPositive(order.total)
      BY <2>1, <2>2, AmountOf
    <2>4. \A m \in {order.cost, order.shipping, order.total} :
            IsValid(m) /\ IsPositive(m) /\ m.currencyCode = code
      BY <2>3 DEF Legal
    <2> QED BY <2>3, <2>4 DEF t, k
  <1> QED BY <1>1, PriceInvariant, PTL

\* What the page showed is what the order is charged, to the nano where both
\* prices are converted, to the nano per piece where the page's is not.
THEOREM ShownCharged == PriceSpec => []ShownIsCharged
  <1>1. PriceInv => ShownIsCharged
    <2> SUFFICES ASSUME PriceInv, page # NoPage, order # NoOrder, page.code = order.code,
                        page.quantity = order.quantity, order.code \in Known
                 PROVE  /\ page.shipping = order.shipping
                        /\ order.code # USD => page.cost = order.cost /\ page.total = order.total
                        /\ order.code = USD /\ ~LeadingZero(price) =>
                             /\ Near(page.cost, order.cost)
                             /\ Value(page.total) - Value(order.total)
                                  \in -order.quantity .. order.quantity
      BY DEF ShownIsCharged
    <2> DEFINE code == order.code
               k == order.quantity
               e == noise[code]
               a == Exact(price, code) + e
               b == Exact(get_quote(k), code) + e
    <2>1. /\ a \in Nat /\ b \in Nat
          /\ k \in Nat \ {0} /\ code \in CurrencyCodes
          /\ order.cost = getUnitsAndNanos(a, code)
          /\ order.shipping = getUnitsAndNanos(b, code)
          /\ order.total = getUnitsAndNanos(b + k * a, code)
      BY OrderFigures
    <2>2. /\ page.cost = IF code = USD THEN price ELSE Amount(price, code)
          /\ page.shipping = Amount(get_quote(k), code)
          /\ page.total = ShownTotal(page.cost, page.shipping, k, code)
      BY DEF PriceInv, PageInv
    <2>3. Amount(price, code) = getUnitsAndNanos(a, code)
          /\ Amount(get_quote(k), code) = getUnitsAndNanos(b, code)
      BY DEF Amount
    <2>4. page.shipping = order.shipping /\ Legal(page.shipping, code) /\ Value(page.shipping) = b
      <3> HIDE DEF a, b, k
      <3> QED BY <2>1, <2>2, <2>3, AmountOf
    <2>5. ASSUME code # USD PROVE page.cost = order.cost /\ page.total = order.total
      <3> HIDE DEF a, b, k
      <3>1. page.cost = order.cost
        BY <2>1, <2>2, <2>3, <2>5
      <3>2. Legal(page.cost, code) /\ Value(page.cost) = a
        BY <2>1, <3>1, AmountOf
      <3>3. page.total = getUnitsAndNanos(b + k * a, code)
        BY <2>1, <2>2, <2>4, <3>2, ShownIsExact
      <3> QED BY <2>1, <3>1, <3>3
    <2>6. ASSUME code = USD, ~LeadingZero(price)
          PROVE  /\ Near(page.cost, order.cost)
                 /\ Value(page.total) - Value(order.total) \in -k .. k
      <3> DEFINE v == Value(price)
      <3>1. InUSD(price) /\ e \in -1 .. 1 /\ USD \in Known
        BY <2>6, PricingAssumption DEF PriceInv
      <3>2. Legal(price, USD) /\ v \in Nat
        <4>1. Legal(price, USD)
          BY <3>1, MoneyAssumption DEF InUSD, Legal, IsValid, signMatches, validNanos, MoneySet
        <4> QED BY <2>1, <2>6, <4>1, LegalIsAmount
      <3>3. getDouble(price) = v
        <4>1. price.nanos \in 0 .. NanosMod - 1
              /\ (price.nanos = 0 \/ price.nanos >= NanosMod \div 10)
          BY <2>6, <3>1, MoneyAssumption DEF LeadingZero, InUSD
        <4>2. Decimal(price.nanos) = price.nanos
          BY <4>1, DecimalReads
        <4> QED BY <4>2 DEF getDouble, Value
      <3>4. Exact(price, USD) = v
        <4> DEFINE R == Rates[USD]
        <4>1. R \in Nat \ {0}
          BY <3>1, CurrencyAssumption
        <4>2. Exact(price, USD) = (v * R) \div R
          BY <3>3 DEF Exact
        <4> HIDE DEF R, v
        <4>3. (v * R + 0) \div R = v
          BY <3>2, <4>1, DivisionIs
        <4>4. v * R + 0 = v * R
          BY <3>2, <4>1
        <4> QED BY <4>2, <4>3, <4>4
      <3>5. a = v + e
        BY <2>6, <3>4
      <3> HIDE DEF a, b, k, e, v
      <3>6. page.cost = price
        BY <2>2, <2>6
      <3>7. Value(order.cost) = a /\ order.cost.currencyCode = code
        BY <2>1, AmountOf DEF Legal
      <3>8. Near(page.cost, order.cost)
        <4>1. Value(page.cost) = v /\ page.cost.currencyCode = code
          BY <2>6, <3>2, <3>6 DEF v, Legal
        <4>2. v - a \in -1 .. 1
          BY <3>1, <3>2, <3>5
        <4> QED BY <3>7, <4>1, <4>2 DEF Near
      <3>9. k * v \in Nat /\ k * a \in Nat /\ k * v - k * a \in -k .. k
        <4>1. k * v \in Nat /\ k * a \in Nat
          BY <2>1, <3>2
        <4>2. k * a = k * v + k * e
          BY <2>1, <3>1, <3>2, <3>5
        <4>3. k * e \in -k .. k
          <5>1. e = -1 \/ e = 0 \/ e = 1
            BY <3>1
          <5>2. k * (-1) = -k /\ k * 0 = 0 /\ k * 1 = k
            BY <2>1
          <5> QED BY <2>1, <5>1, <5>2
        <4> DEFINE x == k * v
                   y == k * a
                   z == k * e
        <4> HIDE DEF x, y, z
        <4>4. x \in Nat /\ y \in Nat /\ y = x + z /\ z \in -k .. k
          BY <4>1, <4>2, <4>3 DEF x, y, z
        <4>5. x - y \in -k .. k
          BY <2>1, <4>4
        <4> QED BY <4>4, <4>5 DEF x, y
      <3>10. page.total = getUnitsAndNanos(b + k * v, code)
        <4>1. Value(page.cost) = v /\ Legal(page.cost, code)
          BY <2>6, <3>2, <3>6 DEF v
        <4> QED BY <2>1, <2>2, <2>4, <4>1, ShownIsExact
      <3> DEFINE x == k * v
                 y == k * a
      <3> HIDE DEF x, y
      <3>11. /\ x \in Nat /\ y \in Nat /\ x - y \in -k .. k
             /\ page.total = getUnitsAndNanos(b + x, code)
             /\ order.total = getUnitsAndNanos(b + y, code)
        BY <2>1, <3>9, <3>10 DEF x, y
      <3>12. b + x \in Nat /\ b + y \in Nat
        BY <2>1, <3>11
      <3>13. Value(page.total) = b + x /\ Value(order.total) = b + y
        BY <2>1, <3>11, <3>12, AmountOf
      <3>14. (b + x) - (b + y) = x - y
        BY <2>1, <3>11
      <3>15. Value(page.total) - Value(order.total) \in -k .. k
        BY <3>11, <3>13, <3>14
      <3> QED BY <3>8, <3>15
    <2> QED BY <2>4, <2>5, <2>6
  <1> QED BY <1>1, PriceInvariant, PTL

===============================================================================
