----------------------------- MODULE MoneyPairs -----------------------------
(***************************************************************************)
(* Sum and the predicates of the money package on every pair of amounts of *)
(* a sample: the operands of one call, exchanged by the only action so     *)
(* that Sum(l, r) and Sum(r, l) are related.                               *)
(***************************************************************************)
EXTENDS Money

CONSTANT Samples  \* the amounts to combine, legal and not

ASSUME SamplesAssumption == Samples \subseteq MoneySet

VARIABLES l, r

pairVars == <<l, r>>

PairInit == l \in Samples /\ r \in Samples

Exchange == l' = r /\ r' = l

PairSpec == PairInit /\ [][Exchange]_pairVars

----------------------------------------------------------------------------
Compatible == IsValid(l) /\ IsValid(r) /\ l.currencyCode = r.currencyCode

\* The units cancel out and the nanos do not: the case Sum gets wrong, because
\* it takes a zero units for one of another sign than the nanos.
OnlyNanosLeft ==
    /\ l.units + r.units = 0
    /\ l.nanos + r.nanos # 0
    /\ l.nanos + r.nanos < NanosMod

\* Sum, away from that case, refuses exactly the illegal operands and the
\* mixed currencies, and otherwise returns a legal amount worth the exact sum.
SumIsExact ==
    LET s == Sum(l, r) IN
    /\ s.err = "nil" <=> Compatible
    /\ Compatible /\ ~OnlyNanosLeft =>
         /\ IsValid(s.money)
         /\ s.money.currencyCode = l.currencyCode
         /\ Value(s.money) = Value(l) + Value(r)

\* Adding the opposite of r gives back l, when neither of the two sums is in
\* the case above.
TakingBackUndoes ==
    LET s == Sum(l, r).money IN
    Compatible /\ ~OnlyNanosLeft
      /\ ~(s.units = r.units /\ s.nanos # r.nanos)
        => Sum(s, Negate(r)).money = l

\* The order of the operands does not matter, errors included, and either of
\* them can be taken back.
SumIsReversible ==
    [][Sum(l', r') = Sum(l, r) /\ TakingBackUndoes]_pairVars

=============================================================================
