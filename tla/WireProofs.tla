---------------------------- MODULE WireProofs ----------------------------
(***************************************************************************)
(* Proofs about Codec and Wire: whatever tables of messages two codecs     *)
(* have, as long as they agree, and whatever the messages are, what one    *)
(* writes the other one reads.                                             *)
(***************************************************************************)
EXTENDS Wire, SumTheorems, SequenceTheorems, TLAPS

(* The recursions.  A function of type, or of a number of turns, that is   *)
(* defined by recursion exists because each of its values depends only on  *)
(* those of smaller rank.  RecStep names the recursions of Codec and Wire, *)
(* which differ in what they do, so that one proof serves them all.        *)

FlattenStep(seqs, i, g) == IF i = 1 THEN seqs[i] ELSE g[i - 1] \o seqs[i]

FieldsWritten(C, reversed, T) == IF reversed THEN Reverse(C.messages[T]) ELSE C.messages[T]
EncodeStep(C, reversed, extra, T, g) ==
    [m \in MessagesOf[T] |-> extra \o EncodeFields(g, FieldsWritten(C, reversed, T), m) \o extra]

GroupStep(w, n, g) == [p \in 0..Len(w) |-> IF n = 0 THEN Raised ELSE SkipGroup(g[n - 1], w, p)]

TurnStep(C, decode, T, w, end, n, g) ==
    [p \in 0..Len(w) |-> IF n = 0 THEN Raised ELSE Turn(C, decode, T, w, end, g[n - 1], p)]

DecodeStep(C, w, T, g) ==
    [pos \in 0..Len(w) |-> [end \in Int |-> DecodeMessage(C, g, T, w, pos, end)]]

JsonStep(C, style, T, g) == [m \in MessagesOf[T] |-> WriteObject(C, g, T, m, style)]

FilledStep(C, styles, T, g) == [o \in Objects(C, T) |-> ReadObject(C, g, T, o, styles)]

UnsafeStep(C, T, g) ==
    {m \in MessagesOf[T] : \E f \in Fields(C, T) : UnsafeField(C, g, f, m[f.name])}

RecStep(which, x, a, g) ==
    CASE which = "flatten" -> FlattenStep(x, a, g)
      [] which = "encode"  -> EncodeStep(x[1], x[2], x[3], a, g)
      [] which = "group"   -> GroupStep(x, a, g)
      [] which = "turn"    -> TurnStep(x[1], x[2], x[3], x[4], x[5], a, g)
      [] which = "decode"  -> DecodeStep(x[1], x[2], a, g)
      [] which = "json"    -> JsonStep(x[1], x[2], a, g)
      [] which = "filled"  -> FilledStep(x[1], x[2], a, g)
      [] which = "unsafe"  -> UnsafeStep(x, a, g)

Solves(which, x, S, f) == f = [a \in S |-> RecStep(which, x, a, f)]

\* The solution TLA+ gives a recursive definition.
Solution(which, x, S) == CHOOSE f : Solves(which, x, S, f)

SameBelow(S, rank, a, g, h) == \A b \in S : rank[b] < rank[a] => g[b] = h[b]
Ranked(which, x, S, rank) ==
    \A a \in S : /\ rank[a] \in Nat
                 /\ \A g, h : SameBelow(S, rank, a, g, h)
                                => RecStep(which, x, a, g) = RecStep(which, x, a, h)

Below(S, rank, n) == {a \in S : rank[a] < n}

LEMMA SolvesAt ==
    ASSUME NEW which, NEW x, NEW S, NEW f, Solves(which, x, S, f), NEW a \in S
    PROVE  f[a] = RecStep(which, x, a, f)
    <1> DEFINE E(b) == RecStep(which, x, b, f)
    <1>1. f = [b \in S |-> E(b)]
        BY DEF Solves
    <1> HIDE DEF E
    <1>2. f[a] = E(a)
        BY <1>1, Zenon
    <1> QED
        BY <1>2 DEF E

LEMMA SolutionsAgree ==
    ASSUME NEW which, NEW x, NEW S, NEW rank, Ranked(which, x, S, rank),
           NEW n \in Nat, NEW f, Solves(which, x, Below(S, rank, n), f),
           NEW m \in Nat, NEW g, Solves(which, x, Below(S, rank, m), g)
    PROVE  \A a \in S : rank[a] < n /\ rank[a] < m => f[a] = g[a]
    <1> DEFINE A == {k \in Nat : \A a \in S : rank[a] < k /\ rank[a] < n /\ rank[a] < m => f[a] = g[a]}
    <1>1. \A a \in S : rank[a] \in Nat
        BY DEF Ranked
    <1>2. 0 \in A
        BY <1>1
    <1>3. ASSUME NEW k \in Nat, k \in A PROVE k + 1 \in A
        <2>1. ASSUME NEW a \in S, rank[a] < k + 1, rank[a] < n, rank[a] < m PROVE f[a] = g[a]
            <3>1. \A b \in S : rank[b] < rank[a] => f[b] = g[b]
                BY <1>1, <1>3, <2>1
            <3>2. RecStep(which, x, a, f) = RecStep(which, x, a, g)
                BY <3>1 DEF Ranked, SameBelow
            <3>3. a \in Below(S, rank, n) /\ a \in Below(S, rank, m)
                BY <2>1 DEF Below
            <3>4. f[a] = RecStep(which, x, a, f) /\ g[a] = RecStep(which, x, a, g)
                BY <3>3, SolvesAt
            <3> QED
                BY <3>2, <3>4
        <2> QED
            BY <2>1
    <1>4. Nat \subseteq A
        <2> HIDE DEF A
        <2> QED
            BY <1>2, <1>3, NatInductionSet
    <1> QED
        <2>1. ASSUME NEW a \in S, rank[a] < n, rank[a] < m PROVE f[a] = g[a]
            BY <1>1, <1>4, <2>1
        <2> QED
            BY <2>1

LEMMA SolutionsBelow ==
    ASSUME NEW which, NEW x, NEW S, NEW rank, Ranked(which, x, S, rank), NEW n \in Nat
    PROVE  \E f : Solves(which, x, Below(S, rank, n), f)
    <1> DEFINE A == {k \in Nat : \E f : Solves(which, x, Below(S, rank, k), f)}
    <1>1. \A a \in S : rank[a] \in Nat
        BY DEF Ranked
    <1>2. 0 \in A
        <2> DEFINE f == [a \in {} |-> RecStep(which, x, a, {})]
        <2>1. Below(S, rank, 0) = {}
            BY <1>1 DEF Below
        <2>2. f = [a \in {} |-> RecStep(which, x, a, f)]
            OBVIOUS
        <2>3. Solves(which, x, {}, f)
            BY <2>2 DEF Solves
        <2> HIDE DEF f
        <2> QED
            BY <2>1, <2>3
    <1>3. ASSUME NEW k \in Nat, k \in A PROVE k + 1 \in A
        <2>1. PICK f : Solves(which, x, Below(S, rank, k), f)
            BY <1>3
        <2> DEFINE E(a) == RecStep(which, x, a, f)
                   h == [a \in Below(S, rank, k + 1) |-> E(a)]
        <2>2. ASSUME NEW b \in S, rank[b] < k PROVE h[b] = f[b]
            <3>1. b \in Below(S, rank, k) /\ b \in Below(S, rank, k + 1)
                BY <1>1, <2>2 DEF Below
            <3>2. h[b] = E(b)
                <4> HIDE DEF E
                <4> QED
                    BY <3>1
            <3>3. f[b] = E(b)
                BY <2>1, <3>1, SolvesAt
            <3> QED
                BY <3>2, <3>3
        <2> HIDE DEF h
        <2>3. ASSUME NEW a \in Below(S, rank, k + 1) PROVE E(a) = RecStep(which, x, a, h)
            <3>1. a \in S /\ rank[a] < k + 1
                BY <2>3 DEF Below
            <3>2. \A b \in S : rank[b] < rank[a] => f[b] = h[b]
                BY <1>1, <2>2, <3>1
            <3> QED
                BY <3>1, <3>2 DEF Ranked, SameBelow
        <2>4. h = [a \in Below(S, rank, k + 1) |-> RecStep(which, x, a, h)]
            <3> DEFINE G(a) == RecStep(which, x, a, h)
            <3>1. \A a \in Below(S, rank, k + 1) : E(a) = G(a)
                BY <2>3
            <3>2. h = [a \in Below(S, rank, k + 1) |-> E(a)]
                BY DEF h
            <3> HIDE DEF E, G
            <3>3. h = [a \in Below(S, rank, k + 1) |-> G(a)]
                BY <3>1, <3>2
            <3> QED
                BY <3>3 DEF G
        <2> QED
            BY <2>4 DEF Solves
    <1>4. Nat \subseteq A
        <2> HIDE DEF A
        <2> QED
            BY <1>2, <1>3, NatInductionSet
    <1> QED
        BY <1>4

\* A recursive definition that only looks at smaller ranks has a solution.
LEMMA Recursion ==
    ASSUME NEW which, NEW x, NEW S, NEW rank, Ranked(which, x, S, rank)
    PROVE  Solves(which, x, S, Solution(which, x, S))
    <1> DEFINE H(n) == CHOOSE f : Solves(which, x, Below(S, rank, n), f)
               f == [a \in S |-> H(rank[a] + 1)[a]]
    <1>1. \A a \in S : rank[a] \in Nat
        BY DEF Ranked
    <1>2. ASSUME NEW n \in Nat PROVE Solves(which, x, Below(S, rank, n), H(n))
        BY SolutionsBelow
    <1> HIDE DEF H
    <1>3. ASSUME NEW a \in S PROVE f[a] = RecStep(which, x, a, f)
        <2> DEFINE g == H(rank[a] + 1)
        <2>1. Solves(which, x, Below(S, rank, rank[a] + 1), g)
            BY <1>1, <1>2
        <2>2. f[a] = g[a]
            OBVIOUS
        <2>3. a \in Below(S, rank, rank[a] + 1)
            BY <1>1 DEF Below
        <2> HIDE DEF g
        <2>4. g[a] = RecStep(which, x, a, g)
            BY <2>1, <2>3, SolvesAt
        <2>5. ASSUME NEW b \in S, rank[b] < rank[a] PROVE g[b] = f[b]
            <3> DEFINE e == H(rank[b] + 1)
            <3>1. Solves(which, x, Below(S, rank, rank[b] + 1), e)
                BY <1>1, <1>2
            <3>2. f[b] = e[b]
                OBVIOUS
            <3> HIDE DEF e, f
            <3>3. rank[b] + 1 \in Nat /\ rank[a] + 1 \in Nat /\ rank[b] < rank[a] + 1 /\ rank[b] < rank[b] + 1
                BY <1>1, <2>5
            <3>4. g[b] = e[b]
                BY <2>1, <3>1, <3>3, SolutionsAgree
            <3> QED
                BY <3>2, <3>4
        <2>6. RecStep(which, x, a, g) = RecStep(which, x, a, f)
            <3> HIDE DEF f
            <3> QED
                BY <2>5 DEF Ranked, SameBelow
        <2> QED
            BY <2>2, <2>4, <2>6
    <1>4. f = [a \in S |-> RecStep(which, x, a, f)]
        <2> DEFINE G(a) == RecStep(which, x, a, f)
                   K(a) == H(rank[a] + 1)[a]
        <2>1. \A a \in S : f[a] = G(a)
            BY <1>3
        <2>2. f = [a \in S |-> K(a)]
            OBVIOUS
        <2> HIDE DEF f, G, K
        <2>3. f = [a \in S |-> G(a)]
            BY <2>1, <2>2
        <2> QED
            BY <2>3 DEF G
    <1>5. Solves(which, x, S, f)
        BY <1>4 DEF Solves
    <1> HIDE DEF f
    <1> QED
        BY <1>5 DEF Solution


(* Sequences of sequences: what FlattenSeq makes of the first i of them.   *)

Part(ss, i) == IF i = 0 THEN << >> ELSE Solution("flatten", ss, 1..Len(ss))[i]

LEMMA FlattenIsPart ==
    ASSUME NEW ss \in Seq(Seq(Int)) PROVE FlattenSeq(ss) = Part(ss, Len(ss))
    <1> DEFINE P(f) == f = [i \in 1..Len(ss) |-> IF i = 1 THEN ss[i] ELSE f[i - 1] \o ss[i]]
               Q(f) == Solves("flatten", ss, 1..Len(ss), f)
    <1>1. \A f : P(f) <=> Q(f)
        BY DEF Solves, RecStep, FlattenStep
    <1>2. (CHOOSE f : P(f)) = (CHOOSE f : Q(f))
        <2> HIDE DEF P, Q
        <2> QED
            BY <1>1, Zenon
    <1>3. CASE Len(ss) = 0
        <2>1. ss = << >>
            BY <1>3, EmptySeq
        <2> QED
            BY <1>3, <2>1 DEF FlattenSeq, Part
    <1>4. CASE Len(ss) # 0
        <2>1. FlattenSeq(ss) = (CHOOSE f : P(f))[Len(ss)]
            BY <1>4 DEF FlattenSeq
        <2>2. Part(ss, Len(ss)) = (CHOOSE f : Q(f))[Len(ss)]
            BY <1>4 DEF Part, Solution
        <2> QED
            BY <1>2, <2>1, <2>2
    <1> QED
        BY <1>3, <1>4

LEMMA Parts ==
    ASSUME NEW ss \in Seq(Seq(Int))
    PROVE  /\ Part(ss, 0) = << >>
           /\ \A i \in 0..Len(ss) : Part(ss, i) \in Seq(Int)
           /\ \A i \in 1..Len(ss) : Part(ss, i) = Part(ss, i - 1) \o ss[i]
    <1> DEFINE S == 1..Len(ss)
               rank == [i \in S |-> i]
               f == Solution("flatten", ss, S)
    <1>1. Part(ss, 0) = << >>
        BY DEF Part
    <1>2. Len(ss) \in Nat /\ \A i \in S : ss[i] \in Seq(Int)
        OBVIOUS
    <1>3. Ranked("flatten", ss, S, rank)
        <2>1. ASSUME NEW a \in S, NEW g, NEW h, SameBelow(S, rank, a, g, h)
              PROVE  RecStep("flatten", ss, a, g) = RecStep("flatten", ss, a, h)
            <3>1. CASE a # 1
                <4>1. a - 1 \in S /\ rank[a - 1] < rank[a]
                    BY <1>2, <3>1
                <4>2. g[a - 1] = h[a - 1]
                    <5> HIDE DEF S, rank
                    <5> QED
                        BY <2>1, <4>1 DEF SameBelow
                <4> QED
                    BY <4>2 DEF RecStep, FlattenStep
            <3>2. CASE a = 1
                BY <3>2 DEF RecStep, FlattenStep
            <3> QED
                BY <3>1, <3>2
        <2>2. \A a \in S : rank[a] \in Nat
            BY <1>2
        <2> HIDE DEF S, rank
        <2> QED
            BY <2>1, <2>2 DEF Ranked
    <1>4. Solves("flatten", ss, S, f)
        <2> HIDE DEF S, rank
        <2> QED
            BY <1>3, Recursion
    <1>5. ASSUME NEW i \in S PROVE f[i] = FlattenStep(ss, i, f)
        <2>1. f[i] = RecStep("flatten", ss, i, f)
            <3> HIDE DEF S, f
            <3> QED
                BY <1>4, SolvesAt
        <2> QED
            BY <2>1 DEF RecStep
    <1>6. \A i \in S : Part(ss, i) = f[i]
        BY <1>2 DEF Part
    <1> HIDE DEF f
    <1>7. ASSUME NEW i \in S, Part(ss, i - 1) \in Seq(Int)
          PROVE  Part(ss, i) = Part(ss, i - 1) \o ss[i] /\ Part(ss, i) \in Seq(Int)
        <2>1. CASE i = 1
            <3>1. Part(ss, i) = ss[i] /\ Part(ss, i - 1) = << >>
                BY <1>1, <1>5, <1>6, <2>1 DEF FlattenStep
            <3>2. ss[i] \in Seq(Int)
                BY <1>2
            <3>3. << >> \o ss[i] = ss[i]
                BY <3>2, ConcatEmptySeq
            <3> QED
                BY <3>1, <3>2, <3>3
        <2>2. CASE i # 1
            <3>1. i - 1 \in S /\ i - 1 # 0
                BY <1>2, <2>2
            <3>2. Part(ss, i) = Part(ss, i - 1) \o ss[i]
                BY <1>5, <1>6, <2>2, <3>1 DEF FlattenStep
            <3>3. ss[i] \in Seq(Int)
                BY <1>2
            <3> QED
                BY <1>7, <3>2, <3>3, ConcatProperties
        <2> QED
            BY <2>1, <2>2
    <1> DEFINE A == {k \in Nat : k <= Len(ss) => Part(ss, k) \in Seq(Int)}
    <1>8. 0 \in A
        BY <1>1, EmptySeq
    <1>9. ASSUME NEW k \in Nat, k \in A PROVE k + 1 \in A
        <2>1. CASE k + 1 <= Len(ss)
            <3>1. k + 1 \in S /\ (k + 1) - 1 = k /\ Part(ss, k) \in Seq(Int)
                BY <1>2, <1>9, <2>1
            <3>2. Part(ss, k + 1) \in Seq(Int)
                BY <1>7, <3>1
            <3> QED
                BY <3>2
        <2>2. CASE ~(k + 1 <= Len(ss))
            BY <2>2
        <2> QED
            BY <2>1, <2>2
    <1>10. Nat \subseteq A
        <2> HIDE DEF A
        <2> QED
            BY <1>8, <1>9, NatInductionSet
    <1>11. \A i \in 0..Len(ss) : Part(ss, i) \in Seq(Int)
        BY <1>2, <1>10
    <1>12. ASSUME NEW i \in 1..Len(ss) PROVE Part(ss, i) = Part(ss, i - 1) \o ss[i]
        <2>1. i \in S /\ Part(ss, i - 1) \in Seq(Int)
            BY <1>2, <1>11
        <2> QED
            BY <1>7, <2>1
    <1> QED
        BY <1>1, <1>11, <1>12

(* What occurs on the wire, and what is read there.                        *)

Occurs(w, pos, e) ==
    pos + Len(e) <= Len(w) /\ \A i \in 1..Len(e) : w[pos + i] = e[i]

LEMMA OccursConcat ==
    ASSUME NEW w \in Seq(Int), NEW pos \in Nat, NEW a \in Seq(Int), NEW b \in Seq(Int),
           Occurs(w, pos, a \o b)
    PROVE  /\ Occurs(w, pos, a) /\ Occurs(w, pos + Len(a), b)
           /\ Len(a \o b) = Len(a) + Len(b)
    <1> DEFINE c == a \o b
    <1>1. /\ Len(c) = Len(a) + Len(b) /\ Len(a) \in Nat /\ Len(b) \in Nat
          /\ \A i \in 1..Len(a) + Len(b) : c[i] = IF i <= Len(a) THEN a[i] ELSE b[i - Len(a)]
        BY ConcatProperties
    <1>2. Occurs(w, pos, c)
        OBVIOUS
    <1> HIDE DEF c
    <1>3. ASSUME NEW i \in 1..Len(a) PROVE w[pos + i] = a[i]
        <2>1. i \in 1..Len(c) /\ c[i] = a[i]
            BY <1>1
        <2> QED
            BY <1>2, <2>1 DEF Occurs
    <1>4. ASSUME NEW i \in 1..Len(b) PROVE w[(pos + Len(a)) + i] = b[i]
        <2>1. Len(a) + i \in 1..Len(c) /\ c[Len(a) + i] = b[i]
            <3> DEFINE j == Len(a) + i
            <3>1. j \in 1..Len(a) + Len(b) /\ ~(j <= Len(a)) /\ j - Len(a) = i /\ j \in 1..Len(c)
                BY <1>1
            <3> HIDE DEF j
            <3>2. c[j] = b[i]
                BY <1>1, <3>1
            <3> QED
                BY <3>1, <3>2 DEF j
        <2>2. w[pos + (Len(a) + i)] = c[Len(a) + i]
            BY <1>2, <2>1 DEF Occurs
        <2>3. pos + (Len(a) + i) = (pos + Len(a)) + i
            BY <1>1
        <2> QED
            BY <2>1, <2>2, <2>3
    <1>5. Occurs(w, pos, a) /\ Occurs(w, pos + Len(a), b)
        BY <1>1, <1>2, <1>3, <1>4 DEF Occurs
    <1> QED
        BY <1>1, <1>5 DEF c

LEMMA ReadUnitAt ==
    ASSUME NEW w \in Seq(Int), NEW pos \in Nat, NEW u \in Int, Occurs(w, pos, <<u>>)
    PROVE  ReadUnit(w, pos) = Reading(pos + 1, u)
    <1>1. Len(<<u>>) = 1 /\ <<u>>[1] = u
        OBVIOUS
    <1>2. pos + 1 <= Len(w) /\ w[pos + 1] = u
        BY <1>1 DEF Occurs
    <1> QED
        BY <1>2 DEF ReadUnit

\* What has its length before it.
LEMMA ReadLengthAt ==
    ASSUME NEW w \in Seq(Int), NEW pos \in Nat, NEW v \in Seq(Int),
           Occurs(w, pos, <<Len(v)>> \o v)
    PROVE  /\ ReadLength(w, pos) = Reading(pos + 1, Len(v))
           /\ Occurs(w, pos + 1, v) /\ Len(<<Len(v)>> \o v) = 1 + Len(v)
    <1>1. Len(v) \in Nat /\ <<Len(v)>> \in Seq(Int) /\ Len(<<Len(v)>>) = 1
        OBVIOUS
    <1>2. Occurs(w, pos, <<Len(v)>>) /\ Occurs(w, pos + 1, v)
        BY <1>1, OccursConcat
    <1>3. Len(<<Len(v)>> \o v) = 1 + Len(v)
        BY <1>1, ConcatProperties
    <1>4. ReadUnit(w, pos) = Reading(pos + 1, Len(v))
        BY <1>1, <1>2, ReadUnitAt
    <1>5. ReadLength(w, pos) = Reading(pos + 1, Len(v))
        BY <1>1, <1>4 DEF ReadLength, Reading
    <1> QED
        BY <1>2, <1>3, <1>5

LEMMA ReadTextAt ==
    ASSUME NEW w \in Seq(Int), NEW pos \in Nat, NEW v \in Seq(Int),
           Occurs(w, pos, <<Len(v)>> \o v)
    PROVE  ReadText(w, pos) = Reading(pos + 1 + Len(v), v)
    <1>1. Len(v) \in Nat
        OBVIOUS
    <1>2. Occurs(w, pos + 1, v) /\ ReadLength(w, pos) = Reading(pos + 1, Len(v))
        BY ReadLengthAt
    <1>3. pos + 1 + Len(v) <= Len(w) /\ \A i \in 1..Len(v) : w[pos + 1 + i] = v[i]
        BY <1>2 DEF Occurs
    <1> DEFINE t == SubSeq(w, pos + 1 + 1, pos + 1 + Len(v))
    <1>4. t = v
        <2>1. pos + 2 \in Int /\ pos + 1 + Len(v) \in Int /\ pos + 1 + 1 = pos + 2
            BY <1>1
        <2>2. \A i \in (pos + 2)..(pos + 1 + Len(v)) : w[i] \in Int
            BY <1>1, <1>3
        <2>3. /\ t \in Seq(Int)
              /\ Len(t) = IF pos + 2 <= pos + 1 + Len(v)
                          THEN (pos + 1 + Len(v)) - (pos + 2) + 1 ELSE 0
              /\ \A i \in 1..((pos + 1 + Len(v)) - (pos + 2) + 1) : t[i] = w[(pos + 2) + i - 1]
            <3> DEFINE m == pos + 2
                       n == pos + 1 + Len(v)
            <3>1. m \in Int /\ n \in Int /\ (\A i \in m..n : w[i] \in Int) /\ t = SubSeq(w, m, n)
                BY <2>1, <2>2
            <3> HIDE DEF m, n, t
            <3>2. /\ t \in Seq(Int)
                  /\ Len(t) = IF m <= n THEN n - m + 1 ELSE 0
                  /\ \A i \in 1..(n - m + 1) : t[i] = w[m + i - 1]
                BY ONLY <3>1, SubSeqProperties
            <3> QED
                BY <3>2 DEF m, n
        <2>4. Len(t) = Len(v)
            BY <1>1, <2>3
        <2>5. ASSUME NEW i \in 1..Len(t) PROVE t[i] = v[i]
            <3>1. i \in 1..Len(v) /\ i \in 1..((pos + 1 + Len(v)) - (pos + 2) + 1)
                BY <1>1, <2>4
            <3>2. (pos + 2) + i - 1 = pos + 1 + i
                BY <1>1, <3>1
            <3> QED
                BY <1>3, <2>3, <3>1, <3>2
        <2> HIDE DEF t
        <2> QED
            BY <2>3, <2>4, <2>5, SeqEqual
    <1> HIDE DEF t
    <1>5. ReadText(w, pos) = Reading(pos + 1 + Len(v), t)
        BY <1>1, <1>2, <1>3 DEF ReadText, Reading, t
    <1> QED
        BY <1>4, <1>5

LEMMA PartsOccur ==
    ASSUME NEW ss \in Seq(Seq(Int)), NEW w \in Seq(Int), NEW pos \in Nat,
           Occurs(w, pos, FlattenSeq(ss))
    PROVE  /\ FlattenSeq(ss) = Part(ss, Len(ss)) /\ FlattenSeq(ss) \in Seq(Int)
           /\ \A i \in 0..Len(ss) : Part(ss, i) \in Seq(Int)
           /\ \A i \in 1..Len(ss) :
                 /\ Occurs(w, pos + Len(Part(ss, i - 1)), ss[i])
                 /\ Len(Part(ss, i)) = Len(Part(ss, i - 1)) + Len(ss[i])
    <1>1. Len(ss) \in Nat /\ \A i \in 1..Len(ss) : ss[i] \in Seq(Int)
        OBVIOUS
    <1>2. /\ Part(ss, 0) = << >>
          /\ \A i \in 0..Len(ss) : Part(ss, i) \in Seq(Int)
          /\ \A i \in 1..Len(ss) : Part(ss, i) = Part(ss, i - 1) \o ss[i]
        BY Parts
    <1>3. FlattenSeq(ss) = Part(ss, Len(ss))
        BY FlattenIsPart
    <1>4. ASSUME NEW i \in 1..Len(ss), Occurs(w, pos, Part(ss, i))
          PROVE  /\ Occurs(w, pos, Part(ss, i - 1))
                 /\ Occurs(w, pos + Len(Part(ss, i - 1)), ss[i])
                 /\ Len(Part(ss, i)) = Len(Part(ss, i - 1)) + Len(ss[i])
        <2>1. i - 1 \in 0..Len(ss)
            BY <1>1
        <2>2. Part(ss, i - 1) \in Seq(Int) /\ ss[i] \in Seq(Int)
            BY <1>1, <1>2, <2>1
        <2>3. Occurs(w, pos, Part(ss, i - 1) \o ss[i])
            BY <1>2, <1>4
        <2>4. Part(ss, i) = Part(ss, i - 1) \o ss[i]
            BY <1>2
        <2> QED
            BY <2>2, <2>3, <2>4, OccursConcat
    <1> DEFINE A == {k \in Nat : k <= Len(ss) => Occurs(w, pos, Part(ss, Len(ss) - k))}
    <1>5. 0 \in A
        BY <1>1, <1>3
    <1>6. ASSUME NEW k \in Nat, k \in A PROVE k + 1 \in A
        <2>1. CASE k + 1 <= Len(ss)
            <3>1. Len(ss) - k \in 1..Len(ss) /\ Occurs(w, pos, Part(ss, Len(ss) - k))
                BY <1>1, <1>6, <2>1
            <3>2. Occurs(w, pos, Part(ss, (Len(ss) - k) - 1))
                BY <1>4, <3>1
            <3>3. (Len(ss) - k) - 1 = Len(ss) - (k + 1)
                BY <1>1
            <3> QED
                BY <3>2, <3>3
        <2>2. CASE ~(k + 1 <= Len(ss))
            BY <2>2
        <2> QED
            BY <2>1, <2>2
    <1>7. Nat \subseteq A
        <2> HIDE DEF A
        <2> QED
            BY <1>5, <1>6, NatInductionSet
    <1>8. ASSUME NEW i \in 1..Len(ss) PROVE Occurs(w, pos, Part(ss, i))
        <2>1. Len(ss) - i \in A /\ Len(ss) - i <= Len(ss) /\ Len(ss) - (Len(ss) - i) = i
            BY <1>1, <1>7
        <2> QED
            BY <2>1
    <1>9. Part(ss, Len(ss)) \in Seq(Int)
        BY <1>1, <1>2
    <1>10. \A i \in 1..Len(ss) :
              /\ Occurs(w, pos + Len(Part(ss, i - 1)), ss[i])
              /\ Len(Part(ss, i)) = Len(Part(ss, i - 1)) + Len(ss[i])
        BY <1>4, <1>8
    <1> QED
        BY <1>2, <1>3, <1>9, <1>10

(* The loop of decode.  From says what the turns read from p on, when      *)
(* there are enough of them.                                               *)

TurnsOf(C, decode, T, w, end) == Solution("turn", <<C, decode, T, w, end>>, Nat)

From(turns, end, p, res) == \A n \in Nat : n > end - p => turns[n][p] = res

\* A recursion over the number of turns has a solution.
LEMMA NatSolution ==
    ASSUME NEW which, NEW x,
           \A n \in Nat : \A g, h : (n # 0 => g[n - 1] = h[n - 1])
               => RecStep(which, x, n, g) = RecStep(which, x, n, h)
    PROVE  \A n \in Nat : Solution(which, x, Nat)[n] = RecStep(which, x, n, Solution(which, x, Nat))
    <1> DEFINE rank == [n \in Nat |-> n]
    <1>1. ASSUME NEW n \in Nat, NEW g, NEW h, SameBelow(Nat, rank, n, g, h)
          PROVE  RecStep(which, x, n, g) = RecStep(which, x, n, h)
        <2>1. n # 0 => n - 1 \in Nat /\ rank[n - 1] < rank[n]
            OBVIOUS
        <2> HIDE DEF rank
        <2>2. n # 0 => g[n - 1] = h[n - 1]
            BY <1>1, <2>1 DEF SameBelow
        <2> QED
            BY <2>2
    <1>2. \A n \in Nat : rank[n] \in Nat
        OBVIOUS
    <1> HIDE DEF rank
    <1>3. Ranked(which, x, Nat, rank)
        BY <1>1, <1>2 DEF Ranked
    <1>4. Solves(which, x, Nat, Solution(which, x, Nat))
        BY <1>3, Recursion
    <1> QED
        BY <1>4, SolvesAt

LEMMA TurnsAt ==
    ASSUME NEW C, NEW decode, NEW T, NEW w \in Seq(Int), NEW end,
           NEW n \in Nat, n # 0, NEW p \in 0..Len(w)
    PROVE  TurnsOf(C, decode, T, w, end)[n][p]
               = Turn(C, decode, T, w, end, TurnsOf(C, decode, T, w, end)[n - 1], p)
    <1> DEFINE x == <<C, decode, T, w, end>>
    <1>1. ASSUME NEW k \in Nat, NEW g
          PROVE  RecStep("turn", x, k, g) = TurnStep(C, decode, T, w, end, k, g)
        BY DEF RecStep
    <1>2. ASSUME NEW k \in Nat, NEW g, NEW h, k # 0 => g[k - 1] = h[k - 1]
          PROVE  RecStep("turn", x, k, g) = RecStep("turn", x, k, h)
        <2>1. TurnStep(C, decode, T, w, end, k, g) = TurnStep(C, decode, T, w, end, k, h)
            <3>1. CASE k = 0
                BY <3>1 DEF TurnStep
            <3>2. CASE k # 0
                <4>1. g[k - 1] = h[k - 1]
                    BY <1>2, <3>2
                <4> QED
                    BY <3>2, <4>1 DEF TurnStep
            <3> QED
                BY <3>1, <3>2
        <2> QED
            BY <1>1, <2>1
    <1> DEFINE t == Solution("turn", x, Nat)
    <1>3. t[n] = RecStep("turn", x, n, t)
        <2> HIDE DEF x
        <2> QED
            BY <1>2, NatSolution
    <1>4. t[n] = TurnStep(C, decode, T, w, end, n, t)
        BY <1>1, <1>3
    <1>5. TurnsOf(C, decode, T, w, end) = t
        BY DEF TurnsOf
    <1> HIDE DEF t
    <1> QED
        BY <1>4, <1>5 DEF TurnStep

LEMMA TurnsIs ==
    ASSUME NEW C, NEW decode, NEW T, NEW w, NEW pos, NEW end
    PROVE  Turns(C, decode, T, w, pos, end) = TurnsOf(C, decode, T, w, end)[end - pos + 1][pos]
    <1> DEFINE P(f) == f = [n \in Nat |-> [p \in 0..Len(w) |->
                              IF n = 0 THEN Raised ELSE Turn(C, decode, T, w, end, f[n - 1], p)]]
               Q(f) == Solves("turn", <<C, decode, T, w, end>>, Nat, f)
    <1>1. \A f : P(f) <=> Q(f)
        BY DEF Solves, RecStep, TurnStep
    <1>2. (CHOOSE f : P(f)) = (CHOOSE f : Q(f))
        <2> HIDE DEF P, Q
        <2> QED
            BY <1>1, Zenon
    <1>3. Turns(C, decode, T, w, pos, end) = (CHOOSE f : P(f))[end - pos + 1][pos]
        BY DEF Turns
    <1>4. TurnsOf(C, decode, T, w, end) = (CHOOSE f : Q(f))
        BY DEF TurnsOf, Solution
    <1> QED
        BY <1>2, <1>3, <1>4

\* What a turn that reads a field or skips one makes of what the turns after it read.
LEMMA TurnFrom ==
    ASSUME NEW C, NEW decode, NEW T, NEW w \in Seq(Int), NEW end \in Nat,
           NEW p \in 0..Len(w), NEW q \in Nat, q > p, NEW res, NEW new,
           From(TurnsOf(C, decode, T, w, end), end, q, res), p < end,
           \A later : later[q] = res => Turn(C, decode, T, w, end, later, p) = new
    PROVE  From(TurnsOf(C, decode, T, w, end), end, p, new)
    <1> DEFINE t == TurnsOf(C, decode, T, w, end)
    <1> SUFFICES ASSUME NEW n \in Nat, n > end - p PROVE t[n][p] = new
        BY DEF From
    <1>1. n # 0 /\ n - 1 \in Nat /\ n - 1 > end - q
        OBVIOUS
    <1>2. t[n][p] = Turn(C, decode, T, w, end, t[n - 1], p)
        BY <1>1, TurnsAt
    <1>3. t[n - 1][q] = res
        BY <1>1 DEF From
    <1> HIDE DEF t
    <1> QED
        BY <1>2, <1>3

\* A sequence of pieces is read from its last to its first.
LEMMA Scan ==
    ASSUME NEW ss \in Seq(Seq(Int)), NEW w \in Seq(Int), NEW pos \in Nat, NEW end \in Nat,
           Occurs(w, pos, FlattenSeq(ss)), pos + Len(FlattenSeq(ss)) <= end,
           NEW turns, NEW res,
           From(turns, end, pos + Len(FlattenSeq(ss)), res[Len(ss)]),
           \A i \in 1..Len(ss), p \in Nat :
               /\ Occurs(w, p, ss[i]) /\ p + Len(ss[i]) <= end
               /\ From(turns, end, p + Len(ss[i]), res[i])
               => From(turns, end, p, res[i - 1])
    PROVE  From(turns, end, pos, res[0])
    <1> DEFINE At(i) == pos + Len(Part(ss, i))
    <1>1. Len(ss) \in Nat /\ \A i \in 1..Len(ss) : ss[i] \in Seq(Int)
        OBVIOUS
    <1>2. /\ FlattenSeq(ss) = Part(ss, Len(ss))
          /\ \A i \in 0..Len(ss) : Part(ss, i) \in Seq(Int)
          /\ \A i \in 1..Len(ss) :
                /\ Occurs(w, pos + Len(Part(ss, i - 1)), ss[i])
                /\ Len(Part(ss, i)) = Len(Part(ss, i - 1)) + Len(ss[i])
        BY PartsOccur
    <1>3. \A i \in 0..Len(ss) : At(i) \in Nat
        BY <1>2
    <1>4. \A i \in 1..Len(ss) :
              /\ Occurs(w, At(i - 1), ss[i]) /\ Len(ss[i]) \in Nat
              /\ At(i) = At(i - 1) + Len(ss[i])
        <2> SUFFICES ASSUME NEW i \in 1..Len(ss)
                     PROVE  /\ Occurs(w, At(i - 1), ss[i]) /\ Len(ss[i]) \in Nat
                            /\ At(i) = At(i - 1) + Len(ss[i])
            OBVIOUS
        <2>1. Len(ss[i]) \in Nat /\ i - 1 \in 0..Len(ss)
            BY <1>1
        <2>2. Part(ss, i - 1) \in Seq(Int)
            BY <1>2, <2>1
        <2>3. /\ Occurs(w, pos + Len(Part(ss, i - 1)), ss[i])
              /\ Len(Part(ss, i)) = Len(Part(ss, i - 1)) + Len(ss[i])
            BY <1>2
        <2>4. Len(Part(ss, i - 1)) \in Nat
            BY <2>2
        <2> DEFINE a == Len(Part(ss, i - 1))
                   b == Len(Part(ss, i))
        <2>5. At(i - 1) = pos + a /\ At(i) = pos + b /\ a \in Nat /\ b = a + Len(ss[i])
            BY <2>3, <2>4
        <2>6. Occurs(w, At(i - 1), ss[i])
            BY <2>3
        <2> HIDE DEF At, a, b
        <2>7. At(i) = At(i - 1) + Len(ss[i])
            BY <2>1, <2>5
        <2> QED
            BY <2>1, <2>6, <2>7
    <1>5. At(Len(ss)) <= end /\ From(turns, end, At(Len(ss)), res[Len(ss)])
        BY <1>2
    <1>6. At(0) = pos
        <2>1. Part(ss, 0) = << >>
            BY Parts
        <2>2. Len(<< >>) = 0
            OBVIOUS
        <2>3. Len(Part(ss, 0)) = 0
            BY <2>1, <2>2, Zenon
        <2>4. pos + 0 = pos
            OBVIOUS
        <2> QED
            BY <2>3, <2>4, Zenon
    <1> HIDE DEF At
    <1> DEFINE A == {k \in Nat : k <= Len(ss) =>
                        /\ At(Len(ss) - k) <= end
                        /\ From(turns, end, At(Len(ss) - k), res[Len(ss) - k])}
    <1>7. 0 \in A
        BY <1>1, <1>5
    <1>8. ASSUME NEW k \in Nat, k \in A PROVE k + 1 \in A
        <2>1. CASE k + 1 <= Len(ss)
            <3> DEFINE i == Len(ss) - k
            <3>1. /\ i \in 1..Len(ss) /\ i - 1 = Len(ss) - (k + 1) /\ i - 1 \in 0..Len(ss)
                  /\ At(i) <= end /\ From(turns, end, At(i), res[i])
                BY <1>1, <1>8, <2>1
            <3> HIDE DEF i
            <3>2. /\ Occurs(w, At(i - 1), ss[i]) /\ Len(ss[i]) \in Nat /\ At(i - 1) \in Nat
                  /\ At(i) = At(i - 1) + Len(ss[i])
                BY <1>3, <1>4, <3>1
            <3>3. From(turns, end, At(i - 1), res[i - 1])
                BY <3>1, <3>2
            <3>4. At(i - 1) <= end
                BY <3>1, <3>2
            <3> QED
                BY <3>1, <3>3, <3>4
        <2>2. CASE ~(k + 1 <= Len(ss))
            BY <2>2
        <2> QED
            BY <2>1, <2>2
    <1>9. Nat \subseteq A
        <2> HIDE DEF A
        <2> QED
            BY <1>7, <1>8, NatInductionSet
    <1>10. From(turns, end, At(0), res[0])
        <2>1. Len(ss) \in A /\ Len(ss) - Len(ss) = 0
            BY <1>1, <1>9
        <2> QED
            BY <2>1
    <1> QED
        BY <1>6, <1>10

(* One value.                                                              *)

Kinds == {"text", "bool", "int32", "int64", "nested"}

UnsafeValue(C, f, x) ==
    \/ f.kind = "int64" /\ (x > C.safe \/ x < -C.safe)
    \/ f.kind = "nested" /\ x \in Unsafe(C, f.of)

\* The contents of a field, behind its tag.
Contents(encode, f, x) ==
    IF f.kind = "text" THEN <<Len(x)>> \o x
    ELSE IF f.kind = "bool" THEN <<IF x THEN 1 ELSE 0>>
    ELSE IF f.kind = "nested" THEN <<Len(encode[f.of][x])>> \o encode[f.of][x]
    ELSE <<x>>

LEMMA TagIsNumber ==
    ASSUME NEW f, f.no \in 1..14
    PROVE  /\ Tag(f) \in Int /\ Tag(f) # 0 /\ Tag(f) < 120
           /\ Tag(f) % 8 \in {Varint, Delimited} /\ Tag(f) \div 8 = f.no
    BY DEF Tag, WireType, Varint, Delimited

LEMMA ContentsType ==
    ASSUME NEW f, f.kind \in Kinds, f.no \in 1..14, NEW x \in ValuesOf(f), NEW encode,
           f.kind = "nested" => encode[f.of][x] \in Seq(Int)
    PROVE  /\ EncodeValue(encode, f, x) = <<Tag(f)>> \o Contents(encode, f, x)
           /\ Contents(encode, f, x) \in Seq(Int) /\ Len(Contents(encode, f, x)) > 0
           /\ <<Tag(f)>> \in Seq(Int) /\ EncodeValue(encode, f, x) \in Seq(Int)
           /\ Len(EncodeValue(encode, f, x)) = 1 + Len(Contents(encode, f, x))
    <1> DEFINE c == Contents(encode, f, x)
    <1>1. EncodeValue(encode, f, x) = <<Tag(f)>> \o c
        <2>1. CASE f.kind = "text"
            BY <2>1 DEF EncodeValue, Contents
        <2>2. CASE f.kind = "bool"
            BY <2>2 DEF EncodeValue, Contents
        <2>3. CASE f.kind = "nested"
            BY <2>3 DEF EncodeValue, Contents
        <2>4. CASE f.kind \in {"int32", "int64"}
            BY <2>4 DEF EncodeValue, Contents
        <2> QED
            BY <2>1, <2>2, <2>3, <2>4 DEF Kinds
    <1>2. c \in Seq(Int) /\ Len(c) > 0
        <2>1. CASE f.kind = "text"
            <3>1. x \in Seq(Int)
                BY <2>1 DEF ValuesOf
            <3>2. <<Len(x)>> \in Seq(Int) /\ Len(<<Len(x)>>) = 1 /\ Len(x) \in Nat
                BY <3>1
            <3>3. <<Len(x)>> \o x \in Seq(Int) /\ Len(<<Len(x)>> \o x) = 1 + Len(x)
                BY <3>1, <3>2, ConcatProperties
            <3> QED
                BY <2>1, <3>2, <3>3 DEF Contents
        <2>2. CASE f.kind = "bool"
            BY <2>2 DEF Contents
        <2>3. CASE f.kind = "nested"
            <3> DEFINE b == encode[f.of][x]
            <3>1. b \in Seq(Int)
                BY <2>3
            <3> HIDE DEF b
            <3>2. <<Len(b)>> \in Seq(Int) /\ Len(<<Len(b)>>) = 1 /\ Len(b) \in Nat
                BY <3>1
            <3>3. <<Len(b)>> \o b \in Seq(Int) /\ Len(<<Len(b)>> \o b) = 1 + Len(b)
                BY <3>1, <3>2, ConcatProperties
            <3> QED
                BY <2>3, <3>2, <3>3 DEF Contents, b
        <2>4. CASE f.kind \in {"int32", "int64"}
            <3>1. x \in Int
                BY <2>4 DEF ValuesOf
            <3> QED
                BY <2>4, <3>1 DEF Contents
        <2> QED
            BY <2>1, <2>2, <2>3, <2>4 DEF Kinds
    <1> HIDE DEF c
    <1>3. <<Tag(f)>> \in Seq(Int) /\ Len(<<Tag(f)>>) = 1
        BY TagIsNumber
    <1>4. <<Tag(f)>> \o c \in Seq(Int) /\ Len(<<Tag(f)>> \o c) = 1 + Len(c)
        BY <1>2, <1>3, ConcatProperties
    <1> QED
        BY <1>1, <1>2, <1>3, <1>4 DEF c

\* What decode reads where encode wrote a value.
LEMMA ValueRead ==
    ASSUME NEW C, NEW f, f.kind \in Kinds, f.no \in 1..14, NEW x \in ValuesOf(f),
           NEW encode, f.kind = "nested" => encode[f.of][x] \in Seq(Int),
           NEW w \in Seq(Int), NEW p \in Nat, Occurs(w, p, EncodeValue(encode, f, x)),
           NEW decode,
           f.kind = "nested" => \A q \in Nat : Occurs(w, q, encode[f.of][x]) =>
               decode[f.of][q][q + Len(encode[f.of][x])]
                   = IF x \in Unsafe(C, f.of) THEN Raised
                     ELSE Reading(q + Len(encode[f.of][x]), x)
    PROVE  /\ ReadUnit(w, p) = Reading(p + 1, Tag(f))
           /\ DecodeValue(C, decode, f, w, p + 1)
                  = IF UnsafeValue(C, f, x) THEN Raised
                    ELSE Reading(p + Len(EncodeValue(encode, f, x)), x)
    <1> DEFINE c == Contents(encode, f, x)
               v == DecodeValue(C, decode, f, w, p + 1)
               e == EncodeValue(encode, f, x)
    <1>1. /\ e = <<Tag(f)>> \o c /\ c \in Seq(Int) /\ <<Tag(f)>> \in Seq(Int)
          /\ Len(e) = 1 + Len(c)
        BY ContentsType
    <1>2. Occurs(w, p, <<Tag(f)>>) /\ Occurs(w, p + 1, c)
        <2> HIDE DEF c, e
        <2>1. Occurs(w, p, <<Tag(f)>> \o c) /\ Len(<<Tag(f)>>) = 1
            BY <1>1 DEF e
        <2> QED
            BY <1>1, <2>1, OccursConcat
    <1>3. ReadUnit(w, p) = Reading(p + 1, Tag(f))
        BY <1>2, TagIsNumber, ReadUnitAt
    <1>4. v = IF UnsafeValue(C, f, x) THEN Raised ELSE Reading(p + Len(e), x)
        <2>1. CASE f.kind = "text"
            <3>1. x \in Seq(Int) /\ Len(x) \in Nat
                BY <2>1 DEF ValuesOf
            <3>2. c = <<Len(x)>> \o x /\ Len(c) = 1 + Len(x)
                <4>1. c = <<Len(x)>> \o x
                    BY <2>1 DEF Contents
                <4>2. Len(<<Len(x)>>) = 1 /\ <<Len(x)>> \in Seq(Int)
                    BY <3>1
                <4>3. Len(<<Len(x)>> \o x) = 1 + Len(x)
                    BY <3>1, <4>2, ConcatProperties
                <4> QED
                    BY <4>1, <4>3
            <3>3. ReadText(w, p + 1) = Reading((p + 1) + 1 + Len(x), x)
                <4>1. Occurs(w, p + 1, <<Len(x)>> \o x) /\ p + 1 \in Nat
                    BY <1>2, <3>2
                <4> QED
                    BY <3>1, <4>1, ReadTextAt
            <3>4. (p + 1) + 1 + Len(x) = p + Len(e)
                BY <1>1, <3>1, <3>2
            <3>5. v = ReadText(w, p + 1) /\ ~UnsafeValue(C, f, x)
                BY <2>1 DEF DecodeValue, UnsafeValue
            <3> QED
                BY <3>3, <3>4, <3>5, Zenon
        <2>2. CASE f.kind \in {"bool", "int32", "int64"}
            <3> DEFINE u == IF f.kind = "bool" THEN IF x THEN 1 ELSE 0 ELSE x
            <3>1. c = <<u>> /\ u \in Int
                BY <2>2 DEF Contents, ValuesOf
            <3>2. Len(c) = 1 /\ p + Len(e) = (p + 1) + 1
                BY <1>1, <3>1
            <3>3. ReadUnit(w, p + 1) = Reading(p + Len(e), u)
                <4> HIDE DEF u, e
                <4>1. Occurs(w, p + 1, <<u>>) /\ p + 1 \in Nat
                    BY <1>2, <3>1
                <4> QED
                    BY <3>1, <3>2, <4>1, ReadUnitAt
            <3>4. CASE f.kind = "bool"
                <4> DEFINE r == ReadUnit(w, p + 1)
                <4>1. v = IF r.ok THEN Reading(r.pos, r.value # 0) ELSE Raised
                    BY <3>4 DEF DecodeValue
                <4>2. r.ok /\ r.pos = p + Len(e) /\ r.value = u
                    BY <3>3 DEF Reading
                <4> HIDE DEF v, r, e, u
                <4>3. ~UnsafeValue(C, f, x)
                    BY <3>4 DEF UnsafeValue
                <4>4. x \in BOOLEAN /\ u = IF x THEN 1 ELSE 0
                    BY <3>4 DEF ValuesOf, u
                <4>5. CASE x = TRUE
                    <5>1. (r.value # 0) = TRUE
                        BY <4>2, <4>4, <4>5
                    <5> QED
                        BY <4>1, <4>2, <4>3, <4>5, <5>1
                <4>6. CASE x = FALSE
                    <5>1. (r.value # 0) = FALSE
                        BY <4>2, <4>4, <4>6
                    <5> QED
                        BY <4>1, <4>2, <4>3, <4>6, <5>1
                <4> QED
                    BY <4>4, <4>5, <4>6
            <3>5. CASE f.kind = "int32"
                BY <3>3, <3>5 DEF DecodeValue, UnsafeValue
            <3>6. CASE f.kind = "int64"
                <4>1. v = LongToNumber(C, Reading(p + Len(e), x))
                    BY <3>3, <3>6 DEF DecodeValue
                <4>2. UnsafeValue(C, f, x) <=> x > C.safe \/ x < -C.safe
                    BY <3>6 DEF UnsafeValue
                <4> QED
                    BY <4>1, <4>2 DEF LongToNumber, Reading
            <3> QED
                BY <2>2, <3>4, <3>5, <3>6
        <2>3. CASE f.kind = "nested"
            <3> DEFINE b == encode[f.of][x]
            <3>1. b \in Seq(Int) /\ Len(b) \in Nat /\ <<Len(b)>> \in Seq(Int) /\ Len(<<Len(b)>>) = 1
                <4>1. b \in Seq(Int)
                    BY <2>3
                <4> HIDE DEF b
                <4> QED
                    BY <4>1
            <3>2. c = <<Len(b)>> \o b
                BY <2>3 DEF Contents
            <3>3. \A q \in Nat : Occurs(w, q, b) =>
                      decode[f.of][q][q + Len(b)]
                          = IF x \in Unsafe(C, f.of) THEN Raised ELSE Reading(q + Len(b), x)
                BY <2>3
            <3> HIDE DEF b
            <3>4. Occurs(w, p + 1, <<Len(b)>> \o b) /\ p + 1 \in Nat
                BY <1>2, <3>2
            <3>5. Occurs(w, (p + 1) + 1, b) /\ Len(c) = 1 + Len(b)
                BY <3>1, <3>2, <3>4, ReadLengthAt
            <3>7. ReadLength(w, p + 1) = Reading((p + 1) + 1, Len(b))
                BY <3>1, <3>4, ReadLengthAt
            <3>8. v = decode[f.of][(p + 1) + 1][(p + 1) + 1 + Len(b)]
                BY <2>3, <3>7 DEF DecodeValue, Reading
            <3>9. v = IF x \in Unsafe(C, f.of) THEN Raised ELSE Reading((p + 1) + 1 + Len(b), x)
                <4> HIDE DEF v
                <4>1. (p + 1) + 1 \in Nat
                    OBVIOUS
                <4> QED
                    BY <3>3, <3>5, <3>8, <4>1
            <3>10. (p + 1) + 1 + Len(b) = p + Len(e)
                <4> HIDE DEF c, e
                <4>1. Len(b) \in Nat /\ Len(c) = 1 + Len(b) /\ Len(e) = 1 + Len(c)
                    BY <1>1, <3>1, <3>5
                <4> QED
                    BY <4>1
            <3>11. UnsafeValue(C, f, x) <=> x \in Unsafe(C, f.of)
                BY <2>3 DEF UnsafeValue
            <3> HIDE DEF v, e
            <3> QED
                BY <3>9, <3>10, <3>11
        <2> QED
            BY <2>1, <2>2, <2>3 DEF Kinds
    <1> QED
        BY <1>3, <1>4

(* One turn.                                                               *)

LEMMA FieldsAreDistinct ==
    ASSUME NEW C, FieldsAssumption(C), NEW T \in Types(C),
           NEW f \in Fields(C, T), NEW g \in Fields(C, T), f # g
    PROVE  f.no # g.no /\ {f.name, f.alias} \cap {g.name, g.alias} = {}
    <1> DEFINE fields == C.messages[T]
    <1>1. PICK i \in DOMAIN fields : f = fields[i]
        BY DEF Fields, ToSet
    <1>2. PICK j \in DOMAIN fields : g = fields[j]
        BY DEF Fields, ToSet
    <1>3. i # j
        BY <1>1, <1>2
    <1> QED
        BY <1>1, <1>2, <1>3 DEF FieldsAssumption

LEMMA FieldsAreSound ==
    ASSUME NEW C, FieldsAssumption(C), NEW T \in Types(C), NEW f \in Fields(C, T)
    PROVE  /\ f.no \in 1..14 /\ f.many \in BOOLEAN /\ f.kind \in Kinds
           /\ f.many => f.kind \in {"text", "nested"}
    BY DEF FieldsAssumption, Kinds

LEMMA KnownField ==
    ASSUME NEW C, FieldsAssumption(C), NEW T \in Types(C), NEW f \in Fields(C, T)
    PROVE  Known(C, T, Tag(f)) = {f}
    <1>1. ASSUME NEW g \in Fields(C, T), Tag(g) = Tag(f) PROVE g = f
        <2>1. f.no \in 1..14 /\ g.no \in 1..14
            BY FieldsAreSound
        <2>2. Tag(f) \div 8 = f.no /\ Tag(g) \div 8 = g.no
            BY <2>1, TagIsNumber
        <2>3. f.no = g.no
            BY <1>1, <2>2
        <2> QED
            BY <2>3, FieldsAreDistinct
    <1> QED
        BY <1>1 DEF Known

\* A tag of a wire type that no known field has, or of a number that none has.
LEMMA UnknownTag ==
    ASSUME NEW C, FieldsAssumption(C), NEW T \in Types(C), NEW u \in Nat,
           u >= 120 \/ u % 8 \notin {Varint, Delimited}
    PROVE  Known(C, T, u) = {}
    <1>1. ASSUME NEW f \in Fields(C, T), Tag(f) = u PROVE FALSE
        <2>1. f.no \in 1..14
            BY FieldsAreSound
        <2>2. Tag(f) < 120 /\ Tag(f) % 8 \in {Varint, Delimited}
            BY <2>1, TagIsNumber
        <2> QED
            BY <1>1, <2>2
    <1> QED
        BY <1>1 DEF Known

\* What a turn adds to what the later ones read: one more value of a field, or nothing.
Before(f, x, res) == Reading(res.pos, [res.value EXCEPT ![f.name] = <<x>> \o @])
AfterValue(C, f, x, res) == IF UnsafeValue(C, f, x) \/ ~res.ok THEN Raised ELSE Before(f, x, res)

LEMMA TurnReads ==
    ASSUME NEW C, FieldsAssumption(C), NEW T \in Types(C), NEW f \in Fields(C, T),
           NEW w \in Seq(Int), NEW end \in Nat, end <= Len(w), NEW decode, NEW x,
           NEW p \in Nat, NEW q \in Nat, q > p, q <= end,
           ReadUnit(w, p) = Reading(p + 1, Tag(f)),
           DecodeValue(C, decode, f, w, p + 1)
               = IF UnsafeValue(C, f, x) THEN Raised ELSE Reading(q, x),
           NEW res, From(TurnsOf(C, decode, T, w, end), end, q, res)
    PROVE  From(TurnsOf(C, decode, T, w, end), end, p, AfterValue(C, f, x, res))
    <1>1. p \in 0..Len(w) /\ p < end
        OBVIOUS
    <1>2. ASSUME NEW later, later[q] = res
          PROVE  Turn(C, decode, T, w, end, later, p) = AfterValue(C, f, x, res)
        <2> DEFINE tag == ReadUnit(w, p)
                   known == Known(C, T, tag.value)
                   g == CHOOSE h \in known : TRUE
                   v == DecodeValue(C, decode, g, w, tag.pos)
        <2>1. tag.ok /\ tag.pos = p + 1 /\ tag.value = Tag(f)
            BY DEF Reading
        <2>2. known = {f}
            BY <2>1, KnownField
        <2>3. g = f
            BY <2>2
        <2>4. v = IF UnsafeValue(C, f, x) THEN Raised ELSE Reading(q, x)
            BY <2>1, <2>3
        <2> HIDE DEF v
        <2>5. Turn(C, decode, T, w, end, later, p)
                  = IF v.ok /\ later[v.pos].ok
                    THEN Reading(later[v.pos].pos,
                            [later[v.pos].value EXCEPT ![f.name] = <<v.value>> \o @])
                    ELSE Raised
            <3>1. Turn(C, decode, T, w, end, later, p)
                      = IF v.ok /\ later[v.pos].ok
                        THEN Reading(later[v.pos].pos,
                                [later[v.pos].value EXCEPT ![g.name] = <<v.value>> \o @])
                        ELSE Raised
                <4>1. ~(p >= end)
                    BY <1>1
                <4> HIDE DEF tag, known, g
                <4>2. f \in known
                    BY <2>2, Zenon
                <4>3. known # {}
                    BY <4>2, Zenon
                <4> QED
                    BY <2>1, <4>1, <4>3, Zenon DEF Turn, tag, known, g, v
            <3> QED
                BY <2>3, <3>1
        <2>6. CASE UnsafeValue(C, f, x)
            BY <2>4, <2>5, <2>6 DEF AfterValue, Raised
        <2>7. CASE ~UnsafeValue(C, f, x)
            <3>1. v.ok /\ v.pos = q /\ v.value = x
                BY <2>4, <2>7 DEF Reading
            <3> QED
                BY <1>2, <2>5, <2>7, <3>1 DEF AfterValue, Before
        <2> QED
            BY <2>6, <2>7
    <1> QED
        BY <1>1, <1>2, TurnFrom

LEMMA TurnSkips ==
    ASSUME NEW C, NEW T, NEW w \in Seq(Int), NEW end \in Nat, end <= Len(w), NEW decode,
           NEW p \in Nat, NEW q \in Nat, q > p, q <= end,
           NEW u \in Nat, ReadUnit(w, p) = Reading(p + 1, u), Known(C, T, u) = {},
           u # 0, u % 8 # EndGroup,
           NEW y, Skip(u % 8, w, p + 1) = Reading(q, y),
           NEW res, From(TurnsOf(C, decode, T, w, end), end, q, res)
    PROVE  From(TurnsOf(C, decode, T, w, end), end, p, res)
    <1>1. p \in 0..Len(w) /\ p < end
        OBVIOUS
    <1>2. ASSUME NEW later, later[q] = res
          PROVE  Turn(C, decode, T, w, end, later, p) = res
        <2> DEFINE tag == ReadUnit(w, p)
                   known == Known(C, T, tag.value)
                   past == Skip(tag.value % 8, w, tag.pos)
        <2>1. tag.ok /\ tag.pos = p + 1 /\ tag.value = u
            BY DEF Reading
        <2>2. known = {} /\ ~(tag.value % 8 = EndGroup \/ tag.value = 0)
            BY <2>1
        <2>3. past.ok /\ past.pos = q
            <3>1. past = Reading(q, y)
                BY <2>1
            <3> QED
                BY <3>1 DEF Reading
        <2>4. ~(p >= end)
            BY <1>1
        <2>5. Turn(C, decode, T, w, end, later, p) = later[past.pos]
            <3> HIDE DEF tag, known, past
            <3> QED
                BY <2>1, <2>2, <2>3, <2>4, Zenon DEF Turn, tag, known, past
        <2> QED
            BY <1>2, <2>3, <2>5
    <1> QED
        BY <1>1, <1>2, TurnFrom

\* The turn that finds itself at the end.
LEMMA TurnStops ==
    ASSUME NEW C, NEW T, NEW w \in Seq(Int), NEW end \in Nat, end <= Len(w), NEW decode
    PROVE  From(TurnsOf(C, decode, T, w, end), end, end, Reading(end, NoValues(C, T)))
    <1> DEFINE t == TurnsOf(C, decode, T, w, end)
    <1> SUFFICES ASSUME NEW n \in Nat, n > end - end
                 PROVE  t[n][end] = Reading(end, NoValues(C, T))
        BY DEF From
    <1>1. n # 0 /\ end \in 0..Len(w) /\ end >= end
        OBVIOUS
    <1>2. t[n][end] = Turn(C, decode, T, w, end, t[n - 1], end)
        BY <1>1, TurnsAt
    <1> HIDE DEF t
    <1> QED
        BY <1>1, <1>2, Zenon DEF Turn

(* What a later version adds is skipped.                                   *)

GroupsOf(w) == Solution("group", w, Nat)

LEMMA GroupsAt ==
    ASSUME NEW w \in Seq(Int), NEW n \in Nat, n # 0, NEW p \in 0..Len(w)
    PROVE  GroupsOf(w)[n][p] = SkipGroup(GroupsOf(w)[n - 1], w, p)
    <1>1. ASSUME NEW k \in Nat, NEW g
          PROVE  RecStep("group", w, k, g) = GroupStep(w, k, g)
        BY DEF RecStep
    <1>2. ASSUME NEW k \in Nat, NEW g, NEW h, k # 0 => g[k - 1] = h[k - 1]
          PROVE  RecStep("group", w, k, g) = RecStep("group", w, k, h)
        <2>1. GroupStep(w, k, g) = GroupStep(w, k, h)
            <3>1. CASE k = 0
                BY <3>1 DEF GroupStep
            <3>2. CASE k # 0
                <4>1. g[k - 1] = h[k - 1]
                    BY <1>2, <3>2
                <4> QED
                    BY <3>2, <4>1 DEF GroupStep
            <3> QED
                BY <3>1, <3>2
        <2> QED
            BY <1>1, <2>1
    <1> DEFINE t == Solution("group", w, Nat)
    <1>3. t[n] = RecStep("group", w, n, t)
        BY <1>2, NatSolution
    <1>4. t[n] = GroupStep(w, n, t)
        BY <1>1, <1>3
    <1>5. GroupsOf(w) = t
        BY DEF GroupsOf
    <1> HIDE DEF t
    <1> QED
        BY <1>4, <1>5 DEF GroupStep

LEMMA SkipIs ==
    ASSUME NEW wireType, NEW w, NEW pos
    PROVE  Skip(wireType, w, pos) = SkipOne(GroupsOf(w)[Len(w)], wireType, w, pos)
    <1> DEFINE P(f) == f = [n \in Nat |-> [p \in 0..Len(w) |->
                              IF n = 0 THEN Raised ELSE SkipGroup(f[n - 1], w, p)]]
               Q(f) == Solves("group", w, Nat, f)
    <1>1. \A f : P(f) <=> Q(f)
        BY DEF Solves, RecStep, GroupStep
    <1>2. (CHOOSE f : P(f)) = (CHOOSE f : Q(f))
        <2> HIDE DEF P, Q
        <2> QED
            BY <1>1, Zenon
    <1>3. Skip(wireType, w, pos) = SkipOne((CHOOSE f : P(f))[Len(w)], wireType, w, pos)
        BY DEF Skip
    <1>4. GroupsOf(w) = (CHOOSE f : Q(f))
        BY DEF GroupsOf, Solution
    <1> QED
        BY <1>2, <1>3, <1>4

\* The units of what occurs on the wire, one by one.
Units(w, pos, e) ==
    /\ Len(e) >= 1 => ReadUnit(w, pos) = Reading(pos + 1, e[1])
    /\ Len(e) >= 2 => ReadUnit(w, pos + 1) = Reading(pos + 2, e[2])
    /\ Len(e) >= 3 => ReadUnit(w, pos + 2) = Reading(pos + 3, e[3])
    /\ Len(e) >= 4 => ReadUnit(w, pos + 3) = Reading(pos + 4, e[4])
    /\ Len(e) >= 5 => ReadUnit(w, pos + 4) = Reading(pos + 5, e[5])
    /\ Len(e) >= 7 => ReadUnit(w, pos + 6) = Reading(pos + 7, e[7])

LEMMA UnitsAt ==
    ASSUME NEW w \in Seq(Int), NEW pos \in Nat, NEW e \in Seq(Int), Occurs(w, pos, e)
    PROVE  Units(w, pos, e)
    <1>1. ASSUME NEW p \in Nat, NEW i \in 1..Len(e), p + 1 = pos + i
          PROVE  ReadUnit(w, p) = Reading(p + 1, e[i])
        <2>1. Len(e) \in Nat /\ pos + i <= Len(w) /\ w[pos + i] = e[i] /\ p < Len(w)
            BY <1>1 DEF Occurs
        <2> QED
            BY <1>1, <2>1 DEF ReadUnit
    <1>2. Len(e) \in Nat
        OBVIOUS
    <1>3. ASSUME Len(e) >= 1 PROVE ReadUnit(w, pos) = Reading(pos + 1, e[1])
        <2>1. 1 \in 1..Len(e)
            BY <1>2, <1>3
        <2> QED
            BY <1>1, <2>1
    <1>4. ASSUME Len(e) >= 2 PROVE ReadUnit(w, pos + 1) = Reading(pos + 2, e[2])
        <2>1. pos + 1 \in Nat /\ 2 \in 1..Len(e) /\ (pos + 1) + 1 = pos + 2
            BY <1>2, <1>4
        <2>2. ReadUnit(w, pos + 1) = Reading((pos + 1) + 1, e[2])
            BY <1>1, <2>1
        <2> QED
            BY <2>1, <2>2, Zenon
    <1>5. ASSUME Len(e) >= 3 PROVE ReadUnit(w, pos + 2) = Reading(pos + 3, e[3])
        <2>1. pos + 2 \in Nat /\ 3 \in 1..Len(e) /\ (pos + 2) + 1 = pos + 3
            BY <1>2, <1>5
        <2>2. ReadUnit(w, pos + 2) = Reading((pos + 2) + 1, e[3])
            BY <1>1, <2>1
        <2> QED
            BY <2>1, <2>2, Zenon
    <1>6. ASSUME Len(e) >= 4 PROVE ReadUnit(w, pos + 3) = Reading(pos + 4, e[4])
        <2>1. pos + 3 \in Nat /\ 4 \in 1..Len(e) /\ (pos + 3) + 1 = pos + 4
            BY <1>2, <1>6
        <2>2. ReadUnit(w, pos + 3) = Reading((pos + 3) + 1, e[4])
            BY <1>1, <2>1
        <2> QED
            BY <2>1, <2>2, Zenon
    <1>7. ASSUME Len(e) >= 5 PROVE ReadUnit(w, pos + 4) = Reading(pos + 5, e[5])
        <2>1. pos + 4 \in Nat /\ 5 \in 1..Len(e) /\ (pos + 4) + 1 = pos + 5
            BY <1>2, <1>7
        <2>2. ReadUnit(w, pos + 4) = Reading((pos + 4) + 1, e[5])
            BY <1>1, <2>1
        <2> QED
            BY <2>1, <2>2, Zenon
    <1>8. ASSUME Len(e) >= 7 PROVE ReadUnit(w, pos + 6) = Reading(pos + 7, e[7])
        <2>1. pos + 6 \in Nat /\ 7 \in 1..Len(e) /\ (pos + 6) + 1 = pos + 7
            BY <1>2, <1>8
        <2>2. ReadUnit(w, pos + 6) = Reading((pos + 6) + 1, e[7])
            BY <1>1, <2>1
        <2> QED
            BY <2>1, <2>2, Zenon
    <1> QED
        BY <1>3, <1>4, <1>5, <1>6, <1>7, <1>8 DEF Units

LEMMA TextRead ==
    ASSUME NEW w \in Seq(Int), NEW p, NEW q \in Nat, NEW n \in Nat,
           ReadUnit(w, p) = Reading(q, n), q + n <= Len(w)
    PROVE  \E y : ReadText(w, p) = Reading(q + n, y)
    <1> DEFINE r == ReadUnit(w, p)
    <1>1. r.ok /\ r.pos = q /\ r.value = n /\ r = Reading(q, n)
        BY DEF Reading
    <1> HIDE DEF r
    <1>2. ReadLength(w, p) = r
        BY <1>1 DEF ReadLength, r
    <1>3. ReadText(w, p) = Reading(q + n, SubSeq(w, q + 1, q + n))
        BY <1>1, <1>2 DEF ReadText
    <1> QED
        BY <1>3

LEMMA GroupEnds ==
    ASSUME NEW g, NEW w, NEW p, NEW q, NEW u, ReadUnit(w, p) = Reading(q, u), u % 8 = EndGroup
    PROVE  SkipGroup(g, w, p) = Reading(q, u)
    <1> DEFINE r == ReadUnit(w, p)
    <1>1. r.ok /\ r.value = u /\ r = Reading(q, u)
        BY DEF Reading
    <1> HIDE DEF r
    <1>2. SkipGroup(g, w, p) = r
        BY <1>1 DEF SkipGroup, r
    <1> QED
        BY <1>1, <1>2

LEMMA GroupTurn ==
    ASSUME NEW g, NEW w, NEW p, NEW q, NEW u, ReadUnit(w, p) = Reading(q, u),
           NEW k, u % 8 = k, k # EndGroup, NEW s, NEW y, SkipOne(g, k, w, q) = Reading(s, y)
    PROVE  SkipGroup(g, w, p) = g[s]
    <1> DEFINE r == ReadUnit(w, p)
               past == SkipOne(g, k, w, q)
    <1>1. r.ok /\ r.value = u /\ r.pos = q /\ past.ok /\ past.pos = s
        BY DEF Reading
    <1> HIDE DEF r, past
    <1> QED
        BY <1>1 DEF SkipGroup, r, past

LEMMA Skipped ==
    ASSUME NEW g, NEW w, NEW p
    PROVE  /\ \A k \in {0, 1, 5} : SkipOne(g, k, w, p) = ReadUnit(w, p)
           /\ SkipOne(g, 2, w, p) = ReadText(w, p)
           /\ SkipOne(g, 3, w, p) = g[p]
    BY DEF SkipOne, Varint, Fixed64, Fixed32, Delimited, StartGroup

\* Three turns of skipGroup: over a field of one unit, over one with its length, and the last.
LEMMA GroupRead ==
    ASSUME NEW w, NEW g, NEW n, NEW n1, NEW n2, NEW n3,
           NEW p1, NEW p2, NEW p3, NEW p4, NEW p6, NEW q, NEW u, NEW v, NEW x, NEW y, NEW z,
           ReadUnit(w, p1) = Reading(p2, u), u % 8 = 0, ReadUnit(w, p2) = Reading(p3, v),
           ReadUnit(w, p3) = Reading(p4, x), x % 8 = 2, ReadText(w, p4) = Reading(p6, y),
           ReadUnit(w, p6) = Reading(q, z), z % 8 = EndGroup,
           g[n][p1] = SkipGroup(g[n1], w, p1), g[n1][p3] = SkipGroup(g[n2], w, p3),
           g[n2][p6] = SkipGroup(g[n3], w, p6)
    PROVE  SkipOne(g[n], 3, w, p1) = Reading(q, z)
    <1>1. 0 # EndGroup /\ 2 # EndGroup
        BY DEF EndGroup
    <1>2. SkipGroup(g[n3], w, p6) = Reading(q, z)
        BY GroupEnds
    <1>3. SkipOne(g[n2], 2, w, p4) = Reading(p6, y)
        BY Skipped
    <1>4. SkipGroup(g[n2], w, p3) = g[n2][p6]
        BY <1>1, <1>3, GroupTurn
    <1>5. SkipOne(g[n1], 0, w, p2) = Reading(p3, v)
        BY Skipped
    <1>6. SkipGroup(g[n1], w, p1) = g[n1][p3]
        BY <1>1, <1>5, GroupTurn
    <1>7. SkipOne(g[n], 3, w, p1) = g[n][p1]
        BY Skipped
    <1> QED
        BY <1>2, <1>4, <1>6, <1>7

\* A tag u of wire type k that decode does not know, and does not stop at.
Unlisted(u, k) ==
    /\ u \in Nat /\ u # 0 /\ u % 8 = k /\ k # EndGroup
    /\ u >= 120 \/ k \notin {Varint, Delimited}

\* What is from p to q makes no difference to the turns.
Passed(C, T, w, end, p, q) ==
    \A decode, res :
        From(TurnsOf(C, decode, T, w, end), end, q, res)
            => From(TurnsOf(C, decode, T, w, end), end, p, res)

LEMMA PieceSkipped ==
    ASSUME NEW C, FieldsAssumption(C), NEW T \in Types(C),
           NEW w \in Seq(Int), NEW end \in Nat, end <= Len(w),
           NEW p \in Nat, NEW r, r = p + 1, NEW q \in Nat, q > p, q <= end,
           NEW u, NEW k, Unlisted(u, k), NEW y,
           ReadUnit(w, p) = Reading(r, u), SkipOne(GroupsOf(w)[Len(w)], k, w, r) = Reading(q, y)
    PROVE  Passed(C, T, w, end, p, q)
    <1> SUFFICES ASSUME NEW decode, NEW res, From(TurnsOf(C, decode, T, w, end), end, q, res)
                 PROVE  From(TurnsOf(C, decode, T, w, end), end, p, res)
        BY DEF Passed
    <1>1. u \in Nat /\ u # 0 /\ u % 8 = k /\ u % 8 # EndGroup
        BY DEF Unlisted
    <1>2. Known(C, T, u) = {}
        BY UnknownTag DEF Unlisted
    <1>3. Skip(u % 8, w, p + 1) = Reading(q, y)
        BY <1>1, SkipIs
    <1> QED
        BY <1>1, <1>2, <1>3, TurnSkips

LEMMA UnitSkipped ==
    ASSUME NEW C, FieldsAssumption(C), NEW T \in Types(C),
           NEW w \in Seq(Int), NEW end \in Nat, end <= Len(w),
           NEW p \in Nat, NEW r, r = p + 1, NEW q, q = p + 2, q <= end,
           NEW u, NEW k \in {0, 1, 5}, Unlisted(u, k), NEW y,
           ReadUnit(w, p) = Reading(r, u), ReadUnit(w, r) = Reading(q, y)
    PROVE  Passed(C, T, w, end, p, q)
    <1>1. SkipOne(GroupsOf(w)[Len(w)], k, w, r) = Reading(q, y)
        BY Skipped
    <1>2. q \in Nat /\ q > p
        OBVIOUS
    <1> QED
        BY <1>1, <1>2, PieceSkipped

LEMMA TextSkipped ==
    ASSUME NEW C, FieldsAssumption(C), NEW T \in Types(C),
           NEW w \in Seq(Int), NEW end \in Nat, end <= Len(w),
           NEW p \in Nat, NEW q, q = p + 4, q <= end, NEW e \in Seq(Int), Occurs(w, p, e),
           Len(e) = 4, Unlisted(e[1], 2), e[2] = 2
    PROVE  Passed(C, T, w, end, p, q)
    <1>1. ReadUnit(w, p) = Reading(p + 1, e[1]) /\ ReadUnit(w, p + 1) = Reading(p + 2, e[2])
        <2>1. Units(w, p, e)
            BY UnitsAt
        <2> QED
            BY <2>1 DEF Units
    <1>2. PICK y : ReadText(w, p + 1) = Reading(q, y)
        <2>1. p + 2 \in Nat /\ 2 \in Nat /\ (p + 2) + 2 <= Len(w) /\ (p + 2) + 2 = q
            OBVIOUS
        <2>2. ReadUnit(w, p + 1) = Reading(p + 2, 2)
            BY <1>1
        <2> QED
            BY <2>1, <2>2, TextRead
    <1>3. q \in Nat /\ q > p
        OBVIOUS
    <1>4. SkipOne(GroupsOf(w)[Len(w)], 2, w, p + 1) = Reading(q, y)
        BY <1>2, Skipped
    <1> QED
        BY <1>1, <1>3, <1>4, PieceSkipped

\* The group of Additions takes three turns of skipGroup.
LEMMA GroupSkipped ==
    ASSUME NEW C, FieldsAssumption(C), NEW T \in Types(C),
           NEW w \in Seq(Int), NEW end \in Nat, end <= Len(w),
           NEW p \in Nat, NEW q, q = p + 7, q <= end, NEW e \in Seq(Int), Occurs(w, p, e),
           Len(e) = 7, Unlisted(e[1], 3), e[2] % 8 = 0, e[4] % 8 = 2, e[5] = 1, e[7] % 8 = EndGroup
    PROVE  Passed(C, T, w, end, p, q)
    <1> DEFINE n == Len(w)
               g == GroupsOf(w)
    <1>1. n \in Nat /\ p + 7 <= n
        OBVIOUS
    <1>2. \A k \in Nat, i \in 0..n : k # 0 => g[k][i] = SkipGroup(g[k - 1], w, i)
        BY GroupsAt
    <1> HIDE DEF g, n
    <1>3. /\ ReadUnit(w, p) = Reading(p + 1, e[1]) /\ ReadUnit(w, p + 1) = Reading(p + 2, e[2])
          /\ ReadUnit(w, p + 2) = Reading(p + 3, e[3]) /\ ReadUnit(w, p + 3) = Reading(p + 4, e[4])
          /\ ReadUnit(w, p + 4) = Reading(p + 5, 1) /\ ReadUnit(w, p + 6) = Reading(q, e[7])
        <2>1. Units(w, p, e)
            BY UnitsAt
        <2> QED
            BY <2>1 DEF Units
    <1>4. /\ n # 0 /\ n - 1 \in Nat /\ n - 1 # 0 /\ n - 2 \in Nat /\ n - 2 # 0
          /\ (n - 1) - 1 = n - 2 /\ p + 1 \in 0..n /\ p + 3 \in 0..n /\ p + 6 \in 0..n
        BY <1>1
    <1>5. /\ g[n][p + 1] = SkipGroup(g[n - 1], w, p + 1)
          /\ g[n - 1][p + 3] = SkipGroup(g[n - 2], w, p + 3)
          /\ g[n - 2][p + 6] = SkipGroup(g[(n - 2) - 1], w, p + 6)
        <2> DEFINE G(k, i) == g[k][i] = SkipGroup(g[k - 1], w, i)
        <2>1. \A k \in Nat, i \in 0..n : k # 0 => G(k, i)
            BY <1>2
        <2> HIDE DEF G
        <2>2. G(n, p + 1) /\ G(n - 1, p + 3) /\ G(n - 2, p + 6)
            BY <1>1, <1>4, <2>1
        <2> QED
            BY <1>4, <2>2 DEF G
    <1>6. PICK y : ReadText(w, p + 4) = Reading(p + 6, y)
        <2>1. p + 5 \in Nat /\ 1 \in Nat /\ (p + 5) + 1 = p + 6 /\ (p + 5) + 1 <= Len(w)
            OBVIOUS
        <2> QED
            BY <1>3, <2>1, TextRead
    <1>7. q \in Nat /\ q > p
        OBVIOUS
    <1>8. SkipOne(g[n], 3, w, p + 1) = Reading(q, e[7])
        <2> DEFINE p1 == p + 1
                   p2 == p + 2
                   p3 == p + 3
                   p4 == p + 4
                   p6 == p + 6
                   n1 == n - 1
                   n2 == n - 2
                   n3 == n2 - 1
                   u == e[2]
                   v == e[3]
                   x == e[4]
                   z == e[7]
        <2>1. /\ ReadUnit(w, p1) = Reading(p2, u) /\ ReadUnit(w, p2) = Reading(p3, v)
              /\ ReadUnit(w, p3) = Reading(p4, x) /\ ReadText(w, p4) = Reading(p6, y)
              /\ ReadUnit(w, p6) = Reading(q, z)
              /\ u % 8 = 0 /\ x % 8 = 2 /\ z % 8 = EndGroup
            BY <1>3, <1>6
        <2>2. /\ g[n][p1] = SkipGroup(g[n1], w, p1) /\ g[n1][p3] = SkipGroup(g[n2], w, p3)
              /\ g[n2][p6] = SkipGroup(g[n3], w, p6)
            BY <1>5
        <2> HIDE DEF p1, p2, p3, p4, p6, n1, n2, n3, u, v, x, z
        <2>3. SkipOne(g[n], 3, w, p1) = Reading(q, z)
            BY ONLY <2>1, <2>2, GroupRead
        <2> QED
            BY <2>3 DEF p1, z
    <1>9. SkipOne(GroupsOf(w)[Len(w)], 3, w, p + 1) = Reading(q, e[7])
        BY <1>8 DEF g, n
    <1> QED
        BY <1>3, <1>7, <1>9, PieceSkipped

LEMMA AdditionSkipped ==
    ASSUME NEW C, FieldsAssumption(C), NEW T \in Types(C),
           NEW w \in Seq(Int), NEW end \in Nat, end <= Len(w),
           NEW a \in DOMAIN Additions, NEW p \in Nat, Occurs(w, p, Additions[a]),
           p + Len(Additions[a]) <= end
    PROVE  Passed(C, T, w, end, p, p + Len(Additions[a]))
    <1> DEFINE q == p + Len(Additions[a])
    <1>1. CASE a = "nothing"
        <2>1. Len(Additions[a]) = 0
            BY <1>1 DEF Additions
        <2>2. q = p
            BY <2>1
        <2> QED
            BY <2>2 DEF Passed
    <1>2. CASE a = "number"
        <2> DEFINE e == Additions[a]
        <2>1. e \in Seq(Int) /\ Len(e) = 2 /\ e[1] = 120
            BY <1>2 DEF Additions, Varint
        <2> HIDE DEF e
        <2>2. Occurs(w, p, e) /\ q = p + 2 /\ p + 2 <= end
            BY <2>1 DEF e
        <2>3. ReadUnit(w, p) = Reading(p + 1, e[1]) /\ ReadUnit(w, p + 1) = Reading(p + 2, e[2])
            <3>1. Units(w, p, e)
                BY <2>1, <2>2, UnitsAt
            <3> QED
                BY <2>1, <3>1 DEF Units
        <2>4. Unlisted(e[1], 0)
            BY <2>1 DEF Unlisted, EndGroup
        <2> QED
            BY <2>2, <2>3, <2>4, UnitSkipped
    <1>3. CASE a = "fixed"
        <2> DEFINE e == Additions[a]
        <2>1. /\ e \in Seq(Int) /\ Len(e) = 4
              /\ e[1] = 121 /\ e[3] = 125
            BY <1>3 DEF Additions, Fixed64, Fixed32
        <2> HIDE DEF e
        <2>2. /\ Occurs(w, p, e) /\ q = p + 4 /\ p + 4 <= end /\ p + 2 <= end /\ p + 2 \in Nat
              /\ (p + 2) + 1 = p + 3 /\ (p + 2) + 2 = p + 4
            BY <2>1 DEF e
        <2>3. /\ ReadUnit(w, p) = Reading(p + 1, e[1]) /\ ReadUnit(w, p + 1) = Reading(p + 2, e[2])
              /\ ReadUnit(w, p + 2) = Reading(p + 3, e[3]) /\ ReadUnit(w, p + 3) = Reading(p + 4, e[4])
            <3>1. Units(w, p, e)
                BY <2>1, <2>2, UnitsAt
            <3> QED
                BY <2>1, <3>1 DEF Units
        <2>4. Unlisted(e[1], 1) /\ Unlisted(e[3], 5)
            BY <2>1 DEF Unlisted, EndGroup
        <2>5. Passed(C, T, w, end, p, p + 2)
            BY <2>2, <2>3, <2>4, UnitSkipped
        <2>6. Passed(C, T, w, end, p + 2, p + 4)
            BY <2>2, <2>3, <2>4, UnitSkipped
        <2> QED
            BY <2>2, <2>5, <2>6 DEF Passed
    <1>4. CASE a = "text"
        <2> DEFINE e == Additions[a]
        <2>1. e \in Seq(Int) /\ Len(e) = 4 /\ Unlisted(e[1], 2) /\ e[2] = 2
            BY <1>4 DEF Additions, Delimited, Unlisted, EndGroup
        <2> HIDE DEF e
        <2>2. Occurs(w, p, e) /\ q = p + 4 /\ q <= end
            BY <2>1 DEF e
        <2> HIDE DEF q
        <2> QED
            BY <2>1, <2>2, TextSkipped DEF q
    <1>5. CASE a = "group"
        <2> DEFINE e == Additions[a]
        <2>1. /\ e \in Seq(Int) /\ Len(e) = 7
              /\ Unlisted(e[1], 3) /\ e[2] % 8 = 0 /\ e[4] % 8 = 2 /\ e[5] = 1 /\ e[7] % 8 = EndGroup
            BY <1>5 DEF Additions, StartGroup, EndGroup, Unlisted
        <2> HIDE DEF e
        <2>2. Occurs(w, p, e) /\ q = p + 7 /\ q <= end
            BY <2>1 DEF e
        <2> HIDE DEF q
        <2> QED
            BY <2>1, <2>2, GroupSkipped DEF q
    <1>6. CASE a = "retyped"
        <2> DEFINE e == Additions[a]
        <2>1. e \in Seq(Int) /\ Len(e) = 2 /\ e[1] = 13
            BY <1>6 DEF Additions, Fixed32
        <2> HIDE DEF e
        <2>2. Occurs(w, p, e) /\ q = p + 2 /\ p + 2 <= end
            BY <2>1 DEF e
        <2>3. ReadUnit(w, p) = Reading(p + 1, e[1]) /\ ReadUnit(w, p + 1) = Reading(p + 2, e[2])
            <3>1. Units(w, p, e)
                BY <2>1, <2>2, UnitsAt
            <3> QED
                BY <2>1, <3>1 DEF Units
        <2>4. Unlisted(e[1], 5)
            BY <2>1 DEF Unlisted, EndGroup, Varint, Delimited
        <2> QED
            BY <2>2, <2>3, <2>4, UnitSkipped
    <1>7. a \in {"nothing", "number", "fixed", "text", "group", "retyped"}
        BY DEF Additions
    <1> QED
        BY <1>1, <1>2, <1>3, <1>4, <1>5, <1>6, <1>7

(* One field: all of its values.                                           *)

Listed(f, v) == IF f.many THEN v ELSE IF v = Default(f) THEN << >> ELSE <<v>>

FieldHolds(f, v) ==
    IF f.many THEN v \in Seq(ValuesOf(f))
    ELSE v \in ValuesOf(f) \/ (f.kind = "nested" /\ v = Undefined)

\* The elements of vs behind the first i.
Rest(vs, i) == [j \in 1..(Len(vs) - i) |-> vs[i + j]]

UnsafeFrom(C, f, vs, i) == \E j \in (i + 1)..Len(vs) : UnsafeValue(C, f, vs[j])

\* What a field adds to what the later ones gave, which is no value of its own.
AfterValues(C, f, vs, i, res) ==
    IF ~res.ok \/ UnsafeFrom(C, f, vs, i) THEN Raised
    ELSE Reading(res.pos, [res.value EXCEPT ![f.name] = Rest(vs, i)])

\* What decode makes of the messages of type U that encode wrote.
ReadsMessages(C, encode, decode, w, U) ==
    \A x \in MessagesOf[U] :
        /\ encode[U][x] \in Seq(Int)
        /\ \A q \in Nat : Occurs(w, q, encode[U][x]) =>
              decode[U][q][q + Len(encode[U][x])]
                  = IF x \in Unsafe(C, U) THEN Raised
                    ELSE Reading(q + Len(encode[U][x]), x)

LEMMA RestProperties ==
    ASSUME NEW S, NEW vs \in Seq(S)
    PROVE  /\ Rest(vs, 0) = vs /\ Rest(vs, Len(vs)) = << >>
           /\ \A i \in 1..Len(vs) : <<vs[i]>> \o Rest(vs, i) = Rest(vs, i - 1)
    <1>1. Len(vs) \in Nat /\ vs = [j \in 1..Len(vs) |-> vs[j]]
        OBVIOUS
    <1>2. Rest(vs, 0) = vs
        BY <1>1 DEF Rest
    <1>3. Rest(vs, Len(vs)) = << >>
        BY <1>1 DEF Rest
    <1>4. ASSUME NEW i \in 0..Len(vs)
          PROVE  /\ Rest(vs, i) \in Seq(S) /\ Len(Rest(vs, i)) = Len(vs) - i
                 /\ \A j \in 1..(Len(vs) - i) : Rest(vs, i)[j] = vs[i + j]
        <2>1. Len(vs) - i \in Nat /\ \A j \in 1..(Len(vs) - i) : vs[i + j] \in S
            BY <1>1
        <2> QED
            BY <2>1 DEF Rest
    <1>5. ASSUME NEW i \in 1..Len(vs) PROVE <<vs[i]>> \o Rest(vs, i) = Rest(vs, i - 1)
        <2> DEFINE a == <<vs[i]>>
                   b == Rest(vs, i)
                   c == Rest(vs, i - 1)
        <2>1. a \in Seq(S) /\ Len(a) = 1 /\ a[1] = vs[i]
            BY <1>1
        <2>2. /\ b \in Seq(S) /\ Len(b) = Len(vs) - i
              /\ \A j \in 1..(Len(vs) - i) : b[j] = vs[i + j]
            BY <1>4
        <2>3. /\ c \in Seq(S) /\ Len(c) = Len(vs) - (i - 1)
              /\ \A j \in 1..(Len(vs) - (i - 1)) : c[j] = vs[(i - 1) + j]
            <3>1. i - 1 \in 0..Len(vs)
                BY <1>1
            <3> QED
                BY <1>4, <3>1
        <2> HIDE DEF a, b, c
        <2>4. /\ a \o b \in Seq(S) /\ Len(a \o b) = Len(a) + Len(b)
              /\ \A j \in 1..Len(a) + Len(b) :
                    (a \o b)[j] = IF j <= Len(a) THEN a[j] ELSE b[j - Len(a)]
            BY <2>1, <2>2, ConcatProperties
        <2> DEFINE d == a \o b
        <2>5. Len(d) = Len(c)
            BY <1>1, <2>1, <2>2, <2>3, <2>4
        <2>6. ASSUME NEW j \in 1..Len(d) PROVE d[j] = c[j]
            <3>1. CASE j = 1
                BY <1>1, <2>1, <2>2, <2>3, <2>4, <3>1
            <3>2. CASE j # 1
                <4>1. j - 1 \in 1..(Len(vs) - i) /\ i + (j - 1) = (i - 1) + j
                    BY <1>1, <2>1, <2>2, <2>4, <3>2
                <4>2. d[j] = b[j - 1]
                    BY <2>1, <2>4, <3>2
                <4>3. j \in 1..(Len(vs) - (i - 1))
                    BY <2>3, <2>5
                <4> QED
                    BY <2>2, <2>3, <4>1, <4>2, <4>3
            <3> QED
                BY <3>1, <3>2
        <2>7. d \in Seq(S)
            BY <2>4
        <2> HIDE DEF d
        <2>8. d = c
            BY <2>3, <2>5, <2>6, <2>7, SeqEqual
        <2> QED
            BY <2>8 DEF a, b, c, d
    <1> QED
        BY <1>2, <1>3, <1>5

\* What turns give: the reader raised, or it has values for the fields named in D.
Result(res, D) ==
    \/ res = Raised
    \/ res = Reading(res.pos, res.value) /\ res.value = [n \in D |-> res.value[n]]

LEMMA ResultProperties ==
    ASSUME NEW res, NEW D, Result(res, D)
    PROVE  ~res.ok => res = Raised
    BY DEF Result, Reading

\* The value written before those that gave AfterValues.
OneMore(C, f, vs, i, res) ==
    AfterValue(C, f, vs[i], AfterValues(C, f, vs, i, res)) = AfterValues(C, f, vs, i - 1, res)

LEMMA AfterOneMore ==
    ASSUME NEW C, NEW f, NEW S, NEW vs \in Seq(S), NEW i \in 1..Len(vs), NEW res,
           NEW D, Result(res, D), f.name \in D
    PROVE  OneMore(C, f, vs, i, res)
    <1> DEFINE r == AfterValues(C, f, vs, i, res)
               p == AfterValues(C, f, vs, i - 1, res)
    <1>1. UnsafeFrom(C, f, vs, i - 1) <=> UnsafeValue(C, f, vs[i]) \/ UnsafeFrom(C, f, vs, i)
        <2>1. Len(vs) \in Nat
            OBVIOUS
        <2>2. ((i - 1) + 1)..Len(vs) = {i} \cup ((i + 1)..Len(vs))
            BY <2>1
        <2> QED
            BY <2>2 DEF UnsafeFrom
    <1>2. CASE ~res.ok \/ UnsafeFrom(C, f, vs, i)
        <2>1. r = Raised /\ p = Raised
            BY <1>1, <1>2 DEF AfterValues
        <2> QED
            BY <2>1 DEF AfterValue, Raised, OneMore
    <1>3. CASE res.ok /\ ~UnsafeFrom(C, f, vs, i) /\ UnsafeValue(C, f, vs[i])
        BY <1>1, <1>3 DEF AfterValue, AfterValues, OneMore
    <1>4. CASE res.ok /\ ~UnsafeFrom(C, f, vs, i) /\ ~UnsafeValue(C, f, vs[i])
        <2> DEFINE g == [res.value EXCEPT ![f.name] = Rest(vs, i)]
                   h == [res.value EXCEPT ![f.name] = Rest(vs, i - 1)]
        <2>1. r = Reading(res.pos, g) /\ p = Reading(res.pos, h)
            BY <1>1, <1>4 DEF AfterValues
        <2>2. r.ok /\ r.pos = res.pos /\ r.value = g
            BY <2>1 DEF Reading
        <2>3. AfterValue(C, f, vs[i], r) = Reading(res.pos, [g EXCEPT ![f.name] = <<vs[i]>> \o g[f.name]])
            <3> HIDE DEF r, g
            <3> QED
                BY <1>4, <2>2 DEF AfterValue, Before
        <2>4. [g EXCEPT ![f.name] = <<vs[i]>> \o g[f.name]] = h
            <3>1. f.name \in D /\ res.value = [n \in D |-> res.value[n]]
                BY <1>4 DEF Result, Raised
            <3>2. g[f.name] = Rest(vs, i)
                BY <3>1
            <3>3. <<vs[i]>> \o Rest(vs, i) = Rest(vs, i - 1)
                BY RestProperties
            <3> DEFINE k == Rest(vs, i - 1)
                       l == Rest(vs, i)
            <3>4. <<vs[i]>> \o g[f.name] = k
                BY <3>2, <3>3
            <3> HIDE DEF k, l
            <3>5. [[res.value EXCEPT ![f.name] = l] EXCEPT ![f.name] = k] = [res.value EXCEPT ![f.name] = k]
                BY <3>1
            <3> QED
                BY <3>4, <3>5 DEF k, l
        <2> QED
            BY <2>1, <2>3, <2>4 DEF OneMore
    <1> QED
        BY <1>2, <1>3, <1>4

LEMMA ElementRead ==
    ASSUME NEW C, FieldsAssumption(C), NEW T \in Types(C), NEW f \in Fields(C, T),
           NEW w \in Seq(Int), NEW end \in Nat, end <= Len(w), NEW encode, NEW decode,
           f.kind = "nested" => ReadsMessages(C, encode, decode, w, f.of),
           NEW x \in ValuesOf(f), NEW p \in Nat, Occurs(w, p, EncodeValue(encode, f, x)),
           NEW q, q = p + Len(EncodeValue(encode, f, x)), q <= end,
           NEW res, From(TurnsOf(C, decode, T, w, end), end, q, res)
    PROVE  From(TurnsOf(C, decode, T, w, end), end, p, AfterValue(C, f, x, res))
    <1> DEFINE e == EncodeValue(encode, f, x)
    <1>1. f.kind \in Kinds /\ f.no \in 1..14
        BY FieldsAreSound
    <1>2. /\ f.kind = "nested" => encode[f.of][x] \in Seq(Int)
          /\ f.kind = "nested" => \A i \in Nat : Occurs(w, i, encode[f.of][x]) =>
               decode[f.of][i][i + Len(encode[f.of][x])]
                   = IF x \in Unsafe(C, f.of) THEN Raised
                     ELSE Reading(i + Len(encode[f.of][x]), x)
        <2> SUFFICES ASSUME f.kind = "nested"
                     PROVE  /\ encode[f.of][x] \in Seq(Int)
                            /\ \A i \in Nat : Occurs(w, i, encode[f.of][x]) =>
                                 decode[f.of][i][i + Len(encode[f.of][x])]
                                     = IF x \in Unsafe(C, f.of) THEN Raised
                                       ELSE Reading(i + Len(encode[f.of][x]), x)
            OBVIOUS
        <2>1. x \in MessagesOf[f.of]
            BY DEF ValuesOf
        <2> QED
            BY <2>1, Zenon DEF ReadsMessages
    <1>3. e \in Seq(Int) /\ Len(e) > 0
        <2>1. e \in Seq(Int) /\ Len(e) = 1 + Len(Contents(encode, f, x)) /\ Len(Contents(encode, f, x)) > 0
            BY <1>1, <1>2, ContentsType
        <2>2. Contents(encode, f, x) \in Seq(Int)
            BY <1>1, <1>2, ContentsType
        <2> HIDE DEF e
        <2> QED
            BY <2>1, <2>2
    <1>4. /\ ReadUnit(w, p) = Reading(p + 1, Tag(f))
          /\ DecodeValue(C, decode, f, w, p + 1)
                 = IF UnsafeValue(C, f, x) THEN Raised ELSE Reading(p + Len(e), x)
        <2> HIDE DEF ReadsMessages
        <2> QED
            BY <1>1, <1>2, ValueRead
    <1>5. q \in Nat /\ q > p
        <2> HIDE DEF e
        <2>1. q = p + Len(e) /\ Len(e) \in Nat
            BY <1>3 DEF e
        <2> QED
            BY <1>3, <2>1
    <1>6. DecodeValue(C, decode, f, w, p + 1)
              = IF UnsafeValue(C, f, x) THEN Raised ELSE Reading(q, x)
        BY <1>4
    <1> QED
        BY <1>4, <1>5, <1>6, TurnReads

\* A field without values adds nothing.
LEMMA AfterNothing ==
    ASSUME NEW C, NEW f, NEW S, NEW vs \in Seq(S), NEW res, NEW D, Result(res, D), f.name \in D,
           res.ok => res.value[f.name] = << >>
    PROVE  AfterValues(C, f, vs, Len(vs), res) = res
    <1>1. Len(vs) \in Nat /\ Rest(vs, Len(vs)) = << >>
        BY RestProperties
    <1>2. ~UnsafeFrom(C, f, vs, Len(vs))
        BY <1>1 DEF UnsafeFrom
    <1>3. CASE ~res.ok
        BY <1>3, ResultProperties DEF AfterValues
    <1>4. CASE res.ok
        <2>1. res = Reading(res.pos, res.value) /\ res.value = [n \in D |-> res.value[n]]
            BY <1>4 DEF Result, Raised
        <2> DEFINE e == << >>
        <2>2. AfterValues(C, f, vs, Len(vs), res) = Reading(res.pos, [res.value EXCEPT ![f.name] = e])
            BY <1>1, <1>2, <1>4 DEF AfterValues
        <2>3. res.value[f.name] = e
            BY <1>4
        <2> HIDE DEF e
        <2>4. [res.value EXCEPT ![f.name] = e] = res.value
            BY <2>1, <2>3
        <2> QED
            BY <2>1, <2>2, <2>4
    <1> QED
        BY <1>3, <1>4

\* What a field with value v adds.
AfterField(C, f, v, res) == AfterValues(C, f, Listed(f, v), 0, res)

LEMMA FieldRead ==
    ASSUME NEW C, FieldsAssumption(C), NEW T \in Types(C), NEW f \in Fields(C, T),
           NEW w \in Seq(Int), NEW end \in Nat, end <= Len(w), NEW encode, NEW decode,
           f.kind = "nested" => ReadsMessages(C, encode, decode, w, f.of),
           NEW v, FieldHolds(f, v), NEW p \in Nat, Occurs(w, p, EncodeField(encode, f, v)),
           NEW q, q = p + Len(EncodeField(encode, f, v)), q <= end,
           NEW res, NEW D, Result(res, D), f.name \in D, res.ok => res.value[f.name] = << >>,
           From(TurnsOf(C, decode, T, w, end), end, q, res)
    PROVE  From(TurnsOf(C, decode, T, w, end), end, p, AfterField(C, f, v, res))
    <1> DEFINE t == TurnsOf(C, decode, T, w, end)
    <1>1. f.kind \in Kinds /\ f.no \in 1..14 /\ f.many \in BOOLEAN
        BY FieldsAreSound
    <1>2. \A x \in ValuesOf(f) : f.kind = "nested" => encode[f.of][x] \in Seq(Int)
        BY DEF ValuesOf, ReadsMessages
    <1>4. CASE f.many
        <2> DEFINE ss == [i \in DOMAIN v |-> EncodeValue(encode, f, v[i])]
                   r == [i \in 0..Len(v) |-> AfterValues(C, f, v, i, res)]
        <2>1. v \in Seq(ValuesOf(f)) /\ Len(v) \in Nat /\ DOMAIN v = 1..Len(v)
            BY <1>4 DEF FieldHolds
        <2>2. \A i \in 1..Len(v) : v[i] \in ValuesOf(f) /\ EncodeValue(encode, f, v[i]) \in Seq(Int)
            <3> SUFFICES ASSUME NEW i \in 1..Len(v)
                         PROVE  v[i] \in ValuesOf(f) /\ EncodeValue(encode, f, v[i]) \in Seq(Int)
                OBVIOUS
            <3> DEFINE x == v[i]
            <3>1. x \in ValuesOf(f)
                BY <2>1
            <3> HIDE DEF x
            <3>2. EncodeValue(encode, f, x) \in Seq(Int)
                BY <1>1, <1>2, <3>1, ContentsType
            <3> QED
                BY <3>1, <3>2 DEF x
        <2>3. /\ ss \in Seq(Seq(Int)) /\ Len(ss) = Len(v)
              /\ \A i \in 1..Len(v) : ss[i] = EncodeValue(encode, f, v[i])
            BY <2>1, <2>2
        <2>4. EncodeField(encode, f, v) = FlattenSeq(ss) /\ Listed(f, v) = v
            BY <1>4 DEF EncodeField, Listed
        <2> HIDE DEF ss
        <2>5. /\ Occurs(w, p, FlattenSeq(ss)) /\ q = p + Len(FlattenSeq(ss))
              /\ p + Len(FlattenSeq(ss)) <= end
            BY <2>4
        <2>6. \A i \in 0..Len(v) : r[i] = AfterValues(C, f, v, i, res)
            OBVIOUS
        <2>7. r[Len(ss)] = res
            BY <2>1, <2>3, AfterNothing
        <2> HIDE DEF r
        <2>8. ASSUME NEW i \in 1..Len(ss), NEW pp \in Nat, Occurs(w, pp, ss[i]), pp + Len(ss[i]) <= end,
                     From(t, end, pp + Len(ss[i]), r[i])
              PROVE  From(t, end, pp, r[i - 1])
            <3> DEFINE x == v[i]
            <3>1. i \in 1..Len(v) /\ i \in 0..Len(v) /\ i - 1 \in 0..Len(v)
                BY <2>1, <2>3
            <3>2. x \in ValuesOf(f) /\ ss[i] = EncodeValue(encode, f, x)
                BY <2>2, <2>3, <3>1
            <3> HIDE DEF x
            <3>3. From(t, end, pp, AfterValue(C, f, x, r[i]))
                <4> DEFINE qq == pp + Len(ss[i])
                <4>1. qq <= end /\ From(t, end, qq, r[i])
                    BY <2>8
                <4>2. Occurs(w, pp, EncodeValue(encode, f, x)) /\ qq = pp + Len(EncodeValue(encode, f, x))
                    BY <2>8, <3>2
                <4> HIDE DEF qq
                <4> QED
                    BY <3>2, <4>1, <4>2, ElementRead
            <3>4. AfterValue(C, f, x, r[i]) = r[i - 1]
                <4>1. AfterValue(C, f, x, AfterValues(C, f, v, i, res)) = AfterValues(C, f, v, i - 1, res)
                    <5>1. OneMore(C, f, v, i, res)
                        BY <2>1, <3>1, AfterOneMore
                    <5> QED
                        BY <5>1 DEF OneMore, x
                <4> QED
                    BY <2>6, <3>1, <4>1
            <3> QED
                BY <3>3, <3>4
        <2>9. From(t, end, p, r[0])
            <3>1. From(t, end, p + Len(FlattenSeq(ss)), r[Len(ss)])
                BY <2>5, <2>7
            <3> HIDE DEF t
            <3> QED
                BY <2>3, <2>5, <2>8, <3>1, Scan
        <2> QED
            BY <2>1, <2>4, <2>6, <2>9 DEF AfterField
    <1>5. CASE ~f.many /\ v = Default(f)
        <2> DEFINE vs == << >>
        <2>1. EncodeField(encode, f, v) = << >> /\ Listed(f, v) = vs
            BY <1>5 DEF EncodeField, Listed
        <2>2. Len(<< >>) = 0 /\ vs \in Seq(Int) /\ Len(vs) = 0
            OBVIOUS
        <2>3. Len(EncodeField(encode, f, v)) = 0
            BY <2>1, <2>2, Zenon
        <2>4. q = p
            BY <2>3
        <2> HIDE DEF vs
        <2>5. AfterValues(C, f, vs, Len(vs), res) = res
            BY <2>2, AfterNothing
        <2> QED
            BY <2>1, <2>2, <2>4, <2>5 DEF AfterField
    <1>6. CASE ~f.many /\ v # Default(f)
        <2> DEFINE vs == <<v>>
        <2>1. v \in ValuesOf(f)
            BY <1>6 DEF FieldHolds, Default
        <2>2. EncodeField(encode, f, v) = EncodeValue(encode, f, v) /\ Listed(f, v) = vs
            BY <1>6 DEF EncodeField, Listed
        <2>3. vs \in Seq({v}) /\ Len(vs) = 1 /\ vs[1] = v
            OBVIOUS
        <2> HIDE DEF vs
        <2>4. From(t, end, p, AfterValue(C, f, v, res))
            BY <2>1, <2>2, ElementRead
        <2>5. AfterValues(C, f, vs, 1, res) = res
            BY <2>3, AfterNothing
        <2>6. AfterValue(C, f, vs[1], AfterValues(C, f, vs, 1, res)) = AfterValues(C, f, vs, 1 - 1, res)
            <3>1. 1 \in 1..Len(vs)
                BY <2>3
            <3>2. OneMore(C, f, vs, 1, res)
                BY <2>3, <3>1, AfterOneMore
            <3> QED
                BY <3>2 DEF OneMore
        <2>7. 1 - 1 = 0
            OBVIOUS
        <2>8. AfterValue(C, f, v, res) = AfterValues(C, f, vs, 0, res)
            BY <2>3, <2>5, <2>6, <2>7
        <2> QED
            BY <2>2, <2>4, <2>8 DEF AfterField
    <1> QED
        BY <1>1, <1>4, <1>5, <1>6

(* All fields of a message.                                                *)

MessageHolds(C, T, m) ==
    /\ m = [n \in Names(Fields(C, T)) |-> m[n]]
    /\ \A f \in Fields(C, T) : FieldHolds(f, m[f.name])

\* fs has every field of a message once.
Lists(C, T, fs) ==
    /\ fs \in Seq(Fields(C, T))
    /\ \A f \in Fields(C, T) : \E i \in 1..Len(fs) : fs[i] = f
    /\ \A i, j \in 1..Len(fs) : i # j => fs[i].name # fs[j].name

FieldUnsafe(C, f, m) == UnsafeFrom(C, f, Listed(f, m[f.name]), 0)

\* What the fields of m behind the first i of fs give, and what all of them do.
ValuesFrom(C, T, fs, m, i) ==
    [n \in Names(Fields(C, T)) |->
        IF \E j \in (i + 1)..Len(fs) : fs[j].name = n
        THEN Listed(FieldNamed(Fields(C, T), n), m[n]) ELSE << >>]
ResultFrom(C, T, fs, m, end, i) ==
    IF \E j \in (i + 1)..Len(fs) : FieldUnsafe(C, fs[j], m) THEN Raised
    ELSE Reading(end, ValuesFrom(C, T, fs, m, i))
AllValues(C, T, m) == [n \in Names(Fields(C, T)) |-> Listed(FieldNamed(Fields(C, T), n), m[n])]
AllRead(C, T, m, end) ==
    IF \E f \in Fields(C, T) : FieldUnsafe(C, f, m) THEN Raised ELSE Reading(end, AllValues(C, T, m))

LEMMA NamedField ==
    ASSUME NEW C, FieldsAssumption(C), NEW T \in Types(C), NEW f \in Fields(C, T)
    PROVE  f.name \in Names(Fields(C, T)) /\ FieldNamed(Fields(C, T), f.name) = f
    <1>1. f.name \in Names(Fields(C, T))
        BY DEF Names
    <1>2. ASSUME NEW g \in Fields(C, T), g.name = f.name PROVE g = f
        BY <1>2, FieldsAreDistinct
    <1> QED
        BY <1>1, <1>2 DEF FieldNamed

LEMMA FieldsListed ==
    ASSUME NEW C, FieldsAssumption(C), NEW T \in Types(C)
    PROVE  Lists(C, T, C.messages[T]) /\ Lists(C, T, Reverse(C.messages[T]))
    <1> DEFINE s == C.messages[T]
               r == Reverse(s)
    <1>1. /\ s \in Seq(Fields(C, T)) /\ Len(s) \in Nat /\ DOMAIN s = 1..Len(s)
          /\ \A i, j \in 1..Len(s) : i # j => s[i].name # s[j].name
        <2>1. s \in Seq(Fields(C, T)) /\ \A i, j \in DOMAIN s : i # j => s[i].name # s[j].name
            BY DEF FieldsAssumption
        <2> HIDE DEF s
        <2> QED
            BY <2>1
    <1>2. \A f \in Fields(C, T) : \E i \in 1..Len(s) : s[i] = f
        BY <1>1 DEF Fields, ToSet
    <1>3. /\ r = [i \in 1..Len(s) |-> s[(Len(s) - i) + 1]]
          /\ \A i \in 1..Len(s) : (Len(s) - i) + 1 \in 1..Len(s)
        BY <1>1 DEF Reverse
    <1> HIDE DEF s, r
    <1>4. /\ r \in Seq(Fields(C, T)) /\ Len(r) = Len(s)
          /\ \A i \in 1..Len(s) : r[i] = s[(Len(s) - i) + 1]
        <2>1. \A i \in 1..Len(s) : s[(Len(s) - i) + 1] \in Fields(C, T)
            BY <1>1, <1>3
        <2> QED
            BY <1>1, <1>3, <2>1
    <1>5. ASSUME NEW f \in Fields(C, T) PROVE \E i \in 1..Len(r) : r[i] = f
        <2>1. PICK i \in 1..Len(s) : s[i] = f
            BY <1>2
        <2>2. (Len(s) - i) + 1 \in 1..Len(s) /\ (Len(s) - ((Len(s) - i) + 1)) + 1 = i
            BY <1>1
        <2>3. r[(Len(s) - i) + 1] = f
            BY <1>4, <2>1, <2>2
        <2> QED
            BY <1>4, <2>2, <2>3
    <1>6. ASSUME NEW i \in 1..Len(r), NEW j \in 1..Len(r), i # j PROVE r[i].name # r[j].name
        <2>1. /\ (Len(s) - i) + 1 \in 1..Len(s) /\ (Len(s) - j) + 1 \in 1..Len(s)
              /\ (Len(s) - i) + 1 # (Len(s) - j) + 1
            BY <1>1, <1>4, <1>6
        <2> QED
            BY <1>1, <1>4, <1>6, <2>1
    <1> QED
        BY <1>1, <1>2, <1>4, <1>5, <1>6 DEF Lists, s, r

LEMMA FieldWritten ==
    ASSUME NEW C, FieldsAssumption(C), NEW T \in Types(C), NEW f \in Fields(C, T), NEW encode,
           f.kind = "nested" => \A x \in MessagesOf[f.of] : encode[f.of][x] \in Seq(Int),
           NEW v, FieldHolds(f, v)
    PROVE  EncodeField(encode, f, v) \in Seq(Int)
    <1>1. f.kind \in Kinds /\ f.no \in 1..14 /\ f.many \in BOOLEAN
        BY FieldsAreSound
    <1>2. ASSUME NEW x \in ValuesOf(f) PROVE EncodeValue(encode, f, x) \in Seq(Int)
        <2>1. f.kind = "nested" => encode[f.of][x] \in Seq(Int)
            BY DEF ValuesOf
        <2> QED
            BY <1>1, <2>1, ContentsType
    <1>3. CASE f.many
        <2> DEFINE ss == [i \in DOMAIN v |-> EncodeValue(encode, f, v[i])]
        <2>1. v \in Seq(ValuesOf(f)) /\ Len(v) \in Nat /\ DOMAIN v = 1..Len(v)
            BY <1>3 DEF FieldHolds
        <2>2. \A i \in 1..Len(v) : v[i] \in ValuesOf(f)
            BY <2>1
        <2>3. \A i \in 1..Len(v) : EncodeValue(encode, f, v[i]) \in Seq(Int)
            BY <1>2, <2>2
        <2>4. ss \in Seq(Seq(Int))
            BY <2>1, <2>3
        <2>5. EncodeField(encode, f, v) = FlattenSeq(ss)
            BY <1>3 DEF EncodeField
        <2> HIDE DEF ss
        <2>6. FlattenSeq(ss) = Part(ss, Len(ss)) /\ Len(ss) \in 0..Len(ss)
            BY <2>4, FlattenIsPart
        <2> QED
            BY <2>4, <2>5, <2>6, Parts
    <1>4. CASE ~f.many /\ v = Default(f)
        BY <1>4 DEF EncodeField
    <1>5. CASE ~f.many /\ v # Default(f)
        <2>1. v \in ValuesOf(f)
            BY <1>5 DEF FieldHolds, Default
        <2> QED
            BY <1>2, <1>5, <2>1 DEF EncodeField
    <1> QED
        BY <1>1, <1>3, <1>4, <1>5

LEMMA FieldsAreWritten ==
    ASSUME NEW C, FieldsAssumption(C), NEW T \in Types(C), NEW encode,
           \A f \in Fields(C, T) :
               f.kind = "nested" => \A x \in MessagesOf[f.of] : encode[f.of][x] \in Seq(Int),
           NEW m, MessageHolds(C, T, m), NEW fs, Lists(C, T, fs)
    PROVE  /\ EncodeFields(encode, fs, m) \in Seq(Int)
           /\ [i \in DOMAIN fs |-> EncodeField(encode, fs[i], m[fs[i].name])] \in Seq(Seq(Int))
    <1> DEFINE E(i) == EncodeField(encode, fs[i], m[fs[i].name])
               ss == [i \in DOMAIN fs |-> E(i)]
    <1>1. fs \in Seq(Fields(C, T)) /\ Len(fs) \in Nat /\ DOMAIN fs = 1..Len(fs)
        BY DEF Lists
    <1>2. ASSUME NEW i \in 1..Len(fs) PROVE E(i) \in Seq(Int)
        <2> DEFINE f == fs[i]
        <2>1. f \in Fields(C, T)
            BY <1>1
        <2> HIDE DEF f
        <2>2. FieldHolds(f, m[f.name])
            BY <2>1 DEF MessageHolds
        <2>3. EncodeField(encode, f, m[f.name]) \in Seq(Int)
            BY <2>1, <2>2, FieldWritten
        <2> QED
            BY <2>3 DEF f
    <1> HIDE DEF E
    <1>3. ss \in Seq(Seq(Int)) /\ Len(ss) \in Nat
        BY <1>1, <1>2
    <1>4. FlattenSeq(ss) = Part(ss, Len(ss)) /\ Len(ss) \in 0..Len(ss)
        BY <1>3, FlattenIsPart
    <1>5. EncodeFields(encode, fs, m) = FlattenSeq(ss)
        BY DEF EncodeFields, E
    <1>6. FlattenSeq(ss) \in Seq(Int)
        BY <1>3, <1>4, Parts
    <1> QED
        BY <1>3, <1>5, <1>6 DEF E

LEMMA ListedProperties ==
    ASSUME NEW f, f.many \in BOOLEAN, NEW v, FieldHolds(f, v)
    PROVE  \E S : Listed(f, v) \in Seq(S)
    <1>1. CASE f.many
        BY <1>1 DEF Listed, FieldHolds
    <1>2. CASE ~f.many
        <2>1. << >> \in Seq({v}) /\ <<v>> \in Seq({v})
            OBVIOUS
        <2>2. Listed(f, v) \in Seq({v})
            BY <1>2, <2>1 DEF Listed
        <2> QED
            BY <2>2
    <1> QED
        BY <1>1, <1>2

\* One field more, from the last to the first.
Grows(C, T, m, fs, end, i, f, res) ==
    /\ Result(res, Names(Fields(C, T)))
    /\ res.ok => res.value[f.name] = << >>
    /\ AfterField(C, f, m[f.name], res) = ResultFrom(C, T, fs, m, end, i - 1)

LEMMA ResultGrows ==
    ASSUME NEW C, FieldsAssumption(C), NEW T \in Types(C), NEW m, MessageHolds(C, T, m),
           NEW fs, Lists(C, T, fs), NEW end, NEW i \in 1..Len(fs), NEW f, f = fs[i],
           NEW res, res = ResultFrom(C, T, fs, m, end, i)
    PROVE  Grows(C, T, m, fs, end, i, f, res)
    <1> DEFINE N == Names(Fields(C, T))
               vs == Listed(f, m[f.name])
               F(n) == FieldNamed(Fields(C, T), n)
               later(n) == \E j \in (i + 1)..Len(fs) : fs[j].name = n
               now(n) == \E j \in ((i - 1) + 1)..Len(fs) : fs[j].name = n
               a == ValuesFrom(C, T, fs, m, i)
               b == ValuesFrom(C, T, fs, m, i - 1)
    <1>1. /\ Len(fs) \in Nat /\ f \in Fields(C, T)
          /\ \A j \in (i + 1)..Len(fs) : fs[j].name # f.name
        <2>1. /\ fs \in Seq(Fields(C, T))
              /\ \A k, j \in 1..Len(fs) : k # j => fs[k].name # fs[j].name
            BY DEF Lists
        <2>2. Len(fs) \in Nat
            BY <2>1
        <2>3. \A j \in (i + 1)..Len(fs) : j \in 1..Len(fs) /\ j # i
            BY <2>2
        <2> QED
            BY <2>1, <2>2, <2>3
    <1>2. f.name \in N /\ F(f.name) = f
        BY <1>1, NamedField
    <1>3. ((i - 1) + 1)..Len(fs) = {i} \cup ((i + 1)..Len(fs))
        BY <1>1
    <1>4. a = [n \in N |-> IF later(n) THEN Listed(F(n), m[n]) ELSE << >>]
        BY DEF ValuesFrom
    <1>5. b = [n \in N |-> IF now(n) THEN Listed(F(n), m[n]) ELSE << >>]
        BY DEF ValuesFrom
    <1>6. ~later(f.name)
        BY <1>1
    <1>7. \A n : now(n) <=> n = f.name \/ later(n)
        BY <1>3
    <1>8. a[f.name] = << >>
        BY <1>2, <1>4, <1>6
    <1>9. [a EXCEPT ![f.name] = vs] = b
        <2> HIDE DEF a, b, N, later, now
        <2>1. ASSUME NEW n \in N PROVE [a EXCEPT ![f.name] = vs][n] = b[n]
            <3>1. CASE n = f.name
                <4>1. b[n] = Listed(F(n), m[n])
                    BY <1>5, <1>7, <3>1
                <4>2. b[n] = vs
                    BY <1>2, <3>1, <4>1
                <4> QED
                    BY <1>2, <1>4, <3>1, <4>2
            <3>2. CASE n # f.name
                <4> HIDE DEF F, vs
                <4> QED
                    BY <1>4, <1>5, <1>7, <3>2
            <3> QED
                BY <3>1, <3>2
        <2> HIDE DEF vs, F
        <2>2. [a EXCEPT ![f.name] = vs] = [n \in N |-> [a EXCEPT ![f.name] = vs][n]]
            BY <1>4
        <2>3. b = [n \in N |-> b[n]]
            BY <1>5
        <2> QED
            BY <2>1, <2>2, <2>3
    <1>10. Rest(vs, 0) = vs
        <2>1. f.many \in BOOLEAN /\ FieldHolds(f, m[f.name])
            BY <1>1, FieldsAreSound DEF MessageHolds
        <2>2. PICK S : vs \in Seq(S)
            BY <2>1, ListedProperties
        <2> HIDE DEF vs
        <2> QED
            BY <2>2, RestProperties
    <1> DEFINE bad == \E j \in (i + 1)..Len(fs) : FieldUnsafe(C, fs[j], m)
               badNow == \E j \in ((i - 1) + 1)..Len(fs) : FieldUnsafe(C, fs[j], m)
    <1>11. badNow <=> FieldUnsafe(C, f, m) \/ bad
        BY <1>3
    <1>12. res = IF bad THEN Raised ELSE Reading(end, a)
        BY DEF ResultFrom
    <1>13. ResultFrom(C, T, fs, m, end, i - 1) = IF badNow THEN Raised ELSE Reading(end, b)
        BY DEF ResultFrom
    <1>14. FieldUnsafe(C, f, m) <=> UnsafeFrom(C, f, vs, 0)
        BY DEF FieldUnsafe
    <1>15. a = [n \in N |-> a[n]]
        BY <1>4
    <1> HIDE DEF bad, badNow, a, b, vs, N, F, later, now
    <1>16. CASE bad
        BY <1>11, <1>12, <1>13, <1>16 DEF Grows, AfterField, Result, AfterValues, Raised, vs, N
    <1>17. CASE ~bad
        <2>1. res.ok /\ res.pos = end /\ res.value = a /\ res = Reading(res.pos, res.value)
            BY <1>12, <1>17 DEF Reading
        <2>2. Result(res, N)
            BY <1>15, <2>1 DEF Result
        <2>3. AfterValues(C, f, vs, 0, res) = IF UnsafeFrom(C, f, vs, 0) THEN Raised ELSE Reading(end, b)
            BY <1>9, <1>10, <2>1 DEF AfterValues
        <2> QED
            BY <1>8, <1>11, <1>13, <1>14, <1>17, <2>1, <2>2, <2>3 DEF Grows, AfterField, vs, N
    <1> QED
        BY <1>16, <1>17

LEMMA BodyRead ==
    ASSUME NEW C, FieldsAssumption(C), NEW T \in Types(C),
           NEW w \in Seq(Int), NEW end \in Nat, end <= Len(w), NEW encode, NEW decode,
           \A f \in Fields(C, T) : f.kind = "nested" => ReadsMessages(C, encode, decode, w, f.of),
           NEW m, MessageHolds(C, T, m), NEW fs, Lists(C, T, fs),
           NEW p \in Nat, Occurs(w, p, EncodeFields(encode, fs, m)),
           NEW q, q = p + Len(EncodeFields(encode, fs, m)), q <= end,
           From(TurnsOf(C, decode, T, w, end), end, q, Reading(end, NoValues(C, T)))
    PROVE  From(TurnsOf(C, decode, T, w, end), end, p, AllRead(C, T, m, end))
    <1> DEFINE t == TurnsOf(C, decode, T, w, end)
               E(i) == EncodeField(encode, fs[i], m[fs[i].name])
               ss == [i \in DOMAIN fs |-> E(i)]
               r == [i \in 0..Len(fs) |-> ResultFrom(C, T, fs, m, end, i)]
    <1>1. fs \in Seq(Fields(C, T)) /\ Len(fs) \in Nat /\ DOMAIN fs = 1..Len(fs)
        BY DEF Lists
    <1>2. ss \in Seq(Seq(Int)) /\ EncodeFields(encode, fs, m) = FlattenSeq(ss)
        <2>1. \A f \in Fields(C, T) :
                  f.kind = "nested" => \A x \in MessagesOf[f.of] : encode[f.of][x] \in Seq(Int)
            BY DEF ReadsMessages
        <2>2. [i \in DOMAIN fs |-> EncodeField(encode, fs[i], m[fs[i].name])] \in Seq(Seq(Int))
            BY <2>1, FieldsAreWritten
        <2> QED
            BY <2>2 DEF EncodeFields
    <1>3. Len(ss) = Len(fs) /\ \A i \in 1..Len(fs) : ss[i] = E(i)
        BY <1>1
    <1>4. \A i \in 0..Len(fs) : r[i] = ResultFrom(C, T, fs, m, end, i)
        OBVIOUS
    <1> HIDE DEF ss, r
    <1>5. r[Len(fs)] = Reading(end, NoValues(C, T))
        <2>1. (Len(fs) + 1)..Len(fs) = {}
            BY <1>1
        <2>2. ValuesFrom(C, T, fs, m, Len(fs)) = NoValues(C, T)
            BY <2>1 DEF ValuesFrom, NoValues
        <2>3. ResultFrom(C, T, fs, m, end, Len(fs)) = Reading(end, NoValues(C, T))
            BY <2>1, <2>2 DEF ResultFrom
        <2> QED
            BY <1>1, <1>4, <2>3
    <1>6. r[0] = AllRead(C, T, m, end)
        <2>1. 0 + 1 = 1 /\ 0 \in 0..Len(fs)
            BY <1>1
        <2>2. ASSUME NEW n \in Names(Fields(C, T)) PROVE \E j \in 1..Len(fs) : fs[j].name = n
            <3>1. PICK f \in Fields(C, T) : f.name = n
                BY DEF Names
            <3>2. PICK j \in 1..Len(fs) : fs[j] = f
                BY DEF Lists
            <3> QED
                BY <3>1, <3>2
        <2>3. ValuesFrom(C, T, fs, m, 0) = AllValues(C, T, m)
            BY <2>1, <2>2 DEF ValuesFrom, AllValues
        <2>4. (\E j \in 1..Len(fs) : FieldUnsafe(C, fs[j], m)) <=> \E f \in Fields(C, T) : FieldUnsafe(C, f, m)
            <3>1. \A f \in Fields(C, T) : \E j \in 1..Len(fs) : fs[j] = f
                BY DEF Lists
            <3>2. \A j \in 1..Len(fs) : fs[j] \in Fields(C, T)
                BY <1>1
            <3> QED
                BY <3>1, <3>2
        <2> QED
            BY <1>4, <2>1, <2>3, <2>4 DEF ResultFrom, AllRead
    <1>7. ASSUME NEW i \in 1..Len(ss), NEW pp \in Nat, Occurs(w, pp, ss[i]), pp + Len(ss[i]) <= end,
                 From(t, end, pp + Len(ss[i]), r[i])
          PROVE  From(t, end, pp, r[i - 1])
        <2> DEFINE f == fs[i]
                   v == m[f.name]
                   qq == pp + Len(ss[i])
                   D == Names(Fields(C, T))
                   res == r[i]
        <2>1. i \in 1..Len(fs) /\ i \in 0..Len(fs) /\ i - 1 \in 0..Len(fs)
            BY <1>1, <1>3
        <2>2. f \in Fields(C, T)
            BY <1>1, <2>1
        <2>3. ss[i] = EncodeField(encode, f, v)
            BY <1>3, <2>1
        <2>4. qq <= end /\ From(t, end, qq, res)
            BY <1>7
        <2> HIDE DEF f, v, qq, t, res
        <2>5. FieldHolds(f, v) /\ f.name \in D
            BY <2>2, NamedField DEF MessageHolds, v
        <2>6. res = ResultFrom(C, T, fs, m, end, i)
            BY <1>4, <2>1 DEF res
        <2>7. /\ Result(res, D) /\ (res.ok => res.value[f.name] = << >>)
              /\ AfterField(C, f, v, res) = ResultFrom(C, T, fs, m, end, i - 1)
            <3>1. Grows(C, T, m, fs, end, i, f, res)
                BY <2>1, <2>6, ResultGrows DEF f
            <3> QED
                BY <3>1 DEF Grows, v
        <2>8. f.kind = "nested" => ReadsMessages(C, encode, decode, w, f.of)
            BY <2>2
        <2>9. Occurs(w, pp, EncodeField(encode, f, v)) /\ qq = pp + Len(EncodeField(encode, f, v))
            BY <1>7, <2>3 DEF qq
        <2>10. From(t, end, pp, AfterField(C, f, v, res))
            <3>1. From(TurnsOf(C, decode, T, w, end), end, qq, res)
                BY <2>4 DEF t
            <3>2. FieldsAssumption(C) /\ T \in Types(C) /\ w \in Seq(Int) /\ end \in Nat /\ end <= Len(w) /\ pp \in Nat
                BY <1>7
            <3> HIDE DEF D
            <3>3. Result(res, D) /\ f.name \in D /\ (res.ok => res.value[f.name] = << >>)
                BY <2>5, <2>7
            <3>4. From(TurnsOf(C, decode, T, w, end), end, pp, AfterField(C, f, v, res))
                BY ONLY <2>2, <2>4, <2>5, <2>8, <2>9, <3>1, <3>2, <3>3, FieldRead
            <3> QED
                BY <3>4 DEF t
        <2> QED
            BY <1>4, <2>1, <2>7, <2>10
    <1>8. From(t, end, p, r[0])
        <2>1. /\ Occurs(w, p, FlattenSeq(ss)) /\ p + Len(FlattenSeq(ss)) <= end
              /\ From(t, end, p + Len(FlattenSeq(ss)), r[Len(ss)])
            BY <1>2, <1>3, <1>5
        <2> HIDE DEF t
        <2> QED
            BY <1>2, <1>7, <2>1, Scan
    <1> QED
        BY <1>6, <1>8

LEMMA MessageIs ==
    ASSUME NEW C, FieldsAssumption(C), NEW T \in Types(C), NEW m, MessageHolds(C, T, m)
    PROVE  Message(C, T, AllValues(C, T, m)) = m
    <1> DEFINE N == Names(Fields(C, T))
               F(n) == FieldNamed(Fields(C, T), n)
               all == AllValues(C, T, m)
               M(n) == IF F(n).many THEN all[n]
                       ELSE IF all[n] = << >> THEN CreateBase(C, T)[n] ELSE Last(all[n])
    <1>1. ASSUME NEW n \in N PROVE M(n) = m[n]
        <2>1. PICK f \in Fields(C, T) : f.name = n
            BY DEF Names
        <2>2. F(n) = f /\ f.many \in BOOLEAN
            BY <2>1, NamedField, FieldsAreSound
        <2>3. all[n] = Listed(F(n), m[n])
            BY DEF AllValues
        <2>4. CreateBase(C, T)[n] = Default(F(n))
            BY DEF CreateBase
        <2> HIDE DEF F, all, N
        <2>5. CASE f.many
            BY <2>2, <2>3, <2>5 DEF Listed
        <2>6. CASE ~f.many /\ m[n] = Default(f)
            BY <2>2, <2>3, <2>4, <2>6 DEF Listed
        <2>7. CASE ~f.many /\ m[n] # Default(f)
            <3> DEFINE v == m[n]
            <3>1. all[n] = <<v>>
                BY <2>2, <2>3, <2>7 DEF Listed
            <3> HIDE DEF v
            <3>2. <<v>> # << >> /\ Last(<<v>>) = v
                BY DEF Last
            <3> QED
                BY <2>2, <2>7, <3>1, <3>2 DEF v
        <2> QED
            BY <2>2, <2>5, <2>6, <2>7
    <1>2. Message(C, T, all) = [n \in N |-> M(n)]
        BY DEF Message
    <1>3. m = [n \in N |-> m[n]]
        BY DEF MessageHolds
    <1> HIDE DEF M, N
    <1> QED
        BY <1>1, <1>2, <1>3

AdditionsAreUnits == \A a \in DOMAIN Additions : Additions[a] \in Seq(Int)
LEMMA AdditionsType == AdditionsAreUnits
    <1>1. /\ << >> \in Seq(Int)
          /\ <<15 * 8 + Varint, 7>> \in Seq(Int)
          /\ <<15 * 8 + Fixed64, 10, 15 * 8 + Fixed32, 18>> \in Seq(Int)
          /\ <<15 * 8 + Delimited, 2, 10, 18>> \in Seq(Int)
          /\ <<15 * 8 + StartGroup, 8, 5, 10, 1, 4, 15 * 8 + EndGroup>> \in Seq(Int)
          /\ <<8 + Fixed32, 9>> \in Seq(Int)
        BY DEF Varint, Fixed64, Fixed32, Delimited, StartGroup, EndGroup
    <1>2. /\ Additions["nothing"] \in Seq(Int) /\ Additions["number"] \in Seq(Int)
          /\ Additions["fixed"] \in Seq(Int) /\ Additions["text"] \in Seq(Int)
          /\ Additions["group"] \in Seq(Int) /\ Additions["retyped"] \in Seq(Int)
          /\ DOMAIN Additions = {"nothing", "number", "fixed", "text", "group", "retyped"}
        BY <1>1 DEF Additions
    <1> QED
        BY <1>2 DEF AdditionsAreUnits

\* What decode is to read where m is written.
ReadingOf(C, T, m, end) ==
    IF \E f \in Fields(C, T) : FieldUnsafe(C, f, m) THEN Raised ELSE Reading(end, m)

\* m is at p on the wire, as its fields between two additions, and the messages inside are read.
Legible(C, T, w, encode, decode, m, fs, a, e, p, end) ==
    /\ FieldsAssumption(C) /\ T \in Types(C) /\ w \in Seq(Int)
    /\ \A f \in Fields(C, T) : f.kind = "nested" => ReadsMessages(C, encode, decode, w, f.of)
    /\ MessageHolds(C, T, m) /\ Lists(C, T, fs) /\ a \in DOMAIN Additions
    /\ e = Additions[a] \o EncodeFields(encode, fs, m) \o Additions[a]
    /\ p \in Nat /\ Occurs(w, p, e) /\ end = p + Len(e)

LEMMA MessageRead ==
    ASSUME NEW C, NEW T, NEW w, NEW encode, NEW decode, NEW m, NEW fs, NEW a, NEW e, NEW p, NEW end,
           Legible(C, T, w, encode, decode, m, fs, a, e, p, end)
    PROVE  DecodeMessage(C, decode, T, w, p, end) = ReadingOf(C, T, m, end)
    <1> USE DEF Legible
    <1> DEFINE b == EncodeFields(encode, fs, m)
               x == Additions[a]
               t == TurnsOf(C, decode, T, w, end)
    <1>1. b \in Seq(Int) /\ x \in Seq(Int)
        <2>1. \A f \in Fields(C, T) :
                  f.kind = "nested" => \A y \in MessagesOf[f.of] : encode[f.of][y] \in Seq(Int)
            BY DEF ReadsMessages
        <2> QED
            BY <2>1, FieldsAreWritten, AdditionsType DEF AdditionsAreUnits
    <1> HIDE DEF b, x
    <1> DEFINE q == p + Len(x)
               s == q + Len(b)
    <1>2. /\ Occurs(w, p, x) /\ Occurs(w, q, b) /\ Occurs(w, s, x) /\ end = s + Len(x)
          /\ q \in Nat /\ s \in Nat /\ end \in Nat /\ end <= Len(w) /\ s <= end /\ q <= end
        <2> DEFINE c == x \o b
        <2>1. c \in Seq(Int) /\ e = c \o x
            BY <1>1 DEF b, x
        <2>2. Occurs(w, p, c \o x)
            BY <2>1
        <2> HIDE DEF c
        <2>3. Occurs(w, p, c) /\ Occurs(w, p + Len(c), x) /\ Len(e) = Len(c) + Len(x)
            BY <1>1, <2>1, <2>2, OccursConcat
        <2>4. Occurs(w, p, x \o b)
            BY <2>3 DEF c
        <2>5. Occurs(w, p, x) /\ Occurs(w, p + Len(x), b) /\ Len(c) = Len(x) + Len(b)
            BY <1>1, <2>4, OccursConcat DEF c
        <2>6. Len(x) \in Nat /\ Len(b) \in Nat /\ p + Len(e) <= Len(w)
            BY <1>1 DEF Occurs
        <2>7. p + Len(c) = s /\ end = s + Len(x)
            BY <2>3, <2>5, <2>6
        <2> QED
            BY <2>3, <2>5, <2>6, <2>7
    <1> HIDE DEF q, s
    <1>3. From(t, end, end, Reading(end, NoValues(C, T)))
        BY <1>2, TurnStops
    <1>4. From(t, end, s, Reading(end, NoValues(C, T)))
        <2>1. Passed(C, T, w, end, s, s + Len(Additions[a]))
            BY <1>2, AdditionSkipped DEF x
        <2> QED
            BY <1>2, <1>3, <2>1 DEF Passed, x
    <1>5. From(t, end, q, AllRead(C, T, m, end))
        <2>1. Occurs(w, q, EncodeFields(encode, fs, m)) /\ s = q + Len(EncodeFields(encode, fs, m))
            BY <1>2 DEF b, s
        <2> QED
            BY <1>2, <1>4, <2>1, BodyRead
    <1>6. From(t, end, p, AllRead(C, T, m, end))
        <2>1. Passed(C, T, w, end, p, p + Len(Additions[a]))
            <3>1. Occurs(w, p, Additions[a]) /\ p + Len(Additions[a]) <= end
                BY <1>2 DEF x, q
            <3> QED
                BY <1>2, <3>1, AdditionSkipped
        <2> QED
            BY <1>5, <2>1 DEF Passed, x, q
    <1>7. Turns(C, decode, T, w, p, end) = AllRead(C, T, m, end)
        <2>1. Turns(C, decode, T, w, p, end) = t[end - p + 1][p]
            BY TurnsIs
        <2>2. end - p + 1 \in Nat /\ end - p + 1 > end - p
            <3>1. p <= q /\ q <= end
                BY <1>1, <1>2 DEF q
            <3> QED
                BY <1>2, <3>1
        <2> HIDE DEF t
        <2> QED
            BY <1>6, <2>1, <2>2 DEF From
    <1> DEFINE r == Turns(C, decode, T, w, p, end)
    <1>8. DecodeMessage(C, decode, T, w, p, end)
              = IF r.ok THEN Reading(r.pos, Message(C, T, r.value)) ELSE Raised
        BY DEF DecodeMessage
    <1>9. CASE \E f \in Fields(C, T) : FieldUnsafe(C, f, m)
        <2>1. r = Raised
            BY <1>7, <1>9 DEF AllRead
        <2> HIDE DEF r
        <2> QED
            BY <1>8, <1>9, <2>1 DEF ReadingOf, Raised
    <1>10. CASE ~\E f \in Fields(C, T) : FieldUnsafe(C, f, m)
        <2>1. r = Reading(end, AllValues(C, T, m))
            BY <1>7, <1>10 DEF AllRead
        <2> HIDE DEF r
        <2>2. r.ok /\ r.pos = end /\ r.value = AllValues(C, T, m)
            BY <2>1 DEF Reading
        <2> QED
            BY <1>8, <1>10, <2>2, MessageIs DEF ReadingOf
    <1> QED
        BY <1>9, <1>10

(* The functions of a message call those of the messages it nests, which   *)
(* nest less deep: their recursions have solutions.                        *)

\* g and h do the same with the messages a message of type T nests.
SameInside(C, T, g, h) == \A f \in Fields(C, T) : f.kind = "nested" => g[f.of] = h[f.of]

LEMMA DepthRecursion ==
    ASSUME NEW C, NestingAssumption(C), NEW which, NEW x,
           \A T \in Types(C) : \A g, h : SameInside(C, T, g, h)
               => RecStep(which, x, T, g) = RecStep(which, x, T, h)
    PROVE  \A T \in Types(C) : Solution(which, x, Types(C))[T]
                                   = RecStep(which, x, T, Solution(which, x, Types(C)))
    <1> DEFINE S == Types(C)
    <1>1. ASSUME NEW T \in S, NEW g, NEW h, SameBelow(S, Depth, T, g, h)
          PROVE  RecStep(which, x, T, g) = RecStep(which, x, T, h)
        <2>1. \A f \in Fields(C, T) : f.kind = "nested" => f.of \in S /\ Depth[f.of] < Depth[T]
            BY DEF NestingAssumption
        <2>2. SameInside(C, T, g, h)
            BY <1>1, <2>1 DEF SameInside, SameBelow
        <2> QED
            BY <2>2
    <1>2. \A T \in S : Depth[T] \in Nat
        BY DEF NestingAssumption
    <1> HIDE DEF S
    <1>3. Ranked(which, x, S, Depth)
        BY <1>1, <1>2 DEF Ranked
    <1>4. Solves(which, x, S, Solution(which, x, S))
        BY <1>3, Recursion
    <1>5. \A T \in S : Solution(which, x, S)[T] = RecStep(which, x, T, Solution(which, x, S))
        BY <1>4, SolvesAt
    <1> QED
        BY <1>5 DEF S

LEMMA EncodedAlike ==
    ASSUME NEW f, NEW g, NEW h, f.kind = "nested" => g[f.of] = h[f.of], NEW v
    PROVE  EncodeField(g, f, v) = EncodeField(h, f, v)
    <1>1. \A x : EncodeValue(g, f, x) = EncodeValue(h, f, x)
        <2> SUFFICES ASSUME NEW x PROVE EncodeValue(g, f, x) = EncodeValue(h, f, x)
            OBVIOUS
        <2>1. CASE f.kind = "nested"
            BY <2>1 DEF EncodeValue
        <2>2. CASE f.kind # "nested"
            BY <2>2 DEF EncodeValue
        <2> QED
            BY <2>1, <2>2
    <1>2. [i \in DOMAIN v |-> EncodeValue(g, f, v[i])] = [i \in DOMAIN v |-> EncodeValue(h, f, v[i])]
        BY <1>1
    <1> QED
        BY <1>1, <1>2 DEF EncodeField

\* What Encoder writes of a message, one level of it taken apart: the additions, the fields,
\* the additions.
LEMMA EncoderIs ==
    ASSUME NEW C, FieldsAssumption(C), NestingAssumption(C), NEW reversed \in BOOLEAN, NEW extra,
           NEW T \in Types(C), NEW m \in MessagesOf[T]
    PROVE  Encoder(C, reversed, extra)[T][m]
               = extra \o EncodeFields(Encoder(C, reversed, extra), FieldsWritten(C, reversed, T), m) \o extra
    <1> DEFINE x == <<C, reversed, extra>>
               E == Solution("encode", x, Types(C))
               P(f) == f = [U \in DOMAIN C.messages |->
                   [y \in MessagesOf[U] |->
                       extra \o EncodeFields(f, IF reversed THEN Reverse(C.messages[U]) ELSE C.messages[U], y)
                             \o extra]]
               Q(f) == Solves("encode", x, Types(C), f)
    <1>1. \A f : P(f) <=> Q(f)
        BY DEF Solves, RecStep, EncodeStep, FieldsWritten, Types
    <1>2. (CHOOSE f : P(f)) = (CHOOSE f : Q(f))
        <2> HIDE DEF P, Q
        <2> QED
            BY <1>1, Zenon
    <1>3. Encoder(C, reversed, extra) = (CHOOSE f : P(f))
        BY DEF Encoder
    <1>4. E = (CHOOSE f : Q(f))
        BY DEF Solution
    <1>5. ASSUME NEW U \in Types(C), NEW g
          PROVE  RecStep("encode", x, U, g) = EncodeStep(C, reversed, extra, U, g)
        BY DEF RecStep
    <1>6. ASSUME NEW U \in Types(C), NEW g, NEW h, SameInside(C, U, g, h)
          PROVE  RecStep("encode", x, U, g) = RecStep("encode", x, U, h)
        <2> DEFINE fs == FieldsWritten(C, reversed, U)
        <2>1. \A i \in DOMAIN fs : fs[i] \in Fields(C, U)
            <3>1. Lists(C, U, fs)
                BY FieldsListed DEF FieldsWritten
            <3> HIDE DEF fs
            <3> QED
                BY <3>1 DEF Lists
        <2> HIDE DEF fs
        <2>2. \A i \in DOMAIN fs : \A v : EncodeField(g, fs[i], v) = EncodeField(h, fs[i], v)
            <3> SUFFICES ASSUME NEW i \in DOMAIN fs, NEW v
                         PROVE  EncodeField(g, fs[i], v) = EncodeField(h, fs[i], v)
                OBVIOUS
            <3> DEFINE f == fs[i]
            <3>1. f.kind = "nested" => g[f.of] = h[f.of]
                BY <1>6, <2>1 DEF SameInside
            <3> HIDE DEF f
            <3>2. EncodeField(g, f, v) = EncodeField(h, f, v)
                BY <3>1, EncodedAlike
            <3> QED
                BY <3>2 DEF f
        <2>3. \A y : EncodeFields(g, fs, y) = EncodeFields(h, fs, y)
            <3> SUFFICES ASSUME NEW y PROVE EncodeFields(g, fs, y) = EncodeFields(h, fs, y)
                OBVIOUS
            <3>1. [i \in DOMAIN fs |-> EncodeField(g, fs[i], y[fs[i].name])]
                      = [i \in DOMAIN fs |-> EncodeField(h, fs[i], y[fs[i].name])]
                BY <2>2
            <3> QED
                BY <3>1 DEF EncodeFields
        <2>4. EncodeStep(C, reversed, extra, U, g) = EncodeStep(C, reversed, extra, U, h)
            BY <2>3 DEF EncodeStep, fs
        <2> QED
            BY <1>5, <2>4
    <1>7. E[T] = RecStep("encode", x, T, E)
        <2> HIDE DEF x
        <2> QED
            BY <1>6, DepthRecursion
    <1>8. E[T] = EncodeStep(C, reversed, extra, T, E)
        BY <1>5, <1>7
    <1>9. Encoder(C, reversed, extra) = E
        BY <1>2, <1>3, <1>4
    <1> HIDE DEF E
    <1> QED
        BY <1>8, <1>9 DEF EncodeStep

LEMMA DecoderIs ==
    ASSUME NEW C, FieldsAssumption(C), NestingAssumption(C), NEW w \in Seq(Int),
           NEW T \in Types(C), NEW pos \in Nat, pos <= Len(w), NEW end \in Int
    PROVE  Decoder(C, w)[T][pos][end] = DecodeMessage(C, Decoder(C, w), T, w, pos, end)
    <1> DEFINE x == <<C, w>>
               D == Solution("decode", x, Types(C))
               P(f) == f = [U \in DOMAIN C.messages |->
                   [p \in 0..Len(w) |-> [e \in Int |-> DecodeMessage(C, f, U, w, p, e)]]]
               Q(f) == Solves("decode", x, Types(C), f)
    <1>1. \A f : P(f) <=> Q(f)
        BY DEF Solves, RecStep, DecodeStep, Types
    <1>2. (CHOOSE f : P(f)) = (CHOOSE f : Q(f))
        <2> HIDE DEF P, Q
        <2> QED
            BY <1>1, Zenon
    <1>3. Decoder(C, w) = (CHOOSE f : P(f))
        BY DEF Decoder
    <1>4. D = (CHOOSE f : Q(f))
        BY DEF Solution
    <1>5. ASSUME NEW U \in Types(C), NEW g PROVE RecStep("decode", x, U, g) = DecodeStep(C, w, U, g)
        BY DEF RecStep
    <1>6. ASSUME NEW U \in Types(C), NEW g, NEW h, SameInside(C, U, g, h)
          PROVE  RecStep("decode", x, U, g) = RecStep("decode", x, U, h)
        <2>1. \A f \in Fields(C, U) : \A p : DecodeValue(C, g, f, w, p) = DecodeValue(C, h, f, w, p)
            <3> SUFFICES ASSUME NEW f \in Fields(C, U), NEW p
                         PROVE  DecodeValue(C, g, f, w, p) = DecodeValue(C, h, f, w, p)
                OBVIOUS
            <3>1. CASE f.kind = "nested"
                <4>1. g[f.of] = h[f.of]
                    BY <1>6, <3>1 DEF SameInside
                <4> QED
                    BY <3>1, <4>1 DEF DecodeValue
            <3>2. CASE f.kind # "nested"
                BY <3>2 DEF DecodeValue
            <3> QED
                BY <3>1, <3>2
        <2>2. \A e, later, p : Turn(C, g, U, w, e, later, p) = Turn(C, h, U, w, e, later, p)
            <3> SUFFICES ASSUME NEW e, NEW later, NEW p
                         PROVE  Turn(C, g, U, w, e, later, p) = Turn(C, h, U, w, e, later, p)
                OBVIOUS
            <3> DEFINE tag == ReadUnit(w, p)
                       known == Known(C, U, tag.value)
                       f == CHOOSE k \in known : TRUE
            <3>1. CASE known = {}
                BY <3>1 DEF Turn
            <3>2. CASE known # {}
                <4>1. f \in Fields(C, U)
                    BY <3>2 DEF Known
                <4> DEFINE v == DecodeValue(C, g, f, w, tag.pos)
                <4>2. v = DecodeValue(C, h, f, w, tag.pos)
                    <5> HIDE DEF f, tag
                    <5> QED
                        BY <2>1, <4>1
                <4>3. Turn(C, g, U, w, e, later, p)
                          = IF p >= e THEN Reading(p, NoValues(C, U))
                            ELSE IF ~tag.ok THEN Raised
                            ELSE IF v.ok /\ later[v.pos].ok
                                 THEN Reading(later[v.pos].pos,
                                         [later[v.pos].value EXCEPT ![f.name] = <<v.value>> \o @])
                                 ELSE Raised
                    BY <3>2 DEF Turn
                <4> DEFINE u == DecodeValue(C, h, f, w, tag.pos)
                <4>4. Turn(C, h, U, w, e, later, p)
                          = IF p >= e THEN Reading(p, NoValues(C, U))
                            ELSE IF ~tag.ok THEN Raised
                            ELSE IF u.ok /\ later[u.pos].ok
                                 THEN Reading(later[u.pos].pos,
                                         [later[u.pos].value EXCEPT ![f.name] = <<u.value>> \o @])
                                 ELSE Raised
                    BY <3>2 DEF Turn
                <4>5. u = v
                    BY <4>2
                <4> HIDE DEF u, v, f, tag
                <4> QED
                    BY <4>3, <4>4, <4>5
            <3> QED
                BY <3>1, <3>2
        <2>3. \A p, e : Turns(C, g, U, w, p, e) = Turns(C, h, U, w, p, e)
            <3> SUFFICES ASSUME NEW p, NEW e PROVE Turns(C, g, U, w, p, e) = Turns(C, h, U, w, p, e)
                OBVIOUS
            <3> DEFINE A(f) == f = [n \in Nat |-> [i \in 0..Len(w) |->
                                       IF n = 0 THEN Raised ELSE Turn(C, g, U, w, e, f[n - 1], i)]]
                       B(f) == f = [n \in Nat |-> [i \in 0..Len(w) |->
                                       IF n = 0 THEN Raised ELSE Turn(C, h, U, w, e, f[n - 1], i)]]
            <3>1. \A f : A(f) <=> B(f)
                BY <2>2
            <3>2. (CHOOSE f : A(f)) = (CHOOSE f : B(f))
                <4> HIDE DEF A, B
                <4> QED
                    BY <3>1, Zenon
            <3>3. Turns(C, g, U, w, p, e) = (CHOOSE f : A(f))[e - p + 1][p]
                BY DEF Turns
            <3>4. Turns(C, h, U, w, p, e) = (CHOOSE f : B(f))[e - p + 1][p]
                BY DEF Turns
            <3> QED
                BY <3>2, <3>3, <3>4
        <2>4. \A p, e : DecodeMessage(C, g, U, w, p, e) = DecodeMessage(C, h, U, w, p, e)
            BY <2>3 DEF DecodeMessage
        <2>5. DecodeStep(C, w, U, g) = DecodeStep(C, w, U, h)
            BY <2>4 DEF DecodeStep
        <2> QED
            BY <1>5, <2>5
    <1>7. D[T] = RecStep("decode", x, T, D)
        <2> HIDE DEF x
        <2> QED
            BY <1>6, DepthRecursion
    <1>8. D[T] = DecodeStep(C, w, T, D)
        BY <1>5, <1>7
    <1>9. Decoder(C, w) = D
        BY <1>2, <1>3, <1>4
    <1>10. pos \in 0..Len(w)
        OBVIOUS
    <1> HIDE DEF D
    <1> QED
        BY <1>8, <1>9, <1>10 DEF DecodeStep

UnsafeOf(C) == Solution("unsafe", C, Types(C))

LEMMA UnsafeOfIs ==
    ASSUME NEW C, FieldsAssumption(C), NestingAssumption(C), NEW T \in Types(C)
    PROVE  /\ Unsafe(C, T) = UnsafeOf(C)[T]
           /\ UnsafeOf(C)[T] = UnsafeStep(C, T, UnsafeOf(C))
    <1> DEFINE P(f) == f = [U \in DOMAIN C.messages |->
                   {m \in MessagesOf[U] : \E e \in Fields(C, U) : UnsafeField(C, f, e, m[e.name])}]
               Q(f) == Solves("unsafe", C, Types(C), f)
    <1>1. \A f : P(f) <=> Q(f)
        BY DEF Solves, RecStep, UnsafeStep, Types
    <1>2. (CHOOSE f : P(f)) = (CHOOSE f : Q(f))
        <2> HIDE DEF P, Q
        <2> QED
            BY <1>1, Zenon
    <1>3. Unsafe(C, T) = (CHOOSE f : P(f))[T]
        BY DEF Unsafe
    <1>4. UnsafeOf(C) = (CHOOSE f : Q(f))
        BY DEF Solution, UnsafeOf
    <1>5. ASSUME NEW U \in Types(C), NEW g PROVE RecStep("unsafe", C, U, g) = UnsafeStep(C, U, g)
        BY DEF RecStep
    <1>6. ASSUME NEW U \in Types(C), NEW g, NEW h, SameInside(C, U, g, h)
          PROVE  RecStep("unsafe", C, U, g) = RecStep("unsafe", C, U, h)
        <2>1. \A f \in Fields(C, U) : \A v : UnsafeField(C, g, f, v) <=> UnsafeField(C, h, f, v)
            <3> SUFFICES ASSUME NEW f \in Fields(C, U), NEW v
                         PROVE  UnsafeField(C, g, f, v) <=> UnsafeField(C, h, f, v)
                OBVIOUS
            <3>1. CASE f.kind = "nested"
                <4>1. g[f.of] = h[f.of]
                    BY <1>6, <3>1 DEF SameInside
                <4> QED
                    BY <3>1, <4>1 DEF UnsafeField
            <3>2. CASE f.kind # "nested"
                BY <3>2 DEF UnsafeField
            <3> QED
                BY <3>1, <3>2
        <2>2. UnsafeStep(C, U, g) = UnsafeStep(C, U, h)
            BY <2>1 DEF UnsafeStep
        <2> QED
            BY <1>5, <2>2
    <1>7. UnsafeOf(C)[T] = RecStep("unsafe", C, T, UnsafeOf(C))
        BY <1>6, DepthRecursion DEF UnsafeOf
    <1> QED
        BY <1>2, <1>3, <1>4, <1>5, <1>7

(* What one codec writes another one reads.                                *)

LEMMA MessagesHold ==
    ASSUME NEW C, MessagesAssumption(C), NEW T \in Types(C), NEW m \in MessagesOf[T]
    PROVE  m # Undefined /\ MessageHolds(C, T, m)
    BY DEF MessagesAssumption, MessageHolds, FieldHolds

\* The messages that hold what a codec cannot, field by field.
LEMMA UnsafeIs ==
    ASSUME NEW C, FieldsAssumption(C), NestingAssumption(C), MessagesAssumption(C), C.safe \in Nat,
           NEW T \in Types(C), NEW m \in MessagesOf[T]
    PROVE  m \in Unsafe(C, T) <=> \E f \in Fields(C, T) : FieldUnsafe(C, f, m)
    <1> DEFINE u == UnsafeOf(C)
    <1>1. m \in Unsafe(C, T) <=> \E f \in Fields(C, T) : UnsafeField(C, u, f, m[f.name])
        BY UnsafeOfIs DEF UnsafeStep
    <1>2. ASSUME NEW f \in Fields(C, T) PROVE UnsafeField(C, u, f, m[f.name]) <=> FieldUnsafe(C, f, m)
        <2> DEFINE v == m[f.name]
                   vs == Listed(f, v)
        <2>1. /\ f.kind \in Kinds /\ f.many \in BOOLEAN /\ (f.many => f.kind \in {"text", "nested"})
              /\ FieldHolds(f, v)
            BY FieldsAreSound, MessagesHold DEF MessageHolds
        <2>2. f.kind = "nested" => f.of \in Types(C)
            BY DEF NestingAssumption
        <2> HIDE DEF v
        <2>3. FieldUnsafe(C, f, m) <=> \E j \in 1..Len(vs) : UnsafeValue(C, f, vs[j])
            BY DEF FieldUnsafe, UnsafeFrom, v
        <2>4. CASE f.kind \in {"text", "bool", "int32"}
            <3>1. ~UnsafeField(C, u, f, v)
                BY <2>4 DEF UnsafeField
            <3>2. \A x : ~UnsafeValue(C, f, x)
                BY <2>4 DEF UnsafeValue
            <3> QED
                BY <2>3, <3>1, <3>2 DEF v
        <2>5. CASE f.kind = "int64"
            <3>1. ~f.many /\ v \in Int
                BY <2>1, <2>5 DEF FieldHolds, ValuesOf
            <3>2. UnsafeField(C, u, f, v) <=> UnsafeValue(C, f, v)
                BY <2>5 DEF UnsafeField, UnsafeValue
            <3>3. CASE v = 0
                <4>1. Listed(f, v) = << >>
                    BY <2>5, <3>1, <3>3 DEF Listed, Default
                <4>2. Len(vs) = 0
                    BY <4>1
                <4>3. ~UnsafeValue(C, f, v)
                    BY <2>5, <3>3 DEF UnsafeValue
                <4> HIDE DEF vs
                <4> QED
                    BY <2>3, <3>2, <4>2, <4>3 DEF v
            <3>4. CASE v # 0
                <4>1. vs = <<v>>
                    BY <2>5, <3>1, <3>4 DEF Listed, Default
                <4>2. Len(<<v>>) = 1 /\ <<v>>[1] = v
                    OBVIOUS
                <4> HIDE DEF vs
                <4>3. Len(vs) = 1 /\ vs[1] = v
                    BY <4>1, <4>2
                <4> QED
                    BY <2>3, <3>2, <4>3 DEF v
            <3> QED
                BY <3>3, <3>4
        <2>6. CASE f.kind = "nested"
            <3>1. \A x : UnsafeValue(C, f, x) <=> x \in u[f.of]
                BY <2>2, <2>6, UnsafeOfIs DEF UnsafeValue
            <3>2. CASE f.many
                <4>1. vs = v /\ DOMAIN v = 1..Len(v)
                    BY <2>1, <3>2 DEF Listed, FieldHolds
                <4>2. UnsafeField(C, u, f, v) <=> \E j \in DOMAIN v : v[j] \in u[f.of]
                    BY <2>6, <3>2 DEF UnsafeField
                <4> HIDE DEF vs, u
                <4> QED
                    BY <2>3, <3>1, <4>1, <4>2 DEF v
            <3>3. CASE ~f.many /\ v = Undefined
                <4>1. Listed(f, v) = << >>
                    BY <2>6, <3>3 DEF Listed, Default
                <4>2. Len(vs) = 0
                    BY <4>1
                <4>3. Undefined \notin u[f.of]
                    <5>1. \A x \in u[f.of] : x \in MessagesOf[f.of]
                        BY <2>2, <2>6, UnsafeOfIs DEF UnsafeStep
                    <5> QED
                        BY <2>2, <2>6, <5>1, MessagesHold
                <4>4. UnsafeField(C, u, f, v) <=> v \in u[f.of]
                    BY <2>6, <3>3 DEF UnsafeField
                <4> HIDE DEF vs, u
                <4> QED
                    BY <2>3, <3>3, <4>2, <4>3, <4>4 DEF v
            <3>4. CASE ~f.many /\ v # Undefined
                <4>1. vs = <<v>>
                    BY <2>6, <3>4 DEF Listed, Default
                <4>2. Len(<<v>>) = 1 /\ <<v>>[1] = v
                    OBVIOUS
                <4>3. UnsafeField(C, u, f, v) <=> v \in u[f.of]
                    BY <2>6, <3>4 DEF UnsafeField
                <4> HIDE DEF vs, u
                <4>4. Len(vs) = 1 /\ vs[1] = v
                    BY <4>1, <4>2
                <4> QED
                    BY <2>3, <3>1, <4>3, <4>4 DEF v
            <3> QED
                BY <2>1, <3>2, <3>3, <3>4
        <2> QED
            BY <2>1, <2>4, <2>5, <2>6 DEF Kinds
    <1> HIDE DEF u
    <1> QED
        BY <1>1, <1>2

\* Two tables have the same fields in the types they share.
Match(C, W) ==
    \A T \in Types(C) \cap Types(W) :
        /\ DOMAIN C.messages[T] = DOMAIN W.messages[T]
        /\ \A i \in DOMAIN C.messages[T] : Agree(C.messages[T][i], W.messages[T][i])

LEMMA AgreeingFields ==
    ASSUME NEW f, NEW g, Agree(f, g), NEW encode, NEW v
    PROVE  EncodeField(encode, f, v) = EncodeField(encode, g, v)
    <1>1. Tag(f) = Tag(g) /\ Default(f) = Default(g)
        BY DEF Agree, Tag, WireType, Default
    <1>2. \A x : EncodeValue(encode, f, x) = EncodeValue(encode, g, x)
        BY <1>1 DEF Agree, EncodeValue
    <1>3. [i \in DOMAIN v |-> EncodeValue(encode, f, v[i])] = [i \in DOMAIN v |-> EncodeValue(encode, g, v[i])]
        BY <1>2
    <1> QED
        BY <1>1, <1>2, <1>3 DEF Agree, EncodeField

LEMMA WritersAgree ==
    ASSUME NEW C, NEW W, Match(C, W), FieldsAssumption(C), FieldsAssumption(W),
           NEW T \in Types(C) \cap Types(W), NEW reversed \in BOOLEAN, NEW encode, NEW m
    PROVE  EncodeFields(encode, FieldsWritten(C, reversed, T), m)
               = EncodeFields(encode, FieldsWritten(W, reversed, T), m)
    <1> DEFINE s == C.messages[T]
               r == W.messages[T]
               fs == FieldsWritten(C, reversed, T)
               gs == FieldsWritten(W, reversed, T)
    <1>1. s \in Seq(Fields(C, T)) /\ r \in Seq(Fields(W, T))
        BY DEF FieldsAssumption
    <1>2. DOMAIN s = DOMAIN r /\ \A i \in DOMAIN s : Agree(s[i], r[i])
        BY DEF Match
    <1>3. fs = IF reversed THEN Reverse(s) ELSE s
        BY DEF FieldsWritten
    <1>4. gs = IF reversed THEN Reverse(r) ELSE r
        BY DEF FieldsWritten
    <1> HIDE DEF s, r, fs, gs
    <1>5. /\ Len(s) = Len(r) /\ Len(s) \in Nat /\ DOMAIN s = 1..Len(s)
          /\ \A i \in 1..Len(s) : Agree(s[i], r[i])
        BY <1>1, <1>2
    <1>6. DOMAIN fs = DOMAIN gs /\ \A i \in DOMAIN fs : Agree(fs[i], gs[i])
        <2>1. CASE reversed
            <3>1. /\ fs = [i \in 1..Len(s) |-> s[(Len(s) - i) + 1]]
                  /\ gs = [i \in 1..Len(s) |-> r[(Len(s) - i) + 1]]
                BY <1>3, <1>4, <1>5, <2>1 DEF Reverse
            <3>2. \A i \in 1..Len(s) : (Len(s) - i) + 1 \in 1..Len(s)
                BY <1>5
            <3> QED
                BY <1>5, <3>1, <3>2
        <2>2. CASE ~reversed
            BY <1>2, <1>3, <1>4, <2>2
        <2> QED
            BY <2>1, <2>2
    <1>7. \A i \in DOMAIN fs : EncodeField(encode, fs[i], m[fs[i].name]) = EncodeField(encode, gs[i], m[gs[i].name])
        <2> SUFFICES ASSUME NEW i \in DOMAIN fs
                     PROVE  EncodeField(encode, fs[i], m[fs[i].name]) = EncodeField(encode, gs[i], m[gs[i].name])
            OBVIOUS
        <2>1. Agree(fs[i], gs[i])
            BY <1>6
        <2>2. fs[i].name = gs[i].name
            BY <2>1 DEF Agree
        <2> QED
            BY <2>1, <2>2, AgreeingFields
    <1>8. [i \in DOMAIN fs |-> EncodeField(encode, fs[i], m[fs[i].name])]
              = [i \in DOMAIN gs |-> EncodeField(encode, gs[i], m[gs[i].name])]
        BY <1>6, <1>7
    <1>9. EncodeFields(encode, fs, m) = EncodeFields(encode, gs, m)
        BY <1>8 DEF EncodeFields
    <1> QED
        BY <1>9 DEF fs, gs

\* The tables of a codec are as Wire assumes.
Sound(C) == FieldsAssumption(C) /\ NestingAssumption(C) /\ MessagesAssumption(C) /\ C.safe \in Nat

\* One level of a message, given the messages inside.
LEMMA OneLevelRead ==
    ASSUME NEW C, Sound(C), NEW W, Sound(W), Match(C, W), NEW T \in Types(C) \cap Types(W),
           NEW reversed \in BOOLEAN, NEW a \in DOMAIN Additions, NEW w \in Seq(Int),
           \A f \in Fields(C, T) : f.kind = "nested" =>
               ReadsMessages(C, Encoder(W, reversed, Additions[a]), Decoder(C, w), w, f.of)
    PROVE  ReadsMessages(C, Encoder(W, reversed, Additions[a]), Decoder(C, w), w, T)
    <1> DEFINE E == Encoder(W, reversed, Additions[a])
               D == Decoder(C, w)
               fs == FieldsWritten(C, reversed, T)
    <1>1. Lists(C, T, fs)
        BY FieldsListed DEF Sound, FieldsWritten
    <1>2. ASSUME NEW x \in MessagesOf[T]
          PROVE  /\ E[T][x] \in Seq(Int)
                 /\ \A q \in Nat : Occurs(w, q, E[T][x]) =>
                       D[T][q][q + Len(E[T][x])]
                           = IF x \in Unsafe(C, T) THEN Raised ELSE Reading(q + Len(E[T][x]), x)
        <2> DEFINE e == E[T][x]
                   y == Additions[a]
        <2>1. e = y \o EncodeFields(E, FieldsWritten(W, reversed, T), x) \o y
            BY EncoderIs DEF Sound
        <2>2. EncodeFields(E, fs, x) = EncodeFields(E, FieldsWritten(W, reversed, T), x)
            BY WritersAgree DEF Sound
        <2>3. MessageHolds(C, T, x)
            BY MessagesHold DEF Sound
        <2> HIDE DEF e, E, D, fs
        <2>4. e = y \o EncodeFields(E, fs, x) \o y
            BY <2>1, <2>2
        <2>5. \A f \in Fields(C, T) : f.kind = "nested" => ReadsMessages(C, E, D, w, f.of)
            BY DEF E, D
        <2>6. \A f \in Fields(C, T) : f.kind = "nested" => \A z \in MessagesOf[f.of] : E[f.of][z] \in Seq(Int)
            BY <2>5 DEF ReadsMessages
        <2>7. e \in Seq(Int)
            <3>1. EncodeFields(E, fs, x) \in Seq(Int)
                BY <1>1, <2>3, <2>6, FieldsAreWritten DEF Sound
            <3>2. y \in Seq(Int)
                BY AdditionsType DEF AdditionsAreUnits
            <3> HIDE DEF y
            <3>3. y \o EncodeFields(E, fs, x) \in Seq(Int)
                BY <3>1, <3>2, ConcatProperties
            <3> QED
                BY <2>4, <3>2, <3>3, ConcatProperties
        <2>8. ASSUME NEW q \in Nat, Occurs(w, q, e)
              PROVE  D[T][q][q + Len(e)]
                         = IF x \in Unsafe(C, T) THEN Raised ELSE Reading(q + Len(e), x)
            <3> DEFINE end == q + Len(e)
            <3>1. Len(e) \in Nat /\ end \in Int /\ q <= Len(w)
                <4>1. Len(e) \in Nat
                    BY <2>7
                <4> QED
                    BY <2>8, <4>1 DEF Occurs
            <3>2. end = q + Len(e)
                OBVIOUS
            <3> HIDE DEF end, y
            <3>3. D[T][q][end] = DecodeMessage(C, D, T, w, q, end)
                BY <3>1, DecoderIs DEF Sound, D
            <3>4. DecodeMessage(C, D, T, w, q, end) = ReadingOf(C, T, x, end)
                <4>1. e = Additions[a] \o EncodeFields(E, fs, x) \o Additions[a]
                    BY <2>4 DEF y
                <4>2. FieldsAssumption(C) /\ T \in Types(C)
                    BY DEF Sound
                <4>3. w \in Seq(Int) /\ a \in DOMAIN Additions /\ q \in Nat /\ Occurs(w, q, e)
                    BY <2>8
                <4> QED
                    <5>1. Legible(C, T, w, E, D, x, fs, a, e, q, end)
                        BY <1>1, <2>3, <2>5, <3>2, <4>1, <4>2, <4>3 DEF Legible
                    <5> QED
                        BY <5>1, MessageRead
            <3>5. x \in Unsafe(C, T) <=> \E f \in Fields(C, T) : FieldUnsafe(C, f, x)
                BY UnsafeIs DEF Sound
            <3>6. ReadingOf(C, T, x, end) = IF x \in Unsafe(C, T) THEN Raised ELSE Reading(end, x)
                BY <3>5 DEF ReadingOf
            <3> QED
                BY <3>3, <3>4, <3>6 DEF end
        <2> QED
            BY <2>7, <2>8 DEF e
    <1> HIDE DEF E, D
    <1>3. ReadsMessages(C, E, D, w, T)
        BY <1>2 DEF ReadsMessages
    <1> QED
        BY <1>3 DEF E, D

\* Whatever order a codec writes the fields of a message in, and whatever it adds at every
\* level, the codec that shares its table reads the message it wrote, or raises when the
\* message holds what the reader cannot.
LEMMA DecodeInvertsEncode ==
    ASSUME NEW C, Sound(C), NEW W, Sound(W), Match(C, W),
           NEW reversed \in BOOLEAN, NEW a \in DOMAIN Additions, NEW w \in Seq(Int)
    PROVE  \A T \in Types(C) \cap Types(W) :
               ReadsMessages(C, Encoder(W, reversed, Additions[a]), Decoder(C, w), w, T)
    <1> DEFINE E == Encoder(W, reversed, Additions[a])
               D == Decoder(C, w)
               S == Types(C) \cap Types(W)
               A == {k \in Nat : \A T \in S : Depth[T] < k => ReadsMessages(C, E, D, w, T)}
    <1>1. \A T \in S : Depth[T] \in Nat
        BY DEF Sound, NestingAssumption
    <1>2. ASSUME NEW T \in S, NEW f \in Fields(C, T), f.kind = "nested"
          PROVE  f.of \in S /\ Depth[f.of] < Depth[T]
        <2>1. f.of \in Types(C) /\ Depth[f.of] < Depth[T]
            BY <1>2 DEF Sound, NestingAssumption
        <2>2. PICK i \in DOMAIN C.messages[T] : f = C.messages[T][i]
            BY DEF Fields, ToSet
        <2>3. /\ i \in DOMAIN W.messages[T] /\ Agree(C.messages[T][i], W.messages[T][i])
            BY <2>2 DEF Match
        <2> DEFINE g == W.messages[T][i]
        <2>4. g \in Fields(W, T)
            BY <2>3 DEF Fields, ToSet
        <2>5. g.kind = "nested" /\ g.of = f.of
            BY <1>2, <2>2, <2>3 DEF Agree
        <2> HIDE DEF g
        <2>6. g.of \in Types(W)
            BY <2>4, <2>5 DEF Sound, NestingAssumption
        <2> QED
            BY <2>1, <2>5, <2>6
    <1>3. 0 \in A
        BY <1>1
    <1>4. ASSUME NEW k \in Nat, k \in A PROVE k + 1 \in A
        <2>1. ASSUME NEW T \in S, Depth[T] < k + 1 PROVE ReadsMessages(C, E, D, w, T)
            <3>1. ASSUME NEW f \in Fields(C, T), f.kind = "nested" PROVE ReadsMessages(C, E, D, w, f.of)
                <4>1. f.of \in S /\ Depth[f.of] < Depth[T]
                    BY <1>2, <3>1
                <4>2. Depth[f.of] < k
                    BY <1>1, <2>1, <4>1
                <4> QED
                    BY <1>4, <4>1, <4>2
            <3> QED
                BY <3>1, OneLevelRead
        <2> QED
            BY <2>1
    <1>5. Nat \subseteq A
        <2> HIDE DEF A
        <2> QED
            BY <1>3, <1>4, NatInductionSet
    <1>6. ASSUME NEW T \in S PROVE ReadsMessages(C, E, D, w, T)
        <2>1. Depth[T] + 1 \in Nat /\ Depth[T] < Depth[T] + 1
            BY <1>1
        <2> QED
            BY <1>5, <2>1
    <1> QED
        BY <1>6

(* JSON: what toJSON writes fromJSON and fromPartial read.                 *)

JsonOf(C, style) == Solution("json", <<C, style>>, Types(C))
FilledOf(C, styles) == Solution("filled", <<C, styles>>, Types(C))

LEMMA InsideAlike ==
    ASSUME NEW f, NEW g, NEW h, f.kind = "nested" => g[f.of] = h[f.of], NEW v
    PROVE  Inside(g, f, v) = Inside(h, f, v)
    <1>1. CASE f.kind = "nested"
        BY <1>1 DEF Inside
    <1>2. CASE f.kind # "nested"
        BY <1>2 DEF Inside
    <1> QED
        BY <1>1, <1>2

\* One level of toJSON.
LEMMA JsonIs ==
    ASSUME NEW C, NestingAssumption(C), NEW style, NEW T \in Types(C), NEW m \in MessagesOf[T]
    PROVE  /\ ToJSON(C, T, m, style) = JsonOf(C, style)[T][m]
           /\ JsonOf(C, style)[T][m] = WriteObject(C, JsonOf(C, style), T, m, style)
    <1> DEFINE x == <<C, style>>
               J == JsonOf(C, style)
               P(f) == f = [U \in DOMAIN C.messages |->
                   [y \in MessagesOf[U] |-> WriteObject(C, f, U, y, style)]]
               Q(f) == Solves("json", x, Types(C), f)
    <1>1. \A f : P(f) <=> Q(f)
        BY DEF Solves, RecStep, JsonStep, Types
    <1>2. (CHOOSE f : P(f)) = (CHOOSE f : Q(f))
        <2> HIDE DEF P, Q
        <2> QED
            BY <1>1, Zenon
    <1>3. ToJSON(C, T, m, style) = (CHOOSE f : P(f))[T][m]
        BY DEF ToJSON
    <1>4. J = (CHOOSE f : Q(f))
        BY DEF Solution, JsonOf
    <1>5. ASSUME NEW U \in Types(C), NEW g PROVE RecStep("json", x, U, g) = JsonStep(C, style, U, g)
        BY DEF RecStep
    <1>6. ASSUME NEW U \in Types(C), NEW g, NEW h, SameInside(C, U, g, h)
          PROVE  RecStep("json", x, U, g) = RecStep("json", x, U, h)
        <2>1. \A f \in Fields(C, U) : \A v : Inside(g, f, v) = Inside(h, f, v)
            BY <1>6, InsideAlike DEF SameInside
        <2>2. \A y : WriteObject(C, g, U, y, style) = WriteObject(C, h, U, y, style)
            <3> SUFFICES ASSUME NEW y PROVE WriteObject(C, g, U, y, style) = WriteObject(C, h, U, y, style)
                OBVIOUS
            <3> DEFINE K == {f[style] : f \in Shown(C, U, y)}
                       F(k) == CHOOSE f \in Shown(C, U, y) : f[style] = k
            <3>1. \A k \in K : F(k) \in Fields(C, U)
                BY DEF Shown
            <3>2. WriteObject(C, g, U, y, style) = [k \in K |-> Inside(g, F(k), y[F(k).name])]
                BY DEF WriteObject
            <3>3. WriteObject(C, h, U, y, style) = [k \in K |-> Inside(h, F(k), y[F(k).name])]
                BY DEF WriteObject
            <3> HIDE DEF K, F
            <3>4. [k \in K |-> Inside(g, F(k), y[F(k).name])] = [k \in K |-> Inside(h, F(k), y[F(k).name])]
                BY <2>1, <3>1
            <3> QED
                BY <3>2, <3>3, <3>4
        <2>3. JsonStep(C, style, U, g) = JsonStep(C, style, U, h)
            BY <2>2 DEF JsonStep
        <2> QED
            BY <1>5, <2>3
    <1>7. J[T] = RecStep("json", x, T, J)
        BY <1>6, DepthRecursion DEF JsonOf
    <1>8. J[T] = JsonStep(C, style, T, J)
        BY <1>5, <1>7
    <1>9. ToJSON(C, T, m, style) = J[T][m]
        BY <1>2, <1>3, <1>4
    <1> HIDE DEF J
    <1>10. J[T][m] = WriteObject(C, J, T, m, style)
        BY <1>8 DEF JsonStep
    <1> QED
        BY <1>9, <1>10 DEF J

\* One level of fromJSON and fromPartial.
LEMMA FilledIs ==
    ASSUME NEW C, NestingAssumption(C), NEW styles, NEW T \in Types(C), NEW o \in Objects(C, T)
    PROVE  /\ Filled(C, T, o, styles) = FilledOf(C, styles)[T][o]
           /\ FilledOf(C, styles)[T][o] = ReadObject(C, FilledOf(C, styles), T, o, styles)
    <1> DEFINE x == <<C, styles>>
               R == FilledOf(C, styles)
               P(f) == f = [U \in DOMAIN C.messages |->
                   [y \in Objects(C, U) |-> ReadObject(C, f, U, y, styles)]]
               Q(f) == Solves("filled", x, Types(C), f)
    <1>1. \A f : P(f) <=> Q(f)
        BY DEF Solves, RecStep, FilledStep, Types
    <1>2. (CHOOSE f : P(f)) = (CHOOSE f : Q(f))
        <2> HIDE DEF P, Q
        <2> QED
            BY <1>1, Zenon
    <1>3. Filled(C, T, o, styles) = (CHOOSE f : P(f))[T][o]
        BY DEF Filled
    <1>4. R = (CHOOSE f : Q(f))
        BY DEF Solution, FilledOf
    <1>5. ASSUME NEW U \in Types(C), NEW g PROVE RecStep("filled", x, U, g) = FilledStep(C, styles, U, g)
        BY DEF RecStep
    <1>6. ASSUME NEW U \in Types(C), NEW g, NEW h, SameInside(C, U, g, h)
          PROVE  RecStep("filled", x, U, g) = RecStep("filled", x, U, h)
        <2>1. \A f \in Fields(C, U) : \A v : Inside(g, f, v) = Inside(h, f, v)
            BY <1>6, InsideAlike DEF SameInside
        <2>2. \A y : ReadObject(C, g, U, y, styles) = ReadObject(C, h, U, y, styles)
            <3> SUFFICES ASSUME NEW y PROVE ReadObject(C, g, U, y, styles) = ReadObject(C, h, U, y, styles)
                OBVIOUS
            <3> DEFINE N == Names(Fields(C, U))
                       F(n) == FieldNamed(Fields(C, U), n)
            <3>1. \A n \in N : F(n) \in Fields(C, U)
                BY DEF Names, FieldNamed
            <3>2. ReadObject(C, g, U, y, styles) = [n \in N |-> ReadField(g, F(n), y, styles)]
                BY DEF ReadObject
            <3>3. ReadObject(C, h, U, y, styles) = [n \in N |-> ReadField(h, F(n), y, styles)]
                BY DEF ReadObject
            <3>4. \A f \in Fields(C, U) : ReadField(g, f, y, styles) = ReadField(h, f, y, styles)
                BY <2>1 DEF ReadField
            <3> HIDE DEF N, F
            <3>5. [n \in N |-> ReadField(g, F(n), y, styles)] = [n \in N |-> ReadField(h, F(n), y, styles)]
                BY <3>1, <3>4
            <3> QED
                BY <3>2, <3>3, <3>5
        <2>3. FilledStep(C, styles, U, g) = FilledStep(C, styles, U, h)
            BY <2>2 DEF FilledStep
        <2> QED
            BY <1>5, <2>3
    <1>7. R[T] = RecStep("filled", x, T, R)
        BY <1>6, DepthRecursion DEF FilledOf
    <1>8. R[T] = FilledStep(C, styles, T, R)
        BY <1>5, <1>7
    <1>9. Filled(C, T, o, styles) = R[T][o]
        BY <1>2, <1>3, <1>4
    <1> HIDE DEF R
    <1>10. R[T][o] = ReadObject(C, R, T, o, styles)
        BY <1>8 DEF FilledStep
    <1> QED
        BY <1>9, <1>10 DEF R

\* Two conversions undo each other on the messages of type U.
Undoes(read, json, U) == \A y \in MessagesOf[U] : read[U][json[U][y]] = y

LEMMA InsideBack ==
    ASSUME NEW C, FieldsAssumption(C), NEW T \in Types(C), NEW f \in Fields(C, T), NEW v,
           FieldHolds(f, v), v # Default(f),
           NEW read, NEW json, f.kind = "nested" => Undoes(read, json, f.of)
    PROVE  Inside(read, f, Inside(json, f, v)) = v
    <1>1. f.many \in BOOLEAN
        BY FieldsAreSound
    <1>2. CASE f.kind # "nested"
        BY <1>2 DEF Inside
    <1>3. CASE f.kind = "nested" /\ f.many
        <2> DEFINE U == f.of
                   u == [i \in DOMAIN v |-> json[U][v[i]]]
        <2>1. v \in Seq(MessagesOf[U])
            BY <1>3 DEF FieldHolds, ValuesOf
        <2>2. Inside(json, f, v) = u
            BY <1>3 DEF Inside
        <2>3. Inside(read, f, u) = [i \in DOMAIN u |-> read[U][u[i]]]
            BY <1>3 DEF Inside
        <2>4. \A y \in MessagesOf[U] : read[U][json[U][y]] = y
            BY <1>3 DEF Undoes
        <2> HIDE DEF U
        <2>5. DOMAIN u = DOMAIN v /\ \A i \in DOMAIN v : u[i] = json[U][v[i]]
            OBVIOUS
        <2>6. v = [i \in DOMAIN v |-> v[i]] /\ \A i \in DOMAIN v : v[i] \in MessagesOf[U]
            BY <2>1
        <2> HIDE DEF u
        <2>7. [i \in DOMAIN u |-> read[U][u[i]]] = [i \in DOMAIN v |-> v[i]]
            BY <2>4, <2>5, <2>6
        <2> QED
            BY <2>2, <2>3, <2>6, <2>7
    <1>4. CASE f.kind = "nested" /\ ~f.many
        <2>1. v \in MessagesOf[f.of]
            BY <1>4 DEF FieldHolds, ValuesOf, Default
        <2> QED
            BY <1>4, <2>1 DEF Inside, Undoes
    <1> QED
        BY <1>1, <1>2, <1>3, <1>4

LEMMA ObjectRead ==
    ASSUME NEW C, FieldsAssumption(C), NEW T \in Types(C), NEW m, MessageHolds(C, T, m),
           NEW style \in {"name", "alias"}, NEW styles, style \in styles,
           NEW read, NEW json,
           \A f \in Fields(C, T) : f.kind = "nested" => Undoes(read, json, f.of)
    PROVE  ReadObject(C, read, T, WriteObject(C, json, T, m, style), styles) = m
    <1> DEFINE S == Shown(C, T, m)
               F(k) == CHOOSE g \in S : g[style] = k
               K == {f[style] : f \in S}
               o == WriteObject(C, json, T, m, style)
    <1>1. o = [k \in K |-> Inside(json, F(k), m[F(k).name])]
        BY DEF WriteObject
    <1>2. \A f : f[style] \in {f.name, f.alias}
        OBVIOUS
    <1>3. \A f \in Fields(C, T), g \in Fields(C, T) : f # g => {f.name, f.alias} \cap {g.name, g.alias} = {}
        BY FieldsAreDistinct
    <1>4. S = {f \in Fields(C, T) : m[f.name] # Default(f)}
        BY DEF Shown
    <1> HIDE DEF S
    <1>5. ASSUME NEW f \in S PROVE F(f[style]) = f
        BY <1>2, <1>3, <1>4
    <1> HIDE DEF F
    <1>6. DOMAIN o = K /\ \A f \in S : o[f[style]] = Inside(json, f, m[f.name])
        <2> HIDE DEF K
        <2>1. DOMAIN o = K /\ \A k \in K : o[k] = Inside(json, F(k), m[F(k).name])
            BY <1>1
        <2>2. \A f \in S : f[style] \in K
            BY DEF K
        <2> HIDE DEF o
        <2> QED
            BY <1>5, <2>1, <2>2
    <1> HIDE DEF o
    <1>7. ASSUME NEW f \in Fields(C, T) PROVE ReadField(read, f, o, styles) = m[f.name]
        <2>1. CASE m[f.name] = Default(f)
            <3>1. f.name \notin K /\ f.alias \notin K
                BY <1>2, <1>3, <1>4, <2>1
            <3> QED
                BY <1>6, <2>1, <3>1 DEF ReadField
        <2>2. CASE m[f.name] # Default(f)
            <3>1. f \in S
                BY <1>4, <2>2
            <3>2. f[style] \in K
                BY <3>1
            <3>3. Inside(read, f, o[f[style]]) = m[f.name]
                <4>1. FieldHolds(f, m[f.name])
                    BY DEF MessageHolds
                <4>2. Inside(read, f, Inside(json, f, m[f.name])) = m[f.name]
                    BY <2>2, <4>1, InsideBack
                <4> QED
                    BY <1>6, <3>1, <4>2
            <3>4. CASE style = "name"
                BY <1>6, <3>2, <3>3, <3>4 DEF ReadField
            <3>5. CASE style = "alias"
                <4>1. f.name \in K => f.name = f.alias
                    BY <1>3, <1>4, <3>5
                <4> QED
                    BY <1>6, <3>2, <3>3, <3>5, <4>1 DEF ReadField
            <3> QED
                BY <3>4, <3>5
        <2> QED
            BY <2>1, <2>2
    <1> DEFINE N == Names(Fields(C, T))
               G(n) == FieldNamed(Fields(C, T), n)
    <1>8. ReadObject(C, read, T, o, styles) = [n \in N |-> ReadField(read, G(n), o, styles)]
        BY DEF ReadObject
    <1>9. \A n \in N : G(n) \in Fields(C, T) /\ G(n).name = n
        BY DEF Names, FieldNamed
    <1>10. m = [n \in N |-> m[n]]
        BY DEF MessageHolds
    <1> HIDE DEF N, G
    <1>11. [n \in N |-> ReadField(read, G(n), o, styles)] = [n \in N |-> m[n]]
        BY <1>7, <1>9
    <1> QED
        BY <1>8, <1>10, <1>11 DEF o

\* What toJSON makes of a message under either of the names of its fields, and what reads
\* under that name makes the message of it again.
LEMMA FilledInvertsToJSON ==
    ASSUME NEW C, Sound(C), NEW style \in {"name", "alias"}, NEW styles, style \in styles,
           NEW T \in Types(C), NEW m \in MessagesOf[T]
    PROVE  Filled(C, T, ToJSON(C, T, m, style), styles) = m
    <1> DEFINE J == JsonOf(C, style)
               R == FilledOf(C, styles)
               A == {k \in Nat : \A U \in Types(C) : Depth[U] < k => Undoes(R, J, U)}
    <1>1. \A U \in Types(C) : Depth[U] \in Nat
        BY DEF Sound, NestingAssumption
    <1>2. ASSUME NEW U \in Types(C), NEW y \in MessagesOf[U]
          PROVE  /\ ToJSON(C, U, y, style) = J[U][y] /\ J[U][y] = WriteObject(C, J, U, y, style)
                 /\ Filled(C, U, J[U][y], styles) = R[U][J[U][y]]
                 /\ R[U][J[U][y]] = ReadObject(C, R, U, J[U][y], styles)
        <2>1. ToJSON(C, U, y, style) = J[U][y] /\ J[U][y] = WriteObject(C, J, U, y, style)
            BY JsonIs DEF Sound
        <2>2. J[U][y] \in Objects(C, U)
            BY <2>1 DEF Objects
        <2> QED
            BY <2>1, <2>2, FilledIs DEF Sound
    <1> HIDE DEF J, R
    <1>3. ASSUME NEW U \in Types(C), \A f \in Fields(C, U) : f.kind = "nested" => Undoes(R, J, f.of)
          PROVE  Undoes(R, J, U)
        <2> SUFFICES ASSUME NEW y \in MessagesOf[U] PROVE R[U][J[U][y]] = y
            BY DEF Undoes
        <2>1. MessageHolds(C, U, y)
            BY MessagesHold DEF Sound
        <2>2. FieldsAssumption(C)
            BY DEF Sound
        <2>3. ReadObject(C, R, U, WriteObject(C, J, U, y, style), styles) = y
            BY <1>3, <2>1, <2>2, ObjectRead
        <2> QED
            BY <1>2, <2>3
    <1>4. 0 \in A
        BY <1>1
    <1>5. ASSUME NEW k \in Nat, k \in A PROVE k + 1 \in A
        <2>1. ASSUME NEW U \in Types(C), Depth[U] < k + 1 PROVE Undoes(R, J, U)
            <3>1. ASSUME NEW f \in Fields(C, U), f.kind = "nested" PROVE Undoes(R, J, f.of)
                <4>1. f.of \in Types(C) /\ Depth[f.of] < Depth[U]
                    BY <3>1 DEF Sound, NestingAssumption
                <4>2. Depth[f.of] < k
                    BY <1>1, <2>1, <4>1
                <4> QED
                    BY <1>5, <4>1, <4>2
            <3> QED
                BY <1>3, <3>1
        <2> QED
            BY <2>1
    <1>6. Nat \subseteq A
        <2> HIDE DEF A
        <2> QED
            BY <1>4, <1>5, NatInductionSet
    <1>7. Undoes(R, J, T)
        <2>1. Depth[T] + 1 \in Nat /\ Depth[T] < Depth[T] + 1
            BY <1>1
        <2> QED
            BY <1>6, <2>1
    <1> QED
        BY <1>2, <1>7 DEF Undoes

(* A whole message, and the assumptions the runs instantiate.              *)

\* What C makes of a message of type T that W wrote.
ReadsBack(C, W, reversed, a, T, x) ==
    LET w == Encoder(W, reversed, Additions[a])[T][x]
    IN  Decode(C, T, w) = IF x \in Unsafe(C, T) THEN Raised ELSE Reading(Len(w), x)

\* Decode reads the message that encode wrote, in whatever order its fields were written and
\* whatever was added at every level of it, and it raises exactly when the message holds a
\* number the reading codec cannot.
THEOREM DecodeReadsWhatEncodeWrote ==
    ASSUME NEW C, Sound(C), NEW W, Sound(W), Match(C, W), NEW T \in Types(C) \cap Types(W),
           NEW reversed \in BOOLEAN, NEW a \in DOMAIN Additions, NEW x \in MessagesOf[T]
    PROVE  ReadsBack(C, W, reversed, a, T, x)
    <1> DEFINE E == Encoder(W, reversed, Additions[a])
               w == E[T][x]
    <1>1. w \in Seq(Int)
        <2> DEFINE e == << >>
        <2>1. e \in Seq(Int)
            OBVIOUS
        <2> HIDE DEF e
        <2>2. ReadsMessages(C, E, Decoder(C, e), e, T)
            BY <2>1, DecodeInvertsEncode
        <2> HIDE DEF E
        <2> QED
            BY <2>2 DEF ReadsMessages
    <1> HIDE DEF w
    <1>2. ReadsMessages(C, E, Decoder(C, w), w, T)
        BY <1>1, DecodeInvertsEncode
    <1>3. w = E[T][x]
        BY DEF w
    <1> HIDE DEF E
    <1>4. Occurs(w, 0, E[T][x])
        BY <1>1, <1>3 DEF Occurs
    <1>5. Decoder(C, w)[T][0][0 + Len(w)]
              = IF x \in Unsafe(C, T) THEN Raised ELSE Reading(0 + Len(w), x)
        BY <1>2, <1>3, <1>4 DEF ReadsMessages
    <1>6. 0 + Len(w) = Len(w)
        BY <1>1
    <1>7. Decode(C, T, w) = IF x \in Unsafe(C, T) THEN Raised ELSE Reading(Len(w), x)
        BY <1>5, <1>6 DEF Decode
    <1> QED
        BY <1>3, <1>7 DEF ReadsBack, E

\* JSON written under either name of the fields reads back as the message it was made of: by
\* fromJSON, and by fromPartial where the names are the generated code's.
THEOREM JsonReadsBack ==
    ASSUME NEW C, Sound(C), NEW T \in Types(C), NEW m \in MessagesOf[T],
           NEW style \in {"name", "alias"}
    PROVE  /\ FromJSON(C, T, ToJSON(C, T, m, style)) = m
           /\ style = "name" => FromPartial(C, T, ToJSON(C, T, m, style)) = m
    BY FilledInvertsToJSON DEF FromJSON, FromPartial

LEMMA Agreeing ==
    ASSUME NEW C, ProtocolAssumption(C)
    PROVE  Match(C, Peer) /\ Match(Peer, C) /\ Types(C) \subseteq Types(Peer)
    BY DEF ProtocolAssumption, Match, Agree

LEMMA CodecsAreSound ==
    ASSUME NEW c \in Calls
    PROVE  /\ Sound(Peer) /\ Sound(Codecs[c.codec])
           /\ Match(Codecs[c.codec], Peer) /\ Match(Peer, Codecs[c.codec])
           /\ c.method.request \in Types(Codecs[c.codec]) \cap Types(Peer)
           /\ c.method.response \in Types(Codecs[c.codec]) \cap Types(Peer)
           /\ \A m \in Offered(c.method.path) :
                 m.request = c.method.request /\ m.response = c.method.response
    <1>1. c.codec \in DOMAIN Codecs
        BY DEF Calls
    <1>2. Sound(Codecs[c.codec]) /\ ProtocolAssumption(Codecs[c.codec])
        BY <1>1, WireAssumption DEF Sound, ProtocolAssumption
    <1>3. Sound(Peer)
        BY WireAssumption DEF Sound, ProtocolAssumption
    <1>4. /\ Match(Codecs[c.codec], Peer) /\ Match(Peer, Codecs[c.codec])
          /\ Types(Codecs[c.codec]) \subseteq Types(Peer)
        BY <1>2, Agreeing
    <1>5. /\ c.method.request \in Types(Codecs[c.codec]) /\ c.method.response \in Types(Codecs[c.codec])
          /\ \A m \in Offered(c.method.path) :
                m.request = c.method.request /\ m.response = c.method.response
        BY WireAssumption DEF ServicesAssumption
    <1> QED
        BY <1>2, <1>3, <1>4, <1>5

\* A service can hold every message there is.
LEMMA PeerHoldsAll ==
    ASSUME Sound(Peer), NEW T \in Types(Peer)
    PROVE  Unsafe(Peer, T) = {}
    <1> DEFINE u == UnsafeOf(Peer)
               A == {k \in Nat : \A U \in Types(Peer) : Depth[U] < k => u[U] = {}}
    <1>1. \A U \in Types(Peer) : Depth[U] \in Nat
        BY DEF Sound, NestingAssumption
    <1>2. ASSUME NEW U \in Types(Peer) PROVE Unsafe(Peer, U) = u[U] /\ u[U] = UnsafeStep(Peer, U, u)
        BY UnsafeOfIs DEF Sound
    <1> HIDE DEF u
    <1>3. ASSUME NEW U \in Types(Peer), \A f \in Fields(Peer, U) : f.kind = "nested" => u[f.of] = {}
          PROVE  u[U] = {}
        <2>1. ASSUME NEW m \in MessagesOf[U], NEW f \in Fields(Peer, U)
              PROVE  ~UnsafeField(Peer, u, f, m[f.name])
            <3> DEFINE v == m[f.name]
            <3>1. FieldHolds(f, v) /\ f.many \in BOOLEAN /\ (f.many => f.kind \in {"text", "nested"})
                <4>1. MessageHolds(Peer, U, m)
                    BY MessagesHold DEF Sound
                <4> QED
                    BY <4>1, FieldsAreSound DEF Sound, MessageHolds
            <3> HIDE DEF v
            <3>2. CASE f.kind = "int64"
                <4>1. v \in -Peer.safe..Peer.safe /\ Peer.safe \in Nat
                    BY <3>1, <3>2 DEF FieldHolds, ValuesOf, Sound
                <4>2. ~(v > Peer.safe \/ v < -Peer.safe)
                    BY <4>1
                <4> QED
                    BY <3>2, <4>2 DEF UnsafeField, v
            <3>3. CASE f.kind = "nested"
                BY <1>3, <3>1, <3>3 DEF UnsafeField
            <3>4. CASE f.kind \notin {"int64", "nested"}
                BY <3>4 DEF UnsafeField
            <3> QED
                BY <3>2, <3>3, <3>4
        <2> QED
            BY <1>2, <2>1 DEF UnsafeStep
    <1>4. 0 \in A
        BY <1>1
    <1>5. ASSUME NEW k \in Nat, k \in A PROVE k + 1 \in A
        <2>1. ASSUME NEW U \in Types(Peer), Depth[U] < k + 1 PROVE u[U] = {}
            <3>1. ASSUME NEW f \in Fields(Peer, U), f.kind = "nested" PROVE u[f.of] = {}
                <4>1. f.of \in Types(Peer) /\ Depth[f.of] < Depth[U]
                    BY <3>1 DEF Sound, NestingAssumption
                <4>2. Depth[f.of] < k
                    BY <1>1, <2>1, <4>1
                <4> QED
                    BY <1>5, <4>1, <4>2
            <3> QED
                BY <1>3, <3>1
        <2> QED
            BY <2>1
    <1>6. Nat \subseteq A
        <2> HIDE DEF A
        <2> QED
            BY <1>4, <1>5, NatInductionSet
    <1>7. u[T] = {}
        <2>1. Depth[T] + 1 \in Nat /\ Depth[T] < Depth[T] + 1
            BY <1>1
        <2> QED
            BY <1>6, <2>1
    <1> QED
        BY <1>2, <1>7

(* The call.                                                               *)

Stages == {"calling", "requested", "received", "answered", "seen", "published", "done"}
Answered == {"answered", "seen", "published", "done"}
Read == {"seen", "published", "done"}

Response == call.method.response

\* What the parties hold is what the other one gave them, and what is under way or published
\* was made of it.
CallInv == /\ call \in Calls
           /\ stage \in Stages
           /\ request \in MessagesOf[call.method.request]
           /\ stage \in Answered => answer \in MessagesOf[Response]
RequestInv ==
    /\ stage = "requested" => wire = Encoder(Caller, FALSE, << >>)[call.method.request][request]
    /\ stage \notin {"calling", "requested"} => received.ok /\ received.value = request
AnswerInv ==
    /\ stage = "answered" => \E addition \in DOMAIN Additions, reversed \in BOOLEAN :
                                 wire = Encoder(Peer, reversed, Additions[addition])[Response][answer]
    /\ stage \in Read => /\ seen.ok \in BOOLEAN
                         /\ seen.ok <=> answer \notin Unsafe(Caller, Response)
                         /\ seen.ok => seen.value = answer
DocumentInv ==
    /\ stage \in {"published", "done"} => seen.ok
    /\ stage = "published" => /\ document.style \in {"name", "alias"}
                              /\ document.json = ToJSON(Caller, Response, answer, document.style)
    /\ stage = "done" => copy.json = answer /\ copy.partial = answer
IInv == CallInv /\ RequestInv /\ AnswerInv /\ DocumentInv

\* What is under way is one reading away from its sender's message.
LEMMA RequestRead ==
    ASSUME NEW c \in Calls, NEW x \in MessagesOf[c.method.request]
    PROVE  LET w == Encoder(Codecs[c.codec], FALSE, << >>)[c.method.request][x]
           IN  Decode(Peer, c.method.request, w) = Reading(Len(w), x)
    <1> DEFINE C == Codecs[c.codec]
               T == c.method.request
    <1>1. /\ Sound(Peer) /\ Sound(C) /\ Match(Peer, C) /\ T \in Types(Peer) \cap Types(C)
        BY CodecsAreSound
    <1>2. "nothing" \in DOMAIN Additions /\ Additions["nothing"] = << >>
        BY DEF Additions
    <1>3. Unsafe(Peer, T) = {}
        BY <1>1, PeerHoldsAll
    <1> HIDE DEF C, T
    <1>4. x \in MessagesOf[T]
        BY DEF T
    <1>5. ReadsBack(Peer, C, FALSE, "nothing", T, x)
        BY <1>1, <1>2, <1>4, DecodeReadsWhatEncodeWrote
    <1>6. LET w == Encoder(C, FALSE, << >>)[T][x] IN Decode(Peer, T, w) = Reading(Len(w), x)
        BY <1>2, <1>3, <1>5 DEF ReadsBack
    <1> QED
        BY <1>6 DEF C, T

LEMMA AnswerRead ==
    ASSUME NEW c \in Calls, NEW x \in MessagesOf[c.method.response],
           NEW reversed \in BOOLEAN, NEW a \in DOMAIN Additions
    PROVE  ReadsBack(Codecs[c.codec], Peer, reversed, a, c.method.response, x)
    <1> DEFINE C == Codecs[c.codec]
               T == c.method.response
    <1>1. Sound(C) /\ Sound(Peer) /\ Match(C, Peer) /\ T \in Types(C) \cap Types(Peer)
        BY CodecsAreSound
    <1>2. x \in MessagesOf[T]
        OBVIOUS
    <1> HIDE DEF C, T
    <1>3. ReadsBack(C, Peer, reversed, a, T, x)
        BY <1>1, <1>2, DecodeReadsWhatEncodeWrote
    <1> QED
        BY <1>3 DEF C, T

LEMMA ReadingHolds == \A p, v : Reading(p, v).ok = TRUE /\ Reading(p, v).value = v
    BY DEF Reading

LEMMA InitHolds == Init => IInv
    <1> SUFFICES ASSUME Init PROVE IInv
        OBVIOUS
    <1>1. CallInv
        BY DEF Init, CallInv, Stages, Answered
    <1>2. RequestInv /\ AnswerInv /\ DocumentInv
        BY DEF Init, RequestInv, AnswerInv, DocumentInv, Answered, Read
    <1> QED
        BY <1>1, <1>2 DEF IInv

LEMMA RequestSerializeKeeps == IInv /\ RequestSerialize => IInv'
    <1> SUFFICES ASSUME IInv, RequestSerialize PROVE IInv'
        OBVIOUS
    <1>1. CallInv'
        BY DEF IInv, CallInv, RequestSerialize, Stages, Answered, Response
    <1>2. RequestInv'
        BY DEF IInv, RequestInv, RequestSerialize, Caller, Encode
    <1>3. AnswerInv' /\ DocumentInv'
        BY DEF RequestSerialize, AnswerInv, DocumentInv, Read
    <1> QED
        BY <1>1, <1>2, <1>3 DEF IInv

LEMMA PeerReceivesKeeps == IInv /\ PeerReceives => IInv'
    <1> SUFFICES ASSUME IInv, PeerReceives PROVE IInv'
        OBVIOUS
    <1>1. CallInv'
        BY DEF IInv, CallInv, PeerReceives, Stages, Answered, Response
    <1>2. RequestInv'
        <2> DEFINE T == call.method.request
                   w == Encoder(Caller, FALSE, << >>)[T][request]
        <2>1. stage' = "received" /\ UNCHANGED <<call, request>>
            BY DEF PeerReceives
        <2>2. wire = w /\ call \in Calls /\ request \in MessagesOf[T]
            BY DEF IInv, CallInv, RequestInv, PeerReceives
        <2>3. received' = Decode(Peer, T, wire)
            BY <2>2, CodecsAreSound DEF PeerReceives
        <2>4. Decode(Peer, T, w) = Reading(Len(w), request)
            BY <2>2, RequestRead DEF Caller
        <2> HIDE DEF w, T
        <2>5. received' = Reading(Len(w), request)
            BY <2>2, <2>3, <2>4
        <2>6. received'.ok /\ received'.value = request
            BY <2>5, ReadingHolds
        <2> QED
            BY <2>1, <2>6 DEF RequestInv
    <1>3. AnswerInv' /\ DocumentInv'
        BY DEF PeerReceives, AnswerInv, DocumentInv, Read
    <1> QED
        BY <1>1, <1>2, <1>3 DEF IInv

LEMMA PeerAnswersKeeps == IInv /\ PeerAnswers => IInv'
    <1> SUFFICES ASSUME IInv, PeerAnswers PROVE IInv'
        OBVIOUS
    <1>1. PICK m \in Offered(call.method.path), addition \in DOMAIN Additions, reversed \in BOOLEAN :
              /\ answer' \in MessagesOf[m.response]
              /\ wire' = Encoder(Peer, reversed, Additions[addition])[m.response][answer']
        BY DEF PeerAnswers
    <1>2. stage' = "answered" /\ UNCHANGED <<call, request, received>>
        BY DEF PeerAnswers
    <1>3. m.response = Response
        BY CodecsAreSound DEF IInv, CallInv, Response
    <1>4. CallInv'
        BY <1>1, <1>2, <1>3 DEF IInv, CallInv, Stages, Answered, Response
    <1>5. RequestInv'
        BY <1>2 DEF PeerAnswers, IInv, RequestInv
    <1>6. AnswerInv'
        <2>1. \E a \in DOMAIN Additions, r \in BOOLEAN :
                  wire' = Encoder(Peer, r, Additions[a])[Response][answer']
            BY <1>1, <1>3
        <2>2. Response' = Response
            BY <1>2 DEF Response
        <2> QED
            BY <1>2, <2>1, <2>2 DEF AnswerInv, Read
    <1>7. DocumentInv'
        BY <1>2 DEF DocumentInv
    <1> QED
        BY <1>4, <1>5, <1>6, <1>7 DEF IInv

LEMMA ResponseDeserializeKeeps == IInv /\ ResponseDeserialize => IInv'
    <1> SUFFICES ASSUME IInv, ResponseDeserialize PROVE IInv'
        OBVIOUS
    <1>1. CallInv'
        BY DEF IInv, CallInv, ResponseDeserialize, Stages, Answered, Response
    <1>2. RequestInv'
        BY DEF IInv, RequestInv, ResponseDeserialize
    <1>3. AnswerInv'
        <2> DEFINE U == Unsafe(Caller, Response)
        <2>1. /\ stage' = "seen" /\ UNCHANGED <<call, answer>>
              /\ seen' = Decode(Caller, Response, wire)
            BY DEF ResponseDeserialize, Response
        <2>2. PICK addition \in DOMAIN Additions, reversed \in BOOLEAN :
                  wire = Encoder(Peer, reversed, Additions[addition])[Response][answer]
            BY DEF IInv, AnswerInv, ResponseDeserialize
        <2>3. call \in Calls /\ answer \in MessagesOf[Response]
            BY DEF IInv, CallInv, ResponseDeserialize, Answered
        <2>4. ReadsBack(Caller, Peer, reversed, addition, Response, answer)
            BY <2>3, AnswerRead DEF Caller, Response
        <2>5. seen' = IF answer \in U THEN Raised ELSE Reading(Len(wire), answer)
            BY <2>1, <2>2, <2>4 DEF ReadsBack
        <2>6. U' = U /\ Response' = Response
            BY <2>1 DEF Caller, Response
        <2> HIDE DEF U
        <2>7. /\ seen'.ok \in BOOLEAN /\ (seen'.ok <=> answer \notin U)
              /\ (seen'.ok => seen'.value = answer)
            BY <2>5, ReadingHolds DEF Raised
        <2> QED
            BY <2>1, <2>6, <2>7 DEF AnswerInv, Read, U
    <1>4. DocumentInv'
        BY DEF ResponseDeserialize, DocumentInv
    <1> QED
        BY <1>1, <1>2, <1>3, <1>4 DEF IInv

LEMMA PublishJSONKeeps == IInv /\ PublishJSON => IInv'
    <1> SUFFICES ASSUME IInv, PublishJSON PROVE IInv'
        OBVIOUS
    <1>1. CallInv'
        BY DEF IInv, CallInv, PublishJSON, Stages, Answered, Response
    <1>2. RequestInv'
        BY DEF IInv, RequestInv, PublishJSON
    <1>3. AnswerInv'
        BY DEF IInv, AnswerInv, PublishJSON, Read, Response, Caller
    <1>4. DocumentInv'
        <2>1. PICK style \in {"name", "alias"} :
                  document' = [style |-> style, json |-> ToJSON(Caller, Response, seen.value, style)]
            BY DEF PublishJSON, Response
        <2>2. seen.ok /\ seen.value = answer /\ stage' = "published" /\ UNCHANGED <<call, answer, seen>>
            BY DEF IInv, AnswerInv, PublishJSON, Read
        <2>3. document'.style = style /\ document'.json = ToJSON(Caller, Response, answer, style)
            BY <2>1, <2>2
        <2>4. Caller' = Caller /\ Response' = Response
            BY <2>2 DEF Caller, Response
        <2> QED
            BY <2>2, <2>3, <2>4 DEF DocumentInv
    <1> QED
        BY <1>1, <1>2, <1>3, <1>4 DEF IInv

LEMMA ReadJSONKeeps == IInv /\ ReadJSON => IInv'
    <1> SUFFICES ASSUME IInv, ReadJSON PROVE IInv'
        OBVIOUS
    <1>1. CallInv'
        BY DEF IInv, CallInv, ReadJSON, Stages, Answered, Response
    <1>2. RequestInv'
        BY DEF IInv, RequestInv, ReadJSON
    <1>3. AnswerInv'
        BY DEF IInv, AnswerInv, ReadJSON, Read, Response, Caller
    <1>4. DocumentInv'
        <2> DEFINE o == document.json
                   partial == IF document.style = "name" THEN FromPartial(Caller, Response, o) ELSE seen.value
        <2>1. stage' = "done" /\ copy' = [json |-> FromJSON(Caller, Response, o), partial |-> partial]
            BY DEF ReadJSON, Response
        <2>2. UNCHANGED <<answer, seen>>
            BY DEF ReadJSON
        <2>3. /\ document.style \in {"name", "alias"} /\ o = ToJSON(Caller, Response, answer, document.style)
              /\ seen.ok
            BY DEF IInv, DocumentInv, ReadJSON
        <2>4. seen.value = answer
            BY <2>3 DEF IInv, AnswerInv, ReadJSON, Read
        <2>5. Sound(Caller) /\ Response \in Types(Caller) /\ answer \in MessagesOf[Response]
            BY CodecsAreSound DEF IInv, CallInv, ReadJSON, Answered, Caller, Response
        <2> HIDE DEF o
        <2>6. /\ FromJSON(Caller, Response, o) = answer
              /\ document.style = "name" => FromPartial(Caller, Response, o) = answer
            BY <2>3, <2>5, JsonReadsBack
        <2>7. partial = answer
            BY <2>4, <2>6
        <2> HIDE DEF partial
        <2>8. copy'.json = answer /\ copy'.partial = answer
            BY <2>1, <2>6, <2>7
        <2> QED
            BY <2>1, <2>2, <2>3, <2>8 DEF DocumentInv
    <1> QED
        BY <1>1, <1>2, <1>3, <1>4 DEF IInv

\* A step of the call keeps what the parties know of each other.
THEOREM WireInvariant == Spec => []IInv
    <1>1. ASSUME IInv, [Next]_vars PROVE IInv'
        <2>1. CASE UNCHANGED vars
            BY <1>1, <2>1 DEF vars, IInv, CallInv, RequestInv, AnswerInv, DocumentInv, Caller, Response
        <2> QED
            BY <1>1, <2>1, RequestSerializeKeeps, PeerReceivesKeeps, PeerAnswersKeeps,
               ResponseDeserializeKeeps, PublishJSONKeeps, ReadJSONKeeps DEF Next
    <1> QED
        BY InitHolds, <1>1, PTL DEF Spec

\* Whatever the request and the messages of the protocol are, the service reads exactly what
\* the caller asked.
THEOREM RequestsArriveAlways == Spec => []RequestsArrive
    <1>1. IInv => RequestsArrive
        BY DEF IInv, RequestInv, RequestsArrive
    <1> QED
        BY <1>1, WireInvariant, PTL

\* The caller reads exactly what the service answered, whatever order its fields came in and
\* whatever a newer service added at any level.
THEOREM AnswersArriveAlways == Spec => []AnswersArrive
    <1>1. IInv => AnswersArrive
        BY DEF IInv, AnswerInv, AnswersArrive, Read
    <1> QED
        BY <1>1, WireInvariant, PTL

\* Reading an answer raises exactly when an amount in it, at any depth, is beyond what the
\* caller can hold.
THEOREM OnlyUnsafeAmountsRaiseAlways == Spec => []OnlyUnsafeAmountsRaise
    <1>1. IInv => OnlyUnsafeAmountsRaise
        BY DEF IInv, AnswerInv, OnlyUnsafeAmountsRaise, Read, Response
    <1> QED
        BY <1>1, WireInvariant, PTL

\* An answer handed on as JSON reads back as it was.
THEOREM JsonKeepsMessagesAlways == Spec => []JsonKeepsMessages
    <1>1. IInv => JsonKeepsMessages
        BY DEF IInv, DocumentInv, JsonKeepsMessages
    <1> QED
        BY <1>1, WireInvariant, PTL

=============================================================================
