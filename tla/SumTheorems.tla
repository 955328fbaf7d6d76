---------------------------- MODULE SumTheorems ----------------------------
(***************************************************************************)
(* Induction over finite sets and natural numbers, as facts about sets,    *)
(* and what follows for sums over a finite set.                            *)
(***************************************************************************)
EXTENDS Integers, FiniteSetsExt, FiniteSetTheorems, WellFoundedInduction, TLAPS

(* Induction *)

\* Among finite sets there is one with no other of them inside it.
LEMMA SmallestSubset ==
    ASSUME NEW S, IsFiniteSet(S), NEW B \in SUBSET (SUBSET S), B # {}
    PROVE  \E s \in B : \A t \in B : t \subseteq s => t = s
    <1>1. IsWellFoundedOn(StrictSubsetOrdering(S), SUBSET S)
        BY FS_StrictSubsetOrderingWellFounded, FS_FiniteSubsetsOfFinite
    <1>2. PICK s \in B : \A t \in B : <<t, s>> \notin StrictSubsetOrdering(S)
        BY <1>1, WFMin, Zenon
    <1>3. ASSUME NEW t \in B, t \subseteq s, t # s PROVE FALSE
        BY <1>2, <1>3 DEF StrictSubsetOrdering
    <1> QED
        BY <1>3

\* A set of natural numbers closed under successor from 0 is all of them.
LEMMA NatInductionSet ==
    ASSUME NEW A, 0 \in A, \A k \in Nat : k \in A => k + 1 \in A
    PROVE  Nat \subseteq A
    <1> SUFFICES ASSUME Nat \ A # {} PROVE FALSE
        OBVIOUS
    <1> DEFINE B == Nat \ A
               R == OpToRel(<, Nat)
    <1>1. B \subseteq Nat /\ B # {}
        OBVIOUS
    <1>2. IsWellFoundedOn(R, Nat)
        BY NatLessThanWellFounded
    <1>3. PICK k \in B : \A j \in B : ~(<<j, k>> \in R)
        <2> HIDE DEF B, R
        <2> QED
            BY <1>1, <1>2, WFMin, Zenon
    <1>4. R = {ss \in Nat \X Nat : ss[1] < ss[2]}
        BY Zenon DEF OpToRel
    <1> HIDE DEF R
    <1>5. k # 0 /\ k - 1 \in Nat
        OBVIOUS
    <1>6. k - 1 \in B
        BY <1>5
    <1>7. <<k - 1, k>> \in R
        BY <1>4, <1>5
    <1> QED
        BY <1>3, <1>6, <1>7

(* The recursion behind a sum *)

\* The element a sum takes out first.
First(s) == CHOOSE x \in s : TRUE

SumStep(f, S, g) ==
    [s \in SUBSET S |-> IF s = {} THEN 0 ELSE f[First(s)] + g[s \ {First(s)}]]

\* g holds the sums of f over the subsets of S.
Sums(f, S, g) == g = SumStep(f, S, g)

SumOver(f, S) == MapThenSumSet(LAMBDA x : f[x], S)

LEMMA SumOverIsRecursive ==
    ASSUME NEW f, NEW S PROVE SumOver(f, S) = (CHOOSE g : Sums(f, S, g))[S]
    BY DEF SumOver, MapThenSumSet, MapThenFoldSet, Sums, SumStep, First

LEMMA SumsAtNothing ==
    ASSUME NEW f, NEW S, NEW g, Sums(f, S, g) PROVE g[{}] = 0
    <1>1. g[{}] = SumStep(f, S, g)[{}] /\ {} \in SUBSET S
        BY DEF Sums
    <1> QED
        BY <1>1 DEF SumStep

LEMMA SumsAt ==
    ASSUME NEW f, NEW S, NEW g, Sums(f, S, g), NEW s \in SUBSET S, s # {}
    PROVE  /\ First(s) \in s /\ s \ {First(s)} \in SUBSET S /\ s \ {First(s)} # s
           /\ g[s] = f[First(s)] + g[s \ {First(s)}]
    <1>1. g[s] = SumStep(f, S, g)[s]
        BY DEF Sums
    <1>2. First(s) \in s
        BY DEF First
    <1> QED
        BY <1>1, <1>2 DEF SumStep

LEMMA SumsAgree ==
    ASSUME NEW f, NEW S, IsFiniteSet(S), NEW T \in SUBSET S,
           NEW e, \A x \in T : f[x] = e[x],
           NEW g, Sums(f, S, g), NEW h, Sums(e, T, h)
    PROVE  \A s \in SUBSET T : g[s] = h[s]
    <1> DEFINE B == {s \in SUBSET T : g[s] # h[s]}
    <1> SUFFICES ASSUME B # {} PROVE FALSE
        OBVIOUS
    <1>1. IsFiniteSet(T)
        BY FS_Subset
    <1>2. PICK s \in B : \A t \in B : t \subseteq s => t = s
        <2>1. B \in SUBSET (SUBSET T)
            OBVIOUS
        <2> HIDE DEF B
        <2> QED
            BY <1>1, <2>1, SmallestSubset
    <1>3. s \in SUBSET T /\ s \in SUBSET S
        OBVIOUS
    <1>4. CASE s = {}
        <2>1. g[{}] = 0 /\ h[{}] = 0
            BY SumsAtNothing
        <2> QED
            BY <1>4, <2>1, Zenon
    <1>5. CASE s # {}
        <2> DEFINE r == s \ {First(s)}
        <2>1. /\ First(s) \in s /\ r # s /\ r \in SUBSET T
              /\ g[s] = f[First(s)] + g[r] /\ h[s] = e[First(s)] + h[r]
            BY <1>3, <1>5, SumsAt
        <2>2. g[r] = h[r]
            BY <1>2, <2>1
        <2> QED
            BY <1>3, <2>1, <2>2
    <1> QED
        BY <1>4, <1>5

LEMMA SumsExist ==
    ASSUME NEW f, NEW S, IsFiniteSet(S) PROVE \E g : Sums(f, S, g)
    <1> DEFINE B == {s \in SUBSET S : ~\E g : Sums(f, s, g)}
    <1> SUFFICES ASSUME B # {} PROVE FALSE
        OBVIOUS
    <1>1. PICK s \in B : \A t \in B : t \subseteq s => t = s
        <2>1. B \in SUBSET (SUBSET S)
            OBVIOUS
        <2> HIDE DEF B
        <2> QED
            BY <2>1, SmallestSubset
    <1> DEFINE H(t) == CHOOSE g : Sums(f, t, g)
               g == [t \in SUBSET s |-> IF t = {} THEN 0
                                        ELSE f[First(t)] + H(t \ {First(t)})[t \ {First(t)}]]
    <1>2. ASSUME NEW t \in SUBSET s, t # s PROVE Sums(f, t, H(t))
        <2>1. t \in SUBSET S /\ t \notin B
            BY <1>1, <1>2
        <2>2. \E h : Sums(f, t, h)
            BY <2>1
        <2> QED
            BY <2>2
    <1>3. \A t \in SUBSET s : IsFiniteSet(t)
        BY FS_Subset
    <1> HIDE DEF H, B
    <1>4. ASSUME NEW t \in SUBSET s, t # s PROVE H(t)[t] = g[t]
        <2>1. Sums(f, t, H(t))
            BY <1>2, <1>4
        <2>2. CASE t = {}
            <3>1. H(t)[{}] = 0
                BY <2>1, SumsAtNothing
            <3>2. g[t] = 0
                BY <2>2
            <3> QED
                BY <2>2, <3>1, <3>2, Zenon
        <2>3. CASE t # {}
            <3> DEFINE r == t \ {First(t)}
            <3>1. r \in SUBSET t /\ r \in SUBSET s /\ r # s /\ H(t)[t] = f[First(t)] + H(t)[r]
                <4>1. t \in SUBSET t
                    OBVIOUS
                <4>2. First(t) \in t /\ H(t)[t] = f[First(t)] + H(t)[r]
                    BY <2>1, <2>3, <4>1, SumsAt
                <4> QED
                    BY <4>2
            <3>2. Sums(f, r, H(r))
                BY <1>2, <3>1
            <3>3. IsFiniteSet(t)
                BY <1>3
            <3>4. H(t)[r] = H(r)[r]
                <4>1. \A u \in SUBSET r : H(t)[u] = H(r)[u]
                    <5> HIDE DEF r
                    <5> QED
                        BY <2>1, <3>1, <3>2, <3>3, SumsAgree
                <4> QED
                    BY <4>1
            <3> QED
                BY <2>3, <3>1, <3>4
        <2> QED
            BY <2>2, <2>3
    <1>5. ASSUME NEW t \in SUBSET s, t # {}
          PROVE  H(t \ {First(t)})[t \ {First(t)}] = g[t \ {First(t)}]
        <2>1. First(t) \in t
            BY <1>5 DEF First
        <2>2. t \ {First(t)} \in SUBSET s /\ t \ {First(t)} # s
            BY <2>1
        <2> QED
            BY <1>4, <2>2
    <1>6. Sums(f, s, g)
        <2>1. ASSUME NEW t \in SUBSET s PROVE g[t] = SumStep(f, s, g)[t]
            BY <1>5 DEF SumStep
        <2> QED
            BY <2>1 DEF Sums, SumStep
    <1> QED
        BY <1>6, <1>1 DEF B

\* A sum may be computed in any function that satisfies the recursion.
LEMMA SumOverIs ==
    ASSUME NEW f, NEW S, IsFiniteSet(S), NEW T \in SUBSET S,
           NEW e, \A x \in T : f[x] = e[x], NEW g, Sums(f, S, g)
    PROVE  SumOver(e, T) = g[T]
    <1>1. IsFiniteSet(T)
        BY FS_Subset
    <1> DEFINE h == CHOOSE q : Sums(e, T, q)
    <1>2. Sums(e, T, h)
        BY <1>1, SumsExist
    <1>3. SumOver(e, T) = h[T]
        BY SumOverIsRecursive
    <1> HIDE DEF h
    <1> QED
        BY <1>2, <1>3, SumsAgree

LEMMA SumOfNothing == ASSUME NEW f PROVE SumOver(f, {}) = 0
    <1>1. PICK g : Sums(f, {}, g)
        BY FS_EmptySet, SumsExist
    <1>2. SumOver(f, {}) = g[{}]
        BY <1>1, FS_EmptySet, SumOverIs
    <1>3. g[{}] = 0
        BY <1>1, SumsAtNothing
    <1> QED
        BY <1>2, <1>3

LEMMA SumTakesFirst ==
    ASSUME NEW f, NEW S, IsFiniteSet(S), S # {}
    PROVE  First(S) \in S /\ SumOver(f, S) = f[First(S)] + SumOver(f, S \ {First(S)})
    <1>1. PICK g : Sums(f, S, g)
        BY SumsExist
    <1> DEFINE r == S \ {First(S)}
    <1>2. r \in SUBSET S /\ First(S) \in S /\ g[S] = f[First(S)] + g[r]
        <2>1. S \in SUBSET S
            OBVIOUS
        <2> QED
            BY <1>1, <2>1, SumsAt
    <1>3. SumOver(f, S) = g[S]
        BY <1>1, SumOverIs
    <1>4. SumOver(f, r) = g[r]
        <2> HIDE DEF r
        <2> QED
            BY <1>1, <1>2, SumOverIs
    <1> QED
        BY <1>2, <1>3, <1>4

(* Sums of integers *)

\* Functions that agree on a set have the same sum over it.
LEMMA SumOfEqual ==
    ASSUME NEW S, IsFiniteSet(S), NEW f, NEW e, \A x \in S : f[x] = e[x]
    PROVE  SumOver(f, S) = SumOver(e, S)
    <1>1. PICK g : Sums(f, S, g)
        BY SumsExist
    <1>2. SumOver(f, S) = g[S] /\ SumOver(e, S) = g[S]
        <2>1. S \in SUBSET S /\ \A x \in S : f[x] = f[x]
            OBVIOUS
        <2> QED
            BY <1>1, <2>1, SumOverIs
    <1> QED
        BY <1>2

LEMMA SumIsInt ==
    ASSUME NEW S, IsFiniteSet(S), NEW f, \A x \in S : f[x] \in Int
    PROVE  SumOver(f, S) \in Int
    <1> DEFINE B == {s \in SUBSET S : SumOver(f, s) \notin Int}
    <1> SUFFICES ASSUME B # {} PROVE FALSE
        OBVIOUS
    <1>1. PICK s \in B : \A t \in B : t \subseteq s => t = s
        <2>1. B \in SUBSET (SUBSET S)
            OBVIOUS
        <2> HIDE DEF B
        <2> QED
            BY <2>1, SmallestSubset
    <1>2. s # {}
        BY SumOfNothing
    <1>3. IsFiniteSet(s)
        BY FS_Subset
    <1>4. First(s) \in s /\ SumOver(f, s) = f[First(s)] + SumOver(f, s \ {First(s)})
        BY <1>2, <1>3, SumTakesFirst
    <1>5. s \ {First(s)} \notin B
        BY <1>1, <1>4
    <1> QED
        BY <1>4, <1>5

\* A sum may begin with any element.
LEMMA SumTakesAny ==
    ASSUME NEW S, IsFiniteSet(S), NEW f, \A x \in S : f[x] \in Int, NEW x \in S
    PROVE  SumOver(f, S) = f[x] + SumOver(f, S \ {x})
    <1> DEFINE B == {s \in SUBSET S : \E z \in s : SumOver(f, s) # f[z] + SumOver(f, s \ {z})}
    <1> SUFFICES ASSUME B # {} PROVE FALSE
        OBVIOUS
    <1>1. PICK s \in B : \A t \in B : t \subseteq s => t = s
        <2>1. B \in SUBSET (SUBSET S)
            OBVIOUS
        <2> HIDE DEF B
        <2> QED
            BY <2>1, SmallestSubset
    <1>2. PICK z \in s : SumOver(f, s) # f[z] + SumOver(f, s \ {z})
        OBVIOUS
    <1>3. IsFiniteSet(s)
        BY FS_Subset
    <1> DEFINE y == First(s)
    <1>4. y \in s /\ SumOver(f, s) = f[y] + SumOver(f, s \ {y})
        BY <1>2, <1>3, SumTakesFirst
    <1> HIDE DEF y
    <1>5. y # z
        BY <1>2, <1>4
    <1> DEFINE u == s \ {y, z}
    <1>6. SumOver(f, s \ {y}) = f[z] + SumOver(f, u)
        <2>1. s \ {y} \in SUBSET S /\ s \ {y} \notin B /\ z \in s \ {y}
            BY <1>1, <1>2, <1>4, <1>5
        <2>2. (s \ {y}) \ {z} = u
            OBVIOUS
        <2>3. SumOver(f, s \ {y}) = f[z] + SumOver(f, (s \ {y}) \ {z})
            BY <2>1
        <2> QED
            BY <2>2, <2>3, Zenon
    <1>7. SumOver(f, s \ {z}) = f[y] + SumOver(f, u)
        <2>1. s \ {z} \in SUBSET S /\ s \ {z} \notin B /\ y \in s \ {z}
            BY <1>1, <1>2, <1>4, <1>5
        <2>2. (s \ {z}) \ {y} = u
            OBVIOUS
        <2>3. SumOver(f, s \ {z}) = f[y] + SumOver(f, (s \ {z}) \ {y})
            BY <2>1
        <2> QED
            BY <2>2, <2>3, Zenon
    <1>8. SumOver(f, u) \in Int /\ f[y] \in Int /\ f[z] \in Int
        <2>1. u \in SUBSET S
            OBVIOUS
        <2> QED
            BY <1>4, <2>1, FS_Subset, SumIsInt
    <1> HIDE DEF u
    <1> QED
        BY <1>2, <1>4, <1>6, <1>7, <1>8

\* One more element adds its summand.
LEMMA SumGainsElement ==
    ASSUME NEW S, IsFiniteSet(S), NEW x, x \notin S,
           NEW f, f[x] \in Int, \A y \in S : f[y] \in Int
    PROVE  SumOver(f, S \cup {x}) = SumOver(f, S) + f[x]
    <1> DEFINE U == S \cup {x}
    <1>1. IsFiniteSet(U) /\ x \in U /\ U \ {x} = S /\ \A y \in U : f[y] \in Int
        BY FS_AddElement
    <1> HIDE DEF U
    <1>2. SumOver(f, U) = f[x] + SumOver(f, U \ {x})
        BY <1>1, SumTakesAny
    <1>3. SumOver(f, U) = f[x] + SumOver(f, S)
        BY <1>1, <1>2, Zenon
    <1>4. SumOver(f, S) \in Int
        BY SumIsInt
    <1> QED
        BY <1>3, <1>4 DEF U

\* What holds of no elements, and of one more whenever of some, holds of a finite set.
LEMMA FiniteInductionSet ==
    ASSUME NEW S, IsFiniteSet(S), NEW A, {} \in A,
           \A s \in SUBSET S : \A x \in S \ s : s \in A => s \cup {x} \in A
    PROVE  S \in A
    <1> DEFINE B == {s \in SUBSET S : s \notin A}
    <1> SUFFICES ASSUME S \notin A PROVE FALSE
        OBVIOUS
    <1>1. PICK s \in B : \A t \in B : t \subseteq s => t = s
        <2>1. B \in SUBSET (SUBSET S) /\ S \in B
            OBVIOUS
        <2> HIDE DEF B
        <2> QED
            BY <2>1, SmallestSubset
    <1>2. s # {}
        BY Zenon
    <1>3. PICK x \in s : TRUE
        BY <1>2
    <1> DEFINE r == s \ {x}
    <1>4. r \in SUBSET S /\ x \in S \ r /\ r # s /\ r \cup {x} = s
        BY <1>3
    <1>5. r \in A
        BY <1>1, <1>4
    <1> HIDE DEF r
    <1> QED
        BY <1>4, <1>5, Zenon

LEMMA SumIsMonotone ==
    ASSUME NEW S, IsFiniteSet(S), NEW f, NEW e,
           \A x \in S : f[x] \in Int /\ e[x] \in Int /\ f[x] <= e[x]
    PROVE  SumOver(f, S) <= SumOver(e, S)
    <1> DEFINE A == {s \in SUBSET S : SumOver(f, s) <= SumOver(e, s)}
    <1>1. {} \in A
        BY SumOfNothing
    <1>2. ASSUME NEW s \in SUBSET S, NEW x \in S \ s, s \in A PROVE s \cup {x} \in A
        <2>1. IsFiniteSet(s)
            BY FS_Subset
        <2>2. /\ SumOver(f, s \cup {x}) = SumOver(f, s) + f[x]
              /\ SumOver(e, s \cup {x}) = SumOver(e, s) + e[x]
            BY <2>1, SumGainsElement
        <2>3. SumOver(f, s) \in Int /\ SumOver(e, s) \in Int
            BY <2>1, SumIsInt
        <2> QED
            BY <1>2, <2>2, <2>3
    <1> HIDE DEF A
    <1>3. S \in A
        BY <1>1, <1>2, FiniteInductionSet
    <1> QED
        BY <1>3 DEF A

LEMMA SumOfZeros ==
    ASSUME NEW S, IsFiniteSet(S), NEW f, \A x \in S : f[x] = 0
    PROVE  SumOver(f, S) = 0
    <1> DEFINE A == {s \in SUBSET S : SumOver(f, s) = 0}
    <1>1. {} \in A
        BY SumOfNothing
    <1>2. ASSUME NEW s \in SUBSET S, NEW x \in S \ s, s \in A PROVE s \cup {x} \in A
        <2>1. SumOver(f, s \cup {x}) = SumOver(f, s) + f[x]
            <3>1. IsFiniteSet(s) /\ x \notin s /\ f[x] \in Int /\ \A y \in s : f[y] \in Int
                BY FS_Subset
            <3> QED
                BY <3>1, SumGainsElement
        <2> QED
            BY <1>2, <2>1
    <1> HIDE DEF A
    <1>3. S \in A
        BY <1>1, <1>2, FiniteInductionSet
    <1> QED
        BY <1>3 DEF A

LEMMA SumIsNat ==
    ASSUME NEW S, IsFiniteSet(S), NEW f, \A x \in S : f[x] \in Nat
    PROVE  SumOver(f, S) \in Nat
    <1> DEFINE z == [x \in S |-> 0]
    <1>1. SumOver(z, S) = 0
        BY SumOfZeros
    <1>2. SumOver(z, S) <= SumOver(f, S)
        BY SumIsMonotone
    <1>3. SumOver(f, S) \in Int
        BY SumIsInt
    <1> QED
        BY <1>1, <1>2, <1>3

\* A change at one element changes the sum by as much.
LEMMA SumChangesAt ==
    ASSUME NEW S, IsFiniteSet(S), NEW f, NEW e, NEW x \in S,
           \A y \in S : f[y] \in Int, \A y \in S : e[y] \in Int,
           \A y \in S \ {x} : f[y] = e[y]
    PROVE  SumOver(e, S) = SumOver(f, S) - f[x] + e[x]
    <1> DEFINE r == S \ {x}
    <1>1. IsFiniteSet(r) /\ \A y \in r : f[y] = e[y] /\ f[y] \in Int
        BY FS_RemoveElement
    <1>2. SumOver(f, S) = f[x] + SumOver(f, r) /\ SumOver(e, S) = e[x] + SumOver(e, r)
        BY SumTakesAny
    <1> HIDE DEF r
    <1>3. SumOver(f, r) = SumOver(e, r) /\ SumOver(f, r) \in Int
        BY <1>1, SumOfEqual, SumIsInt
    <1> QED
        BY <1>2, <1>3

\* The sum over a part of a set of naturals is no larger.
LEMMA SumOfPart ==
    ASSUME NEW S, IsFiniteSet(S), NEW T \in SUBSET S, NEW f, \A x \in S : f[x] \in Nat
    PROVE  SumOver(f, T) <= SumOver(f, S)
    <1> DEFINE A == {s \in SUBSET S : SumOver(f, s \cap T) <= SumOver(f, s)}
    <1>1. {} \in A
        <2>1. {} \cap T = {}
            OBVIOUS
        <2>2. SumOver(f, {} \cap T) = SumOver(f, {})
            BY <2>1, Zenon
        <2> QED
            BY <2>2, SumOfNothing
    <1>2. ASSUME NEW s \in SUBSET S, NEW x \in S \ s, s \in A PROVE s \cup {x} \in A
        <2>1. IsFiniteSet(s) /\ IsFiniteSet(s \cap T)
            BY FS_Subset, FS_Intersection
        <2>2. SumOver(f, s \cup {x}) = SumOver(f, s) + f[x]
            BY <2>1, SumGainsElement, SMTT(30)
        <2>3. SumOver(f, (s \cap T) \cup {x}) = SumOver(f, s \cap T) + f[x]
            <3> DEFINE r == s \cap T
            <3>1. IsFiniteSet(r) /\ x \notin r /\ f[x] \in Int /\ \A y \in r : f[y] \in Int
                BY <2>1
            <3> HIDE DEF r
            <3>2. SumOver(f, r \cup {x}) = SumOver(f, r) + f[x]
                BY <3>1, SumGainsElement
            <3> QED
                BY <3>2, Zenon DEF r
        <2>4. SumOver(f, s) \in Int /\ SumOver(f, s \cap T) \in Int
            BY <2>1, SumIsInt
        <2>5. CASE x \in T
            <3>1. (s \cup {x}) \cap T = (s \cap T) \cup {x}
                BY <2>5
            <3>2. SumOver(f, (s \cup {x}) \cap T) = SumOver(f, (s \cap T) \cup {x})
                BY <3>1, Zenon
            <3> QED
                BY <1>2, <2>2, <2>3, <2>4, <3>2
        <2>6. CASE x \notin T
            <3>1. (s \cup {x}) \cap T = s \cap T
                BY <2>6
            <3>2. SumOver(f, (s \cup {x}) \cap T) = SumOver(f, s \cap T)
                BY <3>1, Zenon
            <3> QED
                BY <1>2, <2>2, <2>4, <3>2
        <2> QED
            BY <2>5, <2>6
    <1>3. S \in A
        <2> HIDE DEF A
        <2> QED
            BY <1>1, <1>2, FiniteInductionSet
    <1>4. S \cap T = T
        OBVIOUS
    <1>5. SumOver(f, S \cap T) = SumOver(f, T)
        BY <1>4, Zenon
    <1> QED
        BY <1>3, <1>5
=============================================================================
