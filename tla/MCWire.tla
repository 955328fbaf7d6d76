---- MODULE MCWire ----
(***************************************************************************)
(* Every method of both generated codecs, with sample messages as requests *)
(* and as answers: all defaults; every field different from every other;   *)
(* every other field set; nested messages set but empty; and negative      *)
(* numbers, with units just outside what a JavaScript number can hold.     *)
(***************************************************************************)
EXTENDS Wire, FiniteSetsExt

CONSTANTS MaxSafe       \* Number.MAX_SAFE_INTEGER, scaled down

ASSUME MaxSafeAssumption == MaxSafe \in Nat \ {0}

MaxInt64 == MaxSafe + 2

F == INSTANCE FrontendMessages
A == INSTANCE AppMessages
P == INSTANCE DemoProto

\* The two generated codecs, and the services' own.
MCCodecs == [frontend |-> [messages |-> F!Messages, safe |-> MaxSafe, services |-> F!Services],
             app      |-> [messages |-> A!Messages, safe |-> MaxSafe, services |-> A!Services]]
MCPeer == [messages |-> P!Messages, safe |-> MaxInt64, services |-> P!Services]

RECURSIVE DepthOf(_)
DepthOf(T) ==
    LET nested == {f \in ToSet(P!Messages[T]) : f.kind = "nested"}
    IN  IF nested = {} THEN 0 ELSE 1 + Max({DepthOf(f.of) : f \in nested})
MCDepth == [T \in DOMAIN P!Messages |-> DepthOf(T)]

(* Samples *)

Samples == {"empty", "full", "mixed", "hollow", "negative", "huge"}

RECURSIVE Sample(_, _)

\* Text is any sequence of units, also one that looks like a tag and a length.
SampleText(f, k) ==
    CASE k = "full" -> <<f.no, 10>>
      [] k = "mixed" /\ f.no % 2 = 1 -> <<10, 4>>
      [] k \in {"negative", "huge"} -> <<f.no>>
      [] OTHER -> << >>

SampleNumber(f, k) ==
    CASE k = "full" -> IF f.kind = "int64" THEN MaxSafe ELSE f.no + 1
      [] k = "mixed" /\ f.no % 2 = 0 -> f.no
      [] k = "negative" -> IF f.kind = "int64" THEN -MaxSafe - 1 ELSE -f.no
      [] k = "huge" -> IF f.kind = "int64" THEN MaxSafe + 1 ELSE f.no
      [] OTHER -> 0

SampleValue(f, k) ==
    CASE f.kind = "text" -> SampleText(f, k)
      [] f.kind = "bool" -> k \in {"full", "negative"}
      [] f.kind = "nested" -> Sample(f.of, IF k = "hollow" THEN "empty" ELSE k)
      [] OTHER -> SampleNumber(f, k)

Sample(T, k) ==
    LET fields == ToSet(P!Messages[T])
        list(f) ==
            CASE k = "empty" -> << >>
              [] k = "full" -> <<SampleValue(f, "full"), SampleValue(f, "hollow")>>
              [] k = "huge" -> <<SampleValue(f, "full"), SampleValue(f, "huge")>>
              [] OTHER -> <<SampleValue(f, k)>>
        value(f) ==
            IF f.many THEN list(f)
            ELSE IF f.kind = "nested" /\ (k = "empty" \/ (k = "mixed" /\ f.no % 2 = 0))
            THEN Undefined ELSE SampleValue(f, k)
    IN  [n \in Names(fields) |-> value(FieldNamed(fields, n))]

MCMessagesOf == [T \in DOMAIN P!Messages |-> {Sample(T, k) : k \in Samples}]

====
