---- MODULE Codec ----
(***************************************************************************)
(* The functions the generated code repeats for every message, written     *)
(* once over the fields of a message: encode, decode, fromJSON, toJSON and *)
(* fromPartial.  A codec C is its table of messages and the largest        *)
(* integer it takes out of 64 bits.  The functions of a message call those *)
(* of the messages it nests: each of them is a function of the message's   *)
(* type, defined by recursion.                                             *)
(*                                                                         *)
(* The wire is a sequence of integers.  What the code reads or writes in   *)
(* one call (a tag, a length, a number) is one unit, however many bytes it *)
(* has; the text of a string is a sequence of units.  Positions are the    *)
(* code's, from 0.                                                         *)
(***************************************************************************)
EXTENDS Integers, Sequences, SequencesExt

CONSTANTS Undefined,    \* a nested message that is not set
          MessagesOf    \* MessagesOf[T]: the messages of type T there may be

(* Fields *)

Varint == 0
Fixed64 == 1
Delimited == 2
StartGroup == 3
EndGroup == 4
Fixed32 == 5

\* The kind of what follows a field's tag, and the tag itself.
WireType(f) == IF f.kind \in {"text", "nested"} THEN Delimited ELSE Varint
Tag(f) == f.no * 8 + WireType(f)

\* What a field has in a message that was not given it (createBase...).
Default(f) ==
    CASE f.many -> << >>
      [] ~f.many /\ f.kind = "text" -> << >>
      [] ~f.many /\ f.kind = "bool" -> FALSE
      [] ~f.many /\ f.kind = "nested" -> Undefined
      [] OTHER -> 0

Fields(C, T) == ToSet(C.messages[T])
Names(fields) == {f.name : f \in fields}
FieldNamed(fields, n) == CHOOSE f \in fields : f.name = n
CreateBase(C, T) == [n \in Names(Fields(C, T)) |-> Default(FieldNamed(Fields(C, T), n))]

(* Encoding.  encode[T][m] is what the encode function of T writes for m.  *)

EncodeValue(encode, f, v) ==
    <<Tag(f)>> \o
    CASE f.kind = "text" -> <<Len(v)>> \o v
      [] f.kind = "bool" -> <<IF v THEN 1 ELSE 0>>
      [] f.kind = "nested" -> LET b == encode[f.of][v] IN <<Len(b)>> \o b
      [] OTHER -> <<v>>

\* A mutant: a nested message without contents is left out like a default.
EncodeFieldNonempty(encode, f, v) ==
    IF f.many THEN FlattenSeq([i \in DOMAIN v |-> EncodeValue(encode, f, v[i])])
    ELSE IF v = Default(f) \/ (f.kind = "nested" /\ encode[f.of][v] = << >>) THEN << >>
    ELSE EncodeValue(encode, f, v)

\* A field with its default is left out; the elements of a list are all written.
EncodeField(encode, f, v) ==
    IF f.many THEN FlattenSeq([i \in DOMAIN v |-> EncodeValue(encode, f, v[i])])
    ELSE IF v = Default(f) THEN << >> ELSE EncodeValue(encode, f, v)

EncodeFields(encode, fields, m) ==
    FlattenSeq([i \in DOMAIN fields |-> EncodeField(encode, fields[i], m[fields[i].name])])

\* The fields are written in the order of the table; another implementation may reverse it
\* and write something "extra" before and after them.
Encoder(C, reversed, extra) ==
    LET fields(T) == IF reversed THEN Reverse(C.messages[T]) ELSE C.messages[T]
        encode[T \in DOMAIN C.messages] ==
            [m \in MessagesOf[T] |-> extra \o EncodeFields(encode, fields(T), m) \o extra]
    IN  encode

Encode(C, T, m) == Encoder(C, FALSE, << >>)[T][m]

(* Decoding.  A reading is where the reader stands and what it has read.   *)

Reading(pos, value) == [ok |-> TRUE, pos |-> pos, value |-> value]
Raised == [ok |-> FALSE]

\* The next number; reading past the end raises.
ReadUnit(w, pos) == IF pos < Len(w) THEN Reading(pos + 1, w[pos + 1]) ELSE Raised

\* The next number as a length, which is unsigned: a negative one is beyond any end.
ReadLength(w, pos) ==
    LET n == ReadUnit(w, pos) IN IF n.ok /\ n.value >= 0 THEN n ELSE Raised

ReadText(w, pos) ==
    LET n == ReadLength(w, pos)
    IN  IF n.ok /\ n.pos + n.value <= Len(w)
        THEN Reading(n.pos + n.value, SubSeq(w, n.pos + 1, n.pos + n.value))
        ELSE Raised

\* A mutant: the number is converted unchecked.
LongToNumberUnchecked(C, r) == r

\* A JavaScript number holds integers exactly up to MAX_SAFE_INTEGER only.
LongToNumber(C, r) ==
    IF r.ok /\ (r.value > C.safe \/ r.value < -C.safe) THEN Raised ELSE r

\* The reader's skip(wireType); groups[p] is where a group that starts at p ends.
SkipOne(groups, wireType, w, pos) ==
    CASE wireType \in {Varint, Fixed64, Fixed32} -> ReadUnit(w, pos)
      [] wireType = Delimited -> ReadText(w, pos)
      [] wireType = StartGroup -> groups[pos]
      [] OTHER -> Raised

\* A group is skipped field by field up to its end.
SkipGroup(groups, w, pos) ==
    LET tag == ReadUnit(w, pos)
        past == SkipOne(groups, tag.value % 8, w, tag.pos)
    IN  IF ~tag.ok THEN Raised
        ELSE IF tag.value % 8 = EndGroup THEN tag
        ELSE IF past.ok THEN groups[past.pos] ELSE Raised

\* Every field and every group inside a group takes a unit or more.
Skip(wireType, w, pos) ==
    LET groups[n \in Nat] ==
            [p \in 0..Len(w) |-> IF n = 0 THEN Raised ELSE SkipGroup(groups[n - 1], w, p)]
    IN  SkipOne(groups[Len(w)], wireType, w, pos)

\* The value of field f, which starts at pos.  A nested message has its length before it and
\* may stop short of it.  decode[T][pos][end] is what the decode function of T reads.
DecodeValue(C, decode, f, w, pos) ==
    CASE f.kind = "text" -> ReadText(w, pos)
      [] f.kind = "int64" -> LongToNumber(C, ReadUnit(w, pos))
      [] f.kind = "int32" -> ReadUnit(w, pos)
      [] f.kind = "bool" ->
            LET n == ReadUnit(w, pos) IN IF n.ok THEN Reading(n.pos, n.value # 0) ELSE Raised
      [] f.kind = "nested" ->
            LET n == ReadLength(w, pos)
            IN  IF n.ok THEN decode[f.of][n.pos][n.pos + n.value] ELSE Raised

\* A mutant: a field is known by its number, whatever its wire type.
KnownByNumber(C, T, tag) == {f \in Fields(C, T) : f.no = tag \div 8}

\* The fields a tag is of: at most one, with the number and the wire type of the tag.
Known(C, T, tag) == {f \in Fields(C, T) : Tag(f) = tag}

\* The loop of decode from pos up to end: where it stops, and the values it has read of every
\* field in their order.  later[p] is what the turns after this one read from p on.
NoValues(C, T) == [n \in Names(Fields(C, T)) |-> << >>]
Turn(C, decode, T, w, end, later, pos) ==
    LET tag == ReadUnit(w, pos)
        known == Known(C, T, tag.value)
        f == CHOOSE g \in known : TRUE
        v == DecodeValue(C, decode, f, w, tag.pos)
        rest == later[v.pos]
        past == Skip(tag.value % 8, w, tag.pos)
    IN  IF pos >= end THEN Reading(pos, NoValues(C, T))
        ELSE IF ~tag.ok THEN Raised
        ELSE IF known # {}
        THEN IF v.ok /\ rest.ok
             THEN Reading(rest.pos, [rest.value EXCEPT ![f.name] = <<v.value>> \o @])
             ELSE Raised
        ELSE IF tag.value % 8 = EndGroup \/ tag.value = 0 THEN Reading(tag.pos, NoValues(C, T))
        ELSE IF past.ok THEN later[past.pos] ELSE Raised

\* Every turn but the last one reads a unit or more.
Turns(C, decode, T, w, pos, end) ==
    LET turns[n \in Nat] ==
            [p \in 0..Len(w) |->
                IF n = 0 THEN Raised ELSE Turn(C, decode, T, w, end, turns[n - 1], p)]
    IN  turns[end - pos + 1][pos]

\* A list has all values that were read of it, another field the last one.
Message(C, T, values) ==
    [n \in Names(Fields(C, T)) |->
        IF FieldNamed(Fields(C, T), n).many THEN values[n]
        ELSE IF values[n] = << >> THEN CreateBase(C, T)[n] ELSE Last(values[n])]

DecodeMessage(C, decode, T, w, pos, end) ==
    LET r == Turns(C, decode, T, w, pos, end)
    IN  IF r.ok THEN Reading(r.pos, Message(C, T, r.value)) ELSE Raised

Decoder(C, w) ==
    LET decode[T \in DOMAIN C.messages] ==
            [pos \in 0..Len(w) |-> [end \in Int |-> DecodeMessage(C, decode, T, w, pos, end)]]
    IN  decode

Decode(C, T, w) == Decoder(C, w)[T][0][Len(w)]

(* JSON.  An object is a function from the keys it has.                    *)

\* The value of a field with the messages in it converted.
Inside(convert, f, v) ==
    IF f.kind # "nested" THEN v
    ELSE IF f.many THEN [i \in DOMAIN v |-> convert[f.of][v[i]]]
    ELSE convert[f.of][v]

\* toJSON leaves out the fields with their default; "style" says which of its two names a
\* field is written under: the generated code writes "name", some peers write "alias".
Shown(C, T, m) == {f \in Fields(C, T) : m[f.name] # Default(f)}
WriteObject(C, json, T, m, style) ==
    [k \in {f[style] : f \in Shown(C, T, m)} |->
        LET f == CHOOSE g \in Shown(C, T, m) : g[style] = k IN Inside(json, f, m[f.name])]
ToJSON(C, T, m, style) ==
    LET json[U \in DOMAIN C.messages] ==
            [x \in MessagesOf[U] |-> WriteObject(C, json, U, x, style)]
    IN  json[T][m]

\* The message in an object whose keys may be those in "styles": fromJSON takes a field's name
\* before its alias, fromPartial the name only; what is missing gets its default.
ReadField(filled, f, o, styles) ==
    IF f.name \in DOMAIN o THEN Inside(filled, f, o[f.name])
    ELSE IF "alias" \in styles /\ f.alias \in DOMAIN o THEN Inside(filled, f, o[f.alias])
    ELSE Default(f)
ReadObject(C, filled, T, o, styles) ==
    [n \in Names(Fields(C, T)) |-> ReadField(filled, FieldNamed(Fields(C, T), n), o, styles)]
Objects(C, T) ==
    {ToJSON(C, T, m, style) : m \in MessagesOf[T], style \in {"name", "alias"}}
Filled(C, T, o, styles) ==
    LET filled[U \in DOMAIN C.messages] ==
            [x \in Objects(C, U) |-> ReadObject(C, filled, U, x, styles)]
    IN  filled[T][o]

\* A mutant: only the name the generated code writes is read.
FromJSONByName(C, T, o) == Filled(C, T, o, {"name"})

FromJSON(C, T, o) == Filled(C, T, o, {"name", "alias"})
FromPartial(C, T, o) == Filled(C, T, o, {"name"})

====
