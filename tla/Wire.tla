---- MODULE Wire ----
(***************************************************************************)
(* A unary call between the TypeScript code and a service written in       *)
(* another language.  The caller serializes a request with its generated   *)
(* codec; the service reads it as pb/demo.proto says and answers, possibly *)
(* built from a later demo.proto: it may write fields the caller does not  *)
(* know, at every level of the message, and in any order.  The caller      *)
(* deserializes the answer, hands it on as JSON, and somebody reads that.  *)
(***************************************************************************)
EXTENDS Codec

CONSTANTS Codecs,       \* the generated codecs: their messages, safe integers and services
          Peer,         \* the codec of the services
          Depth         \* Depth[T]: how deep the messages of type T nest

Types(C) == DOMAIN C.messages

\* What a field holds, or an element of it when it is repeated.
ValuesOf(f) ==
    CASE f.kind = "text" -> Seq(Int)
      [] f.kind = "bool" -> BOOLEAN
      [] f.kind = "int32" -> Int
      [] f.kind = "int64" -> -Peer.safe..Peer.safe
      [] f.kind = "nested" -> MessagesOf[f.of]

\* The fields of a message have numbers of their own, below those of Additions; no two of
\* them share a name or an alias, nor is the name of one the alias of another; and what is
\* repeated is text or a message.
FieldsAssumption(C) ==
    \A T \in Types(C) :
        LET fields == C.messages[T]
        IN  /\ fields \in Seq(Fields(C, T))
            /\ \A f \in Fields(C, T) :
                  /\ f.no \in 1..14 /\ f.many \in BOOLEAN
                  /\ f.kind \in {"text", "bool", "int32", "int64", "nested"}
                  /\ f.many => f.kind \in {"text", "nested"}
            /\ \A i, j \in DOMAIN fields :
                  i # j => /\ fields[i].no # fields[j].no
                           /\ {fields[i].name, fields[i].alias}
                                \cap {fields[j].name, fields[j].alias} = {}

\* Messages nest in messages of smaller depth: none holds one of its own type.
NestingAssumption(C) ==
    \A T \in Types(C) :
        /\ Depth[T] \in Nat
        /\ \A f \in Fields(C, T) :
              f.kind = "nested" => f.of \in Types(C) /\ Depth[f.of] < Depth[T]

\* A message has its fields, each with a value of its kind, or without a message.
MessagesAssumption(C) ==
    \A T \in Types(C) : \A m \in MessagesOf[T] :
        /\ m # Undefined
        /\ m = [n \in Names(Fields(C, T)) |-> m[n]]
        /\ \A f \in Fields(C, T) :
              IF f.many THEN m[f.name] \in Seq(ValuesOf(f))
              ELSE m[f.name] \in ValuesOf(f) \/ (f.kind = "nested" /\ m[f.name] = Undefined)

\* The messages of the generated code are the protocol's, but for what fromJSON calls their
\* fields, and its integers are smaller.
Agree(f, g) ==
    f.no = g.no /\ f.name = g.name /\ f.kind = g.kind /\ f.of = g.of /\ f.many = g.many
ProtocolAssumption(C) ==
    /\ C.safe \in Nat /\ C.safe <= Peer.safe
    /\ \A T \in Types(C) :
          /\ T \in Types(Peer)
          /\ DOMAIN C.messages[T] = DOMAIN Peer.messages[T]
          /\ \A i \in DOMAIN C.messages[T] : Agree(C.messages[T][i], Peer.messages[T][i])

\* Every method of every service of a codec.
Calls == UNION {
    UNION {{[codec |-> c, method |-> Codecs[c].services[s][m]] : m \in DOMAIN Codecs[c].services[s]}
        : s \in DOMAIN Codecs[c].services}
    : c \in DOMAIN Codecs}

\* The methods a service offers at a path.
Offered(path) ==
    {m \in UNION {{Peer.services[s][n] : n \in DOMAIN Peer.services[s]}
                     : s \in DOMAIN Peer.services}
        : m.path = path}

\* A method a codec calls is offered, with the same messages, which the codec has.
ServicesAssumption ==
    \A c \in Calls :
        /\ {c.method.request, c.method.response} \subseteq Types(Codecs[c.codec])
        /\ Offered(c.method.path) # {}
        /\ \A m \in Offered(c.method.path) :
              m.request = c.method.request /\ m.response = c.method.response

ASSUME WireAssumption ==
    /\ \A C \in {Codecs[c] : c \in DOMAIN Codecs} \cup {Peer} :
          /\ FieldsAssumption(C)
          /\ NestingAssumption(C)
          /\ MessagesAssumption(C)
          /\ ProtocolAssumption(C)
    /\ ServicesAssumption

VARIABLES
    call,       \* the codec and the method of the call
    stage,      \* how far the call is
    request,    \* what the caller asked
    wire,       \* the message under way
    received,   \* what the service read
    answer,     \* what the service answered
    seen,       \* what the caller read: a reading, or that decode raised
    document,   \* the answer as JSON, and the names its keys have
    copy        \* the messages fromJSON and fromPartial make of the document

vars == <<call, stage, request, wire, received, answer, seen, document, copy>>

Caller == Codecs[call.codec]

(* What a later version of a service may add to every message: a field of  *)
(* each wire type, a group with a field in it, or a field that kept the    *)
(* number of a known one and changed its type.                             *)

Additions == [nothing   |-> << >>,
              number    |-> <<15 * 8 + Varint, 7>>,
              fixed     |-> <<15 * 8 + Fixed64, 10, 15 * 8 + Fixed32, 18>>,
              text      |-> <<15 * 8 + Delimited, 2, 10, 18>>,
              group     |-> <<15 * 8 + StartGroup, 8, 5, 10, 1, 4, 15 * 8 + EndGroup>>,
              retyped   |-> <<8 + Fixed32, 9>>]

\* The messages with an int64 outside what a codec can hold, there or in a message inside.
UnsafeField(C, unsafe, f, v) ==
    CASE f.kind = "int64" -> v > C.safe \/ v < -C.safe
      [] f.kind = "nested" /\ f.many -> \E i \in DOMAIN v : v[i] \in unsafe[f.of]
      [] f.kind = "nested" /\ ~f.many -> v \in unsafe[f.of]
      [] OTHER -> FALSE
Unsafe(C, T) ==
    LET unsafe[U \in DOMAIN C.messages] ==
            {m \in MessagesOf[U] :
                \E f \in Fields(C, U) : UnsafeField(C, unsafe, f, m[f.name])}
    IN  unsafe[T]

(* The call *)

Init ==
    /\ call \in Calls
    /\ request \in MessagesOf[call.method.request] \ Unsafe(Caller, call.method.request)
    /\ stage = "calling"
    /\ wire = << >> /\ received = Raised /\ answer = << >> /\ seen = Raised
    /\ document = << >> /\ copy = << >>

RequestSerialize ==
    /\ stage = "calling"
    /\ stage' = "requested"
    /\ wire' = Encode(Caller, call.method.request, request)
    /\ UNCHANGED <<call, request, received, answer, seen, document, copy>>

\* The service finds the method by its path and reads the request.
PeerReceives ==
    /\ stage = "requested"
    /\ stage' = "received"
    /\ \E m \in Offered(call.method.path) : received' = Decode(Peer, m.request, wire)
    /\ UNCHANGED <<call, request, wire, answer, seen, document, copy>>

PeerAnswers ==
    /\ stage = "received"
    /\ stage' = "answered"
    /\ \E m \in Offered(call.method.path), addition \in DOMAIN Additions, reversed \in BOOLEAN :
        /\ answer' \in MessagesOf[m.response]
        /\ wire' = Encoder(Peer, reversed, Additions[addition])[m.response][answer']
    /\ UNCHANGED <<call, request, received, seen, document, copy>>

ResponseDeserialize ==
    /\ stage = "answered"
    /\ stage' = "seen"
    /\ seen' = Decode(Caller, call.method.response, wire)
    /\ wire' = << >>
    /\ UNCHANGED <<call, request, received, answer, document, copy>>

\* The answer is written as JSON; the names of the keys are the codec's or the protocol's.
PublishJSON ==
    /\ stage = "seen"
    /\ seen.ok
    /\ stage' = "published"
    /\ \E style \in {"name", "alias"} :
        document' = [style |-> style,
                     json  |-> ToJSON(Caller, call.method.response, seen.value, style)]
    /\ UNCHANGED <<call, request, wire, received, answer, seen, copy>>

ReadJSON ==
    /\ stage = "published"
    /\ stage' = "done"
    /\ copy' = [json |-> FromJSON(Caller, call.method.response, document.json),
                partial |-> IF document.style = "name"
                            THEN FromPartial(Caller, call.method.response, document.json)
                            ELSE seen.value]
    /\ UNCHANGED <<call, request, wire, received, answer, seen, document>>

Next ==
    \/ RequestSerialize \/ PeerReceives \/ PeerAnswers
    \/ ResponseDeserialize \/ PublishJSON \/ ReadJSON

Spec == Init /\ [][Next]_vars

(* Properties *)

\* A service reads exactly the request the caller made: the path leads to a method of the
\* protocol with that request, a field that was left out on the wire comes back as its
\* default, and an empty nested message is not lost.
RequestsArrive ==
    stage # "calling" /\ stage # "requested" => received.ok /\ received.value = request

\* The caller sees exactly the answer the service gave, whatever order its fields came in and
\* whatever fields a newer version of the service added at any level.
AnswersArrive == stage = "seen" /\ seen.ok => seen.value = answer

\* Reading an answer fails if, and only if, it holds an amount a JavaScript number cannot
\* hold: money is never rounded on the way in, and no field a newer service added makes the
\* reader fail.
OnlyUnsafeAmountsRaise ==
    stage = "seen" => (seen.ok <=> answer \notin Unsafe(Caller, call.method.response))

\* JSON written under either of the two names of each field reads back as the same message,
\* although fields with their default were left out of it.
JsonKeepsMessages == stage = "done" => copy.json = answer /\ copy.partial = answer

====
