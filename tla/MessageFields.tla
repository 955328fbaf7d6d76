---- MODULE MessageFields ----
(***************************************************************************)
(* The kinds of fields and methods the tables of messages are written in.  *)
(* A field has a number, the name the generated code gives it, the second  *)
(* key fromJSON accepts for it, a kind, the message it nests, and whether  *)
(* it is repeated.                                                         *)
(***************************************************************************)
EXTENDS Integers, Sequences

Field(no, name, alias, kind, of, many) ==
    [no |-> no, name |-> name, alias |-> alias, kind |-> kind, of |-> of, many |-> many]

Text(no, name, alias) == Field(no, name, alias, "text", "", FALSE)
Texts(no, name, alias) == Field(no, name, alias, "text", "", TRUE)
Int32(no, name, alias) == Field(no, name, alias, "int32", "", FALSE)
Int64(no, name, alias) == Field(no, name, alias, "int64", "", FALSE)
Bool(no, name, alias) == Field(no, name, alias, "bool", "", FALSE)
Nested(no, name, alias, message) == Field(no, name, alias, "nested", message, FALSE)
Many(no, name, alias, message) == Field(no, name, alias, "nested", message, TRUE)

\* A unary call: its path (/oteldemo.<service>/<method>) and the messages it is asked and
\* answered with.
Method(service, method, request, response) ==
    [path |-> <<service, method>>, request |-> request, response |-> response]

====
