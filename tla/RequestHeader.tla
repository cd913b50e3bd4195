--------------------------- MODULE RequestHeader ----------------------------
(***************************************************************************)
(* The header of a request: send_notification and fcm_send_no_payload      *)
(* (fcm.c) print its fields into arrays on the stack, http_build_header    *)
(* (http.c) prints the request line and the fields into one block.  Texts  *)
(* are their lengths; the arithmetic is that of the code.                  *)
(***************************************************************************)
EXTENDS Integers, Sequences

CONSTANTS Lines,    \* lengths of "POST <path> HTTP/1.1\r\nHost: <domain>"
          Keys,     \* lengths of an api key, NoKey for NULL
          Points,   \* lengths of a public key in base64
          Salts,    \* lengths of a salt in base64
          Digits    \* digits of the length of a message

NoKey == -1

\* The block of http_build_header, and what the offset is compared with.
Block == 2049
Limit == 2042

\* The arrays fields are printed into, and what is printed before the value.
Array == [authorization |-> 1024, crypto_key |-> 128, encryption |-> 128,
          content_len |-> 128]
Prefix == [authorization |-> 19, crypto_key |-> 28, encryption |-> 30,
           content_len |-> 16]

VARIABLES request,   \* what is sent
          phase,
          fields,    \* the lengths of the fields, in order
          overrun,   \* the arrays that were printed beyond their end
          i,         \* fields in the header
          offset,    \* the length of the header so far
          extent     \* bytes of the block that were written to

vars == <<request, phase, fields, overrun, i, offset, extent>>

Requests == [line : Lines, message : BOOLEAN, key : Keys, point : Points,
             salt : Salts, digits : Digits]

Init ==
  /\ request \in Requests
  /\ phase = "fields"
  /\ fields = <<>> /\ overrun = {}
  /\ i = 0 /\ offset = 0 /\ extent = 0

\* The fields of an array, each as its name and the length of its value.
Printed ==
  (IF request.key # NoKey THEN {<<"authorization", request.key>>} ELSE {})
  \cup (IF request.message
        THEN {<<"crypto_key", request.point>>, <<"encryption", request.salt>>,
              <<"content_len", request.digits>>}
        ELSE {})

Text(name, value) == Prefix[name] + value

\* The arguments of http_do_post: "TTL: 0", "Content-Type: ...",
\* "Content-Encoding: aesgcm" and "Content-Length: 0" are literals.
Arguments ==
  (IF request.key # NoKey THEN <<Text("authorization", request.key)>> ELSE <<>>)
  \o (IF request.message
      THEN <<6, 38, 24, Text("crypto_key", request.point),
             Text("encryption", request.salt), Text("content_len", request.digits)>>
      ELSE <<6, 17>>)

\* Mutant of PrintFields: the salt is printed after the point.
PrintFieldsJoined ==
  /\ phase = "fields"
  /\ overrun' = {f[1] : f \in {p \in Printed :
       Text(p[1], p[2]) + (IF p[1] = "crypto_key" THEN request.salt ELSE 0) + 1 > Array[p[1]]}}
  /\ fields' = Arguments
  /\ phase' = "line"
  /\ UNCHANGED <<request, i, offset, extent>>

\* The fields are printed, with the NUL at their end, where there is room or not.
PrintFields ==
  /\ phase = "fields"
  /\ overrun' = {f[1] : f \in {p \in Printed : Text(p[1], p[2]) + 1 > Array[p[1]]}}
  /\ fields' = Arguments
  /\ phase' = "line"
  /\ UNCHANGED <<request, i, offset, extent>>

\* The request line is printed, whatever its length.
PrintLine ==
  /\ phase = "line"
  /\ offset' = request.line
  /\ extent' = request.line + 1
  /\ phase' = "header"
  /\ UNCHANGED <<request, fields, overrun, i>>

\* Mutant of AddField: the offset alone is compared.
AddFieldOffset ==
  /\ phase = "header" /\ i < Len(fields)
  /\ offset < Limit
  /\ offset' = offset + 2 + fields[i + 1]
  /\ extent' = offset' + 1
  /\ i' = i + 1
  /\ UNCHANGED <<request, phase, fields, overrun>>

\* Mutant of AddField: the offset stays where it is.
AddFieldOver ==
  /\ phase = "header" /\ i < Len(fields)
  /\ offset + fields[i + 1] < Limit
  /\ offset' = offset
  /\ extent' = offset + 2 + fields[i + 1] + 1
  /\ i' = i + 1
  /\ UNCHANGED <<request, phase, fields, overrun>>

\* A field that fits is added after a line break.
AddField ==
  /\ phase = "header" /\ i < Len(fields)
  /\ offset + fields[i + 1] < Limit
  /\ offset' = offset + 2 + fields[i + 1]
  /\ extent' = offset' + 1
  /\ i' = i + 1
  /\ UNCHANGED <<request, phase, fields, overrun>>

\* Mutant of Refuse: an extra kilobyte is kept free.
RefuseEarly ==
  /\ phase = "header" /\ i < Len(fields)
  /\ offset + fields[i + 1] >= Limit - 1024
  /\ phase' = "null"
  /\ UNCHANGED <<request, fields, overrun, i, offset, extent>>

\* One that does not ends it: the block is freed and NULL returned.
Refuse ==
  /\ phase = "header" /\ i < Len(fields)
  /\ offset + fields[i + 1] >= Limit
  /\ phase' = "null"
  /\ UNCHANGED <<request, fields, overrun, i, offset, extent>>

\* The empty line.
Finish ==
  /\ phase = "header" /\ i = Len(fields)
  /\ offset' = offset + 4
  /\ extent' = offset' + 1
  /\ phase' = "done"
  /\ UNCHANGED <<request, fields, overrun, i>>

Next == PrintFields \/ PrintLine \/ AddField \/ Refuse \/ Finish

Spec == Init /\ [][Next]_vars
-----------------------------------------------------------------------------
TypeOK ==
  /\ request \in Requests
  /\ phase \in {"fields", "line", "header", "done", "null"}
  /\ fields \in Seq(Nat)
  /\ overrun \subseteq DOMAIN Array
  /\ i \in 0 .. Len(fields)
  /\ offset \in Nat /\ extent \in 0 .. offset + 1

\* The lengths of a line with the first n of some texts, each after a line break.
Lengths(line, texts) ==
  LET length[n \in 0 .. Len(texts)] ==
        IF n = 0 THEN line ELSE length[n - 1] + 2 + texts[n]
  IN  length

\* The length of the header all fields make.
Whole == Lengths(request.line, fields)[Len(fields)] + 4

\* The block is exceeded by the request line alone, which is printed whatever
\* its length, just when this leaves no room for its NUL; then no field is
\* printed behind it and no header is returned.
OnlyLineTooLong ==
  /\ phase \notin {"fields", "line"} => (extent > Block <=> request.line >= Block)
  /\ extent > Block => i = 0 /\ phase # "done"

\* A header that is returned has the line and all fields, with the line break
\* before each and the empty line.
HeaderWhole == phase = "done" => offset = Whole

\* NULL is returned only for a header that could not have been much longer: all
\* that leave two bytes of the block are built.
RefusedOnlyLong == phase = "null" => Whole + 1 >= Block - 1

\* Of the arrays only the one of the api key can be too small, for one of more
\* than 1004 characters.
OnlyKeyTooLong ==
  /\ overrun \subseteq {"authorization"}
  /\ "authorization" \in overrun => request.key > 1004
=============================================================================
