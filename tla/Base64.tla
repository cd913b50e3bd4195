------------------------------- MODULE Base64 -------------------------------
(***************************************************************************)
(* The base64 of keys, salts and public keys (common/encryption.c): the    *)
(* loops of env_base64WebEncode and env_base64WebDecode, one action each   *)
(* turn, with the sizes of what they fill.  Shifts and masks are divisions *)
(* and remainders by powers of two.                                        *)
(***************************************************************************)
EXTENDS Integers, Sequences, SequencesExt

CONSTANTS Byte,       \* the bytes that are encoded
          Text,       \* the characters that are decoded
          MaxLength   \* bound: how many of them

Digits == 64

\* The characters of basis_64 are their digits; the others follow.
Plus == Digits - 2
Slash == Digits - 1
Minus == Digits
Underscore == Digits + 1
Equals == Digits + 2
Other == Digits + 3
Nul == Digits + 4

VARIABLES phase,
          input,   \* bufin of the encoder, bufcoded of the decoder
          i,       \* how much of it is read
          ret,     \* what is written
          size     \* how much env_malloc gave for it

vars == <<phase, input, i, ret, size>>

UpTo(S) == UNION {[1 .. n -> S] : n \in 0 .. MaxLength}

Init ==
  /\ \/ phase = "encode" /\ input \in UpTo(Byte)
     \/ phase = "webdecode" /\ input \in UpTo(Text)
  /\ i = 0 /\ ret = <<>> /\ size = 0

\* bufin[i + k], where there is one.
In(k) == input[i + k + 1]
Left == Len(input) - i

\* Mutant of EncodedSize: there is room for the last group, not for the NUL.
EncodedSizeShort(n) == (n \div 3) * 4 + 4

EncodedSize(n) == (n \div 3) * 4 + 5

StartEncoding ==
  /\ phase = "encode"
  /\ size' = EncodedSize(Len(input))
  /\ phase' = "groups"
  /\ UNCHANGED <<input, i, ret>>

\* The four digits of bytes x, y, z; fewer when there are fewer bytes.
First(x) == x \div 4
Second(x, y) == (x % 4) * 16 + y \div 16
Third(y, z) == (y % 16) * 4 + z \div 64
Fourth(z) == z % 64

EncodeGroup ==
  /\ phase = "groups" /\ Left > 2
  /\ ret' = ret \o <<First(In(0)), Second(In(0), In(1)),
                     Third(In(1), In(2)), Fourth(In(2))>>
  /\ i' = i + 3
  /\ UNCHANGED <<phase, input, size>>

\* Mutant of EncodeRest: the rest of the last byte is not moved up.
EncodeRestUnmoved ==
  /\ phase = "groups" /\ Left <= 2
  /\ ret' = ret \o (IF Left = 2 THEN <<First(In(0)), Second(In(0), In(1)),
                                      Third(In(1), 0), Equals>>
                    ELSE IF Left = 1 THEN <<First(In(0)), In(0) % 4, Equals, Equals>>
                    ELSE <<>>) \o <<Nul>>
  /\ phase' = "webencode"
  /\ UNCHANGED <<input, i, size>>

EncodeRest ==
  /\ phase = "groups" /\ Left <= 2
  /\ ret' = ret \o (IF Left = 2 THEN <<First(In(0)), Second(In(0), In(1)),
                                      Third(In(1), 0), Equals>>
                    ELSE IF Left = 1 THEN <<First(In(0)), Second(In(0), 0), Equals, Equals>>
                    ELSE <<>>) \o <<Nul>>
  /\ phase' = "webencode"
  /\ UNCHANGED <<input, i, size>>

\* s with every from[k] replaced by to[k]
Replace(s, from, to) ==
  [k \in 1 .. Len(s) |-> IF s[k] = from[1] THEN to[1]
                         ELSE IF s[k] = from[2] THEN to[2] ELSE s[k]]

WebEncode ==
  /\ phase = "webencode"
  /\ ret' = Replace(ret, <<Plus, Slash>>, <<Minus, Underscore>>)
  /\ phase' = "encoded"
  /\ UNCHANGED <<input, i, size>>

WebDecode ==
  /\ phase = "webdecode"
  /\ input' = Replace(input, <<Minus, Underscore>>, <<Plus, Slash>>)
  /\ phase' = "pad"
  /\ UNCHANGED <<i, ret, size>>

\* A copy of the string gets the signs that make its length a multiple of 4.
Pad ==
  /\ phase = "pad"
  /\ input' = input \o SubSeq(<<Equals, Equals, Equals>>, 1, (4 - (Len(input) % 4)) % 4)
  /\ phase' = "size"
  /\ UNCHANGED <<i, ret, size>>

\* How many characters pr2six knows the string begins with.
Known(s) == CHOOSE n \in 0 .. Len(s) :
              /\ \A k \in 1 .. n : s[k] < Digits
              /\ n = Len(s) \/ s[n + 1] >= Digits

DecodedSize(n) == ((n + 3) \div 4) * 3 + 1

StartDecoding ==
  /\ phase = "size"
  /\ size' = DecodedSize(Known(input))
  /\ phase' = "bytes"
  /\ UNCHANGED <<input, i, ret>>

\* nprbytes
Remaining == Known(input) - i

\* The three bytes of digits w, x, y, z.
Upper(w, x) == (w * 4 + x \div 16) % 256
Centre(x, y) == (x * 16 + y \div 4) % 256
Lower(y, z) == (y * 64 + z) % 256

DecodeGroup ==
  /\ phase = "bytes" /\ Remaining > 4
  /\ ret' = ret \o <<Upper(In(0), In(1)), Centre(In(1), In(2)), Lower(In(2), In(3))>>
  /\ i' = i + 4
  /\ UNCHANGED <<phase, input, size>>

\* Mutant of DecodeRest: two digits are not enough for a byte.
DecodeRestLate ==
  /\ phase = "bytes" /\ Remaining <= 4
  /\ ret' = ret \o (IF Remaining > 2 THEN <<Upper(In(0), In(1))>> ELSE <<>>)
                \o (IF Remaining > 2 THEN <<Centre(In(1), In(2))>> ELSE <<>>)
                \o (IF Remaining > 3 THEN <<Lower(In(2), In(3))>> ELSE <<>>)
  /\ phase' = "decoded"
  /\ UNCHANGED <<input, i, size>>

DecodeRest ==
  /\ phase = "bytes" /\ Remaining <= 4
  /\ ret' = ret \o (IF Remaining > 1 THEN <<Upper(In(0), In(1))>> ELSE <<>>)
                \o (IF Remaining > 2 THEN <<Centre(In(1), In(2))>> ELSE <<>>)
                \o (IF Remaining > 3 THEN <<Lower(In(2), In(3))>> ELSE <<>>)
  /\ phase' = "decoded"
  /\ UNCHANGED <<input, i, size>>

Next ==
  \/ StartEncoding \/ EncodeGroup \/ EncodeRest \/ WebEncode
  \/ WebDecode \/ Pad \/ StartDecoding \/ DecodeGroup \/ DecodeRest

Spec == Init /\ [][Next]_vars
-----------------------------------------------------------------------------
Encoding == {"encode", "groups", "webencode", "encoded"}
Decoding == {"webdecode", "pad", "size", "bytes", "decoded"}

\* Among the types: every character written is one of basis_64 or a sign after
\* it, and every byte a byte.
TypeOK ==
  /\ phase \in Encoding \cup Decoding
  /\ input \in Seq(IF phase \in Encoding THEN Byte ELSE 0 .. Other)
  /\ i \in 0 .. Len(input)
  /\ ret \in Seq(IF phase \in Encoding THEN 0 .. Nul ELSE 0 .. 255)
  /\ phase \in {"groups", "webencode"} => \A c \in ToSet(ret) : c \notin {Minus, Underscore}
  /\ size \in Nat

\* Nothing is written beyond what was allocated, for any length.
WithinBlock == phase \notin {"encode", "webdecode", "pad", "size"} => Len(ret) <= size

\* Bit k, from 0 on, of numbers of width bits each, the highest first.
Power == <<1, 2, 4, 8, 16, 32, 64, 128>>
Bit(s, width, k) == (s[(k \div width) + 1] \div Power[width - (k % width)]) % 2

\* An encoded string is, sign by sign, the bits of the bytes and no more zeros
\* than the last digit takes, then equals signs to a multiple of four and one
\* NUL; it has neither plus nor slash, so that it can stand in a header.
EncodedRight ==
  phase = "encoded" =>
    LET chars == Replace(ret, <<Minus, Underscore>>, <<Plus, Slash>>)
        digits == SubSeq(chars, 1, Known(chars))
        signs == Len(ret) - 1 - Len(digits)
    IN  /\ Len(digits) * 6 - Len(input) * 8 \in 0 .. 5
        /\ \A k \in 0 .. Len(digits) * 6 - 1 :
             Bit(digits, 6, k) = IF k < Len(input) * 8 THEN Bit(input, 8, k) ELSE 0
        /\ signs \in 0 .. 2 /\ (Len(ret) - 1) % 4 = 0
        /\ SubSeq(ret, Len(digits) + 1, Len(ret)) = [k \in 1 .. signs |-> Equals] \o <<Nul>>
        /\ ToSet(ret) \cap {Plus, Slash} = {}

\* A decoded key is the whole bytes in the digits it begins with, web or not,
\* however many signs follow them.
DecodedRight ==
  phase = "decoded" =>
    LET digits == SubSeq(input, 1, Known(input))
    IN  /\ Len(ret) = (3 * Len(digits)) \div 4
        /\ \A k \in 0 .. Len(ret) * 8 - 1 : Bit(ret, 8, k) = Bit(digits, 6, k)
=============================================================================
