----------------------------- MODULE MCHelpers ------------------------------
(* Instance of Helpers for TLC. *)
EXTENDS Helpers

\* Addresses of up to five of these characters; a port of nine bits, which
\* three digits exceed.
MCChar == {"/", ":", "a", "0", "7"}
MCValue == [c \in {"0", "7"} |-> IF c = "7" THEN 7 ELSE 0]

\* Request lines and keys on either side of each bound.
MCLines == {30, 900} \cup 1790 .. 1900 \cup {2000} \cup 2025 .. 2055
MCKeys == {-1, 0, 39, 152, 164, 1004, 1005, 1100}

\* Up to six of five bytes and of six characters (a, l, slash, minus,
\* underscore, the equals sign): a whole group and every rest after it.
MCByte == {0, 90, 165, 251, 255}
MCSign == {0, 37, 63, 64, 65, 66}

\* A second of four ticks, a millisecond of two, and an unsigned int of three
\* bits, which the longest call exceeds.
MCSeconds == 0 .. 2
MCMSeconds == 0 .. 5

\* Texts on both sides of each limit, days of two moments.
MCText == {0, 899, 900, 994, 995, 996}
=============================================================================
