----------------------------- MODULE MCEncrypt -----------------------------
(***************************************************************************)
(* Encrypt for TLC: every call may fail, and the user key is shorter than a *)
(* point, a point, longer, or so much longer that its length as a uint16_t *)
(* is that of a point again, or one more.                                  *)
(***************************************************************************)
EXTENDS Encrypt

MCHead == {"point", "compressed", "offcurve"}
MCLengths == {64, 65, 66, 65536 + 65, 65536 + 66}
=============================================================================
