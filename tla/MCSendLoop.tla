---------------------------- MODULE MCSendLoop ------------------------------
(* Windows of 3 bytes in a world of 12 values: every length from empty through *)
(* several windows to the lengths whose last window wraps.                   *)
EXTENDS SendLoop

MCDataLens == 0 .. (W - 1)
=============================================================================
