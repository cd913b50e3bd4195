----------------------------- MODULE MCConnect ------------------------------
(***************************************************************************)
(* Connect for TLC: lookups of up to three addresses, in every order of    *)
(* the families.                                                           *)
(***************************************************************************)
EXTENDS Connect
=============================================================================
