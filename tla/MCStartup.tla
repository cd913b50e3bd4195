----------------------------- MODULE MCStartup ------------------------------
(***************************************************************************)
(* Startup for TLC.  The threads are alike.                                *)
(***************************************************************************)
EXTENDS Startup, TLC

ThreadSymmetry == Permutations(Thread)
=============================================================================
