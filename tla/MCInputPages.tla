---------------------------- MODULE MCInputPages ----------------------------
(***************************************************************************)
(* InputPages for TLC: every number of pages that an int of four bits can  *)
(* be, and every multiplier.                                               *)
(***************************************************************************)
EXTENDS InputPages

MCArg == -8..7
=============================================================================
