--------------------------- MODULE MCRandomAccess ---------------------------
(***************************************************************************)
(* RandomAccess for TLC.                                                   *)
(***************************************************************************)
EXTENDS RandomAccess

\* The phases 2 and 3 of run.sh, and the mode no configuration uses.
MCPlans == {<<"filldata", "access">>, <<"complete">>}
=============================================================================
