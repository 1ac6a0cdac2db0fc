---------------------------- MODULE MCRandomReads ----------------------------
(***************************************************************************)
(* RandomReads for TLC: words of five bits, all multipliers and increments *)
(* that are like the code's.                                               *)
(***************************************************************************)
EXTENDS RandomReads

MCMultipliers == {a \in 0..(Mod - 1) : a % 4 = 1}
MCIncrements == {c \in 0..(Mod - 1) : c % 2 = 1}
=============================================================================
