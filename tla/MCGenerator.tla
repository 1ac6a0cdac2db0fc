---------------------------- MODULE MCGenerator -----------------------------
(***************************************************************************)
(* Generator for TLC: every multiplier, every increment and every seed of  *)
(* the scaled width.                                                       *)
(***************************************************************************)
EXTENDS Generator

MCMultiplier == Word
MCX == [i \in 0..2 |-> 2]
MCSeed == (-((Base * Base) \div 2))..((Base * Base) \div 2 - 1)
=============================================================================
