---------------------------- MODULE MCThroughput ----------------------------
(***************************************************************************)
(* Throughput for TLC: limbs of two bits and a negative seed, as the one   *)
(* of main is.                                                             *)
(***************************************************************************)
EXTENDS Throughput

MCA == [l \in 0..2 |-> l + 1]
MCX == [l \in 0..2 |-> 3 - l]
MCSeed == -3
=============================================================================
