------------------------------ MODULE MCResults ------------------------------
(***************************************************************************)
(* Results for TLC: the programs on all short files.                       *)
(***************************************************************************)
EXTENDS Results

MCPrograms == {"throughput", "oom", "counts"}
==============================================================================
