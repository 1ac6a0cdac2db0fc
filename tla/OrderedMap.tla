----------------------------- MODULE OrderedMap -----------------------------
(***************************************************************************)
(* What the B+ tree of benchmarks/btree promises its client: a dictionary. *)
(* One call is outstanding at a time (the benchmark is single-threaded):   *)
(* Call fixes the operation and its arguments, Perform applies it to the   *)
(* dictionary at one instant and, for find, produces the answer.           *)
(***************************************************************************)
CONSTANTS Key, Val,
          NULL,     \* the C null pointer: no record, no outstanding call
          Void      \* the client has no answer yet

VARIABLES dict,     \* the record of every key, NULL where there is none
          req,      \* the outstanding call, or NULL
          ret       \* the answer of the last find, Void until there is one

vars == <<dict, req, ret>>

Requests ==
    {<<"insert", k, v>> : k \in Key, v \in Val} \cup
    {<<op, k, NULL>> : op \in {"delete", "find"}, k \in Key}

TypeOK ==
    /\ dict \in [Key -> Val \cup {NULL}]
    /\ req \in Requests \cup {NULL}
    /\ ret \in Val \cup {NULL, Void}

Init ==
    /\ dict = [k \in Key |-> NULL]
    /\ req = NULL
    /\ ret = Void

Call ==
    /\ req = NULL
    /\ req' \in Requests
    /\ ret' = Void
    /\ UNCHANGED dict

\* The client looks at the answer and drops it.
Forget ==
    /\ req = NULL
    /\ ret' = Void
    /\ UNCHANGED <<dict, req>>

Perform ==
    /\ req # NULL
    /\ req' = NULL
    /\ dict' = CASE req[1] = "insert" -> [dict EXCEPT ![req[2]] = req[3]]
                 [] req[1] = "delete" -> [dict EXCEPT ![req[2]] = NULL]
                 [] OTHER -> dict
    /\ ret' = IF req[1] = "find" THEN dict[req[2]] ELSE Void

Next == Call \/ Forget \/ Perform

Spec == Init /\ [][Next]_vars
=============================================================================
