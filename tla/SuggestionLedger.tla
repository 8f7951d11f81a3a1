-------------------------- MODULE SuggestionLedger --------------------------
(***************************************************************************)
(* What an operator may rely on of suggestions and of what databases keep  *)
(* of them: a suggestion is made once and accepted at most once; whatever  *)
(* a database says of it has been true, and no later entry takes an        *)
(* earlier one back, except of a suggestion that became doubtful as it was *)
(* accepted.  Writers, stops and crashes do not appear.                    *)
(* Persistence.tla implements it.                                          *)
(***************************************************************************)

CONSTANTS Ids, Paths

VARIABLES
    status,   \* of each suggestion: "none", "queued" or "accepted"
    row,      \* what each database says of it
    doubtful  \* suggestions of which an older entry may be written after a newer one

vars == <<status, row, doubtful>>

Init ==
    /\ status = [i \in Ids |-> "none"]
    /\ row = [p \in Paths |-> [i \in Ids |-> "none"]]
    /\ doubtful = {}

Make(i) ==
    /\ status[i] = "none" /\ status' = [status EXCEPT ![i] = "queued"]
    /\ UNCHANGED <<row, doubtful>>

Accept(i) ==
    /\ status[i] = "queued" /\ status' = [status EXCEPT ![i] = "accepted"]
    /\ doubtful' \in {doubtful, doubtful \cup {i}}
    /\ UNCHANGED row

\* The entry may lag behind the suggestion, but only ever moves on, unless it is
\* doubtful.
Write(p, i) ==
    /\ status[i] # "none"
    /\ \E told \in {"queued", "accepted"} :
        /\ told = "accepted" => status[i] = "accepted"
        /\ row[p][i] = "accepted" /\ i \notin doubtful => told = "accepted"
        /\ row' = [row EXCEPT ![p][i] = told]
    /\ UNCHANGED <<status, doubtful>>

Next == \E i \in Ids : Make(i) \/ Accept(i) \/ \E p \in Paths : Write(p, i)

Spec == Init /\ [][Next]_vars
=============================================================================
