------------------------- MODULE ExclusiveExecution -------------------------
(***************************************************************************)
(* What two different locks of the backend are for: at any time one piece  *)
(* of work at most is carried out in an environment, and each is carried   *)
(* out at most once.  execute_deployment's check for an active promotion   *)
(* (app/api/endpoints/promotions.py, app/services/promotion_lock_service.py) *)
(* promises it of promotions, the unique index on background_jobs          *)
(* (app/services/sync_orchestrator_service.py) of synchronisations.        *)
(***************************************************************************)
CONSTANTS Works, Environments

VARIABLES
    work,  \* what is being carried out in each environment
    past   \* what was carried out, to its end or not

vars == <<work, past>>

Init ==
    /\ work = [e \in Environments |-> {}]
    /\ past = {}

Start(w, e) ==
    /\ work[e] = {}
    /\ w \notin past
    /\ \A f \in Environments : w \notin work[f]
    /\ work' = [work EXCEPT ![e] = {w}]
    /\ UNCHANGED past

\* The work in some environments ends: in one, or in all as the process dies.
End(ended) ==
    /\ past' = past \cup UNION {work[e] : e \in ended}
    /\ work' = [e \in Environments |-> IF e \in ended THEN {} ELSE work[e]]

Next ==
    \/ \E w \in Works, e \in Environments : Start(w, e)
    \/ \E ended \in SUBSET Environments : End(ended)

Spec == Init /\ [][Next]_vars
=============================================================================
