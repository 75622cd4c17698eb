--------------------------- MODULE AtomicPromotion ---------------------------
(***************************************************************************)
(* What the documentation of execute_promotion promises: a promotion       *)
(* delivers every selected workflow or changes nothing                     *)
(* (app/services/promotion_service.py:16-18, 1879-1884).  The workflows in  *)
(* the middle of an execution are not visible here.                        *)
(***************************************************************************)
CONSTANTS Selections, Content

VARIABLES
    env,     \* the content of each workflow in the target environment
    outcome  \* the status of the last execution, "none" while one runs

Init == env \in [Selections -> Content] /\ outcome = "none"

Complete ==
    /\ outcome = "none"
    /\ env' = [i \in Selections |-> "new"]
    /\ outcome' = "completed"

Fail ==
    /\ outcome = "none"
    /\ outcome' = "failed"
    /\ UNCHANGED env

Again ==
    /\ outcome # "none"
    /\ outcome' = "none"
    /\ UNCHANGED env

vars == <<env, outcome>>
Next == Complete \/ Fail \/ Again
Spec == Init /\ [][Next]_vars
FairSpec == Spec /\ WF_vars(Complete \/ Fail)
=============================================================================
