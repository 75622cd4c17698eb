-------------------------- MODULE DecidedOperations --------------------------
(***************************************************************************)
(* What the decisions about Git promotions and rollbacks are for: an       *)
(* operation is carried out once, with the environment and the snapshot    *)
(* that were decided on, in production after an approval only, and never   *)
(* after a rejection that was recorded while it waited                     *)
(* (app/services/git_promotion_service.py,                                 *)
(* app/api/endpoints/git_promotions.py).  An environment has what such an  *)
(* operation gave it, or what a look at it found.  The rows, the calls and *)
(* their failures are not visible here.                                    *)
(***************************************************************************)
CONSTANTS
    Operations, Environments, Snapshots,
    Protected,    \* the environments that need an approval
    MaySeem,      \* an environment that has a snapshot may seem to have none
    None

VARIABLES
    course,  \* how far each operation is, and what is carried out where
    current, \* the snapshot each environment has, or None
    looking  \* the environments at which somebody looks, to find what they have

vars == <<course, current, looking>>

Undecided == [stage |-> "undecided", env |-> None, snapshot |-> None]

Init ==
    /\ course = [o \in Operations |-> Undecided]
    /\ current \in [Environments -> Snapshots \cup {None}]
    /\ looking = {}

\* One operation goes on.
Becomes(o, c) == course' = [course EXCEPT ![o] = c]

\* An operation is decided on once.
Decide(o, stage, envs, snapshots) ==
    /\ course[o] = Undecided
    /\ \E e \in envs, s \in snapshots :
          Becomes(o, [stage |-> stage, env |-> e, snapshot |-> s])
    /\ UNCHANGED <<current, looking>>

Start(o) == Decide(o, "started", Environments \ Protected, Snapshots)
Approve(o) == Decide(o, "approved", Environments, Snapshots)
Reject(o) == Decide(o, "rejected", {None}, {None})

\* The environment is given what was decided on.
Finish(o) ==
    /\ course[o].stage \in {"started", "approved"}
    /\ Becomes(o, [course[o] EXCEPT !.stage = "finished"])
    /\ current' = [current EXCEPT ![course[o].env] = course[o].snapshot]
    /\ UNCHANGED looking

\* Nobody looks at an environment that has a snapshot.
Look(e) ==
    /\ e \notin looking
    /\ current[e] = None \/ MaySeem
    /\ looking' = looking \cup {e}
    /\ UNCHANGED <<course, current>>

\* What is found is nothing that an operation carries out or an environment has.
New(s) ==
    /\ \A o \in Operations : course[o].snapshot # s
    /\ \A e \in Environments : current[e] # s

Find(e, s) ==
    /\ e \in looking
    /\ New(s)
    /\ current' = [current EXCEPT ![e] = s]
    /\ looking' = looking \ {e}
    /\ UNCHANGED course

GiveUp(es) ==
    /\ looking' = looking \ es
    /\ UNCHANGED <<course, current>>

Next ==
    \/ \E o \in Operations : Start(o) \/ Approve(o) \/ Reject(o) \/ Finish(o)
    \/ \E e \in Environments : Look(e) \/ \E s \in Snapshots : Find(e, s)
    \/ \E es \in SUBSET Environments : GiveUp(es)

Spec == Init /\ [][Next]_vars
=============================================================================
