------------------------- MODULE DriftIncidentProofs -------------------------
(***************************************************************************)
(* What is true of DriftIncident for every set of environments, incidents,  *)
(* approvals and users, every policy and all failures together.             *)
(***************************************************************************)
EXTENDS DriftIncident, TLAPS

USE RowsAssumption

-----------------------------------------------------------------------------
(* Types.                                                                  *)

LEMMA InitTypes == Init => TypeOK
BY DEF Init, TypeOK, Absent

LEMMA PointTypes ==
    ASSUME TypeOK, NEW e \in Environments, NEW i \in Incidents \cup {NoIncident}, Point(e, i)
    PROVE  /\ pointer' \in [Environments -> Incidents \cup {NoIncident}]
           /\ torn' \subseteq Environments
BY DEF TypeOK, Point

LEMMA OpeningTypes ==
    ASSUME TypeOK, NEW i \in Incidents, Create(i) \/ AutoCreate(i)
    PROVE  TypeOK'
<1>1. PICK found \in SUBSET Incidents, expiry \in {"never", "later"} :
          InsertUnless(found, i, expiry)
  BY DEF Create, AutoCreate, Of
<1>2. Point(EnvOf[i], i)
  BY <1>1 DEF InsertUnless, Insert
<1>3. pointer' \in [Environments -> Incidents \cup {NoIncident}] /\ torn' \subseteq Environments
  BY <1>2, PointTypes
<1>4. excuse' \in [Incidents -> SUBSET {"read", "policy", "admin"}]
  BY <1>1 DEF InsertUnless, Excuse, TypeOK
<1> QED BY <1>1, <1>3, <1>4 DEF InsertUnless, Insert, TypeOK, Active, Open

LEMMA MovingTypes ==
    ASSUME TypeOK, NEW i \in Incidents, Acknowledge(i) \/ Stabilize(i) \/ Reconcile(i)
    PROVE  TypeOK'
<1>1. PICK to \in {"acknowledged", "stabilized", "reconciled"},
           type \in {"acknowledge", "none", "reconcile"} : MoveTo(to, i, type)
  BY DEF Acknowledge, Stabilize, Reconcile
<1>2. excuse' \in [Incidents -> SUBSET {"read", "policy", "admin"}]
  BY <1>1 DEF MoveTo, Gate, Excuse, TypeOK
<1>3. status' \in [Incidents -> {"none", "closed"} \cup Open]
  BY <1>1 DEF MoveTo, SetStatus, TypeOK, Open, Active
<1>4. expires' \in [Incidents -> {"never", "later", "over"}]
  BY DEF Acknowledge, Stabilize, Reconcile, TypeOK
<1> QED BY <1>2, <1>3, <1>4 DEF Acknowledge, Stabilize, Reconcile, TypeOK

LEMMA ClosingTypes ==
    ASSUME TypeOK, NEW i \in Incidents, SetClosed(i)
    PROVE  /\ status' \in [Incidents -> {"none", "closed"} \cup Open]
           /\ pointer' \in [Environments -> Incidents \cup {NoIncident}]
           /\ excuse' \in [Incidents -> SUBSET {"read", "policy", "admin"}]
           /\ torn' \subseteq Environments
<1>1. pointer' \in [Environments -> Incidents \cup {NoIncident}] /\ torn' \subseteq Environments
  BY PointTypes DEF SetClosed
<1> QED BY <1>1 DEF SetClosed, SetStatus, TypeOK

LEMMA ApprovedTypes ==
    ASSUME TypeOK, NEW a \in Approvals, NEW u \in Users, MayDecide(a, u)
    PROVE  /\ Approved(a, u) =>
                 /\ approval' \in [Approvals ->
                        {Absent, Deleted} \cup
                        [status : {"pending", "approved", "rejected", "cancelled"},
                         type : Types, by : Users]]
                 /\ granted' \in [Incidents -> SUBSET Types]
                 /\ UNCHANGED listed
           /\ Reject(a, u) => TypeOK'
<1>1. approval[a] \in [status : {"pending", "approved", "rejected", "cancelled"},
                       type : Types, by : Users]
  BY DEF TypeOK, MayDecide, Absent, Deleted
<1>2. ASSUME Approved(a, u)
      PROVE  granted' \in [Incidents -> SUBSET Types]
  BY <1>1, <1>2 DEF Approved, TypeOK
<1> QED BY <1>1, <1>2 DEF Approved, Reject, TypeOK

LEMMA DecidingTypes ==
    ASSUME TypeOK, NEW a \in Approvals, Decide(a)
    PROVE  TypeOK'
<1>1. ASSUME NEW u \in Users, Reject(a, u)
      PROVE  TypeOK'
  BY <1>1, ApprovedTypes DEF Reject
<1>2. ASSUME NEW u \in Users, ApproveAcknowledge(a, u) \/ ApproveOnly(a, u) \/ ApproveExtend(a, u)
      PROVE  TypeOK'
  <2>1. MayDecide(a, u) /\ Approved(a, u)
    BY <1>2 DEF ApproveAcknowledge, ApproveOnly, ApproveExtend
  <2>2. status' \in [Incidents -> {"none", "closed"} \cup Open]
    BY <1>2 DEF ApproveAcknowledge, ApproveOnly, ApproveExtend, SetStatus, TypeOK, Open, Active
  <2>3. expires' \in [Incidents -> {"never", "later", "over"}]
    BY <1>2 DEF ApproveAcknowledge, ApproveOnly, ApproveExtend, TypeOK
  <2>4. UNCHANGED <<pointer, excuse, torn>>
    BY <1>2 DEF ApproveAcknowledge, ApproveOnly, ApproveExtend
  <2> QED BY <2>1, <2>2, <2>3, <2>4, ApprovedTypes DEF TypeOK
<1>3. ASSUME NEW u \in Users, ApproveClose(a, u)
      PROVE  TypeOK'
  <2>1. MayDecide(a, u) /\ Approved(a, u) /\ SetClosed(AboutOf[a]) /\ UNCHANGED expires
    BY <1>3 DEF ApproveClose
  <2>2. AboutOf[a] \in Incidents
    OBVIOUS
  <2> QED BY <2>1, <2>2, ApprovedTypes, ClosingTypes DEF TypeOK
<1>4. ASSUME NEW u \in Users, NEW type \in Types, RequestApproval(a, type, u)
      PROVE  TypeOK'
  BY <1>4 DEF RequestApproval, TypeOK
<1>5. CASE CancelApproval(a)
  <2>1. approval[a] \in [status : {"pending", "approved", "rejected", "cancelled"},
                         type : Types, by : Users]
    BY <1>5 DEF TypeOK, CancelApproval, Absent, Deleted
  <2> QED BY <1>5, <2>1 DEF CancelApproval, TypeOK
<1>6. CASE PurgeApproval(a)
  BY <1>6 DEF PurgeApproval, TypeOK
<1> QED BY <1>1, <1>2, <1>3, <1>4, <1>5, <1>6 DEF Decide, Approve

LEMMA TypesKept ==
    ASSUME TypeOK, [Next]_vars
    PROVE  TypeOK'
<1>1. ASSUME NEW i \in Incidents, Create(i) \/ AutoCreate(i)
      PROVE  TypeOK'
  BY <1>1, OpeningTypes
<1>2. ASSUME NEW i \in Incidents, Acknowledge(i) \/ Stabilize(i) \/ Reconcile(i)
      PROVE  TypeOK'
  BY <1>2, MovingTypes
<1>3. ASSUME NEW i \in Incidents, Close(i) \/ Expire(i)
      PROVE  TypeOK'
  <2>1. SetClosed(i) /\ UNCHANGED <<expires, approval, granted>> /\ listed' \subseteq listed
    BY <1>3 DEF Close, Expire
  <2> QED BY <2>1, ClosingTypes DEF TypeOK
<1>4. ASSUME NEW i \in Incidents, Extend(i) \/ Lapse(i) \/ ExpireFails(i)
      PROVE  TypeOK'
  BY <1>4 DEF Extend, Lapse, ExpireFails, TypeOK, history
<1>5. ASSUME NEW a \in Approvals, Decide(a)
      PROVE  TypeOK'
  BY <1>5, DecidingTypes
<1>6. CASE List
  BY <1>6 DEF List, TypeOK, history
<1>7. CASE Crash
  BY <1>7 DEF Crash, TypeOK, history
<1>8. CASE UNCHANGED vars
  BY <1>8 DEF vars, TypeOK
<1> QED BY <1>1, <1>2, <1>3, <1>4, <1>5, <1>6, <1>7, <1>8 DEF Next, Step

\* Incidents, pointers, approvals and the checker's list keep their types.
THEOREM TypeCorrect == Spec => []TypeOK
BY InitTypes, TypesKept, PTL DEF Spec

-----------------------------------------------------------------------------
(* What a step does to the incidents and the pointers: it opens one, moves    *)
(* one between open states, closes one, or leaves all of them alone.          *)

Opens(i) ==
    \/ Create(i)
    \/ AutoCreate(i)

Moves(i) ==
    \E to \in {"acknowledged", "stabilized", "reconciled"}, type \in Types \cup {"none"} :
        /\ MoveTo(to, i, type)
        /\ to = "acknowledged" => type = "acknowledge"
        /\ to = "reconciled" => type = "reconcile"
        /\ UNCHANGED <<pointer, approval, granted, torn>>

\* An approval that acknowledges its incident.
Passes(i) ==
    /\ status[i] = "detected"
    /\ SetStatus(i, "acknowledged")
    /\ "acknowledge" \in granted'[i]
    /\ UNCHANGED <<pointer, excuse, torn>>

Closes(i) == status[i] # "none" /\ SetClosed(i)

Keeps == UNCHANGED <<status, pointer, excuse, torn>>

\* Who approves is not who asked, so the approval counts as granted.
LEMMA ApprovedGrants ==
    ASSUME TypeOK, NEW a \in Approvals, NEW u \in Users, MayDecide(a, u), Approved(a, u)
    PROVE  /\ granted' = [granted EXCEPT ![AboutOf[a]] = @ \cup {approval[a].type}]
           /\ approval[a].type \in granted'[AboutOf[a]]
BY DEF MayDecide, Approved, TypeOK

LEMMA DecideKinds ==
    ASSUME TypeOK, NEW a \in Approvals, Decide(a)
    PROVE  Keeps \/ Passes(AboutOf[a]) \/ Closes(AboutOf[a])
<1>1. ASSUME NEW u \in Users, ApproveAcknowledge(a, u)
      PROVE  Passes(AboutOf[a])
  <2>1. "acknowledged" \in Valid(status[AboutOf[a]])
    BY <1>1 DEF ApproveAcknowledge
  <2>2. status[AboutOf[a]] = "detected"
    BY <2>1 DEF Valid
  <2>3. "acknowledge" \in granted'[AboutOf[a]]
    BY <1>1, ApprovedGrants DEF ApproveAcknowledge
  <2> QED BY <1>1, <2>2, <2>3 DEF ApproveAcknowledge, Passes
<1>2. ASSUME NEW u \in Users, ApproveClose(a, u)
      PROVE  Closes(AboutOf[a])
  BY <1>2 DEF ApproveClose, Closes
<1>3. ASSUME NEW u \in Users, ApproveExtend(a, u) \/ ApproveOnly(a, u) \/ Reject(a, u)
      PROVE  Keeps
  BY <1>3 DEF ApproveExtend, ApproveOnly, Reject, Keeps
<1>4. ASSUME NEW u \in Users, NEW type \in Types, RequestApproval(a, type, u)
      PROVE  Keeps
  BY <1>4 DEF RequestApproval, Keeps
<1>5. CASE CancelApproval(a) \/ PurgeApproval(a)
  BY <1>5 DEF CancelApproval, PurgeApproval, Keeps
<1> QED BY <1>1, <1>2, <1>3, <1>4, <1>5 DEF Decide, Approve

\* The checker lists rows that exist, and rows are never removed.
ListedExist == \A i \in listed : status[i] # "none"

LEMMA StepKinds ==
    ASSUME TypeOK, ListedExist, [Next]_vars
    PROVE  \/ Keeps
           \/ \E i \in Incidents : Opens(i) \/ Moves(i) \/ Passes(i) \/ Closes(i)
<1>1. ASSUME NEW i \in Incidents, Create(i) \/ AutoCreate(i)
      PROVE  Opens(i)
  BY <1>1 DEF Opens
<1>2. ASSUME NEW i \in Incidents, Acknowledge(i) \/ Stabilize(i) \/ Reconcile(i)
      PROVE  Moves(i)
  <2>1. CASE Acknowledge(i)
    BY <2>1 DEF Acknowledge, Moves, Types
  <2>2. CASE Stabilize(i)
    BY <2>2 DEF Stabilize, Moves, Types
  <2>3. CASE Reconcile(i)
    BY <2>3 DEF Reconcile, Moves, Types
  <2> QED BY <1>2, <2>1, <2>2, <2>3
<1>3. ASSUME NEW i \in Incidents, Close(i)
      PROVE  Closes(i)
  <2>1. "closed" \in Valid(status[i])
    BY <1>3 DEF Close
  <2>2. status[i] # "none"
    BY <2>1 DEF Valid
  <2> QED BY <1>3, <2>2 DEF Close, Closes
<1>4. ASSUME NEW i \in Incidents, Expire(i)
      PROVE  Closes(i)
  BY <1>4 DEF Expire, ListedExist, Closes
<1>5. ASSUME NEW i \in Incidents, Extend(i) \/ Lapse(i) \/ ExpireFails(i)
      PROVE  Keeps
  BY <1>5 DEF Extend, Lapse, ExpireFails, Keeps, history
<1>6. ASSUME NEW a \in Approvals, Decide(a)
      PROVE  Keeps \/ Passes(AboutOf[a]) \/ Closes(AboutOf[a])
  BY <1>6, DecideKinds
<1>7. CASE List \/ Crash \/ UNCHANGED vars
  BY <1>7 DEF List, Crash, vars, Keeps, history
<1> QED BY <1>1, <1>2, <1>3, <1>4, <1>5, <1>6, <1>7 DEF Next, Step

\* What each kind of step does to one row.
LEMMA OpensRow ==
    ASSUME TypeOK, NEW i \in Incidents, Opens(i)
    PROVE  /\ status[i] = "none"
           /\ status' = [status EXCEPT ![i] = "detected"]
           /\ Point(EnvOf[i], i)
           /\ UNCHANGED <<approval, granted>>
           /\ "read" \in excuse'[i] \/ Of(EnvOf[i], Active) = {}
           /\ \A j \in Incidents \ {i} : excuse'[j] = excuse[j]
<1>1. PICK found \in SUBSET Incidents, expiry \in {"never", "later"} :
          InsertUnless(found, i, expiry) /\ Of(EnvOf[i], Active) \subseteq found
  BY DEF Opens, Create, AutoCreate, Of, Open
<1> QED BY <1>1 DEF InsertUnless, Insert, Excuse, TypeOK

LEMMA MovesRow ==
    ASSUME TypeOK, NEW i \in Incidents, Moves(i)
    PROVE  /\ status[i] \in Open
           /\ status'[i] \in {"acknowledged", "stabilized", "reconciled"}
           /\ \A j \in Incidents \ {i} : status'[j] = status[j] /\ excuse'[j] = excuse[j]
           /\ excuse[i] \subseteq excuse'[i]
           /\ \/ "admin" \in excuse'[i]
              \/ status'[i] \in Valid(status[i])
<1>1. PICK to \in {"acknowledged", "stabilized", "reconciled"}, type \in Types \cup {"none"} :
          MoveTo(to, i, type)
  BY DEF Moves
<1>2. status'[i] = to /\ \A j \in Incidents \ {i} : status'[j] = status[j]
  BY <1>1 DEF MoveTo, SetStatus, TypeOK
<1>3. \/ UNCHANGED excuse
      \/ \E reason : Excuse(i, reason)
  BY <1>1 DEF MoveTo, Gate
<1>4. excuse[i] \subseteq excuse'[i] /\ \A j \in Incidents \ {i} : excuse'[j] = excuse[j]
  BY <1>3 DEF Excuse, TypeOK
<1>5. to \in Valid(status[i]) \/ (Overridable(i) /\ Excuse(i, "admin"))
  BY <1>1 DEF MoveTo
<1>6. status[i] \in Open
  <2>1. status[i] \in {"none", "closed"} => to \notin Valid(status[i])
    BY DEF Valid
  <2> QED BY <1>5, <2>1 DEF Overridable, Exists, TypeOK
<1>7. Excuse(i, "admin") => "admin" \in excuse'[i]
  BY DEF Excuse, TypeOK
<1> QED BY <1>2, <1>4, <1>5, <1>6, <1>7

LEMMA ClosesRow ==
    ASSUME TypeOK, NEW i \in Incidents, Closes(i)
    PROVE  /\ status'[i] = "closed"
           /\ \A j \in Incidents \ {i} : status'[j] = status[j] /\ excuse'[j] = excuse[j]
           /\ Point(EnvOf[i], NoIncident)
BY DEF Closes, SetClosed, SetStatus, TypeOK

LEMMA PassesRow ==
    ASSUME TypeOK, NEW i \in Incidents, Passes(i)
    PROVE  /\ status[i] = "detected" /\ status'[i] = "acknowledged"
           /\ \A j \in Incidents \ {i} : status'[j] = status[j]
           /\ UNCHANGED <<pointer, excuse, torn>>
BY DEF Passes, SetStatus, TypeOK

LEMMA ListedKept ==
    ASSUME TypeOK, ListedExist, [Next]_vars
    PROVE  ListedExist'
<1>1. \A i \in Incidents : status[i] # "none" => status'[i] # "none"
  <2>1. CASE Keeps
    BY <2>1 DEF Keeps
  <2>2. ASSUME NEW i \in Incidents, Opens(i)
        PROVE  \A j \in Incidents : status[j] # "none" => status'[j] # "none"
    BY <2>2, OpensRow DEF TypeOK
  <2>3. ASSUME NEW i \in Incidents, Moves(i)
        PROVE  \A j \in Incidents : status[j] # "none" => status'[j] # "none"
    BY <2>3, MovesRow
  <2>4. ASSUME NEW i \in Incidents, Passes(i)
        PROVE  \A j \in Incidents : status[j] # "none" => status'[j] # "none"
    BY <2>4, PassesRow
  <2>5. ASSUME NEW i \in Incidents, Closes(i)
        PROVE  \A j \in Incidents : status[j] # "none" => status'[j] # "none"
    BY <2>5, ClosesRow
  <2> QED BY <2>1, <2>2, <2>3, <2>4, <2>5, StepKinds
<1>2. listed' \subseteq listed \cup {i \in Incidents : Expired(i)}
  <2>1. ASSUME NEW i \in Incidents, Step(i)
        PROVE  listed' \subseteq listed
    BY <2>1 DEF Step, Create, AutoCreate, InsertUnless, Insert, Acknowledge, Stabilize,
         Reconcile, Close, Extend, Lapse, Expire, ExpireFails
  <2>2. ASSUME NEW a \in Approvals, Decide(a)
        PROVE  listed' = listed
    BY <2>2 DEF Decide, Approve, ApproveAcknowledge, ApproveExtend, ApproveClose, ApproveOnly,
         Approved, Reject, RequestApproval, CancelApproval, PurgeApproval
  <2>3. CASE List \/ Crash \/ UNCHANGED vars
    BY <2>3 DEF List, Crash, vars
  <2> QED BY <2>1, <2>2, <2>3 DEF Next
<1>3. \A i \in Incidents : Expired(i) => status[i] # "none"
  BY DEF Expired, Active
<1> QED BY <1>1, <1>2, <1>3 DEF ListedExist, TypeOK

LEMMA InitListed == Init => ListedExist
BY DEF Init, ListedExist

-----------------------------------------------------------------------------
(* One active incident per environment.                                    *)

LEMMA OneActiveKept ==
    ASSUME TypeOK, ListedExist, OneActiveIncident, [Next]_vars
    PROVE  OneActiveIncident'
<1>1. CASE Keeps
  BY <1>1 DEF Keeps, OneActiveIncident
<1>2. ASSUME NEW i \in Incidents, Opens(i)
      PROVE  OneActiveIncident'
  BY <1>2, OpensRow DEF OneActiveIncident, Of, TypeOK
<1>3. ASSUME NEW i \in Incidents, Moves(i)
      PROVE  OneActiveIncident'
  <2>1. \/ "admin" \in excuse'[i]
        \/ status'[i] \in Active => status[i] \in Active
    <3>1. status[i] = "reconciled" => Valid(status[i]) = {"closed"}
      BY DEF Valid
    <3> QED BY <1>3, <3>1, MovesRow DEF Open, Active
  <2> QED BY <1>3, <2>1, MovesRow DEF OneActiveIncident
<1>4. ASSUME NEW i \in Incidents, Passes(i)
      PROVE  OneActiveIncident'
  BY <1>4, PassesRow DEF OneActiveIncident, Active
<1>5. ASSUME NEW i \in Incidents, Closes(i)
      PROVE  OneActiveIncident'
  BY <1>5, ClosesRow DEF OneActiveIncident, Active
<1> QED BY <1>1, <1>2, <1>3, <1>4, <1>5, StepKinds

\* Users and the scheduler open a second active incident only after a failed
\* query (drift_incident_service.py, drift_scheduler.py): the states that one
\* creator ignores are states nobody comes back from without an administrator.
THEOREM OneActive == Spec => []OneActiveIncident
<1>1. Init => OneActiveIncident
  BY DEF Init, OneActiveIncident, Active
<1> QED BY <1>1, InitListed, ListedKept, TypeCorrect, OneActiveKept, PTL DEF Spec

-----------------------------------------------------------------------------
(* The pointer of an environment.                                          *)

LEMMA PointerKept ==
    ASSUME TypeOK, ListedExist, PointerNamesOpen, [Next]_vars
    PROVE  PointerNamesOpen'
<1> USE DEF PointerNamesOpen, Of
<1>1. CASE Keeps
  BY <1>1 DEF Keeps
<1>2. ASSUME NEW i \in Incidents, Opens(i)
      PROVE  PointerNamesOpen'
  <2>1. status'[i] \in Open /\ \A j \in Incidents : status[j] \in Open => status'[j] \in Open
    BY <1>2, OpensRow DEF TypeOK, Open, Active
  <2> QED BY <1>2, <2>1, OpensRow DEF Point, TypeOK
<1>3. ASSUME NEW i \in Incidents, Moves(i)
      PROVE  PointerNamesOpen'
  <2>1. \A j \in Incidents : status[j] \in Open => status'[j] \in Open
    BY <1>3, MovesRow DEF Open, Active
  <2>2. UNCHANGED <<pointer, torn>>
    BY <1>3 DEF Moves
  <2> QED BY <2>1, <2>2
<1>4. ASSUME NEW i \in Incidents, Passes(i)
      PROVE  PointerNamesOpen'
  <2>1. \A j \in Incidents : status[j] \in Open => status'[j] \in Open
    BY <1>4, PassesRow DEF Open, Active
  <2> QED BY <1>4, <2>1, PassesRow
<1>5. ASSUME NEW i \in Incidents, Closes(i)
      PROVE  PointerNamesOpen'
  <2>1. ASSUME NEW e \in Environments \ torn', e # EnvOf[i]
        PROVE  pointer'[e] \in {j \in Incidents : EnvOf[j] = e /\ status'[j] \in Open}
                               \cup {NoIncident}
    BY <1>5, <2>1, ClosesRow DEF Point, TypeOK
  <2>2. EnvOf[i] \notin torn' => pointer'[EnvOf[i]] = NoIncident
    BY <1>5, ClosesRow DEF Point, TypeOK
  <2> QED BY <2>1, <2>2
<1> QED BY <1>1, <1>2, <1>3, <1>4, <1>5, StepKinds

\* active_drift_incident_id never names a closed or a foreign incident, unless the
\* last write of that very pointer failed.
THEOREM PointerOpen == Spec => []PointerNamesOpen
<1>1. Init => PointerNamesOpen
  BY DEF Init, PointerNamesOpen
<1> QED BY <1>1, InitListed, ListedKept, TypeCorrect, PointerKept, PTL DEF Spec

-----------------------------------------------------------------------------
(* Closed is terminal.                                                     *)

LEMMA ClosedKept ==
    ASSUME TypeOK, ListedExist, [Next]_vars
    PROVE  \A i \in Incidents : status[i] = "closed" => status'[i] = "closed"
<1>1. CASE Keeps
  BY <1>1 DEF Keeps
<1>2. ASSUME NEW i \in Incidents, Opens(i)
      PROVE  \A j \in Incidents : status[j] = "closed" => status'[j] = "closed"
  BY <1>2, OpensRow DEF TypeOK
<1>3. ASSUME NEW i \in Incidents, Moves(i)
      PROVE  \A j \in Incidents : status[j] = "closed" => status'[j] = "closed"
  BY <1>3, MovesRow DEF Open, Active
<1>4. ASSUME NEW i \in Incidents, Passes(i)
      PROVE  \A j \in Incidents : status[j] = "closed" => status'[j] = "closed"
  BY <1>4, PassesRow
<1>5. ASSUME NEW i \in Incidents, Closes(i)
      PROVE  \A j \in Incidents : status[j] = "closed" => status'[j] = "closed"
  BY <1>5, ClosesRow
<1> QED BY <1>1, <1>2, <1>3, <1>4, <1>5, StepKinds

\* "Closed is terminal even for admins" (_validate_transition), whatever users,
\* approvals and the checker's old list bring about.
THEOREM ClosedIsFinal == Spec => ClosedStaysClosed
<1>1. TypeOK /\ ListedExist /\ [Next]_vars
      => [\A i \in Incidents : status[i] = "closed" => status'[i] = "closed"]_vars
  BY ClosedKept
<1> QED BY <1>1, InitListed, ListedKept, TypeCorrect, PTL DEF Spec, ClosedStaysClosed

-----------------------------------------------------------------------------
(* Approvals.                                                              *)

\* A row that says approved has been approved by somebody else than who asked.
ApprovedIsGranted ==
    \A a \in Approvals :
        approval[a].status = "approved" => approval[a].type \in granted[AboutOf[a]]

LEMMA ApprovedForGranted ==
    ASSUME ApprovedIsGranted, NEW i \in Incidents, NEW type, ApprovedFor(i, type)
    PROVE  type \in granted[i]
BY DEF ApprovedIsGranted, ApprovedFor

LEMMA DecidingGrants ==
    ASSUME TypeOK, ApprovedIsGranted, NEW a \in Approvals, Decide(a)
    PROVE  ApprovedIsGranted' /\ \A i \in Incidents : granted[i] \subseteq granted'[i]
<1>1. ASSUME NEW u \in Users, Approve(a, u)
      PROVE  ApprovedIsGranted' /\ \A i \in Incidents : granted[i] \subseteq granted'[i]
  <2>1. MayDecide(a, u) /\ Approved(a, u)
    BY <1>1 DEF Approve, ApproveAcknowledge, ApproveExtend, ApproveClose, ApproveOnly
  <2>2. approval' = [approval EXCEPT ![a].status = "approved"]
    BY <2>1 DEF Approved
  <2>3. approval'[a].type = approval[a].type /\ \A b \in Approvals \ {a} : approval'[b] = approval[b]
    BY <2>1, <2>2 DEF TypeOK, MayDecide, Absent, Deleted
  <2>4. \A i \in Incidents : granted[i] \subseteq granted'[i]
    BY <2>1, ApprovedGrants DEF TypeOK
  <2>5. approval[a].type \in granted'[AboutOf[a]]
    BY <2>1, ApprovedGrants
  <2> QED BY <2>3, <2>4, <2>5 DEF ApprovedIsGranted
<1>2. ASSUME approval'[a].status # "approved", UNCHANGED granted,
             \A b \in Approvals \ {a} : approval'[b] = approval[b]
      PROVE  ApprovedIsGranted' /\ \A i \in Incidents : granted[i] \subseteq granted'[i]
  BY <1>2 DEF ApprovedIsGranted
<1>3. ASSUME NEW u \in Users, Reject(a, u) \/ CancelApproval(a)
      PROVE  /\ approval'[a].status # "approved" /\ UNCHANGED granted
             /\ \A b \in Approvals \ {a} : approval'[b] = approval[b]
  BY <1>3 DEF Reject, CancelApproval, MayDecide, TypeOK, Absent, Deleted
<1>4. ASSUME NEW u \in Users, NEW type \in Types, RequestApproval(a, type, u)
      PROVE  /\ approval'[a].status # "approved" /\ UNCHANGED granted
             /\ \A b \in Approvals \ {a} : approval'[b] = approval[b]
  BY <1>4 DEF RequestApproval, TypeOK
<1>5. CASE PurgeApproval(a)
  BY <1>2, <1>5 DEF PurgeApproval, TypeOK, Deleted
<1>6. CASE CancelApproval(a)
  <2>1. approval[a] \in [status : {"pending", "approved", "rejected", "cancelled"},
                         type : Types, by : Users]
    BY <1>6 DEF TypeOK, CancelApproval, Absent, Deleted
  <2> QED BY <1>2, <1>6, <2>1 DEF CancelApproval, TypeOK
<1> QED BY <1>1, <1>2, <1>3, <1>4, <1>5, <1>6 DEF Decide

LEMMA GrantsKept ==
    ASSUME TypeOK, ApprovedIsGranted, [Next]_vars
    PROVE  ApprovedIsGranted' /\ \A i \in Incidents : granted[i] \subseteq granted'[i]
<1>1. ASSUME NEW i \in Incidents, Step(i)
      PROVE  UNCHANGED <<approval, granted>>
  BY <1>1 DEF Step, Create, AutoCreate, InsertUnless, Insert, Acknowledge, Stabilize,
       Reconcile, Close, Extend, Lapse, Expire, ExpireFails, history
<1>2. CASE List \/ Crash \/ UNCHANGED vars
  BY <1>2 DEF List, Crash, vars, history, ApprovedIsGranted
<1> QED BY <1>1, <1>2, DecidingGrants DEF Next, ApprovedIsGranted

\* A step that leaves no excuse was permitted.
LEMMA MovesGranted ==
    ASSUME TypeOK, ApprovedIsGranted, NEW i \in Incidents, Moves(i),
           excuse'[i] \cap {"policy", "admin"} = {}
    PROVE  /\ status'[i] \in Valid(status[i])
           /\ status'[i] = "acknowledged" /\ "acknowledge" \in Required
                 => "acknowledge" \in granted[i]
           /\ status'[i] = "reconciled" /\ "reconcile" \in Required
                 => "reconcile" \in granted[i]
<1>1. PICK to \in {"acknowledged", "stabilized", "reconciled"}, type \in Types \cup {"none"} :
          /\ MoveTo(to, i, type)
          /\ to = "acknowledged" => type = "acknowledge"
          /\ to = "reconciled" => type = "reconcile"
  BY DEF Moves
<1>2. status'[i] = to
  BY <1>1 DEF MoveTo, SetStatus, TypeOK
<1>3. ~Excuse(i, "policy") /\ ~Excuse(i, "admin")
  <2>1. \A reason : Excuse(i, reason) => reason \in excuse'[i]
    BY DEF Excuse, TypeOK
  <2> QED BY <2>1
<1>4. to \in Valid(status[i]) /\ Permitted(i, type)
  BY <1>1, <1>3 DEF MoveTo, Gate
<1> QED BY <1>1, <1>2, <1>4, ApprovedForGranted DEF Permitted

LEMMA GatedKept ==
    ASSUME TypeOK, ListedExist, ApprovedIsGranted, GatedIsApproved, [Next]_vars
    PROVE  GatedIsApproved'
<1>1. \A i \in Incidents : granted[i] \subseteq granted'[i]
  BY GrantsKept
<1> DEFINE Ok(i, s, x, g) ==
        x \cap {"policy", "admin"} = {} =>
            /\ s \in Open \ {"detected"} /\ "acknowledge" \in Required
                  => "acknowledge" \in g
            /\ s = "reconciled" /\ "reconcile" \in Required
                  => "reconcile" \in g
<1>2. SUFFICES ASSUME NEW j \in Incidents
               PROVE  Ok(j, status'[j], excuse'[j], granted'[j])
  BY DEF GatedIsApproved
<1>3. Ok(j, status[j], excuse[j], granted'[j])
  BY <1>1 DEF GatedIsApproved
<1>4. CASE Keeps
  BY <1>3, <1>4 DEF Keeps
<1>5. ASSUME NEW i \in Incidents, Opens(i)
      PROVE  Ok(j, status'[j], excuse'[j], granted'[j])
  <2>1. CASE i = j
    BY <1>5, <2>1, OpensRow DEF TypeOK
  <2>2. CASE i # j
    BY <1>3, <1>5, <2>2, OpensRow DEF TypeOK
  <2> QED BY <2>1, <2>2
<1>6. ASSUME NEW i \in Incidents, Moves(i)
      PROVE  Ok(j, status'[j], excuse'[j], granted'[j])
  <2>1. CASE i # j
    BY <1>3, <1>6, <2>1, MovesRow
  <2>2. CASE i = j
    <3>1. SUFFICES ASSUME excuse'[j] \cap {"policy", "admin"} = {}
                   PROVE  Ok(j, status'[j], {}, granted'[j])
      OBVIOUS
    <3>2. excuse[j] \cap {"policy", "admin"} = {}
      BY <1>6, <2>2, <3>1, MovesRow
    <3>3. status'[j] \in {"acknowledged", "stabilized", "reconciled"} /\ status'[j] \in Valid(status[j])
      BY <1>6, <2>2, <3>1, MovesRow, MovesGranted
    <3>4. status'[j] # "acknowledged" => status[j] \in {"acknowledged", "stabilized"}
      BY <3>3 DEF Valid
    <3>5. granted[j] \subseteq granted'[j]
      BY <1>1
    <3>6. CASE status'[j] = "acknowledged"
      BY <1>6, <2>2, <3>1, <3>5, <3>6, MovesGranted
    <3>7. CASE status'[j] # "acknowledged"
      <4>1. "acknowledge" \in Required => "acknowledge" \in granted'[j]
        BY <1>3, <3>2, <3>4, <3>7 DEF Open, Active
      <4>2. status'[j] = "reconciled" /\ "reconcile" \in Required => "reconcile" \in granted'[j]
        BY <1>6, <2>2, <3>1, <3>5, MovesGranted
      <4> QED BY <4>1, <4>2
    <3> QED BY <3>6, <3>7
  <2> QED BY <2>1, <2>2
<1>7. ASSUME NEW i \in Incidents, Passes(i)
      PROVE  Ok(j, status'[j], excuse'[j], granted'[j])
  <2>1. CASE i = j
    BY <1>7, <2>1, PassesRow DEF Passes
  <2>2. CASE i # j
    BY <1>3, <1>7, <2>2, PassesRow
  <2> QED BY <2>1, <2>2
<1>8. ASSUME NEW i \in Incidents, Closes(i)
      PROVE  Ok(j, status'[j], excuse'[j], granted'[j])
  <2>1. CASE i = j
    BY <1>8, <2>1, ClosesRow DEF Open, Active
  <2>2. CASE i # j
    BY <1>3, <1>8, <2>2, ClosesRow
  <2> QED BY <2>1, <2>2
<1> QED BY <1>4, <1>5, <1>6, <1>7, <1>8, StepKinds

LEMMA InitGrants == Init => ApprovedIsGranted /\ GatedIsApproved
BY DEF Init, ApprovedIsGranted, GatedIsApproved, Absent, Open, Active

LEMMA GrantsAlways == Spec => [](TypeOK /\ ListedExist /\ ApprovedIsGranted /\ GatedIsApproved)
BY InitTypes, InitListed, InitGrants, TypesKept, ListedKept, GrantsKept, GatedKept, PTL DEF Spec

\* check_approval_status lets nobody acknowledge or reconcile without the approval
\* of somebody else than who asked for it, in any order of requests, decisions,
\* cancellations, executions and deletions of approvals.
THEOREM ApprovalFirst == Spec => []GatedIsApproved
BY GrantsAlways, PTL

\* The gate names one blocking incident, which is all there is.
LEMMA JustifiedFollows ==
    ASSUME TypeOK, OneActiveIncident, ApprovedIsGranted
    PROVE  GateIsJustified
<1>1. SUFFICES ASSUME NEW e \in Environments, GateOpens(e),
                      \A j \in Of(e, Active) : excuse[j] \cap {"read", "admin"} = {},
                      NEW i \in Of(e, Active),
                      BlockOnDrift \/ (BlockOnExpired /\ Expired(i))
               PROVE  granted[i] \cap {"acknowledge", "deployment_override", "close"} # {}
  BY DEF GateIsJustified
<1>2. \A j \in Of(e, Active) : j = i
  <2>1. SUFFICES ASSUME NEW j \in Of(e, Active) PROVE j = i
    OBVIOUS
  <2>2. (excuse[i] \cup excuse[j]) \cap {"read", "admin"} = {}
    BY <1>1
  <2> QED BY <2>2 DEF Of, OneActiveIncident
<1>3. i \in Blocking(e)
  BY <1>1, <1>2 DEF Blocking
<1>4. Blocking(e) \subseteq Of(e, Active)
  BY DEF Blocking
<1>5. Overridden(i)
  BY <1>1, <1>2, <1>3, <1>4 DEF GateOpens
<1>6. PICK type \in {"acknowledge", "deployment_override", "close"} : ApprovedFor(i, type)
  BY <1>5 DEF Overridden
<1> QED BY <1>6, ApprovedForGranted DEF Of

\* While its reads succeed, check_enforcement_with_override opens only past
\* incidents that somebody other than the requester approved, though it looks at
\* the newest one only.
THEOREM GateJustified == Spec => []GateIsJustified
BY GrantsAlways, OneActive, JustifiedFollows, PTL
=============================================================================
