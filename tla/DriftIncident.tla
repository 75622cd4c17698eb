---------------------------- MODULE DriftIncident ----------------------------
(***************************************************************************)
(* Drift incidents: their life cycle (services/drift_incident_service.py),  *)
(* the approvals some of its steps need (services/gated_action_service.py,  *)
(* api/endpoints/drift_approvals.py), the schedulers that open incidents    *)
(* and close expired ones (services/drift_scheduler.py), and the gate that  *)
(* incidents put before promotions (services/drift_policy_enforcement.py).  *)
(*                                                                         *)
(* A request is one segment, as all its calls are database calls.  The      *)
(* checker of expired incidents suspends between two of the incidents it    *)
(* has listed, in the notification of each.                                *)
(*                                                                         *)
(* Faults:  "pointer" the second statement of a handler, which writes the   *)
(*                    environment, fails, or the process dies before it     *)
(*          "expiry"  the checker's update of an incident fails             *)
(*          "execute" an approval is written, and its action fails          *)
(*          "read"    the query for an open incident fails: "there is none" *)
(*          "policy"  the query for the policy fails: "nothing is required" *)
(*          "admin"   administrators set admin_override                     *)
(*          "purge"   old approvals are deleted                             *)
(*          "crash"   the process dies between two expired incidents        *)
(***************************************************************************)
CONSTANTS
    Environments,
    Incidents,      \* rows of drift_incidents that can be created
    EnvOf,          \* the environment_id of each
    Approvals,      \* rows of drift_approvals that can be created
    AboutOf,        \* the incident_id of each
    Users,
    NoIncident,     \* the null of active_drift_incident_id
    Required,       \* the actions for which the policy requires an approval
    BlockOnDrift,   \* block_deployments_on_drift
    BlockOnExpired, \* block_deployments_on_expired
    Faults          \* which failures this instance exhibits

ASSUME RowsAssumption ==
    /\ EnvOf \in [Incidents -> Environments]
    /\ AboutOf \in [Approvals -> Incidents]
    /\ NoIncident \notin Incidents
ASSUME PolicyAssumption ==
    /\ Required \subseteq {"acknowledge", "extend_ttl", "reconcile"}
    /\ BlockOnDrift \in BOOLEAN
    /\ BlockOnExpired \in BOOLEAN

VARIABLES
    status,    \* DriftIncidentStatus of each row, "none" before it is created
    expires,   \* its expires_at: none, still to come, or over
    pointer,   \* active_drift_incident_id of each environment
    approval,  \* the rows of drift_approvals
    listed,    \* the expired incidents that the checker has still to handle
    granted,   \* history: the types somebody else than the requester approved
    excuse,    \* history: what was overridden or overlooked to move an incident
    torn       \* history: the environments whose pointer missed its last write

vars == <<status, expires, pointer, approval, listed, granted, excuse, torn>>
history == <<granted, excuse, torn>>

Types == {"acknowledge", "extend_ttl", "close", "reconcile", "deployment_override"}

\* What the scheduler, the checker and the gate call active.
Active == {"detected", "acknowledged", "stabilized"}

\* neq("status", "closed"), of a row.
Open == Active \cup {"reconciled"}

\* A row of drift_approvals that is not there yet, or not any more.
Absent == [status |-> "none"]
Deleted == [status |-> "deleted"]

TypeOK ==
    /\ status \in [Incidents -> {"none", "closed"} \cup Open]
    /\ expires \in [Incidents -> {"never", "later", "over"}]
    /\ pointer \in [Environments -> Incidents \cup {NoIncident}]
    /\ approval \in [Approvals ->
                        {Absent, Deleted} \cup
                        [status : {"pending", "approved", "rejected", "cancelled"},
                         type : Types,
                         by : Users]]
    /\ listed \subseteq Incidents
    /\ granted \in [Incidents -> SUBSET Types]
    /\ excuse \in [Incidents -> SUBSET {"read", "policy", "admin"}]
    /\ torn \subseteq Environments

Init ==
    /\ status = [i \in Incidents |-> "none"]
    /\ expires = [i \in Incidents |-> "never"]
    /\ pointer = [e \in Environments |-> NoIncident]
    /\ approval = [a \in Approvals |-> Absent]
    /\ listed = {}
    /\ granted = [i \in Incidents |-> {}]
    /\ excuse = [i \in Incidents |-> {}]
    /\ torn = {}

-----------------------------------------------------------------------------
(* Opening an incident.                                                    *)

Of(e, states) == {i \in Incidents : EnvOf[i] = e /\ status[i] \in states}

\* The handler's second statement.
Point(e, i) ==
    \/ pointer' = [pointer EXCEPT ![e] = i] /\ torn' = torn \ {e}
    \/ "pointer" \in Faults /\ UNCHANGED pointer /\ torn' = torn \cup {e}

Excuse(i, reason) == excuse' = [excuse EXCEPT ![i] = @ \cup {reason}]

Insert(i, expiry) ==
    /\ status[i] = "none"
    /\ status' = [status EXCEPT ![i] = "detected"]
    /\ expires' = [expires EXCEPT ![i] = expiry]
    /\ Point(EnvOf[i], i)
    /\ UNCHANGED <<approval, listed, granted>>

\* A new row unless the query finds one, or fails.
InsertUnless(found, i, expiry) ==
    /\ Insert(i, expiry)
    /\ IF found = {} THEN UNCHANGED excuse
       ELSE "read" \in Faults /\ Excuse(i, "read")

\* create_incident; its refusal of a likeness of a closed one is left open.
Create(i) == InsertUnless(Of(EnvOf[i], Open), i, "never")

\* Mutant: the scheduler's list of active states lacks one.
AutoCreateForgetful(i) ==
    InsertUnless(Of(EnvOf[i], Active \ {"stabilized"}), i, "later")

\* _handle_drift_detected, which does not see a reconciled incident.
AutoCreate(i) == InsertUnless(Of(EnvOf[i], Active), i, "later")

-----------------------------------------------------------------------------
(* The steps of an incident.                                               *)

\* VALID_TRANSITIONS.
Valid(from) ==
    CASE from = "detected"     -> {"acknowledged", "closed"}
      [] from = "acknowledged" -> {"stabilized", "reconciled", "closed"}
      [] from = "stabilized"   -> {"reconciled", "closed"}
      [] from = "reconciled"   -> {"closed"}
      [] OTHER                 -> {}

Exists(i) == status[i] # "none"

\* get_approved_approval: whether it was used before makes no difference.
ApprovedFor(i, type) ==
    \E a \in Approvals :
        /\ AboutOf[a] = i
        /\ approval[a].status = "approved"
        /\ approval[a].type = type

\* check_approval_status.
Permitted(i, type) == type \in Required => ApprovedFor(i, type)

\* Mutant: administrators may leave the terminal state.
OverridableAny(i) == "admin" \in Faults /\ Exists(i)

\* _validate_transition with admin_override.
Overridable(i) == "admin" \in Faults /\ Exists(i) /\ status[i] # "closed"

\* A gated request: allowed, or allowed because the policy was not read.
Gate(i, type) ==
    IF Permitted(i, type) THEN UNCHANGED excuse
    ELSE "policy" \in Faults /\ Excuse(i, "policy")

SetStatus(i, to) == status' = [status EXCEPT ![i] = to]

\* A step to a status that needs an approval of a type; "none" needs none.
MoveTo(to, i, type) ==
    /\ SetStatus(i, to)
    /\ \/ to \in Valid(status[i]) /\ Gate(i, type)
       \/ /\ Overridable(i)
          /\ ~(to \in Valid(status[i]) /\ Permitted(i, type))
          /\ Excuse(i, "admin")

\* acknowledge_incident, which may set expires_at along the way.
Acknowledge(i) ==
    /\ MoveTo("acknowledged", i, "acknowledge")
    /\ \/ UNCHANGED expires
       \/ expires' = [expires EXCEPT ![i] = "later"]
    /\ UNCHANGED <<pointer, approval, listed, granted, torn>>

Stabilize(i) ==
    /\ MoveTo("stabilized", i, "none")
    /\ UNCHANGED <<expires, pointer, approval, listed, granted, torn>>

Reconcile(i) ==
    /\ MoveTo("reconciled", i, "reconcile")
    /\ UNCHANGED <<expires, pointer, approval, listed, granted, torn>>

\* The two statements that close i; what excused its way there is over.
SetClosed(i) ==
    /\ SetStatus(i, "closed")
    /\ Point(EnvOf[i], NoIncident)
    /\ excuse' = [excuse EXCEPT ![i] = {}]

\* close_incident, with a reason and a resolution: an override adds nothing.
Close(i) ==
    /\ "closed" \in Valid(status[i])
    /\ SetClosed(i)
    /\ UNCHANGED <<expires, approval, listed, granted>>

\* update_incident puts expires_at off, in any state.  No caller passes it
\* admin_override.  An earlier date needs no approval: if passed, it is what Lapse does.
Extend(i) ==
    /\ Exists(i)
    /\ Permitted(i, "extend_ttl") \/ "policy" \in Faults
    /\ expires' = [expires EXCEPT ![i] = "later"]
    /\ UNCHANGED <<status, pointer, approval, listed, granted, excuse, torn>>

\* Time passes, which a closed incident does not notice.
Lapse(i) ==
    /\ status[i] \in Open /\ expires[i] = "later"
    /\ expires' = [expires EXCEPT ![i] = "over"]
    /\ UNCHANGED <<status, pointer, approval, listed, granted, excuse, torn>>

-----------------------------------------------------------------------------
(* Approvals.                                                              *)

\* request_approval: one pending request per incident and type.
RequestApproval(a, type, u) ==
    /\ approval[a] = Absent
    /\ Exists(AboutOf[a])
    /\ \A b \in Approvals :
          ~ /\ AboutOf[b] = AboutOf[a]
            /\ approval[b].status = "pending"
            /\ approval[b].type = type
    /\ approval' = [approval EXCEPT ![a] = [status |-> "pending", type |-> type, by |-> u]]
    /\ UNCHANGED <<status, expires, pointer, listed, granted, excuse, torn>>

\* Mutant: everybody may decide.
MayDecideOwn(a, u) == approval[a].status = "pending"

\* The checks of decide_approval.
MayDecide(a, u) == approval[a].status = "pending" /\ approval[a].by # u

Approved(a, u) ==
    /\ approval' = [approval EXCEPT ![a].status = "approved"]
    /\ IF approval[a].by = u THEN UNCHANGED granted
       ELSE granted' = [granted EXCEPT ![AboutOf[a]] = @ \cup {approval[a].type}]
    /\ UNCHANGED listed

\* _execute_approved_action acknowledges; its own approval permits it.
ApproveAcknowledge(a, u) ==
    LET i == AboutOf[a] IN
    /\ MayDecide(a, u)
    /\ approval[a].type = "acknowledge"
    /\ "acknowledged" \in Valid(status[i])
    /\ Approved(a, u)
    /\ SetStatus(i, "acknowledged")
    /\ UNCHANGED <<expires, pointer, excuse, torn>>

ApproveExtend(a, u) ==
    /\ MayDecide(a, u)
    /\ approval[a].type = "extend_ttl"
    /\ Approved(a, u)
    /\ expires' = [expires EXCEPT ![AboutOf[a]] = "later"]
    /\ UNCHANGED <<status, pointer, excuse, torn>>

\* Closing without a resolution_type is refused before reconciliation.
ApproveClose(a, u) ==
    LET i == AboutOf[a] IN
    /\ MayDecide(a, u)
    /\ approval[a].type = "close"
    /\ status[i] = "reconciled"
    /\ Approved(a, u)
    /\ SetClosed(i)
    /\ UNCHANGED expires

\* What remains of an approval without an action, or whose action is refused or
\* fails: the decision was written before.
ApproveOnly(a, u) ==
    LET i == AboutOf[a] IN
    /\ MayDecide(a, u)
    /\ \/ approval[a].type \in {"reconcile", "deployment_override"}
       \/ approval[a].type = "acknowledge" /\ status[i] # "detected"
       \/ approval[a].type = "close" /\ status[i] # "reconciled"
       \/ "execute" \in Faults
    /\ Approved(a, u)
    /\ UNCHANGED <<status, expires, pointer, excuse, torn>>

Reject(a, u) ==
    /\ MayDecide(a, u)
    /\ approval' = [approval EXCEPT ![a].status = "rejected"]
    /\ UNCHANGED <<status, expires, pointer, listed, granted, excuse, torn>>

\* cancel_approval, by the requester or an administrator.
CancelApproval(a) ==
    /\ approval[a].status = "pending"
    /\ approval' = [approval EXCEPT ![a].status = "cancelled"]
    /\ UNCHANGED <<status, expires, pointer, listed, granted, excuse, torn>>

\* _cleanup_approvals deletes by age alone.
PurgeApproval(a) ==
    /\ "purge" \in Faults
    /\ approval[a] \notin {Absent, Deleted}
    /\ approval' = [approval EXCEPT ![a] = Deleted]
    /\ UNCHANGED <<status, expires, pointer, listed, granted, excuse, torn>>

-----------------------------------------------------------------------------
(* The checker of expired incidents.                                       *)

Expired(i) == status[i] \in Active /\ expires[i] = "over"

\* Mutant: only incidents that nobody has looked at are listed.
ListDetected ==
    /\ listed = {}
    /\ {i \in Incidents : Expired(i) /\ status[i] = "detected"} # {}
    /\ listed' = {i \in Incidents : Expired(i) /\ status[i] = "detected"}
    /\ UNCHANGED <<status, expires, pointer, approval, history>>

\* One query for all of them.
List ==
    /\ listed = {}
    /\ {i \in Incidents : Expired(i)} # {}
    /\ listed' = {i \in Incidents : Expired(i)}
    /\ UNCHANGED <<status, expires, pointer, approval, history>>

\* Mutant: the incident is closed under a name of its own.
ExpireRenamed(i) ==
    /\ i \in listed
    /\ listed' = listed \ {i}
    /\ SetStatus(i, "expired")
    /\ Point(EnvOf[i], NoIncident)
    /\ UNCHANGED <<expires, approval, granted, excuse>>

\* Mutant: the environment keeps its pointer.
ExpireOnly(i) ==
    /\ i \in listed
    /\ listed' = listed \ {i}
    /\ SetStatus(i, "closed")
    /\ UNCHANGED <<expires, pointer, approval, history>>

\* _handle_ttl_expired closes what was listed, whatever became of it since.
Expire(i) ==
    /\ i \in listed
    /\ listed' = listed \ {i}
    /\ SetClosed(i)
    /\ UNCHANGED <<expires, approval, granted>>

ExpireFails(i) ==
    /\ "expiry" \in Faults
    /\ i \in listed
    /\ listed' = listed \ {i}
    /\ UNCHANGED <<status, expires, pointer, approval, history>>

Crash ==
    /\ "crash" \in Faults
    /\ listed # {}
    /\ listed' = {}
    /\ UNCHANGED <<status, expires, pointer, approval, history>>

-----------------------------------------------------------------------------
(* The gate before a promotion into e: check_enforcement_with_override.     *)

\* Mutant: an extension of the deadline opens the gate too.
OverriddenOrExtended(i) ==
    \E type \in {"acknowledge", "deployment_override", "close", "extend_ttl"} :
        ApprovedFor(i, type)

\* check_approval_override.
Overridden(i) ==
    \E type \in {"acknowledge", "deployment_override", "close"} : ApprovedFor(i, type)

\* The incidents of which one, the newest, is named as blocking.
Blocking(e) ==
    LET overdue == {i \in Of(e, Active) : Expired(i)} IN
    IF BlockOnExpired /\ overdue # {} THEN overdue
    ELSE IF BlockOnDrift THEN Of(e, Active) ELSE {}

\* The gate when its reads succeed.
GateOpens(e) == Blocking(e) = {} \/ \E i \in Blocking(e) : Overridden(i)

-----------------------------------------------------------------------------

Step(i) ==
    \/ Create(i) \/ AutoCreate(i)
    \/ Acknowledge(i) \/ Stabilize(i) \/ Reconcile(i) \/ Close(i)
    \/ Extend(i) \/ Lapse(i)
    \/ Expire(i) \/ ExpireFails(i)

Approve(a, u) ==
    ApproveAcknowledge(a, u) \/ ApproveExtend(a, u) \/ ApproveClose(a, u) \/ ApproveOnly(a, u)

Decide(a) ==
    \/ \E u \in Users : Approve(a, u) \/ Reject(a, u)
    \/ \E u \in Users, type \in Types : RequestApproval(a, type, u)
    \/ CancelApproval(a)
    \/ PurgeApproval(a)

Next ==
    \/ \E i \in Incidents : Step(i)
    \/ \E a \in Approvals : Decide(a)
    \/ List
    \/ Crash

Spec == Init /\ [][Next]_vars

\* The checker runs every minute, and its update does not fail for ever.
FairSpec == Spec /\ WF_vars(List) /\ \A i \in Incidents : SF_vars(Expire(i))

-----------------------------------------------------------------------------
(* Safety and liveness.                                                    *)

\* Two incidents of one environment are active together only if a query failed
\* when one was opened, or an administrator moved one: a reconciled incident
\* that its environment's next drift overtook does not come back.
OneActiveIncident ==
    \A i, j \in Incidents :
        /\ EnvOf[i] = EnvOf[j]
        /\ status[i] \in Active /\ status[j] \in Active
        /\ (excuse[i] \cup excuse[j]) \cap {"read", "admin"} = {}
        => i = j

\* The incident an environment points to is one of its own and not closed,
\* though the checker closes from an old list, except after a write of that
\* pointer that failed, and then until the next one.
PointerNamesOpen ==
    \A e \in Environments \ torn :
        pointer[e] \in Of(e, Open) \cup {NoIncident}

\* Where the policy asks for an approval, an incident that was acknowledged or
\* reconciled has been approved by somebody else than who asked, unless an
\* administrator or an unread policy let it pass.
GatedIsApproved ==
    \A i \in Incidents :
        excuse[i] \cap {"policy", "admin"} = {} =>
            /\ status[i] \in Open \ {"detected"} /\ "acknowledge" \in Required
                  => "acknowledge" \in granted[i]
            /\ status[i] = "reconciled" /\ "reconcile" \in Required
                  => "reconcile" \in granted[i]

\* A promotion that passes the gate passes every active incident that blocks it:
\* the gate looks at one only, which is enough while there is one.
GateIsJustified ==
    \A e \in Environments :
        GateOpens(e) /\ (\A j \in Of(e, Active) : excuse[j] \cap {"read", "admin"} = {}) =>
            \A i \in Of(e, Active) :
                BlockOnDrift \/ (BlockOnExpired /\ Expired(i))
                => granted[i] \cap {"acknowledge", "deployment_override", "close"} # {}

\* A closed incident is never opened again, by whomever and through whatever
\* interleaving of users, approvals and the checker.
ClosedStaysClosed ==
    [][\A i \in Incidents : status[i] = "closed" => status'[i] = "closed"]_vars

\* An expired incident is closed, reconciled or put off, although updates fail,
\* the process restarts and the list is old.
ExpiredEnds == \A i \in Incidents : Expired(i) ~> ~Expired(i)
=============================================================================
