--------------------------- MODULE MCLiveUpdates ---------------------------
(* Constants for TLC: two tenants with a deployment each, a sync job and a *)
(* bulk job (which names no environment), and one page of any scope.       *)
EXTENDS LiveUpdates, TLC

CONSTANTS t1, t2, d1, d3, j1, j2, e1

MCOwner == (d1 :> t1) @@ (d3 :> t2) @@ (j1 :> t1) @@ (j2 :> t1)
MCEnvironmentOf == (j1 :> e1) @@ (j2 :> NoEnvironment)

MCScopes ==
    { [kind |-> "deployments_list", tenant |-> t1, id |-> t1],
      [kind |-> "deployment_detail", tenant |-> t1, id |-> d1],
      [kind |-> "background_jobs_list", tenant |-> t1, id |-> t1],
      [kind |-> "background_jobs_env", tenant |-> t1, id |-> e1],
      [kind |-> "background_jobs_job", tenant |-> t1, id |-> j1] }
=============================================================================
