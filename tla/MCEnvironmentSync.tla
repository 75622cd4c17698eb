-------------------------- MODULE MCEnvironmentSync --------------------------
(* The TLC instances of EnvironmentSync: rows for two syncs of one environment *)
(* and one of another.                                                         *)
EXTENDS EnvironmentSync, TLC

CONSTANTS e1, e2, j1, j2, j3

MCEnvironments == {e1, e2}
MCJobs == {j1, j2, j3}
MCEnvOf == j1 :> e1 @@ j2 :> e1 @@ j3 :> e2
=============================================================================
