--------------------------- MODULE MCDriftIncident ---------------------------
(* The TLC instance of DriftIncident: two incidents of one environment, and   *)
(* an approval that concerns the first of them.                               *)
EXTENDS DriftIncident, TLC

CONSTANTS e1, i1, i2, a1

MCEnvOf == i1 :> e1 @@ i2 :> e1
MCAboutOf == a1 :> i1
=============================================================================
