--------------------------- MODULE MCGitPromotion ---------------------------
(* The TLC instance of GitPromotion: a staging environment that has a baseline, *)
(* a production environment, and two operations with a snapshot each.           *)
EXTENDS GitPromotion, TLC

CONSTANTS staging, prod, s0, s1, s2

MCEarlier == staging :> s0 @@ prod :> None

Symmetry == Permutations(Ops) \cup Permutations(Workflows) \cup Permutations({s1, s2})
=============================================================================
