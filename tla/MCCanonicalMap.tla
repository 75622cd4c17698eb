--------------------------- MODULE MCCanonicalMap ---------------------------
(* The TLC instance of CanonicalMap: two workflows, the second of which is    *)
(* created later; the scheduler's sync, and a backup.  The two events fall    *)
(* into one second, after that of the first workflow's version.               *)
EXTENDS CanonicalMap, TLC

CONSTANTS w1, w2, x, y

MCInitially == w1 :> x @@ w2 :> Nothing
MCSecond == 0 :> 0 @@ 1 :> 1 @@ 2 :> 1
=============================================================================
