--------------------------- MODULE MonotoneReplicas ---------------------------
(***************************************************************************)
(* What a live page is to its reader: a replica of the stored rows it may  *)
(* show.  It lags behind them, skips versions, and forgets nothing it has  *)
(* learned; that there are queues, connections and two streams of a page   *)
(* at once is not visible here (app/services/sse_pubsub_service.py,        *)
(* app/api/endpoints/sse.py).                                              *)
(***************************************************************************)
EXTENDS Naturals

CONSTANTS Topics, Pages

VARIABLES
    stored,   \* the version of each row
    allowed,  \* the rows each page may show, which never change
    known     \* the version of each row that each page shows

vars == <<stored, allowed, known>>

Init ==
    /\ stored = [x \in Topics |-> 0]
    /\ allowed \in [Pages -> SUBSET Topics]
    /\ known = [p \in Pages |-> [x \in Topics |-> 0]]

\* Rows are written, each once.
Write(written) ==
    /\ stored' = [x \in Topics |-> IF x \in written THEN stored[x] + 1 ELSE stored[x]]
    /\ UNCHANGED <<allowed, known>>

\* One page learns newer versions of rows it may show.
Learn(p, learned) ==
    /\ known' \in [Pages -> [Topics -> Nat]]
    /\ \A x \in learned : known[p][x] < known'[p][x] /\ known'[p][x] <= stored[x]
    /\ \A x \in Topics \ learned : known'[p][x] = known[p][x]
    /\ \A q \in Pages \ {p} : known'[q] = known[q]
    /\ UNCHANGED <<stored, allowed>>

Next ==
    \/ \E written \in SUBSET Topics : Write(written)
    \/ \E p \in Pages : \E learned \in SUBSET allowed[p] : Learn(p, learned)

Spec == Init /\ [][Next]_vars
=============================================================================
