----------------------------- MODULE MCTaskLease ----------------------------
(* Two workers competing for the lease of one task. *)
EXTENDS TaskLease, TLC

CONSTANTS w1, w2

MCWorker == {w1, w2}

\* Bound: at most one release waits to be repeated or made at a time.
OneReleaseWaits ==
  \A v, w \in Worker :
    pending[w] # 0 => settle = 0 /\ (v = w \/ pending[v] = 0)

Symmetry == Permutations(MCWorker)

\* The two workers are interchangeable, so one of them stands for both; only
\* its own renew loop has to be fair.  The bound never disables a fair action.
FairSpec == Init /\ [][Next /\ OneReleaseWaits']_vars /\ Fairness(w1)

\* A run whose epoch was taken over by another worker ends, even when every
\* renew errors: the grace bounds how long a degraded run goes on.
TakenOverRunEnds == EndsOnceTakenOver(w1)
=============================================================================
