-------------------------- MODULE MCOwnershipLive ---------------------------
(***************************************************************************)
(* Ownership on two nodes with a bounded number of operator requests,      *)
(* failures and node faults, after which the cluster is left alone.        *)
(***************************************************************************)
EXTENDS Ownership

CONSTANTS n1, n2,
          Budget     \* bound: operator requests, failures and faults

VARIABLE left        \* how many of them are left

MCNode == {n1, n2}

\* A runner that is there renews in time; a pause that lets its lease expire
\* is one of the faults.
HolderRuns == LeaseLive /\ run[lease.owner].epoch = lease.epoch

\* The owner of a lost directory claims once more before a sweep fails the row;
\* its refusal delay doubles, so only finitely many claims fit.
LostOwnerClaims(n) == ChainGoneStep /\ OwnerDirGone /\ Acquire(n)

Disturbance ==
  \/ OperatorStep \/ (HolderRuns /\ ExpireLease)
  \/ \E n \in Node : RunnerFails(n) \/ NodeFault(n) \/ LostOwnerClaims(n)

LeaseRunsOut == ~HolderRuns /\ ExpireLease

\* The verified owner of a lost directory gives the lease up by EpochLost.
LostOwnerYields(n) == OwnerDirGone /\ chain.owner = n /\ EpochLost(n)

\* A node that can read its directory opens the dump; one that cannot, does not.
DumpOpens(n) == fact[n].canRead /\ DumpReady(n)

Claims(n) == ~fact[n].stopped /\ ~(ChainGoneStep /\ OwnerDirGone) /\ Acquire(n)

Undisturbed ==
  \/ StopExpired \/ ChainOwnerGone \/ LeaseRunsOut \/ RetryDue
  \/ \E n \in Node :
       \/ StopLocal(n) \/ Reread(n) \/ StopConfirmed(n) \/ DumpOpens(n) \/ Renew(n)
       \/ TailUnreadable(n) \/ LostOwnerYields(n) \/ RefusalDue(n)
       \/ /\ ~fact[n].stopped
          /\ Claims(n) \/ ChainVerified(n) \/ ChainOwnerBack(n) \/ Heartbeat(n)

LiveNext ==
  \/ Undisturbed /\ UNCHANGED left
  \/ left > 0 /\ Disturbance /\ left' = left - 1

\* Runners, claim loops and sweeps keep going, and deadlines pass.
LiveFairness ==
  /\ WF_vars(StopExpired) /\ WF_vars(ChainOwnerGone)
  /\ WF_vars(LeaseRunsOut) /\ WF_vars(RetryDue)
  /\ \A n \in Node :
       /\ WF_vars(Reread(n)) /\ WF_vars(StopConfirmed(n)) /\ WF_vars(DumpOpens(n))
       /\ WF_vars(TailUnreadable(n)) /\ WF_vars(LostOwnerYields(n)) /\ WF_vars(RefusalDue(n))
       /\ WF_vars(Claims(n))

LiveSpec == Init /\ left = Budget /\ [][LiveNext]_<<vars, left>> /\ LiveFairness

\* A stop or delete the operator asked for comes to an end: the row is STOPPED
\* or erased, whoever held it and whether that holder survived.
StopFinishes == desired = "STOP" ~> phase = "STOPPED" \/ deleted \/ desired = "RUN"

DeleteFinishes == pendingDelete ~> deleted

Ready(n) == fact[n].canRead /\ ~fact[n].stopped

\* A task that should run does, or is FAILED, as long as some node stays ready.
\* A start during STOPPING is the exception CoveredUnlessReopening names.
StartFinishes ==
  <>[](\E n \in Node : Ready(n))
    => (desired = "RUN" /\ phase \notin {"CREATED", "STOPPING"}
          ~> phase \in {"RUNNING", "FAILED", "STOPPING"} \/ deleted)
=============================================================================
