-------------------------- MODULE OwnershipProofs ---------------------------
(***************************************************************************)
(* The row of Ownership for every set of nodes: what desired, the phase,   *)
(* the failure columns and the owner say about each other is inductive     *)
(* once it is joined with StopPhase; and an epoch belongs to one runner    *)
(* because no runner is ahead of the lease row.                            *)
(***************************************************************************)
EXTENDS Ownership, TLAPS

-----------------------------------------------------------------------------
(***************************************************************************)
(* Types.                                                                  *)
(***************************************************************************)

LeaseType == [owner : Node \cup {None}, epoch : 0..MaxEpoch, live : BOOLEAN]
ChainType == [owner : Node \cup {None}, verified : BOOLEAN, newer : BOOLEAN]
RunType == [epoch : 0..MaxEpoch, current : BOOLEAN]
RetryType == [attempt : 0..RetryBudget, ahead : BOOLEAN]
FactType == [canRead : BOOLEAN, stopped : BOOLEAN, beat : BOOLEAN]
RefusalType == {"none", "ahead", "passed", "open"}

\* The columns with a scalar value.
ScalarsOK ==
  /\ phase \in Phase \cup {"none"}
  /\ desired \in {"RUN", "STOP", "none"}
  /\ byOperator \in BOOLEAN /\ pendingDelete \in BOOLEAN /\ deleted \in BOOLEAN
  /\ failedReason \in TerminalReason \cup {"none", "CHAIN_OWNER_GONE"}
  /\ failedSpec \in {"zero", "current", "older"}
  /\ tail \in BOOLEAN

\* The records, and the functions of nodes.
RecordsOK == lease \in LeaseType /\ chain \in ChainType /\ retry \in RetryType
NodesOK == refusal \in [Node -> RefusalType] /\ fact \in [Node -> FactType]
           /\ run \in [Node -> RunType]

\* TypeOK in three parts.
LEMMA TypeParts == TypeOK <=> ScalarsOK /\ RecordsOK /\ NodesOK
  BY DEF TypeOK, ScalarsOK, RecordsOK, NodesOK, LeaseType, ChainType, RunType, RetryType,
         FactType, RefusalType

\* The values the actions write have the types of their columns.
LEMMA ValueTypes ==
  ASSUME TypeOK
  PROVE  /\ NoLease \in LeaseType /\ Released \in LeaseType
         /\ Lease(lease.owner, lease.epoch, TRUE) \in LeaseType
         /\ Lease(lease.owner, lease.epoch, FALSE) \in LeaseType
         /\ NoChain \in ChainType /\ ChainAtFailure \in ChainType
         /\ NoRun \in RunType /\ NoRetry \in RetryType
         /\ Retry(retry.attempt, FALSE) \in RetryType
         /\ NoRefusals \in [Node -> RefusalType]
  BY OwnershipConstants
  DEF TypeOK, NoLease, Released, Lease, NoChain, ChainAtFailure, Chain, NoRun, Run, NoRetry,
      Retry, NoRefusals, LeaseType, ChainType, RunType, RetryType, RefusalType

\* A lease taken within MaxEpoch, and the runner that comes with it.
LEMMA TakenType ==
  ASSUME TypeOK, NEW n \in Node, EpochLeft(n)
  PROVE  TakenLease(n) \in LeaseType /\ Run(TakenLease(n).epoch, TRUE) \in RunType
<1>1. lease.epoch \in 0..MaxEpoch
  BY DEF TypeOK
<1>2. TakenLease(n).epoch = IF lease.owner = n THEN lease.epoch ELSE lease.epoch + 1
  BY DEF TakenLease, Lease
<1>3. TakenLease(n).epoch \in 0..MaxEpoch
  BY <1>1, <1>2, OwnershipConstants DEF EpochLeft
<1>4. Run(TakenLease(n).epoch, TRUE) \in RunType
  BY <1>3 DEF Run, RunType
<1>5. TakenLease(n) \in LeaseType
  BY <1>2, <1>3 DEF TakenLease, Lease, LeaseType
<1> QED BY <1>4, <1>5

\* bump writes runners.
LEMMA BumpType ==
  ASSUME TypeOK
  PROVE  /\ BumpAll => run' \in [Node -> RunType]
         /\ \A n \in Node, r \in RunType : Bump(n, r) => run' \in [Node -> RunType]
         /\ \A n \in Node : run[n] \in RunType
<1>1. \A m \in Node : Run(run[m].epoch, FALSE) \in RunType
  BY DEF TypeOK, Run, RunType
<1>2. \A n \in Node : run[n] \in RunType
  BY DEF TypeOK, RunType
<1> QED BY <1>1, <1>2 DEF BumpAll, Bump

\* The record and node parts of what is shared by several actions.
LEMMA PartTypes ==
  ASSUME TypeOK
  PROVE  /\ Erase => RecordsOK' /\ refusal' \in [Node -> RefusalType] /\ fact' = fact
         /\ FinishStop => RecordsOK' /\ refusal' \in [Node -> RefusalType] /\ fact' = fact
         /\ \A n \in Node, r \in RefusalType, t \in BOOLEAN : Yield(n, r, t) => RecordsOK' /\ NodesOK'
<1>1. RecordsOK /\ NodesOK
  BY TypeParts
<1>2. Erase => RecordsOK' /\ refusal' \in [Node -> RefusalType] /\ fact' = fact
  BY ValueTypes DEF Erase, RecordsOK
<1>3. FinishStop => RecordsOK' /\ refusal' \in [Node -> RefusalType] /\ fact' = fact
  BY <1>1, <1>2, ValueTypes DEF FinishStop, RecordsOK, NodesOK
<1>4. ASSUME NEW n \in Node, NEW r \in RefusalType, NEW t \in BOOLEAN, Yield(n, r, t)
      PROVE  RecordsOK' /\ NodesOK'
  BY <1>1, <1>4, ValueTypes, BumpType DEF Yield, RecordsOK, NodesOK
<1> QED BY <1>2, <1>3, <1>4

\* The scalar columns keep their types.
LEMMA ScalarsStep ==
  ASSUME TypeOK, Next
  PROVE  ScalarsOK'
<1> USE DEF ScalarsOK, Phase, TerminalReason, Run, Lease, Chain, Facts, Retry
<1>0. ScalarsOK
  BY TypeParts
<1>1. FinishStop => ScalarsOK'
  BY <1>0 DEF FinishStop, Erase
<1>2. CASE OperatorStep
  <2>1. StartWrites /\ phase' \in Phase => ScalarsOK'
    BY <1>0 DEF StartWrites, ClearFailure
  <2>2. CASE OwnerlessRestartWhileStopping
    BY <2>1, <2>2 DEF OwnerlessRestartWhileStopping
  <2>3. CASE OperatorDelete \/ UpdateTask
    BY <1>0, <2>3 DEF OperatorDelete, Erase, UpdateTask
  <2>4. CASE \E b \in BOOLEAN : OperatorStop(b)
    BY <1>0, <2>4 DEF OperatorStop
  <2>5. ASSUME NEW n \in Node, OperatorStart(n) \/ OwnerlessStart(n)
        PROVE  ScalarsOK'
    BY <2>1, <2>5 DEF OperatorStart, OwnerlessStart
  <2> QED BY <1>2, <2>2, <2>3, <2>4, <2>5 DEF OperatorStep
<1>3. CASE StopExpired \/ ChainOwnerGone \/ ExpireLease \/ RetryDue
  BY <1>0, <1>1, <1>3 DEF StopExpired, ChainOwnerGone, ExpireLease, RetryDue, rowVars
<1>4. ASSUME NEW n \in Node, RunnerStep(n)
      PROVE  ScalarsOK'
  <2>1. CASE StopConfirmed(n)
    BY <1>1, <2>1 DEF StopConfirmed
  <2>2. CASE DumpReady(n)
    BY <1>0, <2>2 DEF DumpReady
  <2>3. CASE StopLocal(n) \/ Reread(n) \/ Renew(n)
    BY <1>0, <2>3 DEF StopLocal, Reread, Renew, rowVars
  <2> QED BY <1>4, <2>1, <2>2, <2>3 DEF RunnerStep
<1>5. ASSUME NEW n \in Node, RunnerFails(n)
      PROVE  ScalarsOK'
  <2>1. CASE EpochLost(n)
    BY <1>0, <1>1, <2>1 DEF EpochLost, Yield
  <2>2. CASE RetryableError(n)
    BY <1>0, <2>2 DEF RetryableError
  <2>3. ASSUME NEW reason \in TerminalReason, TerminalError(n, reason)
        PROVE  ScalarsOK'
    BY <1>0, <1>1, <2>3 DEF TerminalError
  <2> QED BY <1>5, <2>1, <2>2, <2>3 DEF RunnerFails
<1>6. ASSUME NEW n \in Node, TailUnreadable(n)
      PROVE  ScalarsOK'
  BY <1>0, <1>1, <1>6 DEF TailUnreadable, Yield
<1>7. ASSUME NEW n \in Node, NodeFault(n) \/ RefusalDue(n) \/ ChainVerified(n) \/ Heartbeat(n)
      PROVE  ScalarsOK'
  BY <1>0, <1>7 DEF NodeFault, DirectoryFlips, NodeStops, NodeStarts, HeartbeatOld, RefusalDue,
                    ChainVerified, Heartbeat, rowVars
<1>8. ASSUME NEW n \in Node, Acquire(n) \/ ChainOwnerBack(n)
      PROVE  ScalarsOK'
  BY <1>0, <1>8 DEF Acquire, ChainOwnerBack, ClearFailure
<1> QED BY <1>2, <1>3, <1>4, <1>5, <1>6, <1>7, <1>8 DEF Next

\* The records and the functions of nodes keep their types.
LEMMA ValuesStep ==
  ASSUME TypeOK, Next
  PROVE  RecordsOK' /\ NodesOK'
<1> DEFINE Goal == RecordsOK' /\ NodesOK'
<1>0. RecordsOK /\ NodesOK
  BY TypeParts
<1>1. ASSUME FinishStop, run' \in [Node -> RunType]
      PROVE  Goal
  BY <1>0, <1>1, PartTypes DEF NodesOK
<1>2. CASE OperatorStep
  <2>1. CASE OperatorDelete
    BY <1>0, <2>1, PartTypes, BumpType DEF OperatorDelete, RecordsOK, NodesOK
  <2>2. CASE OwnerlessRestartWhileStopping \/ UpdateTask \/ \E b \in BOOLEAN : OperatorStop(b)
    BY <1>0, <2>2, ValueTypes, BumpType
    DEF OwnerlessRestartWhileStopping, UpdateTask, OperatorStop, StartWrites, RecordsOK, NodesOK
  <2>3. ASSUME NEW n \in Node, OwnerlessStart(n)
        PROVE  Goal
    BY <1>0, <2>3, ValueTypes, BumpType DEF OwnerlessStart, StartWrites, RecordsOK, NodesOK
  <2>4. ASSUME NEW n \in Node, OperatorStart(n)
        PROVE  Goal
    <3>1. lease' \in LeaseType /\ run' \in [Node -> RunType]
      BY <2>4, TakenType, BumpType DEF OperatorStart
    <3> QED BY <1>0, <2>4, <3>1, ValueTypes DEF OperatorStart, StartWrites, RecordsOK, NodesOK
  <2> QED BY <1>2, <2>1, <2>2, <2>3, <2>4 DEF OperatorStep
<1>3. CASE StopExpired
  BY <1>1, <1>3, BumpType DEF StopExpired
<1>4. CASE ChainOwnerGone \/ ExpireLease \/ RetryDue
  BY <1>0, <1>4, ValueTypes, BumpType
  DEF ChainOwnerGone, ExpireLease, RetryDue, rowVars, RecordsOK, NodesOK
<1>5. ASSUME NEW n \in Node, RunnerStep(n)
      PROVE  Goal
  <2>1. CASE StopConfirmed(n)
    BY <1>1, <2>1, ValueTypes, BumpType DEF StopConfirmed
  <2>2. CASE DumpReady(n)
    BY <1>0, <2>2, ValueTypes, BumpType DEF DumpReady, RecordsOK, NodesOK
  <2>3. CASE StopLocal(n) \/ Renew(n)
    BY <1>0, <2>3, ValueTypes DEF StopLocal, Renew, rowVars, RecordsOK, NodesOK
  <2>4. CASE Reread(n)
    <3>1. Run(run[n].epoch, TRUE) \in RunType
      BY DEF TypeOK, Run, RunType
    <3> QED BY <1>0, <2>4, <3>1 DEF Reread, rowVars, RecordsOK, NodesOK
  <2> QED BY <1>5, <2>1, <2>2, <2>3, <2>4 DEF RunnerStep
<1>6. ASSUME NEW n \in Node, RunnerFails(n)
      PROVE  Goal
  <2>1. CASE EpochLost(n)
    <3> DEFINE t == tail \/ (chain.verified /\ chain.owner = n /\ OwnerDirGone)
    <3>1. t \in BOOLEAN
      OBVIOUS
    <3> HIDE DEF t
    <3>2. (FinishStop /\ Bump(n, NoRun)) \/ Yield(n, "ahead", t)
      BY <2>1 DEF EpochLost, t
    <3> QED BY <1>1, <3>1, <3>2, ValueTypes, BumpType, PartTypes DEF RefusalType
  <2>2. CASE RetryableError(n)
    <3>1. Retry(retry.attempt + 1, TRUE) \in RetryType
      BY <2>2, OwnershipConstants DEF TypeOK, RetryableError, Retry, RetryType
    <3> QED BY <1>0, <2>2, <3>1, BumpType DEF RetryableError, RecordsOK, NodesOK
  <2>3. ASSUME NEW reason \in TerminalReason, TerminalError(n, reason)
        PROVE  Goal
    BY <1>0, <1>1, <2>3, ValueTypes, BumpType DEF TerminalError, RecordsOK, NodesOK
  <2> QED BY <1>6, <2>1, <2>2, <2>3 DEF RunnerFails
<1>7. ASSUME NEW n \in Node, TailUnreadable(n)
      PROVE  Goal
  <2>1. (IF PerNode THEN "open" ELSE "ahead") \in RefusalType
    BY DEF RefusalType
  <2>2. CASE StopRequested
    BY <1>1, <1>7, <2>2, ValueTypes, BumpType DEF TailUnreadable
  <2>3. CASE ~StopRequested
    BY <1>7, <2>1, <2>3, PartTypes DEF TailUnreadable
  <2> QED BY <2>2, <2>3
<1>8. ASSUME NEW n \in Node, NodeFault(n) \/ RefusalDue(n) \/ Heartbeat(n)
      PROVE  Goal
  <2>2. fact[n].canRead \in BOOLEAN /\ fact[n].stopped \in BOOLEAN /\ fact[n].beat \in BOOLEAN
    BY DEF TypeOK
  <2>3. fact' \in [Node -> FactType]
    <3>1. fact \in [Node -> FactType]
      BY <1>0 DEF NodesOK
    <3>6. \A v \in FactType : [fact EXCEPT ![n] = v] \in [Node -> FactType]
      BY <3>1
    <3>7. /\ Facts(fact[n].canRead, fact[n].stopped, TRUE) \in FactType
          /\ Facts(fact[n].canRead, fact[n].stopped, FALSE) \in FactType
          /\ Facts(fact[n].canRead, TRUE, fact[n].beat) \in FactType
          /\ Facts(fact[n].canRead, FALSE, fact[n].beat) \in FactType
      BY <2>2 DEF Facts, FactType
    <3>2. CASE HeartbeatOld(n) \/ Heartbeat(n)
      BY <3>2, <3>6, <3>7, Zenon DEF HeartbeatOld, Heartbeat
    <3>3. CASE NodeStops(n) \/ NodeStarts(n)
      BY <3>3, <3>6, <3>7, Zenon DEF NodeStops, NodeStarts
    <3>4. CASE DirectoryFlips(n)
      BY <2>2, <3>1, <3>4 DEF DirectoryFlips, Facts, FactType
    <3>5. CASE RefusalDue(n)
      BY <3>1, <3>5 DEF RefusalDue
    <3> QED BY <1>8, <3>2, <3>3, <3>4, <3>5 DEF NodeFault
  <2>4. refusal' \in [Node -> RefusalType] /\ run' \in [Node -> RunType] /\ RecordsOK'
    BY <1>0, <1>8, ValueTypes
    DEF NodeFault, DirectoryFlips, NodeStops, NodeStarts, HeartbeatOld, RefusalDue, Heartbeat,
        NodesOK, RecordsOK, RefusalType, rowVars, Facts
  <2> QED BY <2>3, <2>4 DEF NodesOK
<1>9. ASSUME NEW n \in Node, ChainVerified(n) \/ ChainOwnerBack(n)
      PROVE  Goal
  <2>1. \A b \in BOOLEAN : [owner |-> n, verified |-> TRUE, newer |-> b] \in ChainType
    BY DEF ChainType
  <2>2. CASE ChainVerified(n)
    BY <1>0, <2>1, <2>2 DEF ChainVerified, Chain, rowVars, RecordsOK, NodesOK
  <2>3. CASE ChainOwnerBack(n)
    BY <1>0, <2>3, ValueTypes, BumpType DEF ChainOwnerBack, RecordsOK, NodesOK
  <2> QED BY <1>9, <2>2, <2>3
<1>10. ASSUME NEW n \in Node, Acquire(n)
       PROVE  Goal
  <2>1. lease' \in LeaseType /\ run' \in [Node -> RunType]
    BY <1>10, TakenType, BumpType DEF Acquire
  <2> QED BY <1>0, <1>10, <2>1 DEF Acquire, RecordsOK, NodesOK, Run
<1> QED BY <1>2, <1>3, <1>4, <1>5, <1>6, <1>7, <1>8, <1>9, <1>10 DEF Next

\* A row the operator stopped is on its way to STOPPED or there.
StopPhase == desired = "STOP" => phase \in {"STOPPING", "STOPPED"}

\* An erased row has no phase.
ErasedRow == deleted => phase = "none" /\ desired = "none"

RowInv ==
  /\ StopIntentKept /\ RestingRowUnowned /\ FailureRecorded
  /\ StopPhase /\ ErasedRow

\* The columns RowInv speaks about do not move.
RowKept ==
  UNCHANGED <<phase, desired, byOperator, pendingDelete, failedReason, failedSpec, deleted>>
  /\ lease'.owner = lease.owner

\* A step that leaves those columns alone keeps RowInv.
LEMMA RowKeptInv ==
  ASSUME RowInv, RowKept
  PROVE  RowInv'
  BY DEF RowInv, RowKept, StopIntentKept, RestingRowUnowned, FailureRecorded, StopPhase,
         ErasedRow

\* The owner and the epoch of the lease rows the actions write.
LEMMA LeaseFields ==
  /\ Released.owner = None /\ Released.epoch = lease.epoch
  /\ NoLease.owner = None /\ NoLease.epoch = 0
  /\ Lease(lease.owner, lease.epoch, TRUE).owner = lease.owner
  /\ Lease(lease.owner, lease.epoch, TRUE).epoch = lease.epoch
  /\ Lease(lease.owner, lease.epoch, FALSE).owner = lease.owner
  /\ Lease(lease.owner, lease.epoch, FALSE).epoch = lease.epoch
  BY DEF Released, NoLease, Lease

\* finishStop keeps the row consistent wherever it is called: of a held row or
\* of one that is STOPPING.
LEMMA FinishStopInv ==
  ASSUME TypeOK, RowInv, FinishStop, lease.owner # None \/ phase = "STOPPING"
  PROVE  RowInv'
  BY LeaseFields DEF TypeOK, RowInv, FinishStop, Erase, StopIntentKept, RestingRowUnowned,
         FailureRecorded, StopPhase, ErasedRow, TerminalReason

\* An accepted Start keeps the row consistent.
LEMMA StartInv ==
  ASSUME RowInv, ~deleted, ~pendingDelete, StartWrites, phase' \in {"STARTING", "STOPPING"}
  PROVE  RowInv'
  BY DEF RowInv, StartWrites, ClearFailure, StopIntentKept, RestingRowUnowned,
         FailureRecorded, StopPhase, ErasedRow, TerminalReason

\* A yield of a held row keeps it consistent.
LEMMA YieldInv ==
  ASSUME RowInv, NEW n \in Node, NEW r, NEW t, Yield(n, r, t), lease.owner = n,
         ~StopRequested, ~deleted
  PROVE  RowInv'
  BY OwnershipConstants, LeaseFields
  DEF RowInv, Yield, StopRequested, StopIntentKept, RestingRowUnowned,
      FailureRecorded, StopPhase, ErasedRow, TerminalReason

\* A created row is consistent.
LEMMA RowInvInit == Init => RowInv
  BY LeaseFields DEF Init, RowInv, StopIntentKept, RestingRowUnowned, FailureRecorded, StopPhase,
         ErasedRow, TerminalReason

\* Every step of Next keeps RowInv.
LEMMA RowInvStep ==
  ASSUME TypeOK, RowInv, Next
  PROVE  RowInv'
<1> USE OwnershipConstants
<1>1. CASE OperatorStep
  <2>1. CASE OwnerlessRestartWhileStopping
    BY <2>1, StartInv DEF OwnerlessRestartWhileStopping
  <2>2. CASE OperatorDelete
    BY <2>2, LeaseFields DEF TypeOK, OperatorDelete, Erase, LeaseLive, RowInv, StopIntentKept,
                RestingRowUnowned, FailureRecorded, StopPhase, ErasedRow, TerminalReason
  <2>3. CASE UpdateTask
    BY <2>3 DEF UpdateTask, RowInv, StopIntentKept, RestingRowUnowned, FailureRecorded,
                StopPhase, ErasedRow
  <2>4. ASSUME NEW b \in BOOLEAN, OperatorStop(b)
        PROVE  RowInv'
    BY <2>4 DEF OperatorStop, RowInv, StopIntentKept, RestingRowUnowned,
                FailureRecorded, StopPhase, ErasedRow, TerminalReason
  <2>5. ASSUME NEW n \in Node, OperatorStart(n) \/ OwnerlessStart(n)
        PROVE  RowInv'
    BY <2>5, StartInv DEF OperatorStart, OwnerlessStart
  <2> QED BY <1>1, <2>1, <2>2, <2>3, <2>4, <2>5 DEF OperatorStep
<1>2. CASE StopExpired
  BY <1>2, FinishStopInv DEF StopExpired, InStopSet
<1>3. CASE ChainOwnerGone
  BY <1>3 DEF ChainOwnerGone, LostChainRow, RowInv, StopIntentKept, RestingRowUnowned,
              FailureRecorded, StopPhase, ErasedRow, TerminalReason
<1>4. CASE ExpireLease \/ RetryDue
  <2>1. RowKept
    BY <1>4, LeaseFields DEF ExpireLease, RetryDue, RowKept, rowVars
  <2> QED BY <2>1, RowKeptInv
<1>5. ASSUME NEW n \in Node, RunnerStep(n)
      PROVE  RowInv'
  <2>1. CASE StopConfirmed(n)
    BY <2>1, FinishStopInv DEF StopConfirmed, FenceOK
  <2>2. CASE DumpReady(n)
    BY <2>2 DEF DumpReady, FenceOK, RowInv, StopIntentKept, RestingRowUnowned,
                FailureRecorded, StopPhase, ErasedRow, TerminalReason
  <2>3. CASE StopLocal(n) \/ Reread(n) \/ Renew(n)
    <3>1. RowKept
      BY <2>3, LeaseFields DEF StopLocal, Reread, Renew, RowKept, rowVars
    <3> QED BY <3>1, RowKeptInv
  <2> QED BY <1>5, <2>1, <2>2, <2>3 DEF RunnerStep
<1>6. ASSUME NEW n \in Node, RunnerFails(n) \/ TailUnreadable(n)
      PROVE  RowInv'
  <2>1. CASE EpochLost(n)
    BY <2>1, FinishStopInv, YieldInv DEF EpochLost, FenceOK
  <2>2. CASE RetryableError(n)
    BY <2>2 DEF RetryableError, FenceOK, StopRequested, RowInv, StopIntentKept,
                RestingRowUnowned, FailureRecorded, StopPhase, ErasedRow, TerminalReason
  <2>3. ASSUME NEW reason \in TerminalReason, TerminalError(n, reason)
        PROVE  RowInv'
    <3>1. CASE StopRequested
      BY <2>3, <3>1, FinishStopInv DEF TerminalError, FenceOK
    <3>2. CASE ~StopRequested
      BY <2>3, <3>2, LeaseFields
      DEF TerminalError, FenceOK, StopRequested, RowInv, StopIntentKept,
          RestingRowUnowned, FailureRecorded, StopPhase, ErasedRow, TerminalReason
    <3> QED BY <3>1, <3>2
  <2>4. CASE TailUnreadable(n)
    BY <2>4, FinishStopInv, YieldInv DEF TailUnreadable, FenceOK
  <2> QED BY <1>6, <2>1, <2>2, <2>3, <2>4 DEF RunnerFails
<1>7. ASSUME NEW n \in Node,
             NodeFault(n) \/ RefusalDue(n) \/ ChainVerified(n) \/ Heartbeat(n)
      PROVE  RowInv'
  <2>1. RowKept
    BY <1>7 DEF NodeFault, DirectoryFlips, NodeStops, NodeStarts, HeartbeatOld,
                RefusalDue, ChainVerified, Heartbeat, RowKept, rowVars
  <2> QED BY <2>1, RowKeptInv
<1>8. ASSUME NEW n \in Node, Acquire(n)
      PROVE  RowInv'
  BY <1>8 DEF Acquire, InClaimSet, TakenLease, Lease, ClearFailure, RowInv, StopIntentKept,
              RestingRowUnowned, FailureRecorded, StopPhase, ErasedRow, TerminalReason
<1>9. ASSUME NEW n \in Node, ChainOwnerBack(n)
      PROVE  RowInv'
  BY <1>9 DEF ChainOwnerBack, RowInv, StopIntentKept, RestingRowUnowned,
              FailureRecorded, StopPhase, ErasedRow, TerminalReason
<1> QED BY <1>1, <1>2, <1>3, <1>4, <1>5, <1>6, <1>7, <1>8, <1>9 DEF Next

-----------------------------------------------------------------------------
(***************************************************************************)
(* Epochs.                                                                 *)
(***************************************************************************)

\* No runner is ahead of the row, and one that is level with it is the owner
\* or the last owner.
RunnerBehind ==
  ~deleted => \A n \in Node :
                /\ run[n].epoch <= lease.epoch
                /\ run[n].epoch = lease.epoch /\ run[n].epoch > 0 => lease.owner \in {n, None}

EpochInv == EpochNamesOneRunner /\ RunnerBehind

\* The three things a step does to epochs: runners end, or the row is erased,
\* or node n takes the lease.
EpochsKept == \A m \in Node : run'[m].epoch \in {run[m].epoch, 0}

Quiet ==
  /\ EpochsKept /\ deleted' = deleted
  /\ lease'.epoch = lease.epoch /\ lease'.owner \in {lease.owner, None}

Erases == EpochsKept /\ deleted' /\ lease' = NoLease

Takes(n) ==
  /\ ~deleted /\ ~deleted'
  /\ lease' = TakenLease(n)
  /\ run'[n].epoch = TakenLease(n).epoch
  /\ \A m \in Node \ {n} : run'[m].epoch = run[m].epoch

\* Writing the row moves no epoch; a runner that ends drops its own.
LEMMA Bumps ==
  /\ BumpAll => EpochsKept
  /\ \A n \in Node : Bump(n, NoRun) \/ Bump(n, run[n]) => EpochsKept
  BY DEF BumpAll, Bump, EpochsKept, Run, NoRun

\* finishStop is quiet or erases.
LEMMA FinishStopShape ==
  ASSUME FinishStop, EpochsKept
  PROVE  Quiet \/ Erases
  BY LeaseFields DEF FinishStop, Erase, Quiet, Erases

\* Every step of Next has one of the three shapes.
LEMMA EpochShape ==
  ASSUME TypeOK, Next
  PROVE  Quiet \/ Erases \/ \E n \in Node : Takes(n) /\ (OperatorStart(n) \/ Acquire(n))
<1>1. CASE OperatorStep
  <2>1. CASE OwnerlessRestartWhileStopping \/ UpdateTask \/ \E b \in BOOLEAN : OperatorStop(b)
    BY <2>1, Bumps DEF OwnerlessRestartWhileStopping, UpdateTask, OperatorStop, StartWrites, Quiet
  <2>2. CASE OperatorDelete
    BY <2>2, Bumps DEF OperatorDelete, Erase, Quiet, Erases
  <2>3. ASSUME NEW n \in Node, OwnerlessStart(n)
        PROVE  Quiet
    BY <2>3, Bumps, LeaseFields DEF OwnerlessStart, StartWrites, Quiet
  <2>4. ASSUME NEW n \in Node, OperatorStart(n)
        PROVE  Takes(n)
    BY <2>4 DEF OperatorStart, StartWrites, Takes, Bump, Run
  <2> QED BY <1>1, <2>1, <2>2, <2>3, <2>4 DEF OperatorStep
<1>2. CASE StopExpired
  BY <1>2, Bumps, FinishStopShape DEF StopExpired
<1>3. CASE ChainOwnerGone
  BY <1>3, Bumps DEF ChainOwnerGone, Quiet
<1>4. CASE ExpireLease \/ RetryDue
  BY <1>4, LeaseFields DEF ExpireLease, RetryDue, EpochsKept, Quiet
<1>5. ASSUME NEW n \in Node, RunnerStep(n)
      PROVE  Quiet \/ Erases
  <2>1. CASE StopConfirmed(n)
    BY <2>1, Bumps, FinishStopShape DEF StopConfirmed
  <2>2. CASE DumpReady(n)
    BY <2>2, Bumps DEF DumpReady, Quiet
  <2>3. CASE StopLocal(n) \/ Reread(n)
    <3>1. \A m \in Node : run'[m].epoch \in {run[m].epoch, 0}
      BY <2>3 DEF TypeOK, StopLocal, Reread, NoRun, Run
    <3> QED BY <2>3, <3>1 DEF StopLocal, Reread, EpochsKept, Quiet
  <2>4. CASE Renew(n)
    BY <2>4, LeaseFields DEF Renew, EpochsKept, Quiet
  <2> QED BY <1>5, <2>1, <2>2, <2>3, <2>4 DEF RunnerStep
<1>6. ASSUME NEW n \in Node, RunnerFails(n) \/ TailUnreadable(n)
      PROVE  Quiet \/ Erases
  <2>1. CASE EpochLost(n)
    BY <2>1, Bumps, FinishStopShape, LeaseFields DEF EpochLost, Yield, Quiet
  <2>2. CASE RetryableError(n)
    BY <2>2, Bumps DEF RetryableError, Quiet
  <2>3. ASSUME NEW reason \in TerminalReason, TerminalError(n, reason)
        PROVE  Quiet \/ Erases
    BY <2>3, Bumps, FinishStopShape, LeaseFields DEF TerminalError, Quiet
  <2>4. CASE TailUnreadable(n)
    BY <2>4, Bumps, FinishStopShape, LeaseFields DEF TailUnreadable, Yield, Quiet
  <2> QED BY <1>6, <2>1, <2>2, <2>3, <2>4 DEF RunnerFails
<1>7. ASSUME NEW n \in Node,
             NodeFault(n) \/ RefusalDue(n) \/ ChainVerified(n) \/ Heartbeat(n)
      PROVE  Quiet
  <2>1. CASE NodeStops(n)
    BY <2>1 DEF NodeStops, NoRun, Run, EpochsKept, Quiet
  <2>2. CASE ~NodeStops(n)
    BY <1>7, <2>2 DEF NodeFault, DirectoryFlips, NodeStarts, HeartbeatOld, RefusalDue,
                      ChainVerified, Heartbeat, EpochsKept, Quiet
  <2> QED BY <2>1, <2>2
<1>8. ASSUME NEW n \in Node, Acquire(n)
      PROVE  Takes(n)
  BY <1>8 DEF Acquire, InClaimSet, Takes, Bump, Run
<1>9. ASSUME NEW n \in Node, ChainOwnerBack(n)
      PROVE  Quiet
  BY <1>9, Bumps DEF ChainOwnerBack, Quiet
<1> QED BY <1>1, <1>2, <1>3, <1>4, <1>5, <1>6, <1>7, <1>8, <1>9 DEF Next

\* The three shapes keep EpochInv.
LEMMA EpochInvStep ==
  ASSUME TypeOK, EpochInv, Quiet \/ Erases \/ \E n \in Node : Takes(n)
  PROVE  EpochNamesOneRunner' /\ RunnerBehind'
<1>0. /\ lease.epoch \in Nat /\ \A m \in Node : run[m].epoch \in Nat
  BY OwnershipConstants DEF TypeOK
<1>1. CASE Quiet
  BY <1>0, <1>1, OwnershipConstants
  DEF EpochInv, EpochNamesOneRunner, RunnerBehind, Quiet, EpochsKept
<1>2. CASE Erases
  BY <1>2 DEF EpochInv, EpochNamesOneRunner, RunnerBehind, Erases, EpochsKept
<1>3. ASSUME NEW n \in Node, Takes(n)
      PROVE  EpochNamesOneRunner' /\ RunnerBehind'
  <2>1. /\ lease'.owner = n
        /\ lease'.epoch = IF lease.owner = n THEN lease.epoch ELSE lease.epoch + 1
        /\ run'[n].epoch = lease'.epoch
    BY <1>3 DEF Takes, TakenLease, Lease
  <2>2. ASSUME NEW m \in Node, m # n
        PROVE  run'[m].epoch = run[m].epoch /\ run'[m].epoch <= lease'.epoch
               /\ (run'[m].epoch = lease'.epoch => run'[m].epoch = 0)
    BY <1>0, <1>3, <2>1, <2>2, OwnershipConstants DEF EpochInv, RunnerBehind, Takes
  <2>3. EpochNamesOneRunner'
    BY <1>0, <2>1, <2>2 DEF EpochInv, EpochNamesOneRunner
  <2>4. RunnerBehind'
    BY <1>0, <2>1, <2>2 DEF RunnerBehind
  <2> QED BY <2>3, <2>4
<1> QED BY <1>1, <1>2, <1>3

-----------------------------------------------------------------------------
(***************************************************************************)
(* The results.                                                            *)
(***************************************************************************)

OwnershipInv == TypeOK /\ RowInv /\ EpochInv

\* The invariant everything rests on is inductive.
THEOREM OwnershipInductive == Spec => []OwnershipInv
<1>1. Init => OwnershipInv
  <2> SUFFICES ASSUME Init
               PROVE  OwnershipInv
    OBVIOUS
  <2>1. TypeOK
    <3>1. [canRead : BOOLEAN, stopped : {FALSE}, beat : {TRUE}] \subseteq FactType
      BY DEF FactType
    <3>2. fact \in [Node -> FactType]
      BY <3>1 DEF Init
    <3>3. ScalarsOK
      BY DEF Init, ScalarsOK, Phase
    <3>4. RecordsOK
      BY OwnershipConstants
      DEF Init, RecordsOK, NoLease, Lease, LeaseType, NoChain, Chain, ChainType, NoRetry, Retry,
          RetryType
    <3>5. run \in [Node -> RunType] /\ refusal \in [Node -> RefusalType]
      BY OwnershipConstants DEF Init, NoRun, Run, RunType, NoRefusals, RefusalType
    <3> QED BY <3>2, <3>3, <3>4, <3>5, TypeParts DEF NodesOK
  <2>2. EpochInv
    BY DEF Init, EpochInv, EpochNamesOneRunner, RunnerBehind, NoRun, Run, NoLease, Lease
  <2> QED BY <2>1, <2>2, RowInvInit DEF OwnershipInv
<1>2. OwnershipInv /\ [Next]_vars => OwnershipInv'
  <2> SUFFICES ASSUME OwnershipInv, [Next]_vars
               PROVE  OwnershipInv'
    OBVIOUS
  <2>1. CASE UNCHANGED vars
    <3>1. TypeOK'
      BY <2>1 DEF OwnershipInv, TypeOK, vars, rowVars
    <3>2. RowInv'
      BY <2>1, RowKeptInv DEF OwnershipInv, vars, rowVars, RowKept
    <3>3. EpochInv'
      BY <2>1 DEF OwnershipInv, EpochInv, EpochNamesOneRunner, RunnerBehind, vars
    <3> QED BY <3>1, <3>2, <3>3 DEF OwnershipInv
  <2>2. CASE Next
    <3>1. TypeOK'
      BY <2>2, ScalarsStep, ValuesStep, TypeParts DEF OwnershipInv, TypeOK, ScalarsOK,
         RecordsOK, NodesOK, LeaseType, ChainType, RunType, RetryType, FactType, RefusalType
    <3>2. RowInv'
      BY <2>2, RowInvStep DEF OwnershipInv
    <3>3. EpochInv'
      BY <2>2, EpochShape, EpochInvStep DEF OwnershipInv, EpochInv
    <3> QED BY <3>1, <3>2, <3>3 DEF OwnershipInv
  <2> QED BY <2>1, <2>2
<1> QED BY <1>1, <1>2, PTL DEF Spec

\* Step keeps its record well formed: phases, reasons and counters stay in
\* their ranges through every event.
THEOREM OwnershipTypes == Spec => []TypeOK
<1>1. OwnershipInv => TypeOK
  BY DEF OwnershipInv
<1> QED BY <1>1, OwnershipInductive, PTL

\* An operator's stop or delete is never undone by a runner (finishStop,
\* terminal, tailUnreadable, epochLost).
THEOREM StopIsKept == Spec => []StopIntentKept
<1>1. OwnershipInv => StopIntentKept
  BY DEF OwnershipInv, RowInv
<1> QED BY <1>1, OwnershipInductive, PTL

\* Every way out of a run released the lease: release in step.go.
THEOREM RestingRowReleased == Spec => []RestingRowUnowned
<1>1. OwnershipInv => RestingRowUnowned
  BY DEF OwnershipInv, RowInv
<1> QED BY <1>1, OwnershipInductive, PTL

\* Failure columns match the phase in every state Step reaches.
THEOREM FailureIsRecorded == Spec => []FailureRecorded
<1>1. OwnershipInv => FailureRecorded
  BY DEF OwnershipInv, RowInv
<1> QED BY <1>1, OwnershipInductive, PTL

\* takeLease gives an epoch to one runner only, whatever expires, is released
\* or is renewed late.
THEOREM EpochIsOneRunners == Spec => []EpochNamesOneRunner
<1>1. OwnershipInv => EpochNamesOneRunner
  BY DEF OwnershipInv, EpochInv
<1> QED BY <1>1, OwnershipInductive, PTL

\* No start and no claim takes a live lease from its owner.
THEOREM LiveLeaseStays == Spec => LiveLeaseNotTaken
<1> DEFINE Kept == LeaseLive /\ lease'.owner # lease.owner => lease'.owner = None
<1>1. OwnershipInv /\ [Next]_vars => [Kept]_vars
  <2> SUFFICES ASSUME TypeOK, Next
               PROVE  Kept
    BY DEF OwnershipInv
  <2>1. CASE Quiet \/ Erases
    BY <2>1, LeaseFields DEF Quiet, Erases
  <2>2. CASE ~(Quiet \/ Erases)
    <3>1. PICK n \in Node : OperatorStart(n) \/ Acquire(n)
      BY <2>2, EpochShape
    <3>2. TakenLease(n).owner = n
      BY DEF TakenLease, Lease
    <3>3. lease' = TakenLease(n) /\ ~(LeaseLive /\ lease.owner # n)
      BY <3>1 DEF OperatorStart, Acquire, InClaimSet
    <3>4. lease'.owner = n
      BY <3>2, <3>3
    <3> QED BY <3>3, <3>4, Zenon
  <2> QED BY <2>1, <2>2
<1> QED BY <1>1, OwnershipInductive, PTL DEF Spec, LiveLeaseNotTaken
=============================================================================
