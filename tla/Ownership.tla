----------------------------- MODULE Ownership ------------------------------
(***************************************************************************)
(* The ownership transition of one task (internal/ownership, ADR 0011):    *)
(* Step(State, Event, now) decides what an operator request, an event of a *)
(* runner or an observation of the chain does to the task row, its lease   *)
(* row, its refusal rows and its chain row.  Each event is one action; a   *)
(* rejected or idempotent event changes nothing and is no step.            *)
(*                                                                         *)
(* Deadlines are kept as "still ahead" bits that an action of their own    *)
(* lowers at any moment, so every order of timeouts is explored.           *)
(* row_generation is kept as one bit per runner, run[n].current: the       *)
(* generation the runner last read is still the row's.  spec_revision is   *)
(* kept through its only use, the comparison with failed_spec_revision.    *)
(***************************************************************************)
EXTENDS Naturals

CONSTANTS Node,         \* cluster members
          None,         \* the empty owner
          PerNode,      \* cluster.storage is per_node, not shared
          RetryBudget,  \* retries of one run before it yields
          MaxEpoch      \* bound: epochs handed out in one behaviour

ASSUME OwnershipConstants ==
  /\ None \notin Node
  /\ PerNode \in BOOLEAN /\ RetryBudget \in Nat /\ MaxEpoch \in Nat

VARIABLES phase, desired, byOperator, pendingDelete, deleted,
          failedReason,
          failedSpec,  \* failed_spec_revision: "zero", "current" or "older"
          tail,        \* tail_unreadable_since is set
          retry,       \* [attempt, ahead]: retry_until is ahead
          lease,       \* [owner, epoch, live]: expire_at is ahead
          chain,       \* [owner, verified, newer]: verified_at after failed_at
          refusal,     \* refusal[n]: "none", "ahead", "passed", or "open" (NULL)
          fact,        \* fact[n] = [canRead, stopped, beat]: heartbeat is fresh
          run          \* run[n] = [epoch, current]: the runner on n, epoch 0: none

rowVars == <<phase, desired, byOperator, pendingDelete, failedReason, failedSpec,
             tail, retry>>
vars == <<rowVars, deleted, lease, chain, refusal, fact, run>>

Phase == {"CREATED", "STARTING", "RUNNING", "LEASE_DEGRADED", "RETRY_BACKOFF",
          "FAILED", "STOPPING", "STOPPED"}

\* The causes TerminalError accepts, and the reasons they become.
TerminalReason == {"SOURCE_AUTH", "LOG_BIN_OFF", "SOURCE_SWITCHOVER",
                   "SOURCE_UNREACHABLE", "STORAGE_INCONSISTENT"}

\* The rows and facts as records.
Lease(o, e, live) == [owner |-> o, epoch |-> e, live |-> live]
Chain(o, verified, newer) == [owner |-> o, verified |-> verified, newer |-> newer]
Run(e, current) == [epoch |-> e, current |-> current]
Facts(canRead, stopped, beat) == [canRead |-> canRead, stopped |-> stopped, beat |-> beat]
Retry(attempt, ahead) == [attempt |-> attempt, ahead |-> ahead]

NoLease == Lease(None, 0, FALSE)
NoChain == Chain(None, FALSE, FALSE)
NoRun == Run(0, FALSE)
NoRetry == Retry(0, FALSE)
NoRefusals == [n \in Node |-> "none"]

\* The range of every variable.
TypeOK ==
  /\ phase \in Phase \cup {"none"}
  /\ desired \in {"RUN", "STOP", "none"}
  /\ byOperator \in BOOLEAN /\ pendingDelete \in BOOLEAN /\ deleted \in BOOLEAN
  /\ failedReason \in TerminalReason \cup {"none", "CHAIN_OWNER_GONE"}
  /\ failedSpec \in {"zero", "current", "older"}
  /\ tail \in BOOLEAN
  /\ retry \in [attempt : 0..RetryBudget, ahead : BOOLEAN]
  /\ lease \in [owner : Node \cup {None}, epoch : 0..MaxEpoch, live : BOOLEAN]
  /\ chain \in [owner : Node \cup {None}, verified : BOOLEAN, newer : BOOLEAN]
  /\ refusal \in [Node -> {"none", "ahead", "passed", "open"}]
  /\ fact \in [Node -> [canRead : BOOLEAN, stopped : BOOLEAN, beat : BOOLEAN]]
  /\ run \in [Node -> [epoch : 0..MaxEpoch, current : BOOLEAN]]

\* New: CREATED, desired RUN, no owner.  Any set of nodes may hold the files.
Init ==
  /\ phase = "CREATED" /\ desired = "RUN" /\ byOperator = FALSE
  /\ pendingDelete = FALSE /\ deleted = FALSE
  /\ failedReason = "none" /\ failedSpec = "zero"
  /\ tail = FALSE /\ retry = NoRetry
  /\ lease = NoLease
  /\ chain = NoChain
  /\ refusal = NoRefusals
  /\ fact \in [Node -> [canRead : BOOLEAN, stopped : {FALSE}, beat : {TRUE}]]
  /\ run = [n \in Node |-> NoRun]

-----------------------------------------------------------------------------
(***************************************************************************)
(* Predicates of invariant.go and step.go.                                 *)
(***************************************************************************)

LeaseLive == lease.owner # None /\ lease.live

LegalRetry == phase = "RETRY_BACKOFF" /\ retry.attempt < RetryBudget /\ retry.ahead

\* An open-ended refusal is looked at again once the node can read.
RefusalBlocks(n) ==
  \/ refusal[n] = "open" /\ ~fact[n].canRead
  \/ refusal[n] = "ahead"

FailedSpecClaimable == failedReason \in TerminalReason /\ failedSpec # "current"

\* Mutant: STARTING waits for its first claimant only.
InClaimSetUnowned ==
  /\ ~deleted /\ ~pendingDelete /\ desired = "RUN" /\ ~LeaseLive
  /\ \/ phase = "FAILED" /\ FailedSpecClaimable
     \/ phase \in {"LEASE_DEGRADED", "RUNNING"}
     \/ phase = "STARTING" /\ lease.owner = None
     \/ phase = "RETRY_BACKOFF" /\ ~LegalRetry
     \/ phase = "STOPPED" /\ lease.owner = None

InClaimSet ==
  /\ ~deleted /\ ~pendingDelete /\ desired = "RUN" /\ ~LeaseLive
  /\ \/ phase = "FAILED" /\ FailedSpecClaimable
     \/ phase \in {"STARTING", "LEASE_DEGRADED", "RUNNING"}
     \/ phase = "RETRY_BACKOFF" /\ ~LegalRetry
     \/ phase = "STOPPED" /\ lease.owner = None

\* Mutant: a stop whose holder died waits for that holder.
InStopSetUnowned ==
  ~deleted /\ desired = "STOP" /\ phase = "STOPPING" /\ lease.owner = None

InStopSet == ~deleted /\ desired = "STOP" /\ phase = "STOPPING" /\ ~LeaseLive

\* The chain owner is in the node table and cannot read the directory.
OwnerDirGone == chain.verified /\ ~fact[chain.owner].canRead

LostChainRow == chain.owner # None /\ phase = "LEASE_DEGRADED" /\ tail

\* ChainOwnerGone can fire now, or will once a stopped owner's heartbeat is old.
ChainGoneStep == LostChainRow /\ (OwnerDirGone \/ fact[chain.owner].stopped)

\* fence: owner and epoch are the row's, and the row was not written since.
FenceOK(n) ==
  /\ ~deleted /\ lease.owner = n /\ lease.epoch = run[n].epoch /\ run[n].current

FenceDiscard(n) ==
  /\ ~deleted
  /\ lease.epoch # run[n].epoch \/ lease.owner \notin {n, None}

FenceReread(n) ==
  /\ ~deleted /\ lease.owner = n /\ lease.epoch = run[n].epoch /\ ~run[n].current

\* A runner is there to report something.
Runs(n) == run[n].epoch > 0

-----------------------------------------------------------------------------
(***************************************************************************)
(* Pieces of the transition.                                               *)
(***************************************************************************)

\* bump: every other reader of the row now holds an old generation; node n
\* goes on with runner r.
Bump(n, r) ==
  run' = [m \in Node |-> IF m = n THEN r ELSE Run(run[m].epoch, FALSE)]

BumpAll == run' = [m \in Node |-> Run(run[m].epoch, FALSE)]

Released == Lease(None, lease.epoch, FALSE)

\* failed_at is now, so no verification is after it.
ChainAtFailure == Chain(chain.owner, chain.verified, FALSE)

\* Mutant: a node that takes the lease over keeps the epoch.
TakenLeaseSameEpoch(n) ==
  Lease(n, IF lease.epoch = 0 THEN 1 ELSE lease.epoch, TRUE)

\* takeLease: a new owner brings a new epoch.
TakenLease(n) ==
  Lease(n, IF lease.owner = n THEN lease.epoch ELSE lease.epoch + 1, TRUE)

EpochLeft(n) == TakenLease(n).epoch <= MaxEpoch

\* erase: the row is gone, the columns are zero values.
Erase ==
  /\ deleted' = TRUE
  /\ phase' = "none" /\ desired' = "none" /\ byOperator' = FALSE
  /\ pendingDelete' = FALSE
  /\ failedReason' = "none" /\ failedSpec' = "zero" /\ tail' = FALSE
  /\ retry' = NoRetry
  /\ lease' = NoLease
  /\ chain' = NoChain
  /\ refusal' = NoRefusals
  /\ UNCHANGED fact

ClearFailure == failedReason' = "none" /\ failedSpec' = "zero"

\* Mutant: the stop keeps the lease.
FinishStopKeepsLease ==
  \/ pendingDelete /\ Erase
  \/ /\ ~pendingDelete
     /\ phase' = "STOPPED" /\ desired' = "STOP" /\ byOperator' = TRUE
     /\ UNCHANGED <<lease, pendingDelete, deleted, failedReason, failedSpec, tail, retry,
                    chain, refusal, fact>>

\* Mutant: a stop that ends a delete leaves the row.
FinishStopForgetsDelete ==
  /\ phase' = "STOPPED" /\ desired' = "STOP" /\ byOperator' = TRUE
  /\ lease' = Released
  /\ UNCHANGED <<pendingDelete, deleted, failedReason, failedSpec, tail, retry, chain,
                 refusal, fact>>

\* finishStop: STOPPED and released, or erased when a delete was waiting.
FinishStop ==
  \/ pendingDelete /\ Erase
  \/ /\ ~pendingDelete
     /\ phase' = "STOPPED" /\ desired' = "STOP" /\ byOperator' = TRUE
     /\ lease' = Released
     /\ UNCHANGED <<pendingDelete, deleted, failedReason, failedSpec, tail, retry, chain,
                    refusal, fact>>

\* yield: back to LEASE_DEGRADED, released, with a refusal r of this node.
Yield(n, r, t) ==
  /\ phase' = "LEASE_DEGRADED" /\ desired' = "RUN"
  /\ lease' = Released
  /\ tail' = t
  /\ refusal' = [refusal EXCEPT ![n] = r]
  /\ Bump(n, NoRun)
  /\ UNCHANGED <<byOperator, pendingDelete, deleted, failedReason, failedSpec, retry,
                 chain, fact>>

-----------------------------------------------------------------------------
(***************************************************************************)
(* Operator events.                                                        *)
(***************************************************************************)

Startable == phase \in {"CREATED", "STOPPED", "FAILED", "RETRY_BACKOFF", "LEASE_DEGRADED"}

\* What every accepted Start writes.
StartWrites ==
  /\ desired' = "RUN" /\ byOperator' = FALSE
  /\ retry' = NoRetry
  /\ ClearFailure
  /\ UNCHANGED <<pendingDelete, deleted, tail, chain, fact>>

\* operatorStart on a process that runs dumps: it acquires in the same step.
OperatorStart(n) ==
  /\ ~deleted /\ ~pendingDelete /\ Startable
  /\ ~(LeaseLive /\ lease.owner # n)
  /\ EpochLeft(n)
  /\ phase' = "STARTING"
  /\ lease' = TakenLease(n)
  /\ StartWrites
  /\ refusal' = NoRefusals
  /\ Bump(n, Run(TakenLease(n).epoch, TRUE))

\* ownerlessStart: the process has no runner; any node may claim the row.
OwnerlessStart(n) ==
  /\ ~deleted /\ ~pendingDelete /\ Startable
  /\ ~(LeaseLive /\ lease.owner # n)
  /\ phase' = "STARTING"
  /\ lease' = Released
  /\ StartWrites
  /\ refusal' = NoRefusals
  /\ BumpAll

\* ownerlessRestartWhileStopping: record RUN, leave the worker's lease alone.
OwnerlessRestartWhileStopping ==
  /\ ~deleted /\ ~pendingDelete /\ phase = "STOPPING"
  /\ StartWrites
  /\ BumpAll
  /\ UNCHANGED <<phase, lease, refusal>>

\* operatorStop; STOPPING is written again only with a changed spec.
OperatorStop(changesSpec) ==
  /\ ~deleted
  /\ \/ phase \in {"LEASE_DEGRADED", "STARTING", "RUNNING", "RETRY_BACKOFF"}
     \/ phase = "STOPPING" /\ changesSpec
     \/ phase = "STOPPED" /\ desired = "RUN"
  /\ desired' = "STOP" /\ byOperator' = TRUE /\ phase' = "STOPPING"
  /\ BumpAll
  /\ UNCHANGED <<pendingDelete, deleted, failedReason, failedSpec, tail, retry, lease,
                 chain, refusal, fact>>

\* operatorDelete: erased at once, or after the live holder has stopped.
OperatorDelete ==
  /\ ~deleted
  /\ BumpAll
  /\ \/ ~LeaseLive /\ Erase
     \/ /\ LeaseLive
        /\ desired' = "STOP" /\ byOperator' = TRUE /\ phase' = "STOPPING"
        /\ pendingDelete' = TRUE
        /\ UNCHANGED <<deleted, failedReason, failedSpec, tail, retry, lease, chain,
                       refusal, fact>>

\* UpdateTask moves spec_revision past the revision recorded at failure.
UpdateTask ==
  /\ ~deleted /\ failedSpec = "current"
  /\ failedSpec' = "older"
  /\ BumpAll
  /\ UNCHANGED <<phase, desired, byOperator, pendingDelete, failedReason, tail, retry,
                 deleted, lease, chain, refusal, fact>>

-----------------------------------------------------------------------------
(***************************************************************************)
(* Events of the runner on node n.  Each is fenced; a stale one only tells *)
(* the runner to stop, one on an old generation only makes it reread.      *)
(***************************************************************************)

StopLocal(n) ==
  /\ Runs(n) /\ FenceDiscard(n)
  /\ run' = [run EXCEPT ![n] = NoRun]
  /\ UNCHANGED <<rowVars, deleted, lease, chain, refusal, fact>>

Reread(n) ==
  /\ Runs(n) /\ FenceReread(n)
  /\ run' = [run EXCEPT ![n] = Run(run[n].epoch, TRUE)]
  /\ UNCHANGED <<rowVars, deleted, lease, chain, refusal, fact>>

StopRequested == desired = "STOP" \/ phase = "STOPPING"

StopConfirmed(n) ==
  /\ Runs(n) /\ FenceOK(n) /\ StopRequested
  /\ FinishStop
  /\ Bump(n, NoRun)

\* stopExpired: any process ends a stop whose holder is gone.
StopExpired ==
  /\ InStopSet
  /\ FinishStop
  /\ BumpAll

\* Mutant: a claim out of FAILED leaves failed_spec_revision.
AcquireKeepsFailedSpec(n) ==
  /\ InClaimSet /\ ~RefusalBlocks(n)
  /\ ~(ChainGoneStep /\ OwnerDirGone /\ n # chain.owner)
  /\ EpochLeft(n)
  /\ phase' = "STARTING"
  /\ lease' = TakenLease(n)
  /\ failedReason' = "none"
  /\ Bump(n, Run(TakenLease(n).epoch, TRUE))
  /\ UNCHANGED <<failedSpec, desired, byOperator, pendingDelete, tail, retry, deleted, chain, refusal, fact>>

\* Mutant: the claim does not look whether the lease is live.
AcquireLive(n) ==
  /\ ~deleted /\ ~pendingDelete /\ desired = "RUN" /\ ~RefusalBlocks(n)
  /\ phase \in {"STARTING", "LEASE_DEGRADED", "RUNNING"}
  /\ EpochLeft(n)
  /\ phase' = "STARTING"
  /\ lease' = TakenLease(n)
  /\ UNCHANGED <<failedReason, failedSpec>>
  /\ Bump(n, Run(TakenLease(n).epoch, TRUE))
  /\ UNCHANGED <<desired, byOperator, pendingDelete, tail, retry, deleted, chain, refusal, fact>>

\* acquire (Acquire and LeaseExpired): a node claims the row.
Acquire(n) ==
  /\ InClaimSet /\ ~RefusalBlocks(n)
  /\ ~(ChainGoneStep /\ OwnerDirGone /\ n # chain.owner)
  /\ EpochLeft(n)
  /\ phase' = "STARTING"
  /\ lease' = TakenLease(n)
  /\ IF phase = "FAILED" THEN ClearFailure ELSE UNCHANGED <<failedReason, failedSpec>>
  /\ Bump(n, Run(TakenLease(n).epoch, TRUE))
  /\ UNCHANGED <<desired, byOperator, pendingDelete, tail, retry, deleted, chain, refusal, fact>>

\* dumpReady: the dump is open; failed_spec_revision is not written.
DumpReady(n) ==
  /\ Runs(n) /\ FenceOK(n) /\ desired = "RUN"
  /\ phase' = "RUNNING"
  /\ retry' = NoRetry
  /\ failedReason' = "none"
  /\ tail' = FALSE
  /\ refusal' = NoRefusals
  /\ Bump(n, run[n])
  /\ UNCHANGED <<desired, byOperator, pendingDelete, failedSpec, deleted, lease, chain, fact>>

\* Mutant: a runner that lost its lease resumes the task although it is being stopped.
EpochLostResumes(n) ==
  /\ Runs(n) /\ FenceOK(n)
  /\ Yield(n, "ahead", tail \/ (chain.verified /\ chain.owner = n /\ OwnerDirGone))

\* epochLost: stop if asked to, else yield with a dated refusal.  The verified
\* owner of a lost directory leaves the tail mark ChainOwnerGone needs.
EpochLost(n) ==
  /\ Runs(n) /\ FenceOK(n)
  /\ \/ StopRequested /\ FinishStop /\ Bump(n, NoRun)
     \/ /\ ~StopRequested
        /\ Yield(n, "ahead", tail \/ (chain.verified /\ chain.owner = n /\ OwnerDirGone))

\* Mutant: the retry budget is not looked at.
RetryableErrorNoBudget(n) ==
  /\ Runs(n) /\ FenceOK(n)
  /\ ~StopRequested /\ LeaseLive
  /\ phase' = "RETRY_BACKOFF"
  /\ retry' = Retry(retry.attempt + 1, TRUE)
  /\ Bump(n, run[n])
  /\ UNCHANGED <<desired, byOperator, pendingDelete, failedReason, failedSpec, tail,
                 deleted, lease, chain, refusal, fact>>

\* retryable: back off under the same lease; a lease that is not live, or not
\* readable, or a spent budget, is EpochLost.
RetryableError(n) ==
  /\ Runs(n) /\ FenceOK(n)
  /\ ~StopRequested /\ LeaseLive /\ retry.attempt < RetryBudget
  /\ phase' = "RETRY_BACKOFF"
  /\ retry' = Retry(retry.attempt + 1, TRUE)
  /\ Bump(n, run[n])
  /\ UNCHANGED <<desired, byOperator, pendingDelete, failedReason, failedSpec, tail,
                 deleted, lease, chain, refusal, fact>>

\* Mutant: the failure does not record the spec it failed on.
TerminalErrorNoSpec(n, reason) ==
  /\ Runs(n) /\ FenceOK(n) /\ ~StopRequested
  /\ phase' = "FAILED" /\ desired' = "RUN"
  /\ failedReason' = reason
  /\ chain' = ChainAtFailure
  /\ lease' = Released
  /\ Bump(n, NoRun)
  /\ UNCHANGED <<failedSpec, byOperator, pendingDelete, tail, retry, deleted, refusal, fact>>

\* terminal: FAILED for an allowlisted reason, released.
TerminalError(n, reason) ==
  /\ Runs(n) /\ FenceOK(n)
  /\ \/ StopRequested /\ FinishStop /\ Bump(n, NoRun)
     \/ /\ ~StopRequested
        /\ phase' = "FAILED" /\ desired' = "RUN"
        /\ failedReason' = reason /\ failedSpec' = "current"
        /\ chain' = ChainAtFailure
        /\ lease' = Released
        /\ Bump(n, NoRun)
        /\ UNCHANGED <<byOperator, pendingDelete, tail, retry, deleted, refusal, fact>>

\* tailUnreadable: yield and mark the tail.  Under per_node storage the refusal
\* is open-ended; the verified chain owner is not let off this way.
TailUnreadable(n) ==
  /\ Runs(n) /\ FenceOK(n) /\ ~fact[n].canRead
  /\ \/ StopRequested /\ FinishStop /\ Bump(n, NoRun)
     \/ /\ ~StopRequested
        /\ ~(chain.verified /\ chain.owner = n)
        /\ Yield(n, IF PerNode THEN "open" ELSE "ahead", TRUE)

\* renew: owner and epoch only; an expired row nobody took is extended.
Renew(n) ==
  /\ Runs(n) /\ ~deleted /\ lease.owner = n /\ lease.epoch = run[n].epoch
  /\ ~lease.live
  /\ lease' = Lease(lease.owner, lease.epoch, TRUE)
  /\ UNCHANGED <<rowVars, deleted, chain, refusal, fact, run>>

-----------------------------------------------------------------------------
(***************************************************************************)
(* The chain: which node's directory the segments are in.                  *)
(***************************************************************************)

\* chainVerified by the live holder, or by the chain owner of an unheld row.
\* verified_at may still equal failed_at, which is not after it.
ChainVerified(n) ==
  /\ ~deleted /\ fact[n].canRead /\ ~fact[n].stopped
  /\ \/ LeaseLive /\ lease.owner = n
     \/ ~LeaseLive /\ chain.owner = n
  /\ \E newer \in BOOLEAN :
       /\ newer => phase = "FAILED"
       /\ chain' = Chain(n, TRUE, newer)
  /\ UNCHANGED <<rowVars, deleted, lease, refusal, fact, run>>

\* chainOwnerGone: the owner's directory or heartbeat is gone; FAILED.
ChainOwnerGone ==
  /\ ~deleted /\ LostChainRow
  /\ OwnerDirGone \/ ~fact[chain.owner].beat
  /\ phase' = "FAILED" /\ failedReason' = "CHAIN_OWNER_GONE" /\ desired' = "RUN"
  /\ chain' = ChainAtFailure
  /\ BumpAll
  /\ UNCHANGED <<byOperator, pendingDelete, failedSpec, tail, retry, deleted, lease,
                 refusal, fact>>

\* chainOwnerBack: the owner read its directory after the failure.
ChainOwnerBack(n) ==
  /\ ~deleted /\ phase = "FAILED" /\ failedReason = "CHAIN_OWNER_GONE" /\ desired = "RUN"
  /\ chain.owner = n /\ chain.verified /\ chain.newer
  /\ fact[n].canRead /\ ~fact[n].stopped /\ fact[n].beat
  /\ phase' = "LEASE_DEGRADED"
  /\ failedReason' = "none"
  /\ chain' = ChainAtFailure
  /\ BumpAll
  /\ UNCHANGED <<desired, byOperator, pendingDelete, failedSpec, tail, retry, deleted,
                 lease, refusal, fact>>

-----------------------------------------------------------------------------
(***************************************************************************)
(* Time and the nodes themselves.                                          *)
(***************************************************************************)

\* expire_at, retry_until or a refusal's deadline passes.
ExpireLease ==
  /\ LeaseLive
  /\ lease' = Lease(lease.owner, lease.epoch, FALSE)
  /\ UNCHANGED <<rowVars, deleted, chain, refusal, fact, run>>

RetryDue ==
  /\ retry.ahead
  /\ retry' = Retry(retry.attempt, FALSE)
  /\ UNCHANGED <<phase, desired, byOperator, pendingDelete, failedReason, failedSpec,
                 tail, deleted, lease, chain, refusal, fact, run>>

RefusalDue(n) ==
  /\ refusal[n] = "ahead"
  /\ refusal' = [refusal EXCEPT ![n] = "passed"]
  /\ UNCHANGED <<rowVars, deleted, lease, chain, fact, run>>

HeartbeatOld(n) ==
  /\ fact[n].beat /\ fact' = [fact EXCEPT ![n] = Facts(fact[n].canRead, fact[n].stopped, FALSE)]
  /\ UNCHANGED <<rowVars, deleted, lease, chain, refusal, run>>

Heartbeat(n) ==
  /\ ~fact[n].beat /\ fact' = [fact EXCEPT ![n] = Facts(fact[n].canRead, fact[n].stopped, TRUE)]
  /\ UNCHANGED <<rowVars, deleted, lease, chain, refusal, run>>

\* The directory of n is lost or comes back.
DirectoryFlips(n) ==
  /\ fact' = [fact EXCEPT ![n] = Facts(~fact[n].canRead, fact[n].stopped, fact[n].beat)]
  /\ UNCHANGED <<rowVars, deleted, lease, chain, refusal, run>>

\* The process on n stops; its runner is gone and says nothing more.
NodeStops(n) ==
  /\ ~fact[n].stopped
  /\ fact' = [fact EXCEPT ![n] = Facts(fact[n].canRead, TRUE, fact[n].beat)]
  /\ run' = [run EXCEPT ![n] = NoRun]
  /\ UNCHANGED <<rowVars, deleted, lease, chain, refusal>>

NodeStarts(n) ==
  /\ fact[n].stopped
  /\ fact' = [fact EXCEPT ![n] = Facts(fact[n].canRead, FALSE, fact[n].beat)]
  /\ UNCHANGED <<rowVars, deleted, lease, chain, refusal, run>>

-----------------------------------------------------------------------------
OperatorStep ==
  \/ OwnerlessRestartWhileStopping \/ OperatorDelete \/ UpdateTask
  \/ \E b \in BOOLEAN : OperatorStop(b)
  \/ \E n \in Node : ~fact[n].stopped /\ (OperatorStart(n) \/ OwnerlessStart(n))

\* What the runner reports when nothing goes wrong, and when something does.
RunnerStep(n) == StopLocal(n) \/ Reread(n) \/ StopConfirmed(n) \/ DumpReady(n) \/ Renew(n)

RunnerFails(n) ==
  \/ EpochLost(n) \/ RetryableError(n)
  \/ \E reason \in TerminalReason : TerminalError(n, reason)

NodeFault(n) == DirectoryFlips(n) \/ NodeStops(n) \/ NodeStarts(n) \/ HeartbeatOld(n)

Next ==
  \/ OperatorStep \/ StopExpired \/ ChainOwnerGone \/ ExpireLease \/ RetryDue
  \/ \E n \in Node :
       \/ RunnerStep(n) \/ RunnerFails(n) \/ TailUnreadable(n)
       \/ NodeFault(n) \/ RefusalDue(n)
       \/ /\ ~fact[n].stopped
          /\ Acquire(n) \/ ChainVerified(n) \/ ChainOwnerBack(n) \/ Heartbeat(n)

Spec == Init /\ [][Next]_vars

-----------------------------------------------------------------------------
(***************************************************************************)
(* Properties.                                                             *)
(***************************************************************************)

\* desired STOP is exactly the operator's stop flag, and a delete that waits
\* for its holder stays a stop of a held task: neither a yield, a failure, a
\* Start nor a claim undoes it (Check 1; operatorDelete, finishStop).
StopIntentKept ==
  /\ desired = "STOP" <=> byOperator
  /\ pendingDelete => desired = "STOP" /\ phase = "STOPPING" /\ lease.owner # None

\* A row at rest names no owner, so a claim of it always brings a new epoch:
\* every way out of a run (stop, yield, failure) released the lease.
RestingRowUnowned ==
  phase \in {"none", "CREATED", "STOPPED", "LEASE_DEGRADED", "FAILED"} => lease.owner = None

\* failed_reason is set exactly on FAILED rows; a terminal failure recorded the
\* spec revision it failed on, and no revision outlives the failure (Check 2).
FailureRecorded ==
  /\ phase = "FAILED" <=> failedReason # "none"
  /\ failedReason \in TerminalReason <=> failedSpec # "zero"

\* Two runners never hold the same epoch, however leases expire, are released
\* and are renewed late: the fence of one never lets the other's event through.
EpochNamesOneRunner ==
  \A m, n \in Node : m # n /\ run[m].epoch = run[n].epoch => run[m].epoch = 0

\* Invariant 9 of Check: every row is held, claimable, in a stop set, in a
\* retry window, or at rest.
Covered ==
  \/ deleted \/ phase \in {"FAILED", "CREATED"}
  \/ phase = "STOPPED" /\ desired = "STOP"
  \/ LeaseLive \/ LegalRetry \/ InClaimSet \/ InStopSet

\* The only row outside every set is one whose Start arrived while it was
\* STOPPING and whose holder's lease then expired.
CoveredUnlessReopening == Covered \/ (phase = "STOPPING" /\ desired = "RUN")

\* No node takes a lease that is live (CheckStep 3).
LiveLeaseNotTaken ==
  [][LeaseLive /\ lease'.owner # lease.owner => lease'.owner = None]_vars
=============================================================================
