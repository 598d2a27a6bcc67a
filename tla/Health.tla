------------------------------- MODULE Health -------------------------------
(***************************************************************************)
(* The health evaluator of a cluster and its store, for one task.          *)
(*                                                                         *)
(* Every node evaluates the tasks it may speak for: the lease holder, the  *)
(* last node that read the task directory (delegated), and the holder of   *)
(* the _health lease for a task nobody owns (proxy).  A pass collects      *)
(* facts, reads the open findings, reconciles them and writes transitions  *)
(* and the verdict under a fence that the store checks again in the same   *)
(* transaction.  Passes of several nodes overlap; writes fail before or    *)
(* after their commit; leases move between a pass's first and last step.   *)
(*                                                                         *)
(* Three kinds of finding stand for the registry: UPLOAD_UNVERIFIED (a     *)
(* signal of the running process), UPLOAD_LATE (read from the directory,   *)
(* opened by the second pass that sees it) and TASK_FAILED (from the row). *)
(***************************************************************************)
EXTENDS Naturals

CONSTANTS Node, None,
          Budget    \* bound: requests, failures and faults in one behaviour

ASSUME HealthAssumption == None \notin Node /\ Budget \in Nat

VARIABLES lease,  \* the task_leases row; epoch 0: there is none yet
          row,    \* the tasks row: owner, epoch and what was asked of it
          mem,    \* each node's copy of the row
          late,   \* how late the oldest upload really is: 0, warning, critical
          left,   \* how much of Budget is left
          db,     \* task_findings, finding_transitions and task_health
          ev,     \* each node's evaluator
          pass    \* each node's evaluation pass

vars == <<lease, row, mem, late, left, db, ev, pass>>

Kind == {"unverified", "late", "failed"}
Level == 0..2        \* not open, WARNING, CRITICAL
Keep == 3            \* no transition for this finding

Scopes(k) == CASE k = "unverified" -> {"signals", "chain"}
               [] k = "late"       -> {"chain"}
               [] k = "failed"     -> {"state"}

\* A kind is derived once its first scope is known.
FirstScope(k) == CASE k = "unverified" -> "signals"
                   [] k = "late"       -> "chain"
                   [] k = "failed"     -> "state"

NoTransitions == [ts |-> [k \in Kind |-> Keep], fact |-> 0, epoch |-> 0, stored |-> FALSE]

IsEmpty(batch) == \A k \in Kind : batch.ts[k] = Keep

AfterTransitions(open, batch) ==
  [k \in Kind |-> IF batch.ts[k] = Keep THEN open[k] ELSE batch.ts[k]]

NoFence == [mode |-> "never", epoch |-> 0, node |-> None,
            proxy |-> FALSE, delegated |-> FALSE, verified |-> FALSE]

Idle == [at |-> "idle", fence |-> NoFence, complete |-> {}, want |-> [k \in Kind |-> 0],
         cleared |-> FALSE, fact |-> 0, batch |-> NoTransitions, status |-> "UNKNOWN"]

\* A process that just started: no pending write, no signal seen, no latch.
FreshEvaluator ==
  [held |-> FALSE, runs |-> FALSE, failing |-> FALSE, cleared |-> FALSE, fact |-> 0,
   confirmed |-> FALSE, fenced |-> 0, pending |-> NoTransitions]

Init ==
  /\ lease = [owner |-> None, epoch |-> 0, live |-> FALSE]
  /\ row = [owner |-> None, epoch |-> 0, ask |-> "RUN"]
  /\ mem = [n \in Node |-> row]
  /\ late = 0
  /\ left = Budget
  /\ db = [open |-> [k \in Kind |-> 0], facts |-> {}, mode |-> "", epoch |-> 0,
           node |-> None, chainOwner |-> None, status |-> "UNKNOWN", skipped |-> FALSE]
  /\ ev = [n \in Node |-> FreshEvaluator]
  /\ pass = [n \in Node |-> Idle]

Disturb == left > 0 /\ left' = left - 1
Calm == UNCHANGED left

-----------------------------------------------------------------------------
(* The task around the evaluator: who owns it and what happens to it.      *)

\* A node claims a task that should run and that nobody holds.
Claim(n) ==
  LET same == lease.owner = n
      e == IF same THEN lease.epoch ELSE lease.epoch + 1 IN
  /\ row.ask = "RUN" /\ ~lease.live
  /\ lease' = [owner |-> n, epoch |-> e, live |-> TRUE]
  /\ row' = [row EXCEPT !.owner = n, !.epoch = e]
  /\ mem' = [mem EXCEPT ![n] = row']
  /\ ev' = [ev EXCEPT ![n].runs = TRUE, ![n].fenced = 0]
  /\ Calm /\ UNCHANGED <<late, db, pass>>

\* The lease runs out: the holder is gone, or it is too slow.
Expire ==
  /\ lease.live /\ lease' = [lease EXCEPT !.live = FALSE]
  /\ IF ev[lease.owner].runs THEN Disturb ELSE Calm
  /\ UNCHANGED <<row, mem, late, db, ev, pass>>

Renew(n) ==
  /\ ev[n].runs /\ lease.owner = n /\ lease.epoch = mem[n].epoch /\ ~lease.live
  /\ lease' = [lease EXCEPT !.live = TRUE]
  /\ Calm /\ UNCHANGED <<row, mem, late, db, ev, pass>>

\* The renewal finds another epoch, or none in time: the run ends, the
\* evaluator drops what it had pending, and a lease still its own is released.
LoseLease(n) ==
  LET mine == lease.owner = n /\ lease.epoch = mem[n].epoch IN
  /\ ev[n].runs /\ ~(mine /\ lease.live)
  /\ lease' = IF mine THEN [lease EXCEPT !.owner = None] ELSE lease
  /\ row' = IF mine THEN [row EXCEPT !.owner = None, !.epoch = 0] ELSE row
  /\ mem' = [mem EXCEPT ![n] = row']
  /\ ev' = [ev EXCEPT ![n].runs = FALSE, ![n].pending = NoTransitions]
  /\ Calm /\ UNCHANGED <<late, db, pass>>

\* The run ends by an operator stop or a failure: row and lease are released.
EndRun(n, ask) ==
  /\ ev[n].runs /\ lease.live /\ lease.owner = n /\ lease.epoch = mem[n].epoch
  /\ Disturb
  /\ lease' = [lease EXCEPT !.owner = None, !.live = FALSE]
  /\ row' = [owner |-> None, epoch |-> 0, ask |-> ask]
  /\ mem' = [mem EXCEPT ![n] = row']
  /\ ev' = [ev EXCEPT ![n].runs = FALSE]
  /\ UNCHANGED <<late, db, pass>>

\* The operator starts a stopped or failed task again.
AskRun ==
  /\ row.ask # "RUN" /\ Disturb
  /\ row' = [row EXCEPT !.ask = "RUN"]
  /\ UNCHANGED <<lease, mem, late, db, ev, pass>>

\* The task list is read from the store again.
Sync(n) ==
  /\ ~ev[n].runs /\ mem[n] # row
  /\ mem' = [mem EXCEPT ![n] = row]
  /\ Calm /\ UNCHANGED <<lease, row, late, db, ev, pass>>

\* The process dies with everything it had not stored.
Crash(n) ==
  /\ Disturb
  /\ ev' = [ev EXCEPT ![n] = FreshEvaluator]
  /\ pass' = [pass EXCEPT ![n] = Idle]
  /\ mem' = [mem EXCEPT ![n] = row]
  /\ UNCHANGED <<lease, row, late, db>>

\* The oldest upload becomes late, then critically late, and in the end done.
Uploads == late' \in ({0, late + 1} \cap Level) \ {late} /\ Disturb /\ UNCHANGED <<lease, row, mem, db, ev, pass>>

UsedFacts == db.facts \cup UNION {{ev[n].fact, ev[n].pending.fact, pass[n].fact, pass[n].batch.fact} : n \in Node}

\* An uploaded object does not read back: a failure with its own fact time.
SignalFailure(n) ==
  /\ ev[n].runs /\ Disturb
  /\ \E f \in {CHOOSE i \in 1..(Budget + 1) : i \notin UsedFacts} :
       ev' = [ev EXCEPT ![n].failing = TRUE, ![n].cleared = FALSE, ![n].fact = f]
  /\ UNCHANGED <<lease, row, mem, late, db, pass>>

SignalSuccess(n) ==
  /\ ev[n].runs /\ ~ev[n].cleared /\ Disturb
  /\ ev' = [ev EXCEPT ![n].failing = FALSE, ![n].cleared = TRUE]
  /\ UNCHANGED <<lease, row, mem, late, db, pass>>

\* The _health lease is taken; its last holder finds out at its next sweep.
TakeHealthLease(n) ==
  /\ ~ev[n].held
  /\ IF \E m \in Node : ev[m].held THEN Disturb ELSE Calm
  /\ ev' = [ev EXCEPT ![n].held = TRUE]
  /\ UNCHANGED <<lease, row, mem, late, db, pass>>

LoseHealthLease(n) ==
  /\ ev[n].held /\ \E m \in Node \ {n} : ev[m].held
  /\ ev' = [ev EXCEPT ![n].held = FALSE]
  /\ Calm /\ UNCHANGED <<lease, row, mem, late, db, pass>>

-----------------------------------------------------------------------------
(* Authority: whom a node may speak for, as it knows when a pass begins.   *)

HolderFence(n) == [NoFence EXCEPT !.mode = "cluster", !.epoch = mem[n].epoch, !.node = n]

IsHolder(n) == mem[n].owner = n

DelegatedFence(n) ==
  [NoFence EXCEPT !.mode = "cluster", !.epoch = lease.epoch, !.node = n, !.delegated = TRUE]

IsDelegate(n) == db.chainOwner = n /\ lease.epoch > 0 /\ lease.owner \in {None, n}

\* Mutant: the proxy writes in its own name on an expired lease too.
ProxyFenceOwn(n) ==
  IF lease.epoch = 0 THEN [NoFence EXCEPT !.node = n]
  ELSE [NoFence EXCEPT !.mode = "cluster", !.epoch = lease.epoch, !.proxy = TRUE, !.node = n]

\* A released lease names nobody: the proxy writes in its own name.
ProxyFence(n) ==
  IF lease.epoch = 0 THEN [NoFence EXCEPT !.node = n]
  ELSE [NoFence EXCEPT !.mode = "cluster", !.epoch = lease.epoch, !.proxy = TRUE,
                       !.node = IF lease.owner = None THEN n ELSE lease.owner]

\* The row has no owner, or its owner let the lease of a task that should run
\* expire.
IsProxy(n) ==
  ev[n].held /\ (mem[n].owner = None \/ (row.owner # None /\ row.ask = "RUN" /\ ~lease.live))

\* Mutant: a delegate is not the proxy as well.
AuthorityForOne(n) ==
  CASE IsHolder(n) -> {HolderFence(n)}
    [] ~IsHolder(n) /\ IsDelegate(n) -> {DelegatedFence(n)}
    [] ~IsHolder(n) /\ ~IsDelegate(n) -> IF IsProxy(n) THEN {ProxyFence(n)} ELSE {}

\* One node that is both the last chain owner and the _health holder is both.
AuthorityFor(n) ==
  CASE IsHolder(n)                -> {HolderFence(n)}
    [] ~IsHolder(n) /\ IsDelegate(n) ->
         {[DelegatedFence(n) EXCEPT !.proxy = IsProxy(n)]}
    [] ~IsHolder(n) /\ ~IsDelegate(n) -> IF IsProxy(n) THEN {ProxyFence(n)} ELSE {}

ProxyLike(f) == f.proxy \/ f.mode = "never"
Relay(f) == ProxyLike(f) \/ f.delegated

\* Mutant: a relay looks at the epoch only.
CurrentEpoch(f) ==
  IF Relay(f) THEN lease.epoch = f.epoch ELSE lease.owner = f.node /\ lease.epoch = f.epoch

\* A relay writes while nobody holds the lease, a holder while it is its own.
Current(f) ==
  IF Relay(f) THEN lease.epoch = f.epoch /\ (~lease.live \/ lease.owner = None)
  ELSE lease.owner = f.node /\ lease.epoch = f.epoch

\* A newer epoch or another node of the same epoch wrote; a released lease is
\* not compared by node.
Superseded(f) ==
  /\ db.mode = "cluster"
  /\ \/ db.epoch > f.epoch
     \/ db.epoch = f.epoch /\ db.node # f.node /\ ~(Relay(f) /\ lease.owner = None)

\* The one fence rule, against the rows locked by the writing transaction.
CheckFence(f) ==
  CASE f.mode = "never" -> IF lease.epoch > 0 \/ db.mode = "cluster" THEN "fenced" ELSE "ok"
    [] f.mode = "cluster" ->
         IF lease.epoch = 0 \/ ~Current(f) THEN "fenced"
         ELSE IF ~Relay(f) /\ ~lease.live THEN "lagging"
         ELSE IF Superseded(f) \/ (f.delegated /\ db.chainOwner # f.node) THEN "fenced" ELSE "ok"

-----------------------------------------------------------------------------
(* One pass: facts, open findings, reconciliation, write.                  *)

LeaseRowAgrees(n) ==
  \/ lease.owner = None /\ mem[n].owner = None
  \/ lease.owner # None /\ lease.owner = mem[n].owner /\ lease.epoch = mem[n].epoch

\* The scopes a pass under f reports; reading the directory may fail.
CompleteScopes(n, f, readable) ==
  LET chain == IF readable THEN {"chain"} ELSE {} IN
  CASE ProxyLike(f) /\ f.delegated  -> {"state"} \cup chain
    [] ProxyLike(f) /\ ~f.delegated -> {"state"}
    [] ~ProxyLike(f) /\ f.delegated -> chain
    [] ~Relay(f) -> {"signals"} \cup chain
                    \cup (IF LeaseRowAgrees(n) THEN {"state"} ELSE {})

ProducedScopes(f) ==
  CASE ProxyLike(f) /\ f.delegated  -> {"state", "chain"}
    [] ProxyLike(f) /\ ~f.delegated -> {"state"}
    [] ~ProxyLike(f) /\ f.delegated -> {"chain"}
    [] ~Relay(f)                    -> {"state", "chain"}

\* What the facts of a pass say should be open; a kind whose first scope is not
\* known is not derived.
Derived(n, complete) ==
  [k \in Kind |-> CASE FirstScope(k) \notin complete -> 0
                   [] k = "unverified" /\ "signals" \in complete -> IF ev[n].failing THEN 2 ELSE 0
                   [] k = "late" /\ "chain" \in complete -> late
                   [] k = "failed" /\ "state" \in complete -> IF mem[n].ask = "FAILED" THEN 2 ELSE 0]

\* The facts of a pass under f.  The open findings are read right after them.
Facts(n, f, readable) ==
  LET c == CompleteScopes(n, f, readable) IN
  [Idle EXCEPT !.complete = c, !.want = Derived(n, c), !.cleared = ev[n].cleared, !.fact = ev[n].fact,
               !.fence = [f EXCEPT !.verified = readable /\ ~Relay(f)]]

Worst(open) == CHOOSE s \in Level : (\E k \in Kind : open[k] = s) /\ \A k \in Kind : open[k] <= s

\* Mutant: a pass judges only the findings of its own scopes.
HealthOfOwn(open, p) ==
  CASE \E k \in Kind : open[k] = 2 /\ Scopes(k) \subseteq p.complete -> "UNHEALTHY"
    [] \E k \in Kind : open[k] = 1 /\ Scopes(k) \subseteq p.complete -> "DEGRADED"
    [] OTHER -> "HEALTHY"

HealthOf(open, p) ==
  CASE Worst(open) = 2 -> "UNHEALTHY"
    [] Worst(open) = 1 -> "DEGRADED"
    [] Worst(open) = 0 -> IF ProducedScopes(p.fence) \subseteq p.complete THEN "HEALTHY" ELSE "UNKNOWN"

\* Mutant: what the pass before derived is not looked at.
DesiredOpen(p, confirmed, k) == IF k = "late" /\ db.open[k] = 0 THEN 0 ELSE p.want[k]

\* What this pass wants open: a kind that needs confirming opens only when the
\* pass before derived it as well.
Desired(p, confirmed, k) ==
  IF k = "late" /\ db.open[k] = 0 /\ ~confirmed THEN 0 ELSE p.want[k]

\* A pass that misses one of the kind's scopes may raise, never lower or close;
\* a signal closes on a success only.
Reconcile(p, confirmed, k) ==
  LET want == Desired(p, confirmed, k)
      lower == /\ want < db.open[k] /\ Scopes(k) \subseteq p.complete
               /\ want > 0 \/ k # "unverified" \/ p.cleared
  IN  IF want > db.open[k] \/ lower THEN want ELSE Keep

\* The transitions of a pass; the digest of a signal's OPEN carries the time of
\* the failure, that of any other transition the time of its pass.
Transitions(p, ts) ==
  IF \A k \in Kind : ts[k] = Keep THEN NoTransitions
  ELSE [ts |-> ts, epoch |-> p.fence.epoch, stored |-> FALSE,
        fact |-> IF ts["unverified"] \in 1..2 THEN p.fact ELSE 0]

\* The last write of a pass: its own transitions and the verdict after them.
OwnWrite(p, confirmed) ==
  LET b == Transitions(p, [k \in Kind |-> Reconcile(p, confirmed, k)]) IN
  [Idle EXCEPT !.at = "write", !.fence = p.fence, !.batch = b,
               !.status = HealthOf(AfterTransitions(db.open, b), p)]

\* What an earlier pass could not store is written first, as it was.
PendingWrite(p, b) ==
  [p EXCEPT !.at = "pending", !.batch = b, !.status = HealthOf(AfterTransitions(db.open, b), p)]

\* A pass begins: a holder whose write was fenced waits for another epoch.
BeginPass(n) ==
  /\ pass[n].at = "idle"
  /\ \E f \in AuthorityFor(n), readable \in BOOLEAN :
       /\ Relay(f) \/ ev[n].fenced # f.epoch
       /\ IF readable THEN Calm ELSE Disturb
       /\ \E p \in {Facts(n, f, readable)}, e \in {[ev[n] EXCEPT !.fenced = 0]} :
            IF IsEmpty(e.pending)
            THEN /\ pass' = [pass EXCEPT ![n] = OwnWrite(p, e.confirmed)]
                 /\ ev' = [ev EXCEPT ![n] = [e EXCEPT !.confirmed = p.want["late"] > 0]]
            ELSE /\ pass' = [pass EXCEPT ![n] = PendingWrite(p, e.pending)]
                 /\ ev' = [ev EXCEPT ![n] = e]
  /\ UNCHANGED <<lease, row, mem, late, db>>

\* The pending transitions are stored: the open findings are read again.
ContinuePass(n) ==
  /\ pass[n].at = "open"
  /\ pass' = [pass EXCEPT ![n] = OwnWrite(@, ev[n].confirmed)]
  /\ ev' = [ev EXCEPT ![n].confirmed = pass[n].want["late"] > 0]
  /\ Calm /\ UNCHANGED <<lease, row, mem, late, db>>

\* They do not read: the pass ends with nothing more changed.
ReadFails(n) ==
  /\ pass[n].at = "open" /\ Calm
  /\ pass' = [pass EXCEPT ![n] = Idle]
  /\ UNCHANGED <<lease, row, mem, late, db, ev>>

\* A transition whose digest is stored is a replay.
Replayed(b, k) == b.stored \/ (k = "unverified" /\ b.fact \in db.facts)

\* Mutant: a transition without a fact time of its own is recorded as well.
StoredFactsAll(b) == db.facts \cup {b.fact}

\* The failures whose OPEN is stored.
StoredFacts(b) == db.facts \cup ({b.fact} \ {0})

\* ApplyTransitions, committed.
Stored(p) ==
  LET b == p.batch
      new == [b EXCEPT !.ts = [k \in Kind |-> IF Replayed(b, k) THEN Keep ELSE b.ts[k]]] IN
  [open |-> AfterTransitions(db.open, new),
   facts |-> StoredFacts(b),
   mode |-> p.fence.mode, epoch |-> p.fence.epoch, node |-> p.fence.node,
   chainOwner |-> IF p.fence.verified THEN p.fence.node ELSE db.chainOwner,
   status |-> p.status,
   skipped |-> db.skipped \/ (~b.stored /\ new.ts # b.ts)]

Writing(n) == pass[n].at \in {"pending", "write"}

WriteSucceeds(n) ==
  /\ Writing(n) /\ CheckFence(pass[n].fence) = "ok"
  /\ db' = Stored(pass[n])
  /\ ev' = [ev EXCEPT ![n].pending = NoTransitions]
  /\ pass' = [pass EXCEPT ![n] = IF @.at = "write" THEN Idle
                                 ELSE [@ EXCEPT !.at = "open", !.batch = NoTransitions]]
  /\ Calm /\ UNCHANGED <<lease, row, mem, late>>

WriteFenced(n) ==
  LET f == pass[n].fence IN
  /\ Writing(n) /\ CheckFence(f) = "fenced"
  /\ ev' = [ev EXCEPT ![n].pending = NoTransitions,
                      ![n].fenced = IF Relay(f) THEN @ ELSE f.epoch]
  /\ pass' = [pass EXCEPT ![n] = Idle]
  /\ Calm /\ UNCHANGED <<lease, row, mem, late, db>>

Kept(n, b) == IF IsEmpty(ev[n].pending) /\ ~IsEmpty(b) THEN b ELSE ev[n].pending

\* The lease lags, or the store answers with an error: nothing was committed.
WriteFails(n) ==
  /\ Writing(n)
  /\ \/ CheckFence(pass[n].fence) = "lagging" /\ Calm
     \/ CheckFence(pass[n].fence) = "ok" /\ Disturb
  /\ ev' = [ev EXCEPT ![n].pending = Kept(n, pass[n].batch)]
  /\ pass' = [pass EXCEPT ![n] = Idle]
  /\ UNCHANGED <<lease, row, mem, late, db>>

\* The commit went through and its answer is lost: the node believes it failed.
\* Transitions it already kept pending stay the ones it retries.
AnswerLost(n) ==
  LET b == [pass[n].batch EXCEPT !.stored = TRUE]
      kept == IF pass[n].at = "pending" /\ ev[n].pending = pass[n].batch THEN b
              ELSE Kept(n, b) IN
  /\ Writing(n) /\ CheckFence(pass[n].fence) = "ok" /\ Disturb
  /\ db' = Stored(pass[n])
  /\ ev' = [ev EXCEPT ![n].pending = kept]
  /\ pass' = [pass EXCEPT ![n] = Idle]
  /\ UNCHANGED <<lease, row, mem, late>>

-----------------------------------------------------------------------------
PassStep(n) ==
  \/ BeginPass(n) \/ ContinuePass(n) \/ ReadFails(n)
  \/ WriteSucceeds(n) \/ WriteFenced(n) \/ WriteFails(n) \/ AnswerLost(n)

Next ==
  \/ Expire \/ AskRun \/ Uploads
  \/ \E n \in Node :
       \/ Claim(n) \/ Renew(n) \/ LoseLease(n) \/ EndRun(n, "STOP") \/ EndRun(n, "FAILED")
       \/ Sync(n) \/ Crash(n) \/ SignalFailure(n) \/ SignalSuccess(n)
       \/ TakeHealthLease(n) \/ LoseHealthLease(n) \/ PassStep(n)

Spec == Init /\ [][Next]_vars

\* Each node's sweeps begin passes and finish them.  Of the other loops it is
\* enough that one moves while any can: task lists are read again, unrenewed
\* leases expire, claims are made and some node holds the _health lease.
SweepStep(n) == Calm /\ PassStep(n)
LoopStep ==
  /\ Calm
  /\ \/ Expire
     \/ \E n \in Node : Sync(n) \/ Claim(n) \/ LoseLease(n) \/ TakeHealthLease(n) \/ LoseHealthLease(n)

Fairness == WF_vars(LoopStep) /\ \A n \in Node : WF_vars(SweepStep(n))

FairSpec == Spec /\ Fairness

-----------------------------------------------------------------------------
Fence == [mode : {"cluster", "never"}, epoch : Nat, node : Node \cup {None},
          proxy : BOOLEAN, delegated : BOOLEAN, verified : BOOLEAN]
Batch == [ts : [Kind -> Level \cup {Keep}], fact : Nat, epoch : Nat, stored : BOOLEAN]
Status == {"HEALTHY", "DEGRADED", "UNHEALTHY", "UNKNOWN"}
Row == [owner : Node \cup {None}, epoch : Nat, ask : {"RUN", "STOP", "FAILED"}]

\* The rows, evaluators and passes are what the code's types allow.
TypeOK ==
  /\ lease \in [owner : Node \cup {None}, epoch : Nat, live : BOOLEAN]
  /\ row \in Row /\ mem \in [Node -> Row] /\ late \in Level /\ left \in 0..Budget
  /\ db \in [open : [Kind -> Level], facts : SUBSET (1..(Budget + 1)), mode : {"", "cluster", "never"},
              epoch : Nat, node : Node \cup {None}, chainOwner : Node \cup {None},
              status : Status, skipped : BOOLEAN]
  /\ ev \in [Node -> [held : BOOLEAN, runs : BOOLEAN, failing : BOOLEAN, cleared : BOOLEAN,
                      fact : Nat, confirmed : BOOLEAN, fenced : Nat, pending : Batch]]
  /\ pass \in [Node -> [at : {"idle", "pending", "open", "write"}, fence : Fence,
                        complete : SUBSET {"signals", "chain", "state"}, want : [Kind -> Level],
                        cleared : BOOLEAN, fact : Nat, batch : Batch, status : Status]]

\* A proxy or a delegate that wrote while a lease was released or expired never
\* locks out the node that holds the lease at that epoch: the comment of
\* CheckFence argues that no holder can write at that epoch again, or that the
\* write was made in the holder's own name.
HolderNotLockedOut ==
  lease.owner # None /\ db.mode = "cluster" /\ db.epoch = lease.epoch => db.node = lease.owner

\* Whatever happens between the start of a pass and its write, findings and
\* verdict change only under the epoch the lease has then, and while the lease
\* is live only by its owner: a frozen owner that wakes up changes nothing, and
\* a proxy changes nothing once the owner renewed.
FenceHolds ==
  [][\A n \in Node : db' # db /\ pass'[n] # pass[n]
       => db'.epoch = lease.epoch /\ (lease.live => n = lease.owner)]_vars

\* Once requests, failures and faults cease, TASK_FAILED is open exactly when
\* the row is FAILED, whoever owned the task and whatever was lost on the way.
FailureReported == <>[](db.open["failed"] = 2 <=> row.ask = "FAILED")

\* Once they cease, a late upload is open at its severity and a done one is not,
\* as long as a node reads the directory: the holder, or after it the last one.
LateReported ==
  <>[](row.ask = "RUN" \/ db.chainOwner # None => db.open["late"] = late)

\* The verdict ends up being the one of the findings that are open, though the
\* proxy and the delegate compute it from reads of different times.  A signal's
\* OPEN taken for a replay is left out: the verdict then counts a finding that
\* is not open.
VerdictSettles ==
  <>[](\/ db.skipped
       \/ db.status = "UNHEALTHY" /\ Worst(db.open) = 2
       \/ db.status = "DEGRADED" /\ Worst(db.open) = 1
       \/ db.status \in {"HEALTHY", "UNKNOWN"} /\ Worst(db.open) = 0)

\* What the design says of a lost lease: pending transitions are dropped and
\* writes of an old epoch are not retried.
OldEpochNotRetried ==
  [][\A n \in Node : pass[n].at = "pending" /\ pass'[n].at = "open"
        => pass[n].batch.epoch = pass[n].fence.epoch]_vars
=============================================================================
