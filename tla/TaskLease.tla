----------------------------- MODULE TaskLease ------------------------------
(***************************************************************************)
(* The ownership lease of one task: the task_leases row kept by the        *)
(* metadata database, the lease calls a worker makes to start, keep and    *)
(* end a run, the worker's LeaseClock, and the two write fences.           *)
(*                                                                         *)
(* Time is kept as remaining time: lease.left is lease_expire_at - NOW(6), *)
(* clock[w].left is what is left of the ttl*4/5 a confirmation is trusted  *)
(* for, and the age of a call is how long ago it was sent.  Database and   *)
(* worker clocks run at the same rate.                                     *)
(***************************************************************************)
EXTENDS Naturals

CONSTANTS Worker,     \* worker ids
          None,       \* the empty owner_worker_id
          TTL,        \* lease_ttl
          Grace,      \* lease_grace
          MaxEpoch    \* bound: epochs handed out in one behaviour

ASSUME ConstantsAssumption ==
  /\ None \notin Worker
  /\ TTL \in Nat \ {0} /\ Grace \in Nat /\ MaxEpoch \in Nat \ {0}

\* freshNum/freshDen of the ttl, in integer durations.
FreshTTL == (TTL * 4) \div 5

VARIABLES lease,    \* [owner, epoch, left]: the row; epoch 0 is "no row yet"
          clock,    \* clock[w] = [epoch, left, lost, ext]: LeaseClock entry
          main,     \* main[w] = [pc, epoch, age, done, ok, gave]: claim and run
                    \* thread; gave is a history bit: the epoch was
                    \* released while this thread was using it
          renew,    \* renew[w] = [on, age, done, ok]: call of the renew loop
          deg,      \* deg[w]: 0, or 1 + time since the first failed renew
          armed,    \* armed[w]: fenceWrite passed, the side effect is next
          pending,  \* pending[w]: epoch in pendingRelease, 0 when none
          ckpt,     \* epoch under which the checkpoint row was last written
          settle    \* epoch some process without a run decided to release

vars == <<lease, clock, main, renew, deg, armed, pending, ckpt, settle>>

Epoch == 0..MaxEpoch

\* Where the claim-and-run thread is: between lease calls, in one, or running.
CallPC == {"acquire", "confirm", "verify", "reacquire", "prove"}
PC == CallPC \cup {"idle", "running", "release"}

\* The thread works with an epoch it was told it holds.
HeldPC == {"confirm", "verify", "reacquire", "prove", "running"}

Rows    == [owner : Worker \cup {None}, epoch : Epoch, left : 0..TTL]
Entries == [epoch : Epoch, left : 0..FreshTTL, lost : BOOLEAN, ext : BOOLEAN]
Threads == [pc : PC, epoch : Epoch, age : 0..FreshTTL,
            done : BOOLEAN, ok : BOOLEAN, gave : BOOLEAN]
Calls   == [on : BOOLEAN, age : 0..FreshTTL, done : BOOLEAN, ok : BOOLEAN]

\* The range of every variable.
TypeOK ==
  /\ lease \in Rows
  /\ clock \in [Worker -> Entries]
  /\ main \in [Worker -> Threads]
  /\ renew \in [Worker -> Calls]
  /\ deg \in [Worker -> 0..(Grace + 1)]
  /\ armed \in [Worker -> BOOLEAN]
  /\ pending \in [Worker -> Epoch]
  /\ ckpt \in Epoch
  /\ settle \in Epoch

Dec(n) == IF n > 0 THEN n - 1 ELSE 0
Inc(n, cap) == IF n < cap THEN n + 1 ELSE cap

\* A LeaseClock entry, the claim-and-run thread, a call of the renew loop.
Entry(e, left, lost, ext) ==
  [epoch |-> e, left |-> left, lost |-> lost, ext |-> ext /\ left > 0]

Thread(pc, e, age, done, ok, gave) ==
  [pc |-> pc, epoch |-> e, age |-> age, done |-> done, ok |-> ok, gave |-> gave]

Call(on, age, done, ok) == [on |-> on, age |-> age, done |-> done, ok |-> ok]

NoEntry == Entry(0, 0, FALSE, FALSE)
Idle    == Thread("idle", 0, 0, FALSE, FALSE, FALSE)
NoRenew == Call(FALSE, 0, FALSE, FALSE)

Init ==
  /\ lease = [owner |-> None, epoch |-> 0, left |-> 0]
  /\ clock = [w \in Worker |-> NoEntry]
  /\ main = [w \in Worker |-> Idle]
  /\ renew = [w \in Worker |-> NoRenew]
  /\ deg = [w \in Worker |-> 0]
  /\ armed = [w \in Worker |-> FALSE]
  /\ pending = [w \in Worker |-> 0]
  /\ ckpt = 0
  /\ settle = 0

-----------------------------------------------------------------------------
(***************************************************************************)
(* The statements the metadata database runs.                              *)
(***************************************************************************)

\* Mutant: a takeover keeps the epoch.
AcquiredRowSameEpoch(w) ==
  IF lease.left > 0
  THEN lease
  ELSE [owner |-> w, epoch |-> IF lease.epoch = 0 THEN 1 ELSE lease.epoch, left |-> TTL]

\* The row after AcquireTaskLease by w.  A live row is left as it is; an
\* expired one goes to w, with a new epoch unless w already was its owner.
AcquiredRow(w) ==
  IF lease.left > 0
  THEN lease
  ELSE [owner |-> w,
        epoch |-> IF lease.owner = w THEN lease.epoch ELSE lease.epoch + 1,
        left  |-> TTL]

\* MaxEpoch bounds how many epochs one behaviour hands out.
EpochLeft(w) == AcquiredRow(w).epoch <= MaxEpoch

\* VerifyOwnership: named, at this epoch, not expired.
Verified(w, e) == lease.owner = w /\ lease.epoch = e /\ lease.left > 0

\* The WHERE clause of RenewTaskLease and ReleaseTaskLease: no expiry in it.
Matches(w, e) == lease.owner = w /\ lease.epoch = e /\ e > 0

RenewedRow(w, e) ==
  IF Matches(w, e) THEN [owner |-> w, epoch |-> e, left |-> TTL] ELSE lease

\* Mutant: release removes the row, and the epoch with it.
ReleasedRowDeleted(w, e) ==
  IF Matches(w, e) THEN [owner |-> None, epoch |-> 0, left |-> 0] ELSE lease

ReleasedRow(w, e) ==
  IF Matches(w, e) THEN [owner |-> None, epoch |-> e, left |-> 0] ELSE lease

-----------------------------------------------------------------------------
(***************************************************************************)
(* LeaseClock.                                                             *)
(***************************************************************************)

\* Mutant: the whole ttl is trusted.
ConfirmedWholeTTL(c, e, age, ext) ==
  IF c.epoch > e \/ (c.epoch = e /\ c.lost)
  THEN c
  ELSE Entry(e, TTL - age, FALSE, ext)

\* Mutant: the confirmation counts from the answer, not from the call.
ConfirmedFromAnswer(c, e, age, ext) ==
  IF c.epoch > e \/ (c.epoch = e /\ c.lost)
  THEN c
  ELSE Entry(e, FreshTTL, FALSE, ext)

\* Mutant: a late answer revives a lost epoch.
ConfirmedRevives(c, e, age, ext) ==
  LET left == IF age < FreshTTL THEN FreshTTL - age ELSE 0
  IN IF c.epoch > e
     THEN c
     ELSE Entry(e, left, FALSE, ext)

\* Confirm(taskID, epoch, at, ttl) where the call was sent age ago.  ext is a
\* history bit: the confirmed call really left TTL on the row.
Confirmed(c, e, age, ext) ==
  LET left == IF age < FreshTTL THEN FreshTTL - age ELSE 0
  IN IF c.epoch > e \/ (c.epoch = e /\ (c.lost \/ left < c.left))
     THEN c
     ELSE Entry(e, left, FALSE, ext)

\* Lose(taskID, epoch): only a newer epoch revives the entry.  The time kept in
\* a lost entry is never read again.
Lost(c, e) ==
  IF c.epoch > e THEN c ELSE Entry(e, 0, TRUE, FALSE)

IsLost(w, e) == clock[w].lost /\ clock[w].epoch = e

Fresh(w, e) == clock[w].epoch = e /\ ~clock[w].lost /\ clock[w].left > 0

-----------------------------------------------------------------------------
(***************************************************************************)
(* Starting a run: startTask with and without Acquire, and the proof of    *)
(* the lease right before the dump opens.                                  *)
(***************************************************************************)

Goto(w, pc, e) ==
  main' = [main EXCEPT ![w] = Thread(pc, e, 0, FALSE, FALSE,
                                     pc \in HeldPC /\ main[w].gave)]

\* The statement of the call thread t waits for has run.
Answered(t, ok) == Thread(t.pc, t.epoch, t.age, TRUE, ok, t.gave)

\* convergeAcquireStart: the call is sent, and its send time remembered.
StartTask(w) ==
  /\ main[w].pc = "idle"
  /\ Goto(w, "acquire", 0)
  /\ UNCHANGED <<lease, clock, renew, deg, armed, pending, ckpt>>

\* The upsert runs in the database; a transient error makes WithRetry run it
\* again.  ok remembers whether the statement put TTL on the row for w.
ExecAcquire(w) ==
  /\ main[w].pc \in {"acquire", "reacquire"}
  /\ EpochLeft(w)
  /\ lease' = AcquiredRow(w)
  /\ main' = [main EXCEPT ![w] =
       Answered(@, lease.left = 0 \/ (main[w].ok /\ lease.owner = w))]
  /\ UNCHANGED <<clock, renew, deg, armed, pending, ckpt>>

\* The row is read back after the upsert: acquired means named and unexpired.
\* Confirm uses the send time.  A lost epoch is released, not run.  A leftover
\* dump was killed or not; when it was, the lease is proved again first.
AcquireReturns(w) ==
  /\ main[w].pc = "acquire" /\ main[w].done
  /\ IF lease.owner = w /\ lease.left > 0
     THEN LET e == lease.epoch
              c == Confirmed(clock[w], e, main[w].age, main[w].ok)
          IN /\ clock' = [clock EXCEPT ![w] = c]
             /\ IF c.lost /\ c.epoch = e
                THEN Goto(w, "release", e)
                ELSE Goto(w, "running", e) \/ Goto(w, "verify", e)
     ELSE Goto(w, "idle", 0) /\ UNCHANGED clock
  /\ UNCHANGED <<lease, renew, deg, armed, pending, ckpt>>

\* convergeStartHeld: the row already names w at an unexpired epoch.
ResumeHeldTask(w) ==
  /\ main[w].pc = "idle"
  /\ Verified(w, lease.epoch)
  /\ Goto(w, "confirm", lease.epoch)
  /\ UNCHANGED <<lease, clock, renew, deg, armed, pending, ckpt>>

\* RenewTaskLease of the starting thread (confirmHeldLeaseLocked, and the last
\* call of proveLeaseBeforeDumpLocked).
ExecStartRenew(w) ==
  /\ main[w].pc \in {"confirm", "prove"}
  /\ lease' = RenewedRow(w, main[w].epoch)
  /\ main' = [main EXCEPT ![w] = Answered(@, Matches(w, main[w].epoch))]
  /\ UNCHANGED <<clock, renew, deg, armed, pending, ckpt>>

\* A failed renew leaves the clock as it is; the start goes on either way.
ConfirmHeldReturns(w) ==
  LET e == main[w].epoch
      c == IF main[w].done /\ main[w].ok
           THEN Confirmed(clock[w], e, main[w].age, main[w].ok)
           ELSE clock[w]
  IN /\ main[w].pc = "confirm"
     /\ clock' = [clock EXCEPT ![w] = c]
     /\ Goto(w, IF c.lost /\ c.epoch = e THEN "release" ELSE "verify", e)
     /\ UNCHANGED <<lease, renew, deg, armed, pending, ckpt>>

\* proveLeaseBeforeDumpLocked: Verify, and Acquire when it is not held.
ProveVerify(w) ==
  /\ main[w].pc = "verify"
  /\ Goto(w, IF Verified(w, main[w].epoch) THEN "prove" ELSE "reacquire",
          main[w].epoch)
  /\ UNCHANGED <<lease, clock, renew, deg, armed, pending, ckpt>>

\* Someone held it in between: the new epoch is given back.
ReacquireReturns(w) ==
  /\ main[w].pc = "reacquire" /\ main[w].done
  /\ IF lease.owner = w /\ lease.left > 0
     THEN IF lease.epoch = main[w].epoch
          THEN Goto(w, "prove", main[w].epoch) /\ UNCHANGED lease
          ELSE Goto(w, "idle", 0) /\ lease' \in {lease, ReleasedRow(w, lease.epoch)}
     ELSE Goto(w, "idle", 0) /\ UNCHANGED lease
  /\ UNCHANGED <<clock, renew, deg, armed, pending, ckpt>>

\* The renew of the proof decides; it does not touch the LeaseClock.
ProveReturns(w) ==
  /\ main[w].pc = "prove" /\ main[w].done
  /\ IF main[w].ok THEN Goto(w, "running", main[w].epoch) ELSE Goto(w, "idle", 0)
  /\ UNCHANGED <<lease, clock, renew, deg, armed, pending, ckpt>>

\* A lease call times out: the statement ran, or did not, or runs no more.
StartCallFails(w) ==
  /\ main[w].pc \in CallPC \ {"confirm"}
  /\ Goto(w, "idle", 0)
  /\ UNCHANGED <<lease, clock, renew, deg, armed, pending, ckpt>>

-----------------------------------------------------------------------------
(***************************************************************************)
(* renewLeaseLoop of a running task.  It has returned once the epoch is    *)
(* marked lost.                                                            *)
(***************************************************************************)

SendRenew(w) ==
  /\ main[w].pc = "running" /\ ~renew[w].on /\ ~IsLost(w, main[w].epoch)
  /\ renew' = [renew EXCEPT ![w] = Call(TRUE, 0, FALSE, FALSE)]
  /\ UNCHANGED <<lease, clock, main, deg, armed, pending, ckpt>>

ExecRenew(w) ==
  /\ renew[w].on
  /\ lease' = RenewedRow(w, main[w].epoch)
  /\ renew' = [renew EXCEPT ![w] =
       Call(TRUE, renew[w].age, TRUE, Matches(w, main[w].epoch))]
  /\ UNCHANGED <<clock, main, deg, armed, pending, ckpt>>

RenewOk(w) ==
  /\ renew[w].on /\ renew[w].done /\ renew[w].ok
  /\ clock' = [clock EXCEPT
       ![w] = Confirmed(clock[w], main[w].epoch, renew[w].age, renew[w].ok)]
  /\ renew' = [renew EXCEPT ![w] = NoRenew]
  /\ deg' = [deg EXCEPT ![w] = 0]
  /\ UNCHANGED <<lease, main, armed, pending, ckpt>>

\* yieldForResumeLocked and yieldLostLeaseLocked: the epoch is marked lost and
\* the dump cancelled; the run itself returns later.
Yield(w) ==
  /\ clock' = [clock EXCEPT ![w] = Lost(@, main[w].epoch)]
  /\ renew' = [renew EXCEPT ![w] = NoRenew]
  /\ deg' = [deg EXCEPT ![w] = 0]

RenewLost(w) ==
  /\ renew[w].on /\ renew[w].done /\ ~renew[w].ok
  /\ Yield(w)
  /\ UNCHANGED <<lease, main, armed, pending, ckpt>>

\* Mutant: the grace is never used up.
RenewErrNoGrace(w) ==
  /\ renew[w].on
  /\ deg' = [deg EXCEPT ![w] = 1]
  /\ renew' = [renew EXCEPT ![w] = NoRenew]
  /\ UNCHANGED <<lease, clock, main, armed, pending, ckpt>>

\* A renew error: LEASE_DEGRADED, and a yield once the grace is used up.
RenewErr(w) ==
  /\ renew[w].on
  /\ IF Dec(deg[w]) >= Grace
     THEN Yield(w)
     ELSE /\ deg' = [deg EXCEPT ![w] = IF @ = 0 THEN 1 ELSE @]
          /\ renew' = [renew EXCEPT ![w] = NoRenew]
          /\ UNCHANGED clock
  /\ UNCHANGED <<lease, main, armed, pending, ckpt>>

-----------------------------------------------------------------------------
(***************************************************************************)
(* Side effects of the run, and its end.                                   *)
(***************************************************************************)

\* runTask returns: the renew loop is stopped, the exit releases the epoch.
EndRun(w) ==
  /\ Goto(w, "release", main[w].epoch)
  /\ renew' = [renew EXCEPT ![w] = NoRenew]
  /\ deg' = [deg EXCEPT ![w] = 0]
  /\ armed' = [armed EXCEPT ![w] = FALSE]

\* successorOwnsLocked, for the lease row.
SuccessorOwns(w, e) ==
  lease.owner # None /\ (lease.owner # w \/ lease.epoch > e)

\* A refused write is a lease handoff and ends the run.  Only without a
\* successor, or when the successor could not be read, is the epoch marked lost.
LeaseHandoff(w) ==
  /\ EndRun(w)
  /\ \/ clock' = [clock EXCEPT ![w] = Lost(@, main[w].epoch)]
     \/ SuccessorOwns(w, main[w].epoch) /\ UNCHANGED clock

\* fenceWrite: the local check in front of every side effect.
FenceWrite(w) ==
  /\ main[w].pc = "running" /\ ~armed[w]
  /\ IF Fresh(w, main[w].epoch)
     THEN armed' = [armed EXCEPT ![w] = TRUE] /\ UNCHANGED <<clock, main, renew, deg>>
     ELSE LeaseHandoff(w)
  /\ UNCHANGED <<lease, pending, ckpt>>

\* Mutant: the lease row is not checked in the write's transaction.
ExecUnfenced(w) ==
  /\ main[w].pc = "running" /\ armed[w]
  /\ ckpt' = main[w].epoch
  /\ armed' = [armed EXCEPT ![w] = FALSE]
  /\ UNCHANGED <<lease, clock, main, renew, deg, pending>>

\* execUnderFence: lock the lease row, require the holder, write, commit.
ExecUnderFence(w) ==
  /\ main[w].pc = "running" /\ armed[w]
  /\ IF Matches(w, main[w].epoch)
     THEN /\ ckpt' = main[w].epoch
          /\ armed' = [armed EXCEPT ![w] = FALSE]
          /\ UNCHANGED <<clock, main, renew, deg>>
     ELSE LeaseHandoff(w) /\ UNCHANGED ckpt
  /\ UNCHANGED <<lease, pending>>

\* The run returns for any other reason: a Stop, FAILED, or a cancelled dump.
RunReturns(w) ==
  /\ main[w].pc = "running"
  /\ EndRun(w)
  /\ UNCHANGED <<lease, clock, pending, ckpt>>

\* It returns and keeps the lease: a newer Start reopens it at the same epoch,
\* or the run never opened its dump (STARTING not stored, shutting down).
RunKeepsLease(w) ==
  /\ main[w].pc = "running"
  /\ Goto(w, "idle", 0)
  /\ renew' = [renew EXCEPT ![w] = NoRenew]
  /\ deg' = [deg EXCEPT ![w] = 0]
  /\ armed' = [armed EXCEPT ![w] = FALSE]
  /\ UNCHANGED <<lease, clock, pending, ckpt>>

\* releaseTaskLease: the call is acknowledged, or fails, having run or not; a
\* failed one is kept for retryPendingReleases.
ReleaseTaskLease(w) ==
  LET e == main[w].epoch IN
  /\ main[w].pc = "release"
  /\ Goto(w, "idle", 0)
  /\ \/ /\ lease' = ReleasedRow(w, e)
        /\ pending' = [pending EXCEPT ![w] = IF @ = e THEN 0 ELSE @]
     \/ /\ lease' \in {lease, ReleasedRow(w, e)}
        /\ pending' = [pending EXCEPT ![w] = e]
  /\ UNCHANGED <<clock, renew, deg, armed, ckpt>>

\* The claim tick of w repeats a failed release, whatever w runs by then.
RetryPendingReleases(w) ==
  /\ pending[w] # 0
  /\ lease' = ReleasedRow(w, pending[w])
  /\ pending' \in {pending, [pending EXCEPT ![w] = 0]}
  /\ main' = [main EXCEPT ![w] =
       Thread(@.pc, @.epoch, @.age, @.done, @.ok,
              @.gave \/ (@.pc \in HeldPC /\ @.epoch = pending[w] /\ Matches(w, pending[w])))]
  /\ UNCHANGED <<clock, renew, deg, armed, ckpt>>

\* The process dies; what it knew is gone, the row is not.
Crash(w) ==
  /\ main' = [main EXCEPT ![w] = Idle]
  /\ clock' = [clock EXCEPT ![w] = NoEntry]
  /\ renew' = [renew EXCEPT ![w] = NoRenew]
  /\ deg' = [deg EXCEPT ![w] = 0]
  /\ armed' = [armed EXCEPT ![w] = FALSE]
  /\ pending' = [pending EXCEPT ![w] = 0]
  /\ UNCHANGED <<lease, ckpt>>

\* Only Acquire and the first Renew of a held start are followed by Confirm.
Aged(t) ==
  Thread(t.pc, t.epoch,
         IF t.pc \in {"acquire", "confirm"} THEN Inc(t.age, FreshTTL) ELSE t.age,
         t.done, t.ok, t.gave)

\* One unit of time passes everywhere; ages saturate where they stop mattering.
Tick ==
  /\ lease' = [owner |-> lease.owner, epoch |-> lease.epoch, left |-> Dec(lease.left)]
  /\ clock' = [w \in Worker |->
       Entry(clock[w].epoch, Dec(clock[w].left), clock[w].lost, clock[w].ext)]
  /\ main' = [w \in Worker |-> Aged(main[w])]
  /\ renew' = [w \in Worker |->
       Call(renew[w].on, IF renew[w].on THEN Inc(renew[w].age, FreshTTL) ELSE 0,
            renew[w].done, renew[w].ok)]
  /\ deg' = [w \in Worker |-> IF deg[w] > 0 THEN Inc(deg[w], Grace + 1) ELSE 0]
  /\ UNCHANGED <<armed, pending, ckpt>>

WorkerStep(w) ==
  \/ StartTask(w) \/ ExecAcquire(w) \/ AcquireReturns(w)
  \/ ResumeHeldTask(w) \/ ExecStartRenew(w) \/ ConfirmHeldReturns(w)
  \/ ProveVerify(w) \/ ReacquireReturns(w) \/ ProveReturns(w) \/ StartCallFails(w)
  \/ SendRenew(w) \/ ExecRenew(w) \/ RenewOk(w) \/ RenewLost(w) \/ RenewErr(w)
  \/ FenceWrite(w) \/ ExecUnderFence(w) \/ RunReturns(w) \/ RunKeepsLease(w)
  \/ ReleaseTaskLease(w) \/ RetryPendingReleases(w) \/ Crash(w)

\* A Stop or a delete finds nobody at work under the epoch: settleForeignStop
\* reads it as expired, the owner itself has no local run.
SettleStop ==
  /\ lease.owner # None
  /\ lease.left = 0 \/ main[lease.owner].pc = "idle"
  /\ settle' = lease.epoch
  /\ UNCHANGED <<lease, clock, main, renew, deg, armed, pending, ckpt>>

\* It releases the epoch it read, some time later and under nobody's lock.
ReleaseSettled ==
  /\ settle # 0
  /\ settle' = 0
  /\ lease' = ReleasedRow(lease.owner, settle)
  /\ main' = [w \in Worker |-> LET t == main[w] IN
       Thread(t.pc, t.epoch, t.age, t.done, t.ok,
              t.gave \/ (t.pc \in HeldPC /\ t.epoch = settle /\ Matches(w, settle)))]
  /\ UNCHANGED <<clock, renew, deg, armed, pending, ckpt>>

Next ==
  \/ (Tick \/ \E w \in Worker : WorkerStep(w)) /\ UNCHANGED settle
  \/ SettleStop
  \/ ReleaseSettled

Spec == Init /\ [][Next]_vars

-----------------------------------------------------------------------------
(***************************************************************************)
(* Properties.                                                             *)
(***************************************************************************)

\* A run with epoch e on worker w.
Runs(w, e) == main[w].pc = "running" /\ main[w].epoch = e

\* Two workers never run, or hold a trusted LeaseClock entry for, the same
\* epoch: Acquire hands every epoch to one worker id, so an epoch names a
\* writer (the .open.eN file names and the catalog rows rely on it).
EpochNamesOneWorker ==
  \A v, w \in Worker : \A e \in 1..MaxEpoch :
    (Runs(v, e) \/ Fresh(v, e)) /\ (Runs(w, e) \/ Fresh(w, e)) => v = w

\* While a run's clock is fresh after a call that put a full ttl on the row,
\* and that epoch was not released under the run, the row still names it,
\* unexpired: ttl*4/5 from the send time ends before ttl from the execution.
FreshRunHoldsLease ==
  \A w \in Worker : \A e \in 1..MaxEpoch :
    Runs(w, e) /\ Fresh(w, e) /\ clock[w].ext /\ ~main[w].gave => Verified(w, e)

\* Once an epoch is marked lost in a process, no later answer makes it fresh
\* there again; only a restarted process or a newer epoch forgets the mark.
LostStaysLost ==
  [][\A w \in Worker : clock[w].lost =>
       \/ clock'[w].lost /\ clock'[w].epoch = clock[w].epoch
       \/ clock'[w].epoch > clock[w].epoch
       \/ clock'[w] = NoEntry]_vars

\* The checkpoint row never goes back to an older owner's epoch, however late
\* a write that already passed fenceWrite reaches the database.
CheckpointEpochGrows == [][ckpt' >= ckpt]_vars

Fence == INSTANCE EpochFence WITH holder <- lease.owner, epoch <- lease.epoch

\* The lease row and the fenced writes implement the epoch fence.
ImplementsEpochFence == Fence!Spec

\* Every confirmed clock, however it was confirmed: "Confirm records that the
\* lease (taskID, epoch) was held from before at for ttl."
ConfirmedRunHoldsLease ==
  \A w \in Worker : \A e \in 1..MaxEpoch :
    Runs(w, e) /\ Fresh(w, e) /\ ~main[w].gave => Verified(w, e)

-----------------------------------------------------------------------------
(***************************************************************************)
(* Liveness of one worker's runs: the renew loop ticks, its calls return   *)
(* (each has a deadline), a cancelled run returns, and time passes.        *)
(***************************************************************************)

RenewReturns(w) == RenewOk(w) \/ RenewLost(w) \/ RenewErr(w)

CancelledRunReturns(w) == IsLost(w, main[w].epoch) /\ RunReturns(w)

\* Time passes and the renew loop of w goes on: nothing is asked of others.
Fairness(w) ==
  /\ WF_vars(Tick /\ UNCHANGED settle)
  /\ WF_vars(SendRenew(w) /\ UNCHANGED settle)
  /\ WF_vars(RenewReturns(w) /\ UNCHANGED settle)
  /\ WF_vars(CancelledRunReturns(w) /\ UNCHANGED settle)

\* A run of w whose epoch was taken over ends.
EndsOnceTakenOver(w) ==
  \A e \in 1..MaxEpoch : Runs(w, e) /\ lease.epoch > e ~> ~Runs(w, e)
=============================================================================
