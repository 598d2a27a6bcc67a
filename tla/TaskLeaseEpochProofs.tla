------------------------ MODULE TaskLeaseEpochProofs ------------------------
(***************************************************************************)
(* Proofs about the epoch of TaskLease as a fencing token: it names one    *)
(* worker, fenced writes never go back to an older one, a lost one stays   *)
(* lost, and the lease row with the fenced writes implements EpochFence.   *)
(***************************************************************************)
EXTENDS TaskLeaseProofs

\* What a step of w can do to its own LeaseClock entry.
EntrySteps(w) ==
  \/ clock'[w] = clock[w]
  \/ clock'[w] = NoEntry
  \/ clock'[w] = Lost(clock[w], main[w].epoch)
  \/ \E e \in Epoch, age \in 0..FreshTTL, x \in BOOLEAN :
       /\ clock'[w] = Confirmed(clock[w], e, age, x)
       /\ e = main[w].epoch \/ (e = lease.epoch /\ lease.owner = w)

\* Where the epoch the thread of w works with comes from.
ThreadSteps(w) ==
  \/ main'[w].epoch \in {main[w].epoch, 0}
  \/ main'[w].epoch = lease.epoch /\ lease.owner = w

\* A checkpoint is written only for the current holder, at the row's epoch.
WriteSteps(w) ==
  \/ UNCHANGED ckpt
  \/ UNCHANGED lease /\ lease.owner = w /\ ckpt' = lease.epoch

\* Every step of w is one of each.
LEMMA EpochStep ==
  ASSUME TypeOK, NEW w \in Worker, WorkerStep(w)
  PROVE  /\ WriteSteps(w) /\ ThreadSteps(w) /\ EntrySteps(w)
         /\ \A v \in Worker \ {w} : clock'[v] = clock[v]
<1> USE DEF TypeOK
<1>0. /\ main[w].epoch \in Epoch /\ lease.epoch \in Epoch
      /\ main[w].age \in 0..FreshTTL /\ renew[w].age \in 0..FreshTTL
      /\ main[w].ok \in BOOLEAN /\ renew[w].ok \in BOOLEAN
  BY DEF Threads, Rows, Calls
<1>o. \A v \in Worker \ {w} : clock'[v] = clock[v]
  BY OwnStep
<1>g. \A pc, e : Goto(w, pc, e) => main'[w].epoch = e
  BY GotoFacts
<1>a. \A ok : Answered(main[w], ok).epoch = main[w].epoch
  BY DEF Answered, Thread
<1>1. CASE StartTask(w)
  BY <1>1, <1>g DEF StartTask, WriteSteps, ThreadSteps, EntrySteps
<1>2. CASE ExecAcquire(w)
  BY <1>2, <1>a DEF ExecAcquire, WriteSteps, ThreadSteps, EntrySteps
<1>3. CASE AcquireReturns(w)
  BY <1>3, <1>0, <1>g DEF AcquireReturns, WriteSteps, ThreadSteps, EntrySteps
<1>4. CASE ResumeHeldTask(w)
  BY <1>4, <1>g DEF ResumeHeldTask, Verified, WriteSteps, ThreadSteps, EntrySteps
<1>5. CASE ExecStartRenew(w)
  BY <1>5, <1>a DEF ExecStartRenew, WriteSteps, ThreadSteps, EntrySteps
<1>6. CASE ConfirmHeldReturns(w)
  BY <1>6, <1>0, <1>g DEF ConfirmHeldReturns, WriteSteps, ThreadSteps, EntrySteps
<1>7. CASE ProveVerify(w)
  BY <1>7, <1>g DEF ProveVerify, WriteSteps, ThreadSteps, EntrySteps
<1>8. CASE ReacquireReturns(w)
  BY <1>8, <1>g DEF ReacquireReturns, WriteSteps, ThreadSteps, EntrySteps
<1>9. CASE ProveReturns(w)
  BY <1>9, <1>g DEF ProveReturns, WriteSteps, ThreadSteps, EntrySteps
<1>10. CASE StartCallFails(w)
  BY <1>10, <1>g DEF StartCallFails, WriteSteps, ThreadSteps, EntrySteps
<1>11. CASE SendRenew(w)
  BY <1>11 DEF SendRenew, WriteSteps, ThreadSteps, EntrySteps
<1>12. CASE ExecRenew(w)
  BY <1>12 DEF ExecRenew, WriteSteps, ThreadSteps, EntrySteps
<1>13. CASE RenewOk(w)
  BY <1>13, <1>0 DEF RenewOk, WriteSteps, ThreadSteps, EntrySteps
<1>14. CASE RenewLost(w)
  BY <1>14, <1>0 DEF RenewLost, Yield, WriteSteps, ThreadSteps, EntrySteps
<1>15. CASE RenewErr(w)
  BY <1>15, <1>0 DEF RenewErr, Yield, WriteSteps, ThreadSteps, EntrySteps
<1>16. CASE FenceWrite(w)
  BY <1>16, <1>0, <1>g
     DEF FenceWrite, LeaseHandoff, EndRun, WriteSteps, ThreadSteps, EntrySteps
<1>17. CASE ExecUnderFence(w)
  BY <1>17, <1>0, <1>g
     DEF ExecUnderFence, Matches, LeaseHandoff, EndRun, WriteSteps, ThreadSteps, EntrySteps
<1>18. CASE RunReturns(w)
  BY <1>18, <1>g DEF RunReturns, EndRun, WriteSteps, ThreadSteps, EntrySteps
<1>19. CASE ReleaseTaskLease(w)
  BY <1>19, <1>g DEF ReleaseTaskLease, WriteSteps, ThreadSteps, EntrySteps
<1>20. CASE RetryPendingReleases(w)
  <2>1. main'[w].epoch = main[w].epoch
    BY <1>20 DEF RetryPendingReleases, Thread
  <2> QED BY <1>20, <2>1 DEF RetryPendingReleases, WriteSteps, ThreadSteps, EntrySteps
<1>21. CASE Crash(w)
  BY <1>21, BlankFacts DEF Crash, WriteSteps, ThreadSteps, EntrySteps
<1>22. CASE RunKeepsLease(w)
  BY <1>22, <1>g DEF RunKeepsLease, WriteSteps, ThreadSteps, EntrySteps
<1> QED
  BY WorkerStep(w), <1>o, <1>1, <1>2, <1>3, <1>4, <1>5, <1>6, <1>7, <1>8, <1>9, <1>10, <1>11,
     <1>12, <1>13, <1>14, <1>15, <1>16, <1>17, <1>18, <1>19, <1>20, <1>21, <1>22
     DEF WorkerStep

\* The statements on the row: the epoch never goes down, and while it stays the
\* row changes hands only to nobody.
LEMMA RowGrows ==
  ASSUME TypeOK, NEW w \in Worker, RowSteps(w)
  PROVE  /\ lease'.epoch >= lease.epoch
         /\ lease'.epoch = lease.epoch => lease'.owner \in {lease.owner, None}
<1>1. lease.epoch \in Nat
  BY ConstantsAssumption DEF TypeOK, Rows, Epoch
<1> QED BY <1>1 DEF RowSteps, AcquiredRow, RenewedRow, ReleasedRow, Matches

-----------------------------------------------------------------------------
(***************************************************************************)
(* An epoch names one worker.                                              *)
(***************************************************************************)

\* Worker w was told, at some time, that it holds epoch e, and remembers it.
Knows(w, e) == e > 0 /\ (clock[w].epoch = e \/ main[w].epoch = e)

\* Nobody remembers an epoch of the future; the current one is remembered only
\* by the worker the row names, or named before it was released.
KnowsPast == \A w \in Worker : \A e \in Epoch :
  Knows(w, e) => e <= lease.epoch /\ (e = lease.epoch => lease.owner \in {w, None})

KnownOnce == \A v, w \in Worker : \A e \in Epoch : Knows(v, e) /\ Knows(w, e) => v = w

EpochInv == TypeOK /\ KnowsPast /\ KnownOnce /\ ckpt <= lease.epoch

\* A worker learns an epoch from the row, when the row names it.
LEMMA Learns ==
  ASSUME TypeOK, NEW w \in Worker, WorkerStep(w), NEW e \in Epoch, Knows(w, e)'
  PROVE  Knows(w, e) \/ (lease.owner = w /\ lease.epoch = e)
<1>0. /\ clock[w] \in Entries /\ e > 0 /\ (clock'[w].epoch = e \/ main'[w].epoch = e)
      /\ main[w].epoch \in Epoch /\ lease.epoch \in Epoch
  BY DEF TypeOK, Knows, Threads, Rows
<1>1. ThreadSteps(w) /\ EntrySteps(w)
  BY EpochStep
<1>2. CASE main'[w].epoch = e
  BY <1>0, <1>1, <1>2 DEF ThreadSteps, Knows
<1>3. CASE clock'[w].epoch = e
  <2>1. CASE clock'[w] = clock[w] \/ clock'[w] = NoEntry
    BY <1>0, <1>3, <2>1, BlankFacts DEF Knows
  <2>2. CASE \E f \in Epoch, age \in 0..FreshTTL, x \in BOOLEAN :
               /\ clock'[w] = Confirmed(clock[w], f, age, x)
               /\ f = main[w].epoch \/ (f = lease.epoch /\ lease.owner = w)
    <3> PICK f \in Epoch, age \in 0..FreshTTL, x \in BOOLEAN :
               /\ clock'[w] = Confirmed(clock[w], f, age, x)
               /\ f = main[w].epoch \/ (f = lease.epoch /\ lease.owner = w)
      BY <2>2
    <3>1. clock'[w] = clock[w] \/ clock'[w].epoch = f
      BY <1>0, ConfirmedFacts
    <3> QED BY <1>0, <1>3, <3>1 DEF Knows
  <2>3. CASE clock'[w] = Lost(clock[w], main[w].epoch)
    BY <1>0, <1>3, <2>3, LostFacts DEF Knows
  <2> QED BY <1>1, <2>1, <2>2, <2>3 DEF EntrySteps
<1> QED BY <1>0, <1>2, <1>3

\* EpochInv holds initially.
LEMMA EpochInvInit == Init => EpochInv
<1> SUFFICES ASSUME Init PROVE EpochInv
  OBVIOUS
<1>1. \A w \in Worker : clock[w].epoch = 0 /\ main[w].epoch = 0
  BY BlankFacts DEF Init
<1>2. \A w \in Worker : \A e \in Epoch : ~Knows(w, e)
  BY <1>1 DEF Knows
<1>3. ckpt <= lease.epoch
  BY DEF Init
<1> QED BY <1>2, <1>3, TypeInit DEF EpochInv, KnowsPast, KnownOnce

\* EpochInv is inductive.
LEMMA EpochInvStep == EpochInv /\ [Next]_vars => EpochInv'
<1> SUFFICES ASSUME EpochInv, [Next]_vars PROVE EpochInv'
  OBVIOUS
<1>0. /\ TypeOK /\ TypeOK' /\ KnowsPast /\ KnownOnce /\ ckpt <= lease.epoch
      /\ lease.epoch \in Nat /\ lease'.epoch \in Nat /\ ckpt \in Nat /\ ckpt' \in Nat
      /\ Epoch \subseteq Nat /\ lease.epoch \in Epoch
  BY TypeStep, ConstantsAssumption DEF EpochInv, TypeOK, Rows, Epoch
<1>1. CASE UNCHANGED vars
  BY <1>0, <1>1 DEF vars, EpochInv, KnowsPast, KnownOnce, Knows
<1>2. CASE Tick
  <2>1. lease'.owner = lease.owner /\ lease'.epoch = lease.epoch /\ ckpt' = ckpt
    BY <1>2 DEF Tick
  <2>2. \A w \in Worker : clock'[w].epoch = clock[w].epoch /\ main'[w].epoch = main[w].epoch
    BY <1>2 DEF Tick, Entry, Aged, Thread
  <2> QED BY <1>0, <2>1, <2>2 DEF EpochInv, KnowsPast, KnownOnce, Knows
<1>3. ASSUME NEW w \in Worker, WorkerStep(w)
      PROVE  EpochInv'
  <2>1. /\ lease'.epoch >= lease.epoch
        /\ lease'.epoch = lease.epoch => lease'.owner \in {lease.owner, None}
    BY <1>0, <1>3, OwnStep, RowGrows
  <2>2. \A e \in Epoch : Knows(w, e)' => Knows(w, e) \/ (lease.owner = w /\ lease.epoch = e)
    BY <1>0, <1>3, Learns
  <2>3. \A v \in Worker \ {w} : \A e \in Epoch : Knows(v, e)' <=> Knows(v, e)
    BY <1>0, <1>3, OwnStep DEF Knows
  <2>4. KnowsPast'
    <3> SUFFICES ASSUME NEW v \in Worker, NEW e \in Epoch, Knows(v, e)'
                 PROVE  e <= lease'.epoch /\ (e = lease'.epoch => lease'.owner \in {v, None})
      BY DEF KnowsPast
    <3>1. e <= lease.epoch /\ (e = lease.epoch => lease.owner \in {v, None})
      BY <1>0, <2>2, <2>3 DEF KnowsPast
    <3> QED BY <1>0, <2>1, <3>1
  <2>5. KnownOnce'
    <3> SUFFICES ASSUME NEW u \in Worker, NEW v \in Worker, NEW e \in Epoch,
                        Knows(u, e)', Knows(v, e)'
                 PROVE  u = v
      BY DEF KnownOnce
    <3>1. \A x \in Worker : Knows(x, e)' => Knows(x, e) \/ (x = w /\ lease.owner = w /\ lease.epoch = e)
      BY <2>2, <2>3
    <3>2. \A x \in Worker : Knows(x, e) /\ lease.owner = w /\ lease.epoch = e => x = w
      BY <1>0, ConstantsAssumption DEF KnowsPast
    <3> QED BY <1>0, <3>1, <3>2 DEF KnownOnce
  <2>6. ckpt' <= lease'.epoch
    BY <1>0, <1>3, <2>1, EpochStep DEF WriteSteps
  <2> QED BY <1>0, <2>4, <2>5, <2>6 DEF EpochInv
<1>4. CASE SettleStop
  BY <1>0, <1>4 DEF SettleStop, EpochInv, KnowsPast, KnownOnce, Knows
<1>5. CASE ReleaseSettled
  <2>1. /\ lease'.epoch = lease.epoch /\ lease'.owner \in {lease.owner, None}
        /\ ckpt' = ckpt /\ clock' = clock
    BY <1>5 DEF ReleaseSettled, ReleasedRow, Matches
  <2>2. \A w \in Worker : main'[w].epoch = main[w].epoch
    BY <1>5 DEF ReleaseSettled, Thread
  <2> QED BY <1>0, <2>1, <2>2 DEF EpochInv, KnowsPast, KnownOnce, Knows
<1> QED BY <1>1, <1>2, <1>3, <1>4, <1>5 DEF Next

\* Two workers never run, or trust a LeaseClock entry for, the same epoch.
THEOREM EpochUnique == Spec => []EpochNamesOneWorker
<1>1. EpochInv => EpochNamesOneWorker
  <2> SUFFICES ASSUME EpochInv, NEW v \in Worker, NEW w \in Worker, NEW e \in 1..MaxEpoch,
                      Runs(v, e) \/ Fresh(v, e), Runs(w, e) \/ Fresh(w, e)
               PROVE  v = w
    BY DEF EpochNamesOneWorker
  <2>1. e \in Epoch /\ e > 0
    BY ConstantsAssumption DEF Epoch
  <2>2. Knows(v, e) /\ Knows(w, e)
    BY <2>1 DEF Knows, Runs, Fresh
  <2> QED BY <2>1, <2>2 DEF EpochInv, KnownOnce
<1> QED BY <1>1, EpochInvInit, EpochInvStep, PTL DEF Spec

\* However late a write that passed fenceWrite reaches the database, the
\* checkpoint never goes back to an older epoch.
THEOREM CheckpointGrows == Spec => CheckpointEpochGrows
<1>1. EpochInv /\ [Next]_vars => [ckpt' >= ckpt]_vars
  <2> SUFFICES ASSUME EpochInv, Next PROVE ckpt' >= ckpt
    BY DEF vars
  <2>0. TypeOK /\ ckpt <= lease.epoch /\ ckpt \in Nat
    BY ConstantsAssumption DEF EpochInv, TypeOK, Epoch
  <2>1. CASE Tick
    BY <2>0, <2>1 DEF Tick
  <2>2. ASSUME NEW w \in Worker, WorkerStep(w) PROVE ckpt' >= ckpt
    BY <2>0, <2>2, EpochStep DEF WriteSteps, TypeOK, Rows, Epoch
  <2>3. CASE SettleStop \/ ReleaseSettled
    BY <2>0, <2>3 DEF SettleStop, ReleaseSettled
  <2> QED BY <2>1, <2>2, <2>3 DEF Next
<1> QED BY <1>1, EpochInvInit, EpochInvStep, PTL DEF Spec, CheckpointEpochGrows

\* Once marked lost in a process, an epoch is not made fresh again there.
THEOREM LostForGood == Spec => LostStaysLost
<1> DEFINE Kept(w) == \/ clock'[w].lost /\ clock'[w].epoch = clock[w].epoch
                      \/ clock'[w].epoch > clock[w].epoch
                      \/ clock'[w] = NoEntry
<1>1. TypeOK /\ [Next]_vars => [\A w \in Worker : clock[w].lost => Kept(w)]_vars
  <2> SUFFICES ASSUME TypeOK, Next, NEW v \in Worker, clock[v].lost PROVE Kept(v)
    BY DEF vars
  <2>0. /\ clock[v] \in Entries /\ clock[v].epoch \in Nat
        /\ main[v].epoch \in Nat /\ Epoch \subseteq Nat
    BY ConstantsAssumption DEF TypeOK, Entries, Epoch, Threads
  <2>1. CASE Tick
    BY <2>1 DEF Tick, Entry
  <2>2. ASSUME NEW w \in Worker, WorkerStep(w) PROVE Kept(v)
    <3>1. clock'[v] = clock[v] \/ (v = w /\ EntrySteps(v))
      BY <2>2, EpochStep
    <3>2. CASE clock'[v] = clock[v]
      BY <3>2
    <3>3. CASE clock'[v] = NoEntry
      BY <3>3
    <3>4. CASE clock'[v] = Lost(clock[v], main[v].epoch)
      <4>1. CASE clock[v].epoch > main[v].epoch
        BY <3>2, <3>4, <4>1 DEF Lost
      <4>2. CASE ~(clock[v].epoch > main[v].epoch)
        <5>1. clock'[v] = Entry(main[v].epoch, 0, TRUE, FALSE)
          BY <3>4, <4>2 DEF Lost
        <5>2. clock'[v].epoch = main[v].epoch /\ clock'[v].lost
          BY <5>1 DEF Entry
        <5>3. main[v].epoch = clock[v].epoch \/ main[v].epoch > clock[v].epoch
          BY <2>0, <4>2
        <5> QED BY <5>2, <5>3
      <4> QED BY <4>1, <4>2
    <3>5. ASSUME NEW e \in Epoch, NEW age \in 0..FreshTTL, NEW x \in BOOLEAN,
                 clock'[v] = Confirmed(clock[v], e, age, x)
          PROVE  Kept(v)
      <4>1. CASE clock[v].epoch >= e
        <5>1. clock[v].epoch > e \/ clock[v].epoch = e
          BY <2>0, <4>1
        <5>2. clock'[v] = clock[v]
          BY <3>5, <5>1 DEF Confirmed
        <5> QED BY <3>2, <5>2
      <4>2. CASE clock[v].epoch < e
        <5>1. clock'[v] = clock[v] \/ clock'[v].epoch = e
          BY <2>0, <3>5, ConfirmedFacts
        <5> QED BY <2>0, <3>2, <4>2, <5>1
      <4> QED BY <2>0, <4>1, <4>2
    <3> QED BY <3>1, <3>2, <3>3, <3>4, <3>5 DEF EntrySteps
  <2>3. CASE SettleStop \/ ReleaseSettled
    BY <2>3 DEF SettleStop, ReleaseSettled
  <2> QED BY <2>1, <2>2, <2>3 DEF Next
<1> QED BY <1>1, TypeInit, TypeStep, PTL DEF Spec, LostStaysLost

\* The lease row and the fenced writes implement the epoch fence.
THEOREM Refinement == Spec => ImplementsEpochFence
<1>1. Init => Fence!Init
  BY DEF Init, Fence!Init
<1>2. TypeOK /\ [Next]_vars => [Fence!Next]_(Fence!vars)
  <2> SUFFICES ASSUME TypeOK, [Next]_vars PROVE [Fence!Next]_(Fence!vars)
    OBVIOUS
  <2>1. CASE UNCHANGED vars
    BY <2>1 DEF vars, Fence!vars
  <2>2. CASE Tick
    BY <2>2 DEF Tick, Fence!vars
  <2>3. ASSUME NEW w \in Worker, WorkerStep(w) PROVE [Fence!Next]_(Fence!vars)
    <3>0. RowSteps(w) /\ WriteSteps(w)
      BY <2>3, OwnStep, EpochStep
    <3>1. CASE lease' = lease
      BY <3>0, <3>1, ConstantsAssumption DEF WriteSteps, Fence!vars, Fence!Next, Fence!Commit
    <3>2. CASE ckpt' = ckpt /\ lease' # lease
      <4>1. CASE lease' = AcquiredRow(w)
        BY <3>2, <4>1 DEF AcquiredRow, Fence!vars, Fence!Next, Fence!Grant
      <4>2. CASE \E e \in Epoch : lease' = RenewedRow(w, e)
        BY <3>2, <4>2 DEF RenewedRow, Matches, Fence!vars
      <4>3. CASE \E e \in Epoch : lease' = ReleasedRow(w, e)
        BY <3>2, <4>3, ConstantsAssumption
           DEF ReleasedRow, Matches, Fence!vars, Fence!Next, Fence!Drop
      <4> QED BY <3>0, <3>2, <4>1, <4>2, <4>3 DEF RowSteps
    <3> QED BY <3>0, <3>1, <3>2 DEF WriteSteps
  <2>4. CASE SettleStop
    BY <2>4 DEF SettleStop, Fence!vars
  <2>5. CASE ReleaseSettled
    <3>1. \/ lease' = lease
          \/ lease.owner # None /\ lease' = [owner |-> None, epoch |-> lease.epoch, left |-> 0]
          \/ lease.owner = None /\ lease'.owner = None /\ lease'.epoch = lease.epoch
      BY <2>5 DEF ReleaseSettled, ReleasedRow, Matches
    <3> QED BY <2>5, <3>1 DEF ReleaseSettled, Fence!vars, Fence!Next, Fence!Drop
  <2> QED BY <2>1, <2>2, <2>3, <2>4, <2>5 DEF Next
<1> QED BY <1>1, <1>2, TypeInit, TypeStep, PTL DEF Spec, ImplementsEpochFence, Fence!Spec
=============================================================================
