--------------------------- MODULE TaskLeaseProofs --------------------------
(***************************************************************************)
(* Proofs about TaskLease, for every set of workers, ttl, grace and number *)
(* of epochs.                                                              *)
(***************************************************************************)
EXTENDS TaskLease, TLAPS

\* ttl*4/5 in integer arithmetic is a duration no longer than the ttl.
LEMMA FreshTTLBound == FreshTTL \in Nat /\ FreshTTL <= TTL
BY ConstantsAssumption DEF FreshTTL

\* What remains after one unit of time stays within the same bound.
LEMMA DecInRange == \A k \in Nat : \A n \in 0..k : Dec(n) \in 0..k
BY DEF Dec

\* A saturating age stays within its cap.
LEMMA IncInRange == \A k \in Nat : \A n \in 0..k : Inc(n, k) \in 0..k
BY DEF Inc

\* The constructors build well-formed values.
LEMMA EntryType ==
  ASSUME NEW e \in Epoch, NEW left \in 0..FreshTTL, NEW lost \in BOOLEAN, NEW x \in BOOLEAN
  PROVE  Entry(e, left, lost, x) \in Entries
BY DEF Entry, Entries

\* A thread built from values in range is well-formed.
LEMMA ThreadType ==
  ASSUME NEW pc \in PC, NEW e \in Epoch, NEW age \in 0..FreshTTL,
         NEW done \in BOOLEAN, NEW ok \in BOOLEAN, NEW gave \in BOOLEAN
  PROVE  Thread(pc, e, age, done, ok, gave) \in Threads
BY DEF Thread, Threads

\* A renew call built from values in range is well-formed.
LEMMA CallType ==
  ASSUME NEW on \in BOOLEAN, NEW age \in 0..FreshTTL, NEW done \in BOOLEAN, NEW ok \in BOOLEAN
  PROVE  Call(on, age, done, ok) \in Calls
BY DEF Call, Calls

\* The values every range contains.
LEMMA ZeroInRanges == /\ 0 \in Epoch /\ 0 \in 0..FreshTTL /\ 0 \in 0..TTL /\ TTL \in 0..TTL
                      /\ 0 \in 0..(Grace + 1) /\ 1 \in 0..(Grace + 1)
BY FreshTTLBound, ConstantsAssumption DEF Epoch

\* What a process starts with is well-formed.
LEMMA NoneType == NoEntry \in Entries /\ Idle \in Threads /\ NoRenew \in Calls
<1>1. "idle" \in PC
  BY DEF PC
<1>2. NoEntry \in Entries
  BY EntryType, ZeroInRanges DEF NoEntry
<1>3. Idle \in Threads
  BY <1>1, ThreadType, ZeroInRanges DEF Idle
<1>4. NoRenew \in Calls
  BY CallType, ZeroInRanges DEF NoRenew
<1> QED BY <1>2, <1>3, <1>4

\* Confirm and Lose keep an entry well-formed.
LEMMA ConfirmedType ==
  ASSUME NEW c \in Entries, NEW e \in Epoch, NEW age \in 0..FreshTTL, NEW x \in BOOLEAN
  PROVE  Confirmed(c, e, age, x) \in Entries
<1> DEFINE left == IF age < FreshTTL THEN FreshTTL - age ELSE 0
<1>1. left \in 0..FreshTTL
  BY FreshTTLBound
<1>2. Entry(e, left, FALSE, x) \in Entries
  BY <1>1, EntryType
<1> QED BY <1>2 DEF Confirmed

\* Lose keeps an entry well-formed.
LEMMA LostType ==
  ASSUME NEW c \in Entries, NEW e \in Epoch
  PROVE  Lost(c, e) \in Entries
BY EntryType, ZeroInRanges DEF Lost

\* The three statements on task_leases produce a well-formed row.
LEMMA RowTypes ==
  ASSUME TypeOK, NEW w \in Worker, NEW e \in Epoch
  PROVE  /\ RenewedRow(w, e) \in Rows
         /\ ReleasedRow(w, e) \in Rows
         /\ EpochLeft(w) => AcquiredRow(w) \in Rows
<1>1. RenewedRow(w, e) \in Rows /\ ReleasedRow(w, e) \in Rows
  BY ZeroInRanges DEF TypeOK, RenewedRow, ReleasedRow, Rows
<1>2. ASSUME EpochLeft(w)
      PROVE  AcquiredRow(w) \in Rows
  BY <1>2, ZeroInRanges, ConstantsAssumption DEF EpochLeft, AcquiredRow, Rows, TypeOK, Epoch
<1> QED BY <1>1, <1>2

\* Moving the thread of w keeps main well-formed.
LEMMA GotoType ==
  ASSUME TypeOK, NEW w \in Worker, NEW pc \in PC, NEW e \in Epoch, Goto(w, pc, e)
  PROVE  main' \in [Worker -> Threads]
<1>1. main[w].gave \in BOOLEAN
  BY DEF TypeOK, Threads
<1>2. (pc \in HeldPC /\ main[w].gave) \in BOOLEAN
  BY <1>1
<1>3. Thread(pc, e, 0, FALSE, FALSE, pc \in HeldPC /\ main[w].gave) \in Threads
  BY <1>2, ThreadType, ZeroInRanges
<1> QED BY <1>3 DEF Goto, TypeOK

\* So does the answer to its call.
LEMMA AnsweredType ==
  ASSUME NEW t \in Threads, NEW ok \in BOOLEAN
  PROVE  Answered(t, ok) \in Threads
<1>1. /\ t.pc \in PC /\ t.epoch \in Epoch /\ t.age \in 0..FreshTTL /\ t.gave \in BOOLEAN
  BY DEF Threads
<1>2. Thread(t.pc, t.epoch, t.age, TRUE, ok, t.gave) \in Threads
  BY <1>1, ThreadType
<1> QED BY <1>2 DEF Answered

\* Ending a run keeps the variables of the worker well-formed.
LEMMA EndRunType ==
  ASSUME TypeOK, NEW w \in Worker, EndRun(w)
  PROVE  /\ main' \in [Worker -> Threads] /\ renew' \in [Worker -> Calls]
         /\ deg' \in [Worker -> 0..(Grace + 1)] /\ armed' \in [Worker -> BOOLEAN]
<1>1. "release" \in PC /\ main[w].epoch \in Epoch
  BY DEF PC, TypeOK, Threads
<1>2. main' \in [Worker -> Threads]
  BY <1>1, GotoType DEF EndRun
<1> QED BY <1>2, NoneType, ZeroInRanges DEF EndRun, TypeOK

\* Yielding an epoch does.
LEMMA YieldType ==
  ASSUME TypeOK, NEW w \in Worker, Yield(w)
  PROVE  /\ clock' \in [Worker -> Entries] /\ renew' \in [Worker -> Calls]
         /\ deg' \in [Worker -> 0..(Grace + 1)]
<1>1. Lost(clock[w], main[w].epoch) \in Entries
  BY LostType DEF TypeOK, Threads
<1> QED BY <1>1, NoneType, ZeroInRanges DEF Yield, TypeOK

\* A lease handoff does.
LEMMA LeaseHandoffType ==
  ASSUME TypeOK, NEW w \in Worker, LeaseHandoff(w)
  PROVE  /\ clock' \in [Worker -> Entries]
         /\ main' \in [Worker -> Threads] /\ renew' \in [Worker -> Calls]
         /\ deg' \in [Worker -> 0..(Grace + 1)] /\ armed' \in [Worker -> BOOLEAN]
<1>1. Lost(clock[w], main[w].epoch) \in Entries
  BY LostType DEF TypeOK, Threads
<1> QED BY <1>1, EndRunType DEF LeaseHandoff, TypeOK

\* Every step of the program keeps every variable in its range.
LEMMA TypeStep == TypeOK /\ [Next]_vars => TypeOK'
<1> SUFFICES ASSUME TypeOK, [Next]_vars
             PROVE  TypeOK'
  OBVIOUS
<1>1. CASE UNCHANGED vars
  BY <1>1 DEF TypeOK, vars
<1>2. CASE Tick /\ UNCHANGED settle
  <2>1. lease' \in Rows
    <3>1. Dec(lease.left) \in 0..TTL
      BY DecInRange, ConstantsAssumption DEF TypeOK, Rows
    <3> QED BY <1>2, <3>1 DEF Tick, TypeOK, Rows
  <2>2. clock' \in [Worker -> Entries]
    <3>1. \A w \in Worker :
            Entry(clock[w].epoch, Dec(clock[w].left), clock[w].lost, clock[w].ext) \in Entries
      <4> TAKE w \in Worker
      <4>1. Dec(clock[w].left) \in 0..FreshTTL
        BY DecInRange, FreshTTLBound DEF TypeOK, Entries
      <4> QED BY <4>1, EntryType DEF TypeOK, Entries
    <3> QED BY <1>2, <3>1 DEF Tick
  <2>3. main' \in [Worker -> Threads]
    <3>1. \A w \in Worker : Aged(main[w]) \in Threads
      <4> TAKE w \in Worker
      <4>1. Inc(main[w].age, FreshTTL) \in 0..FreshTTL
        BY IncInRange, FreshTTLBound DEF TypeOK, Threads
      <4> QED BY <4>1, ThreadType DEF TypeOK, Threads, Aged
    <3> QED BY <1>2, <3>1 DEF Tick
  <2>4. renew' \in [Worker -> Calls]
    <3>1. \A w \in Worker :
            Call(renew[w].on, IF renew[w].on THEN Inc(renew[w].age, FreshTTL) ELSE 0,
                 renew[w].done, renew[w].ok) \in Calls
      <4> TAKE w \in Worker
      <4>1. Inc(renew[w].age, FreshTTL) \in 0..FreshTTL
        BY IncInRange, FreshTTLBound DEF TypeOK, Calls
      <4> QED BY <4>1, CallType, ZeroInRanges DEF TypeOK, Calls
    <3> QED BY <1>2, <3>1 DEF Tick
  <2>5. deg' \in [Worker -> 0..(Grace + 1)]
    <3>1. \A w \in Worker : Inc(deg[w], Grace + 1) \in 0..(Grace + 1)
      BY IncInRange, ConstantsAssumption DEF TypeOK
    <3> QED BY <1>2, <3>1, ZeroInRanges DEF Tick
  <2> QED BY <1>2, <2>1, <2>2, <2>3, <2>4, <2>5 DEF Tick, TypeOK
<1>3. ASSUME NEW w \in Worker, WorkerStep(w), UNCHANGED settle
      PROVE  TypeOK'
  <2>s. settle' \in Epoch
    BY <1>3 DEF TypeOK
  <2> USE <2>s
  <2>0. /\ main[w] \in Threads /\ main[w].epoch \in Epoch /\ main[w].age \in 0..FreshTTL
        /\ main[w].ok \in BOOLEAN /\ main[w].gave \in BOOLEAN
        /\ main[w].pc \in PC /\ main[w].done \in BOOLEAN
        /\ clock[w] \in Entries /\ renew[w] \in Calls /\ renew[w].age \in 0..FreshTTL
        /\ renew[w].ok \in BOOLEAN
        /\ lease.epoch \in Epoch /\ pending[w] \in Epoch
    BY DEF TypeOK, Threads, Calls, Rows
  <2>1. CASE StartTask(w)
    <3>1. main' \in [Worker -> Threads]
      BY <2>1, GotoType, ZeroInRanges DEF StartTask, PC, CallPC
    <3> QED BY <2>1, <3>1 DEF StartTask, TypeOK
  <2>2. CASE ExecAcquire(w)
    <3>1. Answered(main[w], lease.left = 0 \/ (main[w].ok /\ lease.owner = w)) \in Threads
      BY <2>0, AnsweredType
    <3>2. lease' \in Rows
      BY <2>2, <2>0, RowTypes DEF ExecAcquire
    <3> QED BY <2>2, <3>1, <3>2 DEF ExecAcquire, TypeOK
  <2>3. CASE AcquireReturns(w)
    <3>1. Confirmed(clock[w], lease.epoch, main[w].age, main[w].ok) \in Entries
      BY <2>0, ConfirmedType
    <3>2. {"release", "running", "verify", "idle"} \subseteq PC
      BY DEF PC, CallPC
    <3>3. \E pc \in PC, e \in Epoch : Goto(w, pc, e)
      BY <2>3, <2>0, <3>2, ZeroInRanges DEF AcquireReturns
    <3>4. main' \in [Worker -> Threads]
      BY <3>3, GotoType
    <3> QED BY <2>3, <3>1, <3>4 DEF AcquireReturns, TypeOK
  <2>4. CASE ResumeHeldTask(w)
    <3>1. main' \in [Worker -> Threads]
      BY <2>4, <2>0, GotoType DEF ResumeHeldTask, PC, CallPC
    <3> QED BY <2>4, <3>1 DEF ResumeHeldTask, TypeOK
  <2>5. CASE ExecStartRenew(w)
    <3>1. Answered(main[w], Matches(w, main[w].epoch)) \in Threads
      BY <2>0, AnsweredType DEF Matches
    <3>2. lease' \in Rows
      BY <2>5, <2>0, RowTypes DEF ExecStartRenew
    <3> QED BY <2>5, <3>1, <3>2 DEF ExecStartRenew, TypeOK
  <2>6. CASE ConfirmHeldReturns(w)
    <3>1. Confirmed(clock[w], main[w].epoch, main[w].age, main[w].ok) \in Entries
      BY <2>0, ConfirmedType
    <3>2. clock' \in [Worker -> Entries]
      BY <2>6, <2>0, <3>1 DEF ConfirmHeldReturns, TypeOK
    <3>3. \E pc \in PC : Goto(w, pc, main[w].epoch)
      BY <2>6 DEF ConfirmHeldReturns, PC, CallPC
    <3>4. main' \in [Worker -> Threads]
      BY <3>3, <2>0, GotoType
    <3> QED BY <2>6, <3>2, <3>4 DEF ConfirmHeldReturns, TypeOK
  <2>7. CASE ProveVerify(w)
    <3>1. \E pc \in PC : Goto(w, pc, main[w].epoch)
      BY <2>7 DEF ProveVerify, PC, CallPC
    <3>2. main' \in [Worker -> Threads]
      BY <3>1, <2>0, GotoType
    <3> QED BY <2>7, <3>2 DEF ProveVerify, TypeOK
  <2>8. CASE ReacquireReturns(w)
    <3>1. "prove" \in PC /\ "idle" \in PC
      BY DEF PC, CallPC
    <3>2. \E pc \in PC, e \in Epoch : Goto(w, pc, e)
      BY <2>8, <2>0, <3>1, ZeroInRanges DEF ReacquireReturns
    <3>3. main' \in [Worker -> Threads]
      BY <3>2, GotoType
    <3>4. lease' \in Rows
      BY <2>8, <2>0, RowTypes DEF ReacquireReturns, TypeOK
    <3> QED BY <2>8, <3>3, <3>4 DEF ReacquireReturns, TypeOK
  <2>9. CASE ProveReturns(w)
    <3>1. "running" \in PC /\ "idle" \in PC
      BY DEF PC
    <3>2. \E pc \in PC, e \in Epoch : Goto(w, pc, e)
      BY <2>9, <2>0, <3>1, ZeroInRanges DEF ProveReturns
    <3>3. main' \in [Worker -> Threads]
      BY <3>2, GotoType
    <3> QED BY <2>9, <3>3 DEF ProveReturns, TypeOK
  <2>10. CASE StartCallFails(w)
    <3>1. main' \in [Worker -> Threads]
      BY <2>10, GotoType, ZeroInRanges DEF StartCallFails, PC
    <3> QED BY <2>10, <3>1 DEF StartCallFails, TypeOK
  <2>11. CASE SendRenew(w)
    <3>1. Call(TRUE, 0, FALSE, FALSE) \in Calls
      BY CallType, ZeroInRanges
    <3> QED BY <2>11, <3>1 DEF SendRenew, TypeOK
  <2>12. CASE ExecRenew(w)
    <3>1. Call(TRUE, renew[w].age, TRUE, Matches(w, main[w].epoch)) \in Calls
      BY <2>0, CallType DEF Matches
    <3>2. lease' \in Rows
      BY <2>12, <2>0, RowTypes DEF ExecRenew
    <3> QED BY <2>12, <3>1, <3>2 DEF ExecRenew, TypeOK
  <2>13. CASE RenewOk(w)
    <3>1. Confirmed(clock[w], main[w].epoch, renew[w].age, renew[w].ok) \in Entries
      BY <2>0, ConfirmedType
    <3> QED BY <2>13, <3>1, NoneType, ZeroInRanges DEF RenewOk, TypeOK
  <2>14. CASE RenewLost(w)
    BY <2>14, YieldType DEF RenewLost, TypeOK
  <2>15. CASE RenewErr(w)
    <3>1. CASE Yield(w)
      BY <2>15, <3>1, YieldType DEF RenewErr, TypeOK
    <3>2. CASE ~(Dec(deg[w]) >= Grace)
      BY <2>15, <3>2, NoneType, ZeroInRanges DEF RenewErr, TypeOK
    <3> QED BY <2>15, <3>1, <3>2 DEF RenewErr
  <2>16. CASE FenceWrite(w)
    <3>1. CASE Fresh(w, main[w].epoch)
      BY <2>16, <3>1 DEF FenceWrite, TypeOK
    <3>2. CASE ~Fresh(w, main[w].epoch)
      BY <2>16, <3>2, LeaseHandoffType DEF FenceWrite, TypeOK
    <3> QED BY <3>1, <3>2
  <2>17. CASE ExecUnderFence(w)
    <3>1. CASE Matches(w, main[w].epoch)
      BY <2>17, <3>1, <2>0 DEF ExecUnderFence, TypeOK
    <3>2. CASE ~Matches(w, main[w].epoch)
      BY <2>17, <3>2, LeaseHandoffType DEF ExecUnderFence, TypeOK
    <3> QED BY <3>1, <3>2
  <2>18. CASE RunReturns(w)
    BY <2>18, EndRunType DEF RunReturns, TypeOK
  <2>19. CASE ReleaseTaskLease(w)
    <3>1. main' \in [Worker -> Threads]
      BY <2>19, GotoType, ZeroInRanges DEF ReleaseTaskLease, PC
    <3>2. lease' \in Rows
      BY <2>19, <2>0, RowTypes DEF ReleaseTaskLease, TypeOK
    <3>3. pending' \in [Worker -> Epoch]
      BY <2>19, <2>0, ZeroInRanges DEF ReleaseTaskLease, TypeOK
    <3> QED BY <2>19, <3>1, <3>2, <3>3 DEF ReleaseTaskLease, TypeOK
  <2>20. CASE RetryPendingReleases(w)
    <3>1. lease' \in Rows
      BY <2>20, <2>0, RowTypes DEF RetryPendingReleases
    <3>2. main' \in [Worker -> Threads]
      <4> DEFINE g == main[w].gave \/ (/\ main[w].pc \in HeldPC /\ main[w].epoch = pending[w]
                                       /\ Matches(w, pending[w]))
      <4>1. g \in BOOLEAN
        BY <2>0
      <4>2. Thread(main[w].pc, main[w].epoch, main[w].age, main[w].done, main[w].ok, g) \in Threads
        <5> HIDE DEF g
        <5> QED BY <2>0, <4>1, ThreadType
      <4> QED BY <2>20, <4>2 DEF RetryPendingReleases, TypeOK
    <3>3. pending' \in [Worker -> Epoch]
      BY <2>20, ZeroInRanges DEF RetryPendingReleases, TypeOK
    <3> QED BY <2>20, <3>1, <3>2, <3>3 DEF RetryPendingReleases, TypeOK
  <2>21. CASE Crash(w)
    BY <2>21, NoneType, ZeroInRanges DEF Crash, TypeOK
  <2>22. CASE RunKeepsLease(w)
    <3>1. main' \in [Worker -> Threads]
      BY <2>22, GotoType, ZeroInRanges DEF RunKeepsLease, PC
    <3> QED BY <2>22, <3>1, NoneType, ZeroInRanges DEF RunKeepsLease, TypeOK
  <2> QED
    BY <1>3, <2>1, <2>2, <2>3, <2>4, <2>5, <2>6, <2>7, <2>8, <2>9, <2>10, <2>11,
       <2>12, <2>13, <2>14, <2>15, <2>16, <2>17, <2>18, <2>19, <2>20, <2>21,
       <2>22 DEF WorkerStep
<1>4. CASE SettleStop
  BY <1>4 DEF SettleStop, TypeOK, Rows
<1>5. CASE ReleaseSettled
  <2>1. lease' \in Rows
    BY <1>5, ZeroInRanges DEF ReleaseSettled, ReleasedRow, TypeOK, Rows
  <2>2. main' \in [Worker -> Threads]
    <3> DEFINE g(w) == main[w].gave \/ (/\ main[w].pc \in HeldPC /\ main[w].epoch = settle
                                        /\ Matches(w, settle))
    <3>1. \A w \in Worker : g(w) \in BOOLEAN
      BY DEF TypeOK, Threads
    <3>2. \A w \in Worker :
            Thread(main[w].pc, main[w].epoch, main[w].age, main[w].done, main[w].ok, g(w)) \in Threads
      <4> HIDE DEF g
      <4> QED BY <3>1, ThreadType DEF TypeOK, Threads
    <3> QED BY <1>5, <3>2 DEF ReleaseSettled
  <2> QED BY <1>5, <2>1, <2>2, ZeroInRanges DEF ReleaseSettled, TypeOK
<1> QED BY <1>1, <1>2, <1>3, <1>4, <1>5 DEF Next

\* Initially every variable is in its range.
LEMMA TypeInit == Init => TypeOK
BY NoneType, ZeroInRanges, ConstantsAssumption DEF Init, TypeOK, Rows

\* Every behaviour of the lease protocol keeps every variable in its range.
THEOREM TypeCorrect == Spec => []TypeOK
BY TypeInit, TypeStep, PTL DEF Spec

-----------------------------------------------------------------------------
(***************************************************************************)
(* Time.  A trusted entry never outlives the row.  What makes it inductive *)
(* is the same statement about the answers still on their way: a call that *)
(* put a ttl on the row leaves at least FreshTTL - age of it.              *)
(***************************************************************************)

\* The row still names w at epoch e, for at least n more.
Holds(w, e, n) == lease.owner = w /\ lease.epoch = e /\ lease.left >= n

\* An entry confirmed by a call that extended the row ends before the row, as
\* long as the row is still the one it was confirmed for ...
EntryEndsFirst(w) ==
  clock[w].ext /\ lease.owner = w /\ lease.epoch = clock[w].epoch
    => lease.left >= clock[w].left

\* ... which it is while the thread of w works with that epoch.
EntryHeld(w) ==
  clock[w].ext /\ main[w].pc \in HeldPC /\ main[w].epoch = clock[w].epoch /\ ~main[w].gave
    => lease.owner = w /\ lease.epoch = main[w].epoch

\* Answers of Acquire, of the renew of a held start, and of the renew loop.
AcquireAnswer(w) ==
  main[w].pc = "acquire" /\ main[w].done /\ main[w].ok /\ lease.owner = w
    => lease.left + main[w].age >= FreshTTL

ConfirmAnswer(w) ==
  main[w].pc = "confirm" /\ main[w].done /\ main[w].ok /\ ~main[w].gave
    => main[w].age >= FreshTTL \/ Holds(w, main[w].epoch, FreshTTL - main[w].age)

RenewAnswer(w) ==
  renew[w].on /\ renew[w].done /\ renew[w].ok /\ ~main[w].gave
    => renew[w].age >= FreshTTL \/ Holds(w, main[w].epoch, FreshTTL - renew[w].age)

\* An epoch given back is never granted to anyone again.
GaveGone(w) ==
  main[w].gave => /\ main[w].epoch <= lease.epoch
                  /\ lease.epoch = main[w].epoch => lease.owner # w

\* Where the renew loop and the two history bits can be set.
Bits(w) ==
  /\ renew[w].on => main[w].pc = "running"
  /\ main[w].gave => main[w].pc \in HeldPC
  /\ main[w].ok => main[w].done
  /\ clock[w].ext => clock[w].left > 0 /\ ~clock[w].lost

InTime(w) ==
  /\ EntryEndsFirst(w) /\ EntryHeld(w)
  /\ AcquireAnswer(w) /\ ConfirmAnswer(w) /\ RenewAnswer(w)
  /\ GaveGone(w) /\ Bits(w)

TimeInv == TypeOK /\ \A w \in Worker : InTime(w)

\* A step of another worker leaves a row of v alone while it has time left,
\* and never makes one for v.
LEMMA ForeignStep ==
  ASSUME TypeOK, NEW v \in Worker, InTime(v),
         UNCHANGED <<main[v], clock[v], renew[v]>>,
         lease.owner = v /\ lease.left > 0 => UNCHANGED lease,
         lease'.owner = v => UNCHANGED lease,
         lease'.epoch \in Epoch, lease'.epoch >= lease.epoch
  PROVE  InTime(v)'
<1> DEFINE m == main[v]  c == clock[v]  r == renew[v]
<1>0. /\ m \in Threads /\ c \in Entries /\ r \in Calls /\ lease \in Rows
      /\ main'[v] = m /\ clock'[v] = c /\ renew'[v] = r
  BY DEF TypeOK
<1>1. EntryEndsFirst(v)'
  BY <1>0 DEF InTime, EntryEndsFirst
<1>2. EntryHeld(v)'
  BY SMTT(30), <1>0 DEF InTime, EntryEndsFirst, EntryHeld, Bits, Entries, Rows
<1>3. AcquireAnswer(v)'
  BY <1>0 DEF InTime, AcquireAnswer
<1>4. ConfirmAnswer(v)'
  BY <1>0, FreshTTLBound DEF InTime, ConfirmAnswer, Holds, Threads, Rows
<1>5. RenewAnswer(v)'
  BY SMTT(30), <1>0, FreshTTLBound DEF InTime, RenewAnswer, Holds, Calls, Rows
<1>6. Bits(v)'
  BY <1>0 DEF InTime, Bits
<1>7. GaveGone(v)'
  BY <1>0, ConstantsAssumption DEF InTime, GaveGone, Threads, Rows, Epoch
<1> QED BY <1>1, <1>2, <1>3, <1>4, <1>5, <1>6, <1>7 DEF InTime

\* What a step of w can do to the row.
RowSteps(w) ==
  \/ UNCHANGED lease
  \/ lease' = AcquiredRow(w)
  \/ \E e \in Epoch : lease' = RenewedRow(w, e) \/ lease' = ReleasedRow(w, e)

\* A step of w changes the view of w only, and the row by one of its statements.
LEMMA OwnStep ==
  ASSUME TypeOK, NEW w \in Worker, WorkerStep(w)
  PROVE  /\ RowSteps(w)
         /\ \A v \in Worker \ {w} : UNCHANGED <<main[v], clock[v], renew[v]>>
<1> USE DEF TypeOK
<1>0. main[w].epoch \in Epoch /\ lease.epoch \in Epoch /\ pending[w] \in Epoch
  BY DEF Threads, Rows
<1>1. CASE StartTask(w)
  BY <1>1, <1>0 DEF StartTask, Goto, RowSteps
<1>2. CASE ExecAcquire(w)
  BY <1>2, <1>0 DEF ExecAcquire, RowSteps
<1>3. CASE AcquireReturns(w)
  BY <1>3, <1>0 DEF AcquireReturns, Goto, RowSteps
<1>4. CASE ResumeHeldTask(w)
  BY <1>4, <1>0 DEF ResumeHeldTask, Goto, RowSteps
<1>5. CASE ExecStartRenew(w)
  BY <1>5, <1>0 DEF ExecStartRenew, RowSteps
<1>6. CASE ConfirmHeldReturns(w)
  BY <1>6, <1>0 DEF ConfirmHeldReturns, Goto, RowSteps
<1>7. CASE ProveVerify(w)
  BY <1>7, <1>0 DEF ProveVerify, Goto, RowSteps
<1>8. CASE ReacquireReturns(w)
  BY <1>8, <1>0 DEF ReacquireReturns, Goto, RowSteps
<1>9. CASE ProveReturns(w)
  BY <1>9, <1>0 DEF ProveReturns, Goto, RowSteps
<1>10. CASE StartCallFails(w)
  BY <1>10, <1>0 DEF StartCallFails, Goto, RowSteps
<1>11. CASE SendRenew(w)
  BY <1>11, <1>0 DEF SendRenew, RowSteps
<1>12. CASE ExecRenew(w)
  BY <1>12, <1>0 DEF ExecRenew, RowSteps
<1>13. CASE RenewOk(w)
  BY <1>13, <1>0 DEF RenewOk, RowSteps
<1>14. CASE RenewLost(w)
  BY <1>14, <1>0 DEF RenewLost, Yield, RowSteps
<1>15. CASE RenewErr(w)
  BY <1>15, <1>0 DEF RenewErr, Yield, RowSteps
<1>16. CASE FenceWrite(w)
  BY <1>16, <1>0 DEF FenceWrite, LeaseHandoff, EndRun, Goto, RowSteps
<1>17. CASE ExecUnderFence(w)
  BY <1>17, <1>0 DEF ExecUnderFence, LeaseHandoff, EndRun, Goto, RowSteps
<1>18. CASE RunReturns(w)
  BY <1>18, <1>0 DEF RunReturns, EndRun, Goto, RowSteps
<1>19. CASE ReleaseTaskLease(w)
  BY <1>19, <1>0 DEF ReleaseTaskLease, Goto, RowSteps
<1>20. CASE RetryPendingReleases(w)
  BY <1>20, <1>0 DEF RetryPendingReleases, RowSteps
<1>21. CASE Crash(w)
  BY <1>21, <1>0 DEF Crash, RowSteps
<1>22. CASE RunKeepsLease(w)
  BY <1>22, <1>0 DEF RunKeepsLease, Goto, RowSteps
<1> QED
  BY WorkerStep(w), <1>1, <1>2, <1>3, <1>4, <1>5, <1>6, <1>7, <1>8, <1>9, <1>10, <1>11,
     <1>12, <1>13, <1>14, <1>15, <1>16, <1>17, <1>18, <1>19, <1>20, <1>21, <1>22
     DEF WorkerStep

\* ... so it is a foreign step for everybody else.
LEMMA OthersKeepTime ==
  ASSUME TimeInv, TypeOK', NEW w \in Worker, WorkerStep(w), NEW v \in Worker \ {w}
  PROVE  InTime(v)'
<1>1. RowSteps(w) /\ UNCHANGED <<main[v], clock[v], renew[v]>>
  BY OwnStep DEF TimeInv
<1>2. /\ lease.owner = v /\ lease.left > 0 => UNCHANGED lease
      /\ lease'.owner = v => UNCHANGED lease
  BY <1>1, ConstantsAssumption
     DEF RowSteps, AcquiredRow, RenewedRow, ReleasedRow, Matches
<1>3. lease'.epoch \in Epoch /\ lease'.epoch >= lease.epoch
  BY <1>1, ConstantsAssumption
     DEF RowSteps, AcquiredRow, RenewedRow, ReleasedRow, Matches, TimeInv, TypeOK, Rows, Epoch
<1> QED BY <1>1, <1>2, <1>3, ForeignStep DEF TimeInv

\* Confirm keeps the entry, or makes one that ends FreshTTL after the send.
LEMMA ConfirmedFacts ==
  ASSUME NEW c \in Entries, NEW e \in Epoch, NEW age \in 0..FreshTTL, NEW x \in BOOLEAN,
         NEW n, n = Confirmed(c, e, age, x)
  PROVE  \/ n = c
         \/ /\ n.epoch = e /\ ~n.lost
            /\ n.ext => x /\ age < FreshTTL /\ n.left = FreshTTL - age
<1> DEFINE left == IF age < FreshTTL THEN FreshTTL - age ELSE 0
<1>1. n = c \/ n = Entry(e, left, FALSE, x)
  BY DEF Confirmed
<1>2. ASSUME n = Entry(e, left, FALSE, x)
      PROVE  /\ n.epoch = e /\ ~n.lost
             /\ n.ext => x /\ age < FreshTTL /\ n.left = FreshTTL - age
  <2>1. n.epoch = e /\ n.lost = FALSE /\ n.left = left /\ n.ext = (x /\ left > 0)
    BY <1>2 DEF Entry
  <2>2. left > 0 => age < FreshTTL /\ left = FreshTTL - age
    BY FreshTTLBound
  <2> QED BY <2>1, <2>2
<1> QED BY <1>1, <1>2

\* Lose keeps the entry, or leaves nothing trusted.
LEMMA LostFacts ==
  ASSUME NEW c \in Entries, NEW e \in Epoch
  PROVE  Lost(c, e) = c \/ (~Lost(c, e).ext /\ Lost(c, e).epoch = e /\ Lost(c, e).lost)
BY DEF Lost, Entry

\* What is in the values a process starts with.
LEMMA BlankFacts ==
  /\ ~NoEntry.ext /\ NoEntry.epoch = 0 /\ ~NoRenew.on
  /\ Idle.pc = "idle" /\ ~Idle.done /\ ~Idle.ok /\ ~Idle.gave /\ Idle.epoch = 0
<1>1. ~NoEntry.ext /\ NoEntry.epoch = 0
  BY DEF NoEntry, Entry
<1>2. ~NoRenew.on
  BY DEF NoRenew, Call
<1>3. Idle.pc = "idle" /\ ~Idle.done /\ ~Idle.ok /\ ~Idle.gave /\ Idle.epoch = 0
  BY DEF Idle, Thread
<1> QED BY <1>1, <1>2, <1>3

\* A thread between two statements, or one that is not in a lease call, owes
\* nothing to answers still on their way.
LEMMA QuietThread ==
  ASSUME NEW w \in Worker, EntryEndsFirst(w)', EntryHeld(w)', GaveGone(w)', Bits(w)',
         ~main'[w].done, ~renew'[w].on
  PROVE  InTime(w)'
BY DEF InTime, AcquireAnswer, ConfirmAnswer, RenewAnswer

\* A thread that works with no epoch, after a step that touches no entry and
\* takes no time from the row.
LEMMA IdleThread ==
  ASSUME NEW w \in Worker, InTime(w), ~main'[w].done, ~main'[w].ok, ~main'[w].gave, ~renew'[w].on,
         main'[w].pc \notin HeldPC,
         clock'[w] = clock[w] \/ ~clock'[w].ext,
         lease' = lease \/ lease'.owner # w
  PROVE  InTime(w)'
<1>1. EntryEndsFirst(w)'
  BY DEF InTime, EntryEndsFirst
<1>2. EntryHeld(w)'
  BY DEF EntryHeld
<1>3. Bits(w)'
  BY DEF InTime, Bits
<1>4. GaveGone(w)'
  BY DEF GaveGone
<1> QED BY <1>1, <1>2, <1>3, <1>4, QuietThread

\* Moving the thread of w.
LEMMA GotoFacts ==
  ASSUME TypeOK, NEW w \in Worker, NEW pc, NEW e, Goto(w, pc, e)
  PROVE  /\ main'[w].pc = pc /\ main'[w].epoch = e /\ main'[w].age = 0
         /\ ~main'[w].done /\ ~main'[w].ok
         /\ main'[w].gave = (pc \in HeldPC /\ main[w].gave)
BY DEF Goto, Thread, TypeOK

\* A confirmed entry is trusted no longer than the row lasts.
LEMMA ConfirmKeepsEntry ==
  ASSUME TypeOK, NEW w \in Worker, InTime(w), UNCHANGED lease,
         NEW e \in Epoch, NEW age \in 0..FreshTTL, NEW x \in BOOLEAN,
         clock'[w] = Confirmed(clock[w], e, age, x),
         x /\ lease.owner = w /\ lease.epoch = e => lease.left + age >= FreshTTL
  PROVE  EntryEndsFirst(w)'
<1>1. clock[w] \in Entries /\ lease.left \in Nat
  BY ConstantsAssumption DEF TypeOK, Rows
<1>2. \/ clock'[w] = clock[w]
      \/ /\ clock'[w].epoch = e
         /\ clock'[w].ext => x /\ age < FreshTTL /\ clock'[w].left = FreshTTL - age
  BY SMTT(30), <1>1, ConfirmedFacts
<1>3. CASE clock'[w] = clock[w]
  BY <1>3 DEF InTime, EntryEndsFirst
<1>4. CASE /\ clock'[w].epoch = e
           /\ clock'[w].ext => x /\ age < FreshTTL /\ clock'[w].left = FreshTTL - age
  <2> SUFFICES ASSUME clock'[w].ext, lease'.owner = w, lease'.epoch = clock'[w].epoch
               PROVE  lease'.left >= clock'[w].left
    BY DEF EntryEndsFirst
  <2>1. lease.owner = w /\ lease.epoch = e /\ x /\ clock'[w].left = FreshTTL - age
    BY <1>4
  <2>2. lease.left + age >= FreshTTL
    BY <2>1
  <2>3. lease.left >= FreshTTL - age
    BY <1>1, <2>2, FreshTTLBound
  <2> QED BY <2>1, <2>3
<1> QED BY <1>2, <1>3, <1>4

\* The bits of an entry after Confirm.
LEMMA ConfirmKeepsBits ==
  ASSUME TypeOK, NEW w \in Worker, InTime(w),
         NEW e \in Epoch, NEW age \in 0..FreshTTL, NEW x \in BOOLEAN,
         clock'[w] = Confirmed(clock[w], e, age, x)
  PROVE  clock'[w].ext => clock'[w].left > 0 /\ ~clock'[w].lost
<1>1. clock[w] \in Entries
  BY DEF TypeOK
<1>2. \/ clock'[w] = clock[w]
      \/ /\ ~clock'[w].lost
         /\ clock'[w].ext => age < FreshTTL /\ clock'[w].left = FreshTTL - age
  BY <1>1, ConfirmedFacts
<1>3. age < FreshTTL => FreshTTL - age > 0
  BY FreshTTLBound
<1> QED BY <1>2, <1>3 DEF InTime, Bits

\* Confirm after a renew: the answer is at most age old, and either the epoch
\* was given back meanwhile or the row still has the rest of FreshTTL.
LEMMA HeldConfirm ==
  ASSUME TypeOK, NEW w \in Worker, InTime(w), UNCHANGED lease,
         NEW age \in 0..FreshTTL, NEW x \in BOOLEAN, main[w].pc \in HeldPC,
         clock'[w] = Confirmed(clock[w], main[w].epoch, age, x),
         main'[w].epoch = main[w].epoch,
         main'[w].pc \in HeldPC => main'[w].gave = main[w].gave,
         ~main[w].gave => age >= FreshTTL \/ Holds(w, main[w].epoch, FreshTTL - age)
  PROVE  EntryEndsFirst(w)' /\ EntryHeld(w)'
<1>0. /\ clock[w] \in Entries /\ main[w].epoch \in Epoch
      /\ lease.left \in Nat /\ FreshTTL \in Nat
  BY ConstantsAssumption, FreshTTLBound DEF TypeOK, Threads, Rows
<1>e. clock[w] \in Entries /\ main[w].epoch \in Epoch
  BY <1>0
<1>1. \/ clock'[w] = clock[w]
      \/ /\ clock'[w].epoch = main[w].epoch
         /\ clock'[w].ext => age < FreshTTL /\ clock'[w].left = FreshTTL - age
  BY <1>e, ConfirmedFacts
<1>2. lease.owner = w /\ lease.epoch = main[w].epoch => ~main[w].gave
  BY DEF InTime, GaveGone
<1>3. CASE clock'[w] = clock[w]
  BY <1>3 DEF InTime, EntryEndsFirst, EntryHeld
<1>4. CASE /\ clock'[w].epoch = main[w].epoch
           /\ clock'[w].ext => age < FreshTTL /\ clock'[w].left = FreshTTL - age
  <2>0. ~main[w].gave /\ age < FreshTTL =>
          lease.owner = w /\ lease.epoch = main[w].epoch /\ lease.left >= FreshTTL - age
    BY <1>0 DEF Holds
  <2>1. EntryHeld(w)'
    BY <1>4, <2>0 DEF EntryHeld
  <2>2. EntryEndsFirst(w)'
    <3> SUFFICES ASSUME clock'[w].ext, lease'.owner = w, lease'.epoch = clock'[w].epoch
                 PROVE  lease'.left >= clock'[w].left
      BY DEF EntryEndsFirst
    <3> QED BY <1>2, <1>4, <2>0
  <2> QED BY <2>1, <2>2
<1> QED BY <1>1, <1>3, <1>4

\* The history bit gave is set by releasing the epoch in use, and otherwise only
\* carried along with the epoch.
LEMMA GaveStep ==
  ASSUME TypeOK, NEW w \in Worker, Bits(w), WorkerStep(w), main'[w].gave
  PROVE  \/ main[w].gave /\ main'[w].epoch = main[w].epoch
         \/ lease' = [owner |-> None, epoch |-> main'[w].epoch, left |-> 0]
<1>h. /\ "idle" \notin HeldPC /\ "acquire" \notin HeldPC /\ "release" \notin HeldPC
  BY DEF HeldPC
<1>0. main[w].gave => main[w].pc \notin {"idle", "acquire", "release"}
  BY <1>h DEF Bits
<1>g. \A pc, e : Goto(w, pc, e) => pc \in HeldPC /\ main[w].gave /\ main'[w].epoch = e
  BY GotoFacts
<1>u. UNCHANGED main => main[w].gave /\ main'[w].epoch = main[w].epoch
  OBVIOUS
<1>1. CASE StartTask(w)
  BY <1>1, <1>0, <1>g, <1>h DEF StartTask
<1>2. CASE ExecAcquire(w)
  BY <1>2 DEF ExecAcquire, Answered, Thread, TypeOK
<1>3. CASE AcquireReturns(w)
  BY <1>3, <1>0, <1>g, <1>h DEF AcquireReturns
<1>4. CASE ResumeHeldTask(w)
  BY <1>4, <1>0, <1>g, <1>h DEF ResumeHeldTask
<1>5. CASE ExecStartRenew(w)
  BY <1>5 DEF ExecStartRenew, Answered, Thread, TypeOK
<1>6. CASE ConfirmHeldReturns(w)
  BY <1>6, <1>0, <1>g, <1>h DEF ConfirmHeldReturns
<1>7. CASE ProveVerify(w)
  BY <1>7, <1>0, <1>g, <1>h DEF ProveVerify
<1>8. CASE ReacquireReturns(w)
  BY <1>8, <1>0, <1>g, <1>h DEF ReacquireReturns
<1>9. CASE ProveReturns(w)
  BY <1>9, <1>0, <1>g, <1>h DEF ProveReturns
<1>10. CASE StartCallFails(w)
  BY <1>10, <1>0, <1>g, <1>h DEF StartCallFails
<1>11. CASE SendRenew(w)
  BY <1>11, <1>u DEF SendRenew
<1>12. CASE ExecRenew(w)
  BY <1>12, <1>u DEF ExecRenew
<1>13. CASE RenewOk(w)
  BY <1>13, <1>u DEF RenewOk
<1>14. CASE RenewLost(w)
  BY <1>14, <1>u DEF RenewLost
<1>15. CASE RenewErr(w)
  BY <1>15, <1>u DEF RenewErr
<1>16. CASE FenceWrite(w)
  BY <1>16, <1>u, <1>g, <1>h DEF FenceWrite, LeaseHandoff, EndRun
<1>17. CASE ExecUnderFence(w)
  BY <1>17, <1>u, <1>g, <1>h DEF ExecUnderFence, LeaseHandoff, EndRun
<1>18. CASE RunReturns(w)
  BY <1>18, <1>u, <1>g, <1>h DEF RunReturns, EndRun
<1>19. CASE ReleaseTaskLease(w)
  BY <1>19, <1>0, <1>g, <1>h DEF ReleaseTaskLease
<1>20. CASE RetryPendingReleases(w)
  <2>1. /\ main'[w].epoch = main[w].epoch
        /\ main[w].gave \/ (main[w].epoch = pending[w] /\ Matches(w, pending[w]))
    BY <1>20 DEF RetryPendingReleases, Thread, TypeOK
  <2> QED BY <1>20, <2>1 DEF RetryPendingReleases, ReleasedRow
<1>21. CASE Crash(w)
  BY <1>21, BlankFacts DEF Crash, TypeOK
<1>22. CASE RunKeepsLease(w)
  BY <1>22, <1>g, <1>h DEF RunKeepsLease
<1> QED
  BY WorkerStep(w), <1>1, <1>2, <1>3, <1>4, <1>5, <1>6, <1>7, <1>8, <1>9, <1>10, <1>11,
     <1>12, <1>13, <1>14, <1>15, <1>16, <1>17, <1>18, <1>19, <1>20, <1>21, <1>22
     DEF WorkerStep

\* An epoch given back stays gone when its worker steps.
LEMMA ActorGaveGone ==
  ASSUME TimeInv, TypeOK', NEW w \in Worker, WorkerStep(w)
  PROVE  GaveGone(w)'
<1> SUFFICES ASSUME main'[w].gave
             PROVE  /\ main'[w].epoch <= lease'.epoch
                    /\ lease'.epoch = main'[w].epoch => lease'.owner # w
  BY DEF GaveGone
<1>0. /\ TypeOK /\ GaveGone(w) /\ Bits(w) /\ w # None
      /\ lease.epoch \in Nat /\ main[w].epoch \in Nat /\ main'[w].epoch \in Nat
  BY ConstantsAssumption DEF TimeInv, InTime, TypeOK, Threads, Rows, Epoch
<1>1. CASE main[w].gave /\ main'[w].epoch = main[w].epoch
  <2>1. RowSteps(w)
    BY <1>0, OwnStep
  <2>2. main[w].epoch <= lease.epoch /\ (lease.epoch = main[w].epoch => lease.owner # w)
    BY <1>0, <1>1 DEF GaveGone
  <2> QED BY <1>0, <1>1, <2>1, <2>2
          DEF RowSteps, AcquiredRow, RenewedRow, ReleasedRow, Matches
<1>2. CASE lease' = [owner |-> None, epoch |-> main'[w].epoch, left |-> 0]
  BY <1>0, <1>2
<1> QED BY <1>0, <1>1, <1>2, GaveStep

\* The acting worker keeps time as well.
LEMMA ActorKeepsTime ==
  ASSUME TimeInv, TypeOK', NEW w \in Worker, WorkerStep(w)
  PROVE  InTime(w)'
<1>0. /\ TypeOK /\ InTime(w) /\ FreshTTL \in Nat /\ FreshTTL <= TTL /\ TTL \in Nat
      /\ main[w].epoch \in Epoch /\ main[w].age \in 0..FreshTTL /\ main[w].ok \in BOOLEAN
      /\ clock[w] \in Entries /\ clock[w].left \in 0..FreshTTL
      /\ renew[w].age \in 0..FreshTTL /\ renew[w].ok \in BOOLEAN
      /\ lease.epoch \in Epoch /\ lease.left \in 0..TTL
      /\ w # None
  BY FreshTTLBound, ConstantsAssumption DEF TimeInv, TypeOK, Threads, Entries, Calls, Rows
<1>n. /\ FreshTTL \in Nat /\ TTL \in Nat /\ FreshTTL <= TTL /\ lease.left \in Nat
      /\ main[w].age \in Nat /\ main[w].age <= FreshTTL
      /\ clock[w].left \in Nat /\ clock[w].left <= FreshTTL
      /\ renew[w].age \in Nat /\ renew[w].age <= FreshTTL
  BY SMTT(30), <1>0
<1>b. TypeOK /\ main[w].gave \in BOOLEAN
  BY <1>0 DEF TypeOK, Threads
<1>h. /\ "idle" \notin HeldPC /\ "acquire" \notin HeldPC /\ "release" \notin HeldPC
      /\ "running" \in HeldPC /\ "confirm" \in HeldPC /\ "verify" \in HeldPC
      /\ "prove" \in HeldPC /\ "reacquire" \in HeldPC
  BY DEF HeldPC
<1>g. GaveGone(w)'
  BY ActorGaveGone
<1>r. main[w].pc # "running" => ~renew[w].on
  BY <1>0 DEF InTime, Bits
<1>1. CASE StartTask(w)
  <2>1. main'[w].pc = "acquire" /\ ~main'[w].done /\ ~main'[w].ok /\ ~main'[w].gave /\ ~renew'[w].on
    BY <1>0, <1>1, <1>h, <1>r, GotoFacts DEF StartTask
  <2> QED BY <1>0, <1>1, <1>h, <2>1, IdleThread DEF StartTask
<1>10. CASE StartCallFails(w)
  <2>1. main'[w].pc = "idle" /\ ~main'[w].done /\ ~main'[w].ok /\ ~main'[w].gave /\ ~renew'[w].on
    BY <1>0, <1>10, <1>h, <1>r, GotoFacts DEF StartCallFails, CallPC
  <2> QED BY <1>0, <1>10, <1>h, <2>1, IdleThread DEF StartCallFails
<1>2. CASE ExecAcquire(w)
  <2>1. /\ main'[w].pc = main[w].pc /\ main'[w].epoch = main[w].epoch
        /\ main'[w].age = main[w].age /\ main'[w].gave = main[w].gave
        /\ main'[w].ok = (lease.left = 0 \/ (main[w].ok /\ lease.owner = w))
        /\ main'[w].done
    BY <1>0, <1>2 DEF ExecAcquire, Answered, Thread, TypeOK
  <2>2. clock' = clock /\ ~renew'[w].on
    BY <1>2, <1>r DEF ExecAcquire
  <2>3. CASE lease.left > 0
    <3>1. lease' = lease
      BY <1>2, <2>3 DEF ExecAcquire, AcquiredRow
    <3>2. lease.left # 0
      BY <1>0, <2>3
    <3>3. AcquireAnswer(w)'
      <4>1. main'[w].ok => main[w].ok
        BY <2>1, <3>2
      <4>2. main[w].ok => main[w].done
        BY <1>0 DEF InTime, Bits
      <4> QED BY <1>0, <2>1, <3>1, <4>1, <4>2 DEF InTime, AcquireAnswer
    <3>4. EntryEndsFirst(w)' /\ EntryHeld(w)'
      BY <1>0, <2>1, <2>2, <3>1 DEF InTime, EntryEndsFirst, EntryHeld
    <3>5. ConfirmAnswer(w)' /\ RenewAnswer(w)'
      BY <1>2, <2>1, <2>2 DEF ExecAcquire, ConfirmAnswer, RenewAnswer
    <3>6. Bits(w)'
      BY <1>0, <2>1, <2>2 DEF InTime, Bits
    <3> QED BY <1>g, <3>3, <3>4, <3>5, <3>6 DEF InTime
  <2>4. CASE lease.left = 0
    <3>1. lease'.owner = w /\ lease'.left = TTL
      BY <1>2, <2>4 DEF ExecAcquire, AcquiredRow
    <3>2. EntryEndsFirst(w)'
      BY <1>0, <2>2, <3>1 DEF EntryEndsFirst
    <3>3. EntryHeld(w)'
      <4> SUFFICES ASSUME clock[w].ext, main[w].pc \in HeldPC,
                          main[w].epoch = clock[w].epoch, ~main[w].gave
                   PROVE  FALSE
        BY <2>1, <2>2 DEF EntryHeld
      <4>1. lease.owner = w /\ lease.epoch = clock[w].epoch /\ clock[w].left > 0
        BY <1>0 DEF InTime, EntryHeld, Bits
      <4>2. lease.left >= clock[w].left
        BY <1>0, <4>1 DEF InTime, EntryEndsFirst
      <4> QED BY <1>0, <2>4, <4>1, <4>2
    <3>4. AcquireAnswer(w)'
      BY SMTT(30), <1>n, <2>1, <3>1 DEF AcquireAnswer
    <3>5. ConfirmAnswer(w)' /\ RenewAnswer(w)'
      BY <1>2, <2>1, <2>2 DEF ExecAcquire, ConfirmAnswer, RenewAnswer
    <3>6. Bits(w)'
      BY <1>0, <2>1, <2>2 DEF InTime, Bits
    <3> QED BY <1>g, <3>2, <3>3, <3>4, <3>5, <3>6 DEF InTime
  <2> QED BY <1>0, <2>3, <2>4
<1>18. CASE RunReturns(w)
  <2>1. main'[w].pc = "release" /\ ~main'[w].done /\ ~main'[w].ok /\ ~main'[w].gave
    BY <1>0, <1>18, <1>h, GotoFacts DEF RunReturns, EndRun
  <2>2. ~renew'[w].on
    BY <1>18, <1>0 DEF RunReturns, EndRun, NoRenew, Call, TypeOK
  <2> QED BY <1>0, <1>18, <1>h, <2>1, <2>2, IdleThread DEF RunReturns
<1>19. CASE ReleaseTaskLease(w)
  <2>1. main'[w].pc = "idle" /\ ~main'[w].done /\ ~main'[w].ok /\ ~main'[w].gave /\ ~renew'[w].on
    BY <1>0, <1>19, <1>h, <1>r, GotoFacts DEF ReleaseTaskLease
  <2>2. lease' = lease \/ lease'.owner # w
    BY <1>0, <1>19 DEF ReleaseTaskLease, ReleasedRow
  <2> QED BY <1>0, <1>19, <1>h, <2>1, <2>2, IdleThread DEF ReleaseTaskLease
<1>21. CASE Crash(w)
  <2>1. main'[w] = Idle /\ clock'[w] = NoEntry /\ renew'[w] = NoRenew
    BY <1>21, <1>0 DEF Crash, TypeOK
  <2>2. /\ main'[w].pc = "idle" /\ ~main'[w].done /\ ~main'[w].ok /\ ~main'[w].gave
        /\ ~renew'[w].on /\ ~clock'[w].ext
    BY <2>1, BlankFacts
  <2> QED BY <1>0, <1>21, <1>h, <2>2, IdleThread DEF Crash
<1>22. CASE RunKeepsLease(w)
  <2>1. main'[w].pc = "idle" /\ ~main'[w].done /\ ~main'[w].ok /\ ~main'[w].gave
    BY <1>0, <1>22, <1>h, GotoFacts DEF RunKeepsLease
  <2>2. ~renew'[w].on
    BY <1>22, <1>0, BlankFacts DEF RunKeepsLease, TypeOK
  <2> QED BY <1>0, <1>22, <1>h, <2>1, <2>2, IdleThread DEF RunKeepsLease
<1>3. CASE AcquireReturns(w)
  <2>1. CASE ~(lease.owner = w /\ lease.left > 0)
    <3>1. main'[w].pc = "idle" /\ ~main'[w].done /\ ~main'[w].ok /\ ~main'[w].gave /\ ~renew'[w].on
      BY <1>0, <1>3, <2>1, <1>h, <1>r, GotoFacts DEF AcquireReturns
    <3> QED BY <1>0, <1>3, <1>h, <2>1, <3>1, IdleThread DEF AcquireReturns
  <2>2. CASE lease.owner = w /\ lease.left > 0
    <3>1. clock'[w] = Confirmed(clock[w], lease.epoch, main[w].age, main[w].ok)
      BY <1>0, <1>3, <2>2 DEF AcquireReturns, TypeOK
    <3>2. \E pc \in {"release", "running", "verify"} : Goto(w, pc, lease.epoch)
      BY <1>3, <2>2 DEF AcquireReturns
    <3>3. ~main'[w].done /\ ~main'[w].ok /\ main'[w].epoch = lease.epoch
      BY <1>0, <3>2, GotoFacts
    <3>4. main'[w].gave => main'[w].pc \in HeldPC
      BY <1>0, <3>2, GotoFacts
    <3>5. UNCHANGED lease /\ ~renew'[w].on
      BY <1>3, <1>r DEF AcquireReturns
    <3>6. main[w].ok /\ lease.owner = w /\ lease.epoch = lease.epoch
            => lease.left + main[w].age >= FreshTTL
      BY <1>0, <1>3 DEF AcquireReturns, InTime, AcquireAnswer
    <3>7. EntryEndsFirst(w)'
      BY <1>0, <3>1, <3>5, <3>6, ConfirmKeepsEntry
    <3>8. EntryHeld(w)'
      BY <2>2, <3>3, <3>5 DEF EntryHeld
    <3>9. Bits(w)'
      BY <1>0, <3>1, <3>3, <3>4, <3>5, ConfirmKeepsBits DEF Bits
    <3> QED BY <1>g, <3>3, <3>5, <3>7, <3>8, <3>9, QuietThread
  <2> QED BY <2>1, <2>2
<1>4. CASE ResumeHeldTask(w)
  <2>1. ~main'[w].done /\ ~main'[w].ok /\ main'[w].epoch = lease.epoch /\ main'[w].pc = "confirm"
    BY <1>0, <1>4, GotoFacts DEF ResumeHeldTask
  <2>2. UNCHANGED lease /\ UNCHANGED clock /\ ~renew'[w].on /\ lease.owner = w
    BY <1>4, <1>r DEF ResumeHeldTask, Verified
  <2>3. EntryEndsFirst(w)'
    BY <1>0, <2>2 DEF InTime, EntryEndsFirst
  <2>4. EntryHeld(w)'
    BY <2>1, <2>2 DEF EntryHeld
  <2>5. Bits(w)'
    BY <1>0, <1>h, <2>1, <2>2 DEF InTime, Bits
  <2> QED BY <1>g, <2>1, <2>2, <2>3, <2>4, <2>5, QuietThread
<1>7. CASE ProveVerify(w)
  <2>1. \E pc \in {"prove", "reacquire"} : Goto(w, pc, main[w].epoch)
    BY <1>7 DEF ProveVerify
  <2>2. /\ ~main'[w].done /\ ~main'[w].ok /\ main'[w].epoch = main[w].epoch
        /\ main'[w].pc \in HeldPC /\ main'[w].gave = main[w].gave
    BY <1>b, <1>h, <2>1, GotoFacts
  <2>3. UNCHANGED lease /\ UNCHANGED clock /\ ~renew'[w].on /\ main[w].pc \in HeldPC
    BY <1>7, <1>r, <1>h DEF ProveVerify
  <2>4. EntryEndsFirst(w)' /\ EntryHeld(w)'
    BY <1>0, <2>2, <2>3 DEF InTime, EntryEndsFirst, EntryHeld
  <2>5. Bits(w)'
    BY <1>0, <2>2, <2>3 DEF InTime, Bits
  <2> QED BY <1>g, <2>2, <2>3, <2>4, <2>5, QuietThread
<1>8. CASE ReacquireReturns(w)
  <2>1. CASE lease.owner = w /\ lease.left > 0 /\ lease.epoch = main[w].epoch
    <3>1. Goto(w, "prove", main[w].epoch) /\ UNCHANGED <<lease, clock, renew>>
      BY <1>8, <2>1 DEF ReacquireReturns
    <3>2. ~main'[w].done /\ ~main'[w].ok /\ main'[w].epoch = lease.epoch /\ main'[w].pc = "prove"
      BY <1>0, <2>1, <3>1, GotoFacts
    <3>3. EntryEndsFirst(w)' /\ EntryHeld(w)'
      BY <1>0, <2>1, <3>1, <3>2 DEF InTime, EntryEndsFirst, EntryHeld
    <3>4. Bits(w)' /\ ~renew'[w].on
      BY <1>0, <1>8, <1>h, <1>r, <3>1, <3>2 DEF InTime, Bits, ReacquireReturns
    <3> QED BY <1>g, <3>2, <3>3, <3>4, QuietThread
  <2>2. CASE ~(lease.owner = w /\ lease.left > 0 /\ lease.epoch = main[w].epoch)
    <3>1. /\ Goto(w, "idle", 0) /\ UNCHANGED <<clock, renew>>
          /\ lease' = lease \/ lease' = ReleasedRow(w, lease.epoch)
      BY <1>8, <2>2 DEF ReacquireReturns
    <3>2. main'[w].pc = "idle" /\ ~main'[w].done /\ ~main'[w].ok /\ ~main'[w].gave
      BY <1>0, <1>h, <3>1, GotoFacts
    <3>3. lease' = lease \/ lease'.owner # w
      BY <1>0, <3>1 DEF ReleasedRow
    <3>4. ~renew'[w].on /\ clock'[w] = clock[w]
      BY <1>8, <1>r, <3>1 DEF ReacquireReturns
    <3> QED BY <1>0, <1>h, <3>2, <3>3, <3>4, IdleThread
  <2> QED BY <2>1, <2>2
<1>9. CASE ProveReturns(w)
  <2>1. \E pc \in {"running", "idle"} :
          Goto(w, pc, IF pc = "running" THEN main[w].epoch ELSE 0)
    BY <1>9 DEF ProveReturns
  <2>2. /\ ~main'[w].done /\ ~main'[w].ok
        /\ main'[w].pc \in HeldPC => main'[w].epoch = main[w].epoch /\ main'[w].gave = main[w].gave
        /\ main'[w].gave => main'[w].pc \in HeldPC
    <3>1. CASE Goto(w, "running", main[w].epoch)
      BY <1>b, <1>h, <3>1, GotoFacts
    <3>2. CASE Goto(w, "idle", 0)
      BY ZenonT(30), <1>0, <1>h, <3>2, GotoFacts
    <3> QED BY <2>1, <3>1, <3>2
  <2>3. UNCHANGED lease /\ UNCHANGED clock /\ ~renew'[w].on /\ main[w].pc \in HeldPC
    BY <1>9, <1>r, <1>h DEF ProveReturns
  <2>4. EntryEndsFirst(w)' /\ EntryHeld(w)'
    BY <1>0, <2>2, <2>3 DEF InTime, EntryEndsFirst, EntryHeld
  <2>5. Bits(w)'
    BY <1>0, <2>2, <2>3 DEF InTime, Bits
  <2> QED BY <1>g, <2>2, <2>3, <2>4, <2>5, QuietThread
<1>5. CASE ExecStartRenew(w)
  <2>1. /\ main'[w].pc = main[w].pc /\ main'[w].epoch = main[w].epoch
        /\ main'[w].age = main[w].age /\ main'[w].gave = main[w].gave
        /\ main'[w].ok = Matches(w, main[w].epoch) /\ main'[w].done
    BY <1>0, <1>5 DEF ExecStartRenew, Answered, Thread, TypeOK
  <2>2. clock' = clock /\ ~renew'[w].on /\ main[w].pc \in {"confirm", "prove"}
    BY <1>5, <1>r DEF ExecStartRenew
  <2>3. CASE Matches(w, main[w].epoch)
    <3>1. lease' = [owner |-> w, epoch |-> main[w].epoch, left |-> TTL]
      BY <1>5, <2>3 DEF ExecStartRenew, RenewedRow
    <3>l. lease'.owner = w /\ lease'.epoch = main[w].epoch /\ lease'.left = TTL
      BY <3>1
    <3>m. main'[w].epoch = main[w].epoch /\ clock'[w] = clock[w]
      BY <2>1, <2>2
    <3>a. EntryEndsFirst(w)'
      <4>1. TTL >= clock[w].left
        BY <1>n
      <4> QED BY <3>l, <3>m, <4>1 DEF EntryEndsFirst
    <3>b. EntryHeld(w)'
      BY <3>l, <3>m DEF EntryHeld
    <3>2. EntryEndsFirst(w)' /\ EntryHeld(w)'
      BY <3>a, <3>b
    <3>3. AcquireAnswer(w)' /\ RenewAnswer(w)'
      BY <2>1, <2>2 DEF AcquireAnswer, RenewAnswer
    <3>4. ConfirmAnswer(w)'
      <4>1. TTL >= FreshTTL - main[w].age
        BY <1>n
      <4>2. main'[w].epoch = main[w].epoch /\ main'[w].age = main[w].age
        BY <2>1
      <4> QED BY SMTT(30), <3>l, <4>1, <4>2 DEF ConfirmAnswer, Holds
    <3>5. Bits(w)'
      BY <1>0, <2>1, <2>2 DEF InTime, Bits
    <3> QED BY <1>g, <3>2, <3>3, <3>4, <3>5 DEF InTime
  <2>4. CASE ~Matches(w, main[w].epoch)
    <3>1. lease' = lease
      BY <1>5, <2>4 DEF ExecStartRenew, RenewedRow
    <3>2. EntryEndsFirst(w)' /\ EntryHeld(w)'
      BY <1>0, <2>1, <2>2, <3>1 DEF InTime, EntryEndsFirst, EntryHeld
    <3>3. AcquireAnswer(w)' /\ RenewAnswer(w)' /\ ConfirmAnswer(w)'
      BY <2>1, <2>2, <2>4 DEF AcquireAnswer, RenewAnswer, ConfirmAnswer
    <3>4. Bits(w)'
      BY <1>0, <2>1, <2>2 DEF InTime, Bits
    <3> QED BY <1>g, <3>2, <3>3, <3>4 DEF InTime
  <2> QED BY <2>3, <2>4
<1>6. CASE ConfirmHeldReturns(w)
  <2>1. Goto(w, "release", main[w].epoch) \/ Goto(w, "verify", main[w].epoch)
    BY <1>6 DEF ConfirmHeldReturns
  <2>2. /\ ~main'[w].done /\ ~main'[w].ok /\ main'[w].epoch = main[w].epoch
        /\ main'[w].pc \in HeldPC => main'[w].gave = main[w].gave
        /\ main'[w].gave => main'[w].pc \in HeldPC
    <3>1. CASE Goto(w, "release", main[w].epoch)
      <4>1. /\ ~main'[w].done /\ ~main'[w].ok /\ main'[w].epoch = main[w].epoch
            /\ main'[w].pc = "release"
            /\ main'[w].gave = ("release" \in HeldPC /\ main[w].gave)
        BY <1>0, <3>1, GotoFacts
      <4> QED BY <1>h, <4>1
    <3>2. CASE Goto(w, "verify", main[w].epoch)
      BY <1>b, <1>h, <3>2, GotoFacts
    <3> QED BY <2>1, <3>1, <3>2
  <2>3. UNCHANGED lease /\ ~renew'[w].on /\ main[w].pc = "confirm"
    BY <1>6, <1>r DEF ConfirmHeldReturns
  <2>4. CASE clock'[w] = clock[w]
    <3>1. EntryEndsFirst(w)' /\ EntryHeld(w)'
      BY <1>0, <1>h, <2>2, <2>3, <2>4 DEF InTime, EntryEndsFirst, EntryHeld
    <3>2. Bits(w)'
      BY <1>0, <2>2, <2>3, <2>4 DEF InTime, Bits
    <3> QED BY <1>g, <2>2, <2>3, <3>1, <3>2, QuietThread
  <2>5. CASE /\ main[w].done /\ main[w].ok
             /\ clock'[w] = Confirmed(clock[w], main[w].epoch, main[w].age, main[w].ok)
    <3>1. EntryEndsFirst(w)' /\ EntryHeld(w)'
      <4>1. ~main[w].gave => \/ main[w].age >= FreshTTL
                             \/ Holds(w, main[w].epoch, FreshTTL - main[w].age)
        BY <1>0, <2>3, <2>5 DEF InTime, ConfirmAnswer
      <4> QED BY <1>0, <1>h, <2>2, <2>3, <2>5, <4>1, HeldConfirm DEF InTime
    <3>2. Bits(w)'
      BY <1>0, <2>2, <2>3, <2>5, ConfirmKeepsBits DEF Bits
    <3> QED BY <1>g, <2>2, <2>3, <3>1, <3>2, QuietThread
  <2> QED BY <1>0, <1>6, <2>4, <2>5 DEF ConfirmHeldReturns, TypeOK
<1>11. CASE SendRenew(w)
  <2>1. /\ main[w].pc = "running" /\ UNCHANGED <<lease, clock, main>> /\ ~renew'[w].done
    BY <1>11, <1>0 DEF SendRenew, Call, TypeOK
  <2>2. EntryEndsFirst(w)' /\ EntryHeld(w)' /\ AcquireAnswer(w)' /\ ConfirmAnswer(w)'
    BY <1>0, <2>1 DEF InTime, EntryEndsFirst, EntryHeld, AcquireAnswer, ConfirmAnswer, Holds
  <2>3. RenewAnswer(w)' /\ Bits(w)'
    BY <1>0, <2>1 DEF InTime, RenewAnswer, Bits
  <2> QED BY <1>g, <2>2, <2>3 DEF InTime
<1>12. CASE ExecRenew(w)
  <2>1. /\ renew'[w].on /\ renew'[w].age = renew[w].age
        /\ renew'[w].ok = Matches(w, main[w].epoch) /\ UNCHANGED <<clock, main>>
    BY <1>12, <1>0 DEF ExecRenew, Call, TypeOK
  <2>2. main[w].pc = "running"
    BY <1>12, <1>r DEF ExecRenew
  <2>3. AcquireAnswer(w)' /\ ConfirmAnswer(w)' /\ Bits(w)'
    BY <1>0, <2>1, <2>2 DEF InTime, AcquireAnswer, ConfirmAnswer, Bits
  <2>4. CASE Matches(w, main[w].epoch)
    <3>1. lease' = [owner |-> w, epoch |-> main[w].epoch, left |-> TTL]
      BY <1>12, <2>4 DEF ExecRenew, RenewedRow
    <3>l. lease'.owner = w /\ lease'.epoch = main[w].epoch /\ lease'.left = TTL
      BY <3>1
    <3>m. main' = main /\ clock' = clock
      BY <2>1
    <3>a. EntryEndsFirst(w)'
      <4>1. TTL >= clock[w].left
        BY <1>n
      <4> QED BY <3>l, <3>m, <4>1 DEF EntryEndsFirst
    <3>b. EntryHeld(w)'
      BY <3>l, <3>m DEF EntryHeld
    <3>2. EntryEndsFirst(w)' /\ EntryHeld(w)'
      BY <3>a, <3>b
    <3>3. RenewAnswer(w)'
      <4>1. TTL >= FreshTTL - renew[w].age
        BY <1>n
      <4> QED BY SMTT(30), <2>1, <3>l, <3>m, <4>1 DEF RenewAnswer, Holds
    <3> QED BY <1>g, <2>3, <3>2, <3>3 DEF InTime
  <2>5. CASE ~Matches(w, main[w].epoch)
    <3>1. lease' = lease
      BY <1>12, <2>5 DEF ExecRenew, RenewedRow
    <3>2. EntryEndsFirst(w)' /\ EntryHeld(w)'
      BY <1>0, <2>1, <3>1 DEF InTime, EntryEndsFirst, EntryHeld
    <3>3. RenewAnswer(w)'
      BY <2>1, <2>5 DEF RenewAnswer
    <3> QED BY <1>g, <2>3, <3>2, <3>3 DEF InTime
  <2> QED BY <2>4, <2>5
<1>13. CASE RenewOk(w)
  <2>1. /\ clock'[w] = Confirmed(clock[w], main[w].epoch, renew[w].age, renew[w].ok)
        /\ UNCHANGED <<lease, main>> /\ renew'[w] = NoRenew /\ main[w].pc = "running"
    BY <1>13, <1>0, <1>r DEF RenewOk, TypeOK
  <2>2. ~main[w].gave => \/ renew[w].age >= FreshTTL
                         \/ Holds(w, main[w].epoch, FreshTTL - renew[w].age)
    BY <1>0, <1>13 DEF RenewOk, InTime, RenewAnswer
  <2>3. EntryEndsFirst(w)' /\ EntryHeld(w)'
    BY <1>0, <1>h, <2>1, <2>2, HeldConfirm
  <2>4. clock'[w].ext => clock'[w].left > 0 /\ ~clock'[w].lost
    BY <1>0, <2>1, ConfirmKeepsBits
  <2>5. Bits(w)' /\ RenewAnswer(w)'
    BY <1>0, <2>1, <2>4, BlankFacts DEF InTime, Bits, RenewAnswer
  <2>6. AcquireAnswer(w)' /\ ConfirmAnswer(w)'
    BY <2>1 DEF AcquireAnswer, ConfirmAnswer
  <2> QED BY <1>g, <2>3, <2>5, <2>6 DEF InTime
<1>y. ASSUME Yield(w), UNCHANGED <<lease, main>>, main[w].pc = "running"
      PROVE  InTime(w)'
  <2>1. renew'[w] = NoRenew /\ clock'[w] = Lost(clock[w], main[w].epoch)
    BY <1>y, <1>0 DEF Yield, TypeOK
  <2>2. clock'[w] = clock[w] \/ ~clock'[w].ext
    BY <1>0, <2>1, LostFacts
  <2>3. EntryEndsFirst(w)' /\ EntryHeld(w)'
    BY <1>0, <1>y, <2>2 DEF InTime, EntryEndsFirst, EntryHeld
  <2>4. Bits(w)' /\ RenewAnswer(w)'
    BY <1>0, <1>y, <2>1, <2>2, BlankFacts DEF InTime, Bits, RenewAnswer
  <2>5. AcquireAnswer(w)' /\ ConfirmAnswer(w)'
    BY <1>y DEF AcquireAnswer, ConfirmAnswer
  <2> QED BY <1>g, <2>3, <2>4, <2>5 DEF InTime
<1>14. CASE RenewLost(w)
  BY <1>14, <1>r, <1>y DEF RenewLost
<1>15. CASE RenewErr(w)
  <2>1. CASE Yield(w)
    BY <1>15, <1>r, <1>y, <2>1 DEF RenewErr
  <2>2. CASE renew' = [renew EXCEPT ![w] = NoRenew] /\ UNCHANGED <<lease, main, clock>>
    <3>1. renew'[w] = NoRenew
      BY <1>0, <2>2 DEF TypeOK
    <3>2. EntryEndsFirst(w)' /\ EntryHeld(w)' /\ AcquireAnswer(w)' /\ ConfirmAnswer(w)'
      BY <1>0, <2>2 DEF InTime, EntryEndsFirst, EntryHeld, AcquireAnswer, ConfirmAnswer, Holds
    <3>3. RenewAnswer(w)' /\ Bits(w)'
      BY <1>0, <2>2, <3>1, BlankFacts DEF InTime, RenewAnswer, Bits
    <3> QED BY <1>g, <3>2, <3>3 DEF InTime
  <2> QED BY <1>15, <2>1, <2>2 DEF RenewErr
<1>e. ASSUME LeaseHandoff(w), UNCHANGED lease
      PROVE  InTime(w)'
  <2>1. /\ main'[w].pc = "release" /\ ~main'[w].done /\ ~main'[w].ok /\ ~main'[w].gave
    BY <1>0, <1>e, <1>h, GotoFacts DEF LeaseHandoff, EndRun
  <2>2. renew'[w] = NoRenew
    BY <1>e, <1>0 DEF LeaseHandoff, EndRun, TypeOK
  <2>3. clock'[w] = clock[w] \/ clock'[w] = Lost(clock[w], main[w].epoch)
    BY <1>e, <1>0 DEF LeaseHandoff, TypeOK
  <2>4. clock'[w] = clock[w] \/ ~clock'[w].ext
    BY <1>0, <2>3, LostFacts
  <2> QED BY <1>0, <1>e, <1>h, <2>1, <2>2, <2>4, BlankFacts, IdleThread
<1>f. ASSUME UNCHANGED <<lease, main, clock, renew>>
      PROVE  InTime(w)'
  <2>1. EntryEndsFirst(w)' /\ EntryHeld(w)' /\ AcquireAnswer(w)' /\ ConfirmAnswer(w)'
    BY <1>0, <1>f DEF InTime, EntryEndsFirst, EntryHeld, AcquireAnswer, ConfirmAnswer, Holds
  <2>2. RenewAnswer(w)' /\ Bits(w)'
    BY <1>0, <1>f DEF InTime, RenewAnswer, Bits, Holds
  <2> QED BY <1>g, <2>1, <2>2 DEF InTime
<1>16. CASE FenceWrite(w)
  BY <1>16, <1>e, <1>f DEF FenceWrite
<1>17. CASE ExecUnderFence(w)
  BY <1>17, <1>e, <1>f DEF ExecUnderFence
<1>20. CASE RetryPendingReleases(w)
  <2>1. /\ main'[w].pc = main[w].pc /\ main'[w].epoch = main[w].epoch
        /\ main'[w].age = main[w].age /\ main'[w].done = main[w].done
        /\ main'[w].ok = main[w].ok
        /\ main'[w].gave = (main[w].gave \/ (/\ main[w].pc \in HeldPC
                                             /\ main[w].epoch = pending[w]
                                             /\ Matches(w, pending[w])))
        /\ UNCHANGED <<clock, renew>>
    BY <1>20, <1>0 DEF RetryPendingReleases, Thread, TypeOK
  <2>2. CASE ~Matches(w, pending[w])
    <3>0. main[w].gave \in BOOLEAN
      BY <1>0 DEF TypeOK, Threads
    <3>1a. UNCHANGED lease
      BY <1>20, <2>2 DEF RetryPendingReleases, ReleasedRow
    <3>1b. main'[w].gave = main[w].gave
      BY <2>1, <2>2, <3>0
    <3>1. UNCHANGED lease /\ main'[w].gave = main[w].gave
      BY <3>1a, <3>1b
    <3>2. EntryEndsFirst(w)' /\ EntryHeld(w)' /\ AcquireAnswer(w)' /\ ConfirmAnswer(w)'
      BY <1>0, <2>1, <3>1 DEF InTime, EntryEndsFirst, EntryHeld, AcquireAnswer, ConfirmAnswer, Holds
    <3>3. RenewAnswer(w)' /\ Bits(w)'
      BY <1>0, <2>1, <3>1 DEF InTime, RenewAnswer, Bits, Holds
    <3> QED BY <1>g, <3>2, <3>3 DEF InTime
  <2>3. CASE Matches(w, pending[w])
    <3>1. lease'.owner # w /\ lease.owner = w /\ lease.epoch = pending[w]
      BY <1>0, <1>20, <2>3 DEF RetryPendingReleases, ReleasedRow, Matches
    <3>2. EntryEndsFirst(w)' /\ AcquireAnswer(w)'
      BY <3>1 DEF EntryEndsFirst, AcquireAnswer
    <3>3. ASSUME main[w].pc \in HeldPC, ~main'[w].gave
          PROVE  main[w].epoch # lease.epoch /\ ~main[w].gave
      BY <2>1, <2>3, <3>1, <3>3
    <3>4. EntryHeld(w)'
      BY <1>0, <2>1, <3>3 DEF InTime, EntryHeld
    <3>5. ConfirmAnswer(w)'
      BY <1>0, <1>h, <2>1, <3>3 DEF InTime, ConfirmAnswer, Holds
    <3>6. RenewAnswer(w)'
      BY <1>0, <1>h, <1>r, <2>1, <3>3 DEF InTime, RenewAnswer, Holds
    <3>7. Bits(w)'
      BY <1>0, <2>1 DEF InTime, Bits
    <3> QED BY <1>g, <3>2, <3>4, <3>5, <3>6, <3>7 DEF InTime
  <2> QED BY <2>2, <2>3
<1> QED
  BY WorkerStep(w), <1>1, <1>2, <1>3, <1>4, <1>5, <1>6, <1>7, <1>8, <1>9, <1>10, <1>11,
     <1>12, <1>13, <1>14, <1>15, <1>16, <1>17, <1>18, <1>19, <1>20, <1>21, <1>22
     DEF WorkerStep

\* Time takes the same from an entry, from the row and from the room an answer
\* still has.
LEMMA TickKeepsTime ==
  ASSUME TimeInv, Tick, NEW w \in Worker
  PROVE  InTime(w)'
<1>0. /\ InTime(w) /\ FreshTTL \in Nat
      /\ main[w].age \in 0..FreshTTL /\ renew[w].age \in 0..FreshTTL
      /\ clock[w].left \in Nat /\ lease.left \in Nat
      /\ clock[w].ext \in BOOLEAN
  BY FreshTTLBound, ConstantsAssumption DEF TimeInv, TypeOK, Threads, Entries, Calls, Rows
<1>n. /\ FreshTTL \in Nat /\ lease.left \in Nat /\ clock[w].left \in Nat
      /\ main[w].age \in Nat /\ main[w].age <= FreshTTL
      /\ renew[w].age \in Nat /\ renew[w].age <= FreshTTL
  BY SMTT(30), <1>0
<1>1. /\ lease'.owner = lease.owner /\ lease'.epoch = lease.epoch
      /\ lease'.left = Dec(lease.left)
  BY DEF Tick
<1>2. /\ clock'[w].epoch = clock[w].epoch /\ clock'[w].left = Dec(clock[w].left)
      /\ clock'[w].lost = clock[w].lost
      /\ clock'[w].ext = (clock[w].ext /\ Dec(clock[w].left) > 0)
  BY DEF Tick, Entry
<1>3. /\ main'[w].pc = main[w].pc /\ main'[w].epoch = main[w].epoch
      /\ main'[w].done = main[w].done /\ main'[w].ok = main[w].ok
      /\ main'[w].gave = main[w].gave
      /\ main[w].pc \in {"acquire", "confirm"} => main'[w].age = Inc(main[w].age, FreshTTL)
  BY DEF Tick, Aged, Thread
<1>4. /\ renew'[w].on = renew[w].on /\ renew'[w].done = renew[w].done
      /\ renew'[w].ok = renew[w].ok
      /\ renew[w].on => renew'[w].age = Inc(renew[w].age, FreshTTL)
  BY DEF Tick, Call
<1>5. EntryEndsFirst(w)'
  <2> SUFFICES ASSUME clock'[w].ext, lease.owner = w, lease.epoch = clock[w].epoch
               PROVE  Dec(lease.left) >= Dec(clock[w].left)
    BY <1>1, <1>2 DEF EntryEndsFirst
  <2>1. clock[w].ext
    BY <1>2
  <2>2. lease.left >= clock[w].left
    BY <1>0, <2>1 DEF InTime, EntryEndsFirst
  <2> QED BY <1>n, <2>2 DEF Dec
<1>6. EntryHeld(w)'
  BY <1>0, <1>1, <1>2, <1>3 DEF InTime, EntryHeld
<1>7. AcquireAnswer(w)'
  <2> SUFFICES ASSUME main[w].pc = "acquire", main[w].done, main[w].ok, lease.owner = w
               PROVE  Dec(lease.left) + Inc(main[w].age, FreshTTL) >= FreshTTL
    BY <1>1, <1>3 DEF AcquireAnswer
  <2>1. lease.left + main[w].age >= FreshTTL
    BY <1>0 DEF InTime, AcquireAnswer
  <2> QED BY <1>n, <2>1 DEF Dec, Inc
<1>8. ConfirmAnswer(w)'
  <2> SUFFICES ASSUME main[w].pc = "confirm", main[w].done, main[w].ok, ~main[w].gave,
                      ~(Inc(main[w].age, FreshTTL) >= FreshTTL)
               PROVE  /\ lease.owner = w /\ lease.epoch = main[w].epoch
                      /\ Dec(lease.left) >= FreshTTL - Inc(main[w].age, FreshTTL)
    BY <1>1, <1>3 DEF ConfirmAnswer, Holds
  <2>1. main[w].age < FreshTTL
    BY <1>n DEF Inc
  <2>2. lease.owner = w /\ lease.epoch = main[w].epoch /\ lease.left >= FreshTTL - main[w].age
    <3>1. ConfirmAnswer(w) /\ ~(main[w].age >= FreshTTL)
      BY SMTT(30), <1>0, <1>n, <2>1 DEF InTime
    <3> QED BY <3>1 DEF ConfirmAnswer, Holds
  <2> QED BY SMTT(30), <1>n, <2>1, <2>2 DEF Dec, Inc
<1>9. RenewAnswer(w)'
  <2> SUFFICES ASSUME renew[w].on, renew[w].done, renew[w].ok, ~main[w].gave,
                      ~(Inc(renew[w].age, FreshTTL) >= FreshTTL)
               PROVE  /\ lease.owner = w /\ lease.epoch = main[w].epoch
                      /\ Dec(lease.left) >= FreshTTL - Inc(renew[w].age, FreshTTL)
    BY <1>1, <1>3, <1>4 DEF RenewAnswer, Holds
  <2>1. renew[w].age < FreshTTL
    BY <1>n DEF Inc
  <2>2. lease.owner = w /\ lease.epoch = main[w].epoch /\ lease.left >= FreshTTL - renew[w].age
    <3>1. RenewAnswer(w) /\ ~(renew[w].age >= FreshTTL)
      BY SMTT(30), <1>0, <1>n, <2>1 DEF InTime
    <3> QED BY <3>1 DEF RenewAnswer, Holds
  <2> QED BY SMTT(30), <1>n, <2>1, <2>2 DEF Dec, Inc
<1>10. GaveGone(w)'
  BY <1>0, <1>1, <1>3 DEF InTime, GaveGone
<1>11. Bits(w)'
  BY <1>0, <1>2, <1>3, <1>4 DEF InTime, Bits
<1> QED BY <1>5, <1>6, <1>7, <1>8, <1>9, <1>10, <1>11 DEF InTime

\* Releasing a settled epoch takes the row from the worker that uses it, and
\* marks that worker's thread.
LEMMA ReleaseSettledKeepsTime ==
  ASSUME TimeInv, ReleaseSettled, NEW w \in Worker
  PROVE  InTime(w)'
<1>0. /\ InTime(w) /\ TypeOK /\ main[w].gave \in BOOLEAN /\ w # None
      /\ lease.epoch \in Nat /\ main[w].epoch \in Nat
  BY ConstantsAssumption DEF TimeInv, TypeOK, Threads, Rows, Epoch
<1>1. /\ main'[w].pc = main[w].pc /\ main'[w].epoch = main[w].epoch
      /\ main'[w].age = main[w].age /\ main'[w].done = main[w].done /\ main'[w].ok = main[w].ok
      /\ main'[w].gave = (\/ main[w].gave
                          \/ main[w].pc \in HeldPC /\ main[w].epoch = settle /\ Matches(w, settle))
  BY DEF ReleaseSettled, Thread
<1>2. clock' = clock /\ renew' = renew /\ settle # 0 /\ lease' = ReleasedRow(lease.owner, settle)
  BY DEF ReleaseSettled
<1>3. CASE lease.epoch = settle /\ settle > 0
  <2>1. lease'.owner = None /\ lease'.epoch = settle
    BY <1>2, <1>3 DEF ReleasedRow, Matches
  <2>2. lease.owner = w => Matches(w, settle)
    BY <1>3 DEF Matches
  <2>3. EntryEndsFirst(w)' /\ AcquireAnswer(w)'
    BY <1>0, <2>1 DEF EntryEndsFirst, AcquireAnswer
  <2>4. EntryHeld(w)'
    BY <1>0, <1>1, <1>2, <1>3, <2>2 DEF InTime, EntryHeld
  <2>5. ConfirmAnswer(w)'
    BY <1>0, <1>1, <1>3, <2>2 DEF InTime, ConfirmAnswer, Holds, HeldPC
  <2>6. RenewAnswer(w)'
    BY <1>0, <1>1, <1>2, <1>3, <2>2 DEF InTime, RenewAnswer, Bits, Holds, HeldPC
  <2>7. GaveGone(w)'
    <3> SUFFICES ASSUME main'[w].gave
                 PROVE  main[w].epoch <= settle
      BY <1>0, <1>1, <2>1 DEF GaveGone
    <3>1. main[w].gave => main[w].epoch <= lease.epoch
      BY <1>0 DEF InTime, GaveGone
    <3>2. main[w].gave \/ main[w].epoch = settle
      BY <1>1
    <3> QED BY <1>0, <1>3, <3>1, <3>2
  <2>8. Bits(w)'
    BY <1>0, <1>1, <1>2 DEF InTime, Bits
  <2> QED BY <2>3, <2>4, <2>5, <2>6, <2>7, <2>8 DEF InTime
<1>4. CASE ~(lease.epoch = settle /\ settle > 0)
  <2>1. lease' = lease /\ ~Matches(w, settle)
    BY <1>2, <1>4 DEF ReleasedRow, Matches
  <2>2. main'[w].gave = main[w].gave
    BY <1>0, <1>1, <2>1
  <2>3. EntryEndsFirst(w)' /\ EntryHeld(w)' /\ AcquireAnswer(w)'
    BY <1>0, <1>1, <1>2, <2>1, <2>2 DEF InTime, EntryEndsFirst, EntryHeld, AcquireAnswer
  <2>4. ConfirmAnswer(w)' /\ RenewAnswer(w)'
    BY <1>0, <1>1, <1>2, <2>1, <2>2 DEF InTime, ConfirmAnswer, RenewAnswer, Holds
  <2>5. GaveGone(w)' /\ Bits(w)'
    BY <1>0, <1>1, <1>2, <2>1, <2>2 DEF InTime, GaveGone, Bits
  <2> QED BY <2>3, <2>4, <2>5 DEF InTime
<1> QED BY <1>3, <1>4

\* A step that leaves the row, the entries, the threads and the renew calls.
LEMMA StutterKeepsTime ==
  ASSUME TimeInv, UNCHANGED <<lease, clock, main, renew>>, NEW w \in Worker
  PROVE  InTime(w)'
<1>1. InTime(w)
  BY DEF TimeInv
<1> QED BY ZenonT(30), <1>1 DEF InTime, EntryEndsFirst, EntryHeld, AcquireAnswer, ConfirmAnswer,
           RenewAnswer, Holds, GaveGone, Bits

\* TimeInv holds initially.
LEMMA TimeInvInit == Init => TimeInv
<1> SUFFICES ASSUME Init, NEW w \in Worker
             PROVE  InTime(w)
  BY TypeInit DEF TimeInv
<1>1. main[w] = Idle /\ clock[w] = NoEntry /\ renew[w] = NoRenew
  BY DEF Init
<1>2. /\ main[w].pc = "idle" /\ ~main[w].done /\ ~main[w].ok /\ ~main[w].gave
      /\ ~clock[w].ext /\ ~renew[w].on
  BY <1>1, BlankFacts
<1> QED BY <1>2 DEF InTime, EntryEndsFirst, EntryHeld, AcquireAnswer, ConfirmAnswer,
           RenewAnswer, GaveGone, Bits

\* Every step keeps TimeInv.
LEMMA TimeInvStep == TimeInv /\ [Next]_vars => TimeInv'
<1> SUFFICES ASSUME TimeInv, [Next]_vars
             PROVE  TimeInv'
  OBVIOUS
<1>1. TypeOK'
  BY TypeStep DEF TimeInv
<1>2. ASSUME NEW v \in Worker
      PROVE  InTime(v)'
  <2>1. CASE UNCHANGED vars
    BY <2>1, StutterKeepsTime DEF vars
  <2>2. CASE Tick
    BY <2>2, TickKeepsTime
  <2>3. ASSUME NEW w \in Worker, WorkerStep(w)
        PROVE  InTime(v)'
    <3>1. CASE v = w
      BY <1>1, <2>3, <3>1, ActorKeepsTime
    <3>2. CASE v # w
      BY <1>1, <2>3, <3>2, OthersKeepTime
    <3> QED BY <3>1, <3>2
  <2>4. CASE SettleStop
    BY <2>4, StutterKeepsTime DEF SettleStop
  <2>5. CASE ReleaseSettled
    BY <2>5, ReleaseSettledKeepsTime
  <2> QED BY <2>1, <2>2, <2>3, <2>4, <2>5 DEF Next
<1> QED BY <1>1, <1>2 DEF TimeInv

\* A run that passes fenceWrite on an entry whose call put a full ttl on the
\* row, and whose epoch was not given back, still holds the lease.
THEOREM FreshRunHolds == Spec => []FreshRunHoldsLease
<1>1. TimeInv => FreshRunHoldsLease
  <2> SUFFICES ASSUME TimeInv, NEW w \in Worker, NEW e \in 1..MaxEpoch,
                      Runs(w, e), Fresh(w, e), clock[w].ext, ~main[w].gave
               PROVE  Verified(w, e)
    BY DEF FreshRunHoldsLease
  <2>1. main[w].pc \in HeldPC /\ main[w].epoch = e /\ clock[w].epoch = e /\ clock[w].left > 0
    BY DEF Runs, Fresh, HeldPC
  <2>2. lease.owner = w /\ lease.epoch = e
    BY <2>1 DEF TimeInv, InTime, EntryHeld
  <2>3. lease.left >= clock[w].left /\ lease.left \in Nat /\ clock[w].left \in Nat
    BY <2>1, <2>2, ConstantsAssumption, FreshTTLBound
       DEF TimeInv, InTime, EntryEndsFirst, TypeOK, Rows, Entries
  <2> QED BY <2>1, <2>2, <2>3 DEF Verified
<1> QED BY <1>1, TimeInvInit, TimeInvStep, PTL DEF Spec
=============================================================================
