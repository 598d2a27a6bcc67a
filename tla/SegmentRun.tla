------------------------------ MODULE SegmentRun ------------------------------
(***************************************************************************)
(* One task's replication run on one worker: how binlog events become       *)
(* segments, checkpoints, catalog rows and objects, and how the next run    *)
(* continues after a crash, a dropped dump, a lease handoff or a purge.     *)
(*                                                                          *)
(* Source: internal/replication (run_start, run_segment, run_events,        *)
(* run_dump, mysql_runner), internal/binlog (durable, open_tail, ledger)    *)
(* and internal/tasks/resume.go.                                            *)
(*                                                                          *)
(* A source file is a run of events: a format description, then for each    *)
(* transaction its GTID event, one row event and its commit, then a rotate  *)
(* when the file has one.  A position is the number of the event that ends  *)
(* there; position 1 stands for offset 4, the end of the magic.  A segment  *)
(* is the sequence of the end positions of the events it holds.             *)
(***************************************************************************)
EXTENDS Naturals, Sequences, FiniteSets, FiniteSetsExt, TLC

CONSTANTS TxnsIn,         \* TxnsIn[f]: transactions in source file f
          Confs,          \* the settings to consider
          MaxEpoch, MaxStarts, MaxDrops, MaxFreeze, MaxPurge, MaxTorn

VARIABLES
  disk,     \* segment name -> contents; the domain is what the directory lists
  rows,     \* catalog: <<file, epoch>> -> row
  cp,       \* the stored checkpoint, or None
  epoch,    \* the lease epoch of the run
  purged,   \* source files 1..purged are gone
  pc,       \* where the run is
  run,      \* runStart: the plan, the executed set and the 1236 fallback
  seg,      \* openSegment and the transaction framing
  dump,     \* dumpConn, or None
  ghost,    \* the open file a frozen earlier owner still holds, or None
  world     \* the settings, and the starts, drops, freezes and torn writes so far

vars == <<disk, rows, cp, epoch, purged, pc, run, seg, dump, ghost, world>>

None == [none |-> TRUE]

Rotates == world.conf.rotates       \* the files that end with a rotate event of their own
ByGTID == world.conf.gtid           \* the task starts from a GTID set, or from file/pos
Uploader == world.conf.uploader     \* an object store is configured
MidFormatPos == world.conf.format   \* end_log_pos of a mid-file format description: 0 or 2

----------------------------------------------------------------------------
(* The source's binlog. *)

File == 1..Len(TxnsIn)
Top  == 1
Epoch == 1..MaxEpoch

LastPos(f) == 2 + 3 * TxnsIn[f] + (IF f \in Rotates THEN 1 ELSE 0)
TxnsBefore(f) == FoldSet(LAMBDA g, n : n + TxnsIn[g], 0, 1..(f - 1))
Txn == 1..TxnsBefore(Len(TxnsIn) + 1)

KindAt(f, p) ==
  CASE p <= 2 -> "format"
    [] p > 2 + 3 * TxnsIn[f] -> "rotate"
    [] OTHER -> <<"gtid", "row", "commit">>[((p - 3) % 3) + 1]

TxnAt(f, p) == TxnsBefore(f) + ((p - 3) \div 3) + 1

\* The transactions of the log that end at or before a position.
TxnsUpTo(f, p) ==
  {t \in Txn : \/ t <= TxnsBefore(f)
               \/ \E q \in 3..p : q <= LastPos(f) /\ KindAt(f, q) = "commit" /\ TxnAt(f, q) = t}

\* Transaction 0 is the history before the first file; a GTID task starts from it.
StartSet == IF ByGTID THEN {0} ELSE {}

----------------------------------------------------------------------------
(* Segment files (binlog/segment.go, durable.go, open_tail.go). *)

OpenName(f, e)   == [file |-> f, kind |-> "open", epoch |-> e]
SealedName(f, e) == [file |-> f, kind |-> "sealed", epoch |-> e]
PlainName(f)     == [file |-> f, kind |-> "plain", epoch |-> 0]
Name == {OpenName(f, e) : f \in File, e \in Epoch} \cup
        {SealedName(f, e) : f \in File, e \in Epoch} \cup {PlainName(f) : f \in File}

\* torn "tail": an unfinished event ends the file.  "buried": events were
\* appended after it, and no reader gets past it.
Magic == [ev |-> <<>>, torn |-> "no"]

AppendTo(c, s) ==
  IF c.torn = "no" THEN [c EXCEPT !.ev = @ \o s] ELSE [c EXCEPT !.torn = "buried"]

segmentHasEvents(c) == c.ev # <<>> \/ c.torn # "no"
Durable(c) == \E i \in DOMAIN c.ev : c.ev[i] # 0
DurableEnd(c) == Max({i \in DOMAIN c.ev : c.ev[i] # 0})
DurablePos(c) == c.ev[DurableEnd(c)]
CutAt(c, n) == [ev |-> SubSeq(c.ev, 1, n), torn |-> "no"]
PreambleOnly(c) == c.torn = "no" /\ \A i \in DOMAIN c.ev : c.ev[i] = 0

GtidAt(f, c, i) == c.ev[i] > 2 /\ KindAt(f, c.ev[i]) = "gtid"
CommitAt(f, c, i) == c.ev[i] > 2 /\ KindAt(f, c.ev[i]) = "commit"

\* Complete transactions: a GTID event, and the commit that follows it.
CompleteTxns(f, c) ==
  {TxnAt(f, c.ev[i]) : i \in {k \in DOMAIN c.ev : CommitAt(f, c, k) /\
     \E j \in 1..(k - 1) : GtidAt(f, c, j) /\ TxnAt(f, c.ev[j]) = TxnAt(f, c.ev[k])}}

\* A transaction whose every event is in the segment.
WholeTxns(f, c) ==
  {TxnAt(f, c.ev[i]) : i \in {k \in DOMAIN c.ev : k > 2 /\ CommitAt(f, c, k) /\
     c.ev[k - 1] = c.ev[k] - 1 /\ c.ev[k - 2] = c.ev[k] - 2}}

\* The GTID event of a trailing unfinished transaction, or 0.
PendingIndex(f, c) ==
  LET open == {j \in DOMAIN c.ev : GtidAt(f, c, j) /\ \A k \in (j + 1)..Len(c.ev) : ~CommitAt(f, c, k)}
  IN IF open = {} THEN 0 ELSE Max(open)

\* ScanOpenTail.Truncate: the unfinished transaction starts exactly where the
\* event before it ended, so the file can be cut there.
Truncate(f, c) ==
  LET j == PendingIndex(f, c)
  IN j > 1 /\ c.ev[j - 1] # 0 /\ c.ev[j - 1] = c.ev[j] - 1

Damaged(c) == \E i, j \in DOMAIN c.ev : i < j /\ c.ev[j] # 0 /\ c.ev[j] < c.ev[i]

\* EventSpan: where the contiguous chain that ends at the last event starts.
SpanStart(c) ==
  LET n == DurableEnd(c)
  IN c.ev[Min({i \in 1..n : c.ev[i] # 0 /\ \A k \in (i + 1)..n : c.ev[k] = c.ev[k - 1] + 1})] - 1

----------------------------------------------------------------------------
Opens == {n \in DOMAIN disk : n.kind = "open"}
Sealeds == DOMAIN disk \ Opens
Put(fn, k, v) == (k :> v) @@ fn
Drop(fn, ks) == [k \in DOMAIN fn \ ks |-> fn[k]]

Row(state, up, path, from, to) ==
  [state |-> state, up |-> up, path |-> path, from |-> from, to |-> to]
Check(f, p, g) == [file |-> f, pos |-> p, gtids |-> g]

NoSeg == [file |-> 0, pos |-> 0, from |-> 0, open |-> FALSE, held |-> {}, unsaved |-> None,
          saved |-> FALSE, inTxn |-> FALSE, skip |-> FALSE, next |-> "none", sealed |-> None, src |-> None]
NoRun == [mode |-> "none", file |-> 0, pos |-> 0, exec |-> {}, pend |-> 0, track |-> FALSE, fallback |-> {}]

Path == OpenName(seg.file, epoch)

\* The permanent errors a run can end with; the task is FAILED and waits for
\* an operator's Start.
Refused == {"SEGMENT_NOT_ON_WORKER", "STORAGE_INCONSISTENT", "SEALED_FILE_EXISTS",
            "STREAM_REGRESSION", "BINLOG_PURGED"}

Init ==
  /\ disk = <<>> /\ rows = <<>> /\ cp = None /\ epoch = 1 /\ purged = 0
  /\ pc = "down" /\ run = NoRun /\ seg = NoSeg /\ dump = None /\ ghost = None
  /\ \E c \in Confs : world = [conf |-> c, starts |-> 0, drops |-> 0, freezes |-> 0, torn |-> 0]

----------------------------------------------------------------------------
(* Phase 1: resolveRunStart. *)

\* A new run.  The lease keeps its epoch when the same worker still holds it
\* and moves to the next one when it was released or ran out.
StartRun ==
  /\ pc \in {"down"} \cup Refused /\ world.starts < MaxStarts
  /\ \E e \in {epoch, epoch + 1} \cap Epoch :
       /\ ghost # None => e > ghost.name.epoch
       /\ epoch' = e
  /\ world' = [world EXCEPT !.starts = @ + 1]
  /\ pc' = IF Uploader THEN "enroll" ELSE "resolve"
  /\ UNCHANGED <<disk, rows, cp, purged, run, seg, dump, ghost>>

\* missingOpenRow: the OPEN row whose file was renamed to n before the sealed
\* state was written.
MissingOpenRows(n) ==
  {k \in DOMAIN rows : /\ k[1] = n.file /\ rows[k].state = "OPEN"
                       /\ n.kind = "sealed" => k[2] = n.epoch
                       /\ n.kind = "plain" => rows[k].path.kind = "open" /\ rows[k].path.epoch = k[2]
                       /\ rows[k].path \notin DOMAIN disk}

RowsOf(n) == {k \in DOMAIN rows : rows[k].path = n}

\* The catalog key enrollSealedUploads writes for the sealed file n.
EnrollKey(n) ==
  CASE RowsOf(n) # {} -> CHOOSE k \in RowsOf(n) : TRUE
    [] RowsOf(n) = {} /\ MissingOpenRows(n) # {} ->
         CHOOSE k \in MissingOpenRows(n) : \A j \in MissingOpenRows(n) : k[2] <= j[2]
    [] OTHER -> <<n.file, IF n.kind = "sealed" THEN n.epoch ELSE epoch>>

NeedsEnroll(n) ==
  /\ \A k \in RowsOf(n) : rows[k].up # "UPLOADED" /\ ~(rows[k].up = "UPLOAD_FAILED" /\ rows[k].state = "SEALED")
  /\ RowsOf(n) = {} => \A k \in MissingOpenRows(n) : rows[k].up # "UPLOADED"

\* A sealed file's row has the span of its events; from..to when it has none.
SealedRow(n, up, from, to) ==
  IF Durable(disk[n]) THEN Row("SEALED", up, n, SpanStart(disk[n]), DurablePos(disk[n]))
                      ELSE Row("SEALED", up, n, from, to)

\* One sealed file the catalog does not list as retryable is entered.
EnrollSealed ==
  /\ pc = "enroll"
  /\ \E n \in Sealeds : NeedsEnroll(n) /\ rows' = Put(rows, EnrollKey(n), SealedRow(n, "UPLOAD_FAILED", 0, 0))
  /\ UNCHANGED <<disk, cp, epoch, purged, pc, run, seg, dump, ghost, world>>

\* checkpointPastSealedRotate: a checkpoint on the rotate that ends a sealed
\* file moves to the next file.
PastSealedRotate ==
  LET n == PlainName(cp.file) c == disk[n] k == Len(c.ev)
  IN IF /\ cp # None /\ n \in DOMAIN disk /\ k > 0
        /\ c.ev[k] > 2 /\ KindAt(cp.file, c.ev[k]) = "rotate" /\ c.ev[k] = cp.pos
     THEN Check(cp.file + 1, Top, cp.gtids) ELSE cp

EnrollDone ==
  /\ pc = "enroll" /\ \A n \in Sealeds : ~NeedsEnroll(n)
  /\ cp' = IF cp = None THEN None ELSE PastSealedRotate
  /\ pc' = "resolve"
  /\ UNCHANGED <<disk, rows, epoch, purged, run, seg, dump, ghost, world>>

\* The highest open segment that has a complete event.
BestOpen(d) ==
  LET cand == {n \in DOMAIN d : n.kind = "open" /\ Durable(d[n])}
  IN IF cand = {} THEN None
     ELSE CHOOSE n \in cand : \A m \in cand : m.file < n.file \/ (m.file = n.file /\ m.epoch <= n.epoch)

SealedStored ==
  UNION {{TxnAt(n.file, disk[n].ev[i]) : i \in {k \in DOMAIN disk[n].ev : GtidAt(n.file, disk[n], k)}} : n \in Sealeds}

\* Mutant: the sealed segments are not added to the executed set.
ReconciledOpenOnly(seed, cutOK) ==
  LET b == BestOpen(disk)
      c == disk[b]
      j == PendingIndex(b.file, c)
      cut == Truncate(b.file, c) /\ cutOK
  IN IF b = None THEN [disk |-> disk, exec |-> seed, pend |-> 0, ok |-> FALSE]
     ELSE [disk |-> IF cut THEN [disk EXCEPT ![b] = CutAt(@, j - 1)] ELSE disk,
           exec |-> seed \cup CompleteTxns(b.file, c),
           pend |-> IF j # 0 /\ ~cut THEN TxnAt(b.file, c.ev[j]) ELSE 0, ok |-> TRUE]

\* Mutant: a transaction whose GTID event is on disk counts as executed.
ReconciledPartial(seed, cutOK) ==
  LET b == BestOpen(disk)
      c == disk[b]
      gtids == {TxnAt(b.file, c.ev[i]) : i \in {k \in DOMAIN c.ev : GtidAt(b.file, c, k)}}
  IN IF b = None THEN [disk |-> disk, exec |-> seed \cup SealedStored, pend |-> 0, ok |-> FALSE]
     ELSE [disk |-> disk, exec |-> seed \cup SealedStored \cup gtids, pend |-> 0, ok |-> TRUE]

\* reconcileOpenTail: read back what the tail durably holds, and cut a
\* trailing unfinished transaction when the cut succeeds.
Reconciled(seed, cutOK) ==
  LET b == BestOpen(disk)
      base == seed \cup SealedStored
      c == disk[b]
      j == PendingIndex(b.file, c)
      cut == Truncate(b.file, c) /\ cutOK
      after == base \cup CompleteTxns(b.file, c)
  IN CASE \E n \in DOMAIN disk : Damaged(disk[n]) ->
            [disk |-> disk, exec |-> seed, pend |-> 0, ok |-> FALSE]
       [] OTHER -> IF b = None THEN [disk |-> disk, exec |-> base, pend |-> 0, ok |-> base # seed]
                   ELSE [disk |-> IF cut THEN [disk EXCEPT ![b] = CutAt(@, j - 1)] ELSE disk,
                         exec |-> after,
                         pend |-> IF j # 0 /\ ~cut THEN TxnAt(b.file, c.ev[j]) ELSE 0,
                         ok |-> after # {}]

\* ResolveTakeover for a directory this worker reads: which checkpoint
\* applies, or which segment is missing.
UnreadableTail == \E k \in DOMAIN rows : rows[k].up # "UPLOADED" /\ rows[k].path \notin DOMAIN disk
AllUploaded == \A k \in DOMAIN rows : rows[k].up = "UPLOADED"
CoveringUpload ==
  /\ cp # None /\ AllUploaded
  /\ cp.pos <= Top \/ \E k \in DOMAIN rows : k[1] = cp.file /\ rows[k].to >= cp.pos
ReadablePreamble ==
  \E k \in DOMAIN rows : /\ k[1] = cp.file /\ rows[k].state = "OPEN" /\ rows[k].path \in DOMAIN disk
                         /\ rows[k].path.kind = "open" /\ PreambleOnly(disk[rows[k].path])

ResolveTakeover ==
  CASE UnreadableTail -> "missing"
    [] ~UnreadableTail /\ cp = None -> "none"
    [] OTHER -> IF CoveringUpload \/ cp.pos <= Top \/ ReadablePreamble THEN "apply" ELSE "missing"

\* The configured start: a GTID set, or the top of the first file.
ConfiguredStart ==
  [mode |-> IF ByGTID THEN "GTID" ELSE "FILE_POS", file |-> IF ByGTID THEN 0 ELSE 1, pos |-> IF ByGTID THEN 0 ELSE Top]

FilePos(f, p) == [mode |-> "FILE_POS", file |-> f, pos |-> p]

\* NextResumePosition.  Its rewind to position 4 at a later epoch never takes
\* effect: with a stored checkpoint the takeover applies it or refuses.
ResumeStart(d) ==
  LET b == BestOpen(d)
  IN CASE b # None -> FilePos(b.file, DurablePos(d[b]))
       [] b = None /\ cp = None -> ConfiguredStart
       [] OTHER -> FilePos(cp.file, cp.pos)

\* The executed set the run starts from: the stored checkpoint's, or the
\* configured one.  A file/pos task has none and tracks no GTID.
Seed == IF cp # None /\ cp.gtids # {} THEN cp.gtids ELSE StartSet
StoredSet == IF cp = None THEN {} ELSE cp.gtids

\* Either the plan of the run, with the open tail reconciled, or a refusal.
Resolve ==
  /\ pc = "resolve"
  /\ \E cutOK \in BOOLEAN :
     \E r \in {IF Seed # {} THEN Reconciled(Seed, cutOK)
               ELSE [disk |-> disk, exec |-> {}, pend |-> 0, ok |-> FALSE]} :
     \E takeover \in {IF epoch > 1 /\ BestOpen(r.disk) = None THEN ResolveTakeover ELSE "none"},
        start \in {ResumeStart(r.disk)} :
       /\ disk' = r.disk
       /\ IF takeover = "missing" \/ \E n \in DOMAIN r.disk : Damaged(r.disk[n])
          THEN /\ pc' = IF takeover = "missing" THEN "SEGMENT_NOT_ON_WORKER" ELSE "STORAGE_INCONSISTENT"
               /\ UNCHANGED <<run, seg>>
          ELSE /\ run' = [mode |-> start.mode, file |-> start.file, pos |-> start.pos,
                          exec |-> r.exec, pend |-> r.pend, track |-> Seed # {},
                          fallback |-> IF takeover = "apply" /\ StoredSet # {} THEN StoredSet
                                       ELSE IF r.ok THEN r.exec ELSE StoredSet]
               /\ seg' = [NoSeg EXCEPT !.file = start.file, !.pos = start.pos, !.from = start.pos]
               /\ pc' = IF start.file = 0 THEN "dump" ELSE "take"
  /\ UNCHANGED <<rows, cp, epoch, purged, dump, ghost, world>>

----------------------------------------------------------------------------
(* openBinlogWriterIn: the open segment of seg.file at seg.pos. *)

Goto(l) == pc' = l
DiskOnly == UNCHANGED <<rows, cp, epoch, purged, run, dump, ghost, world>>
RowsOnly == UNCHANGED <<disk, cp, epoch, purged, run, dump, ghost, world>>

EndingAt(p) == {n \in Opens : n.file = seg.file /\ Durable(disk[n]) /\ DurablePos(disk[n]) = p}
Preambles == IF \E n \in Opens : n.file = seg.file /\ Durable(disk[n]) THEN {}
             ELSE {n \in Opens : n.file = seg.file /\ PreambleOnly(disk[n])}
Newest(s) == CHOOSE n \in s : \A m \in s : m.epoch <= n.epoch

\* Mutant: an open segment of an earlier epoch is not carried over.
ContinueDurableOwnEpoch ==
  /\ pc = "take" /\ Goto("clean")
  /\ disk' = IF Path \in EndingAt(seg.pos) THEN [disk EXCEPT ![Path] = CutAt(@, DurableEnd(@))] ELSE disk
  /\ seg' = seg /\ DiskOnly

\* Mutant: this epoch's file is appended to as it is.
ContinueDurableUncut ==
  /\ pc = "take"
  /\ LET from == IF EndingAt(seg.pos) # {} THEN EndingAt(seg.pos) ELSE Preambles
     IN IF Path \in DOMAIN disk \/ from = {} THEN disk' = disk /\ seg' = seg /\ Goto("clean")
        ELSE /\ disk' = Put(disk, Path, CutAt(disk[Newest(from)], Len(disk[Newest(from)].ev)))
             /\ seg' = [seg EXCEPT !.src = Newest(from)] /\ Goto("untake")
  /\ DiskOnly

\* Mutant: the takeover cuts and renames the file, and an earlier owner's handle
\* follows it.
ContinueDurableRenames ==
  /\ pc = "take" /\ Goto("clean") /\ seg' = seg
  /\ LET from == IF EndingAt(seg.pos) # {} THEN EndingAt(seg.pos) ELSE Preambles
         n == IF Path \in from THEN Path ELSE Newest(from)
         size == IF Durable(disk[n]) THEN DurableEnd(disk[n]) ELSE Len(disk[n].ev)
     IN IF from = {} \/ (Path \in DOMAIN disk /\ n # Path) THEN UNCHANGED <<disk, ghost>>
        ELSE /\ disk' = Put(Drop(disk, {n}), Path, CutAt(disk[n], size))
             /\ ghost' = IF ghost # None /\ ghost.name = n THEN [ghost EXCEPT !.name = Path] ELSE ghost
  /\ UNCHANGED <<rows, cp, epoch, purged, run, dump, world>>

\* continueDurableOpenSegment: this epoch's file is kept, and a torn tail cut
\* when it ends at the start position; else the file of another epoch that
\* ends there, or holds no event, is copied (takeOverOpenFile: copy and rename).
ContinueDurable ==
  /\ pc = "take"
  /\ LET from == IF EndingAt(seg.pos) # {} THEN EndingAt(seg.pos) ELSE Preambles
     IN IF Path \in DOMAIN disk
        THEN /\ disk' = IF Path \in EndingAt(seg.pos) THEN [disk EXCEPT ![Path] = CutAt(@, DurableEnd(@))] ELSE disk
             /\ seg' = seg /\ Goto("clean")
        ELSE IF from = {} THEN disk' = disk /\ seg' = seg /\ Goto("clean")
        ELSE LET n == Newest(from)
                 size == IF Durable(disk[n]) THEN DurableEnd(disk[n]) ELSE Len(disk[n].ev)
             IN /\ disk' = Put(disk, Path, CutAt(disk[n], size))
                /\ seg' = [seg EXCEPT !.src = n] /\ Goto("untake")
  /\ DiskOnly

\* takeOverOpenFile removes the file it copied.
RemoveTaken ==
  /\ pc = "untake" /\ Goto("clean")
  /\ disk' = Drop(disk, {seg.src}) /\ seg' = [seg EXCEPT !.src = None]
  /\ DiskOnly

\* cleanupStaleOpenFiles: open files of every other epoch are removed.
CleanStale ==
  /\ pc = "clean" /\ Goto("create")
  /\ disk' = Drop(disk, {n \in Opens : n.epoch # epoch})
  /\ seg' = seg /\ DiskOnly

CreateOpen ==
  /\ pc = "create" /\ Goto("retire")
  /\ disk' = IF Path \in DOMAIN disk THEN disk ELSE Put(disk, Path, Magic)
  /\ seg' = [seg EXCEPT !.open = TRUE] /\ DiskOnly

\* retireOtherOpenRows.
RetireOther ==
  /\ pc = "retire" /\ Goto("enter")
  /\ rows' = Drop(rows, {k \in DOMAIN rows : k[1] = seg.file /\ k[2] # epoch /\ rows[k].state = "OPEN"})
  /\ seg' = seg /\ RowsOnly

EnterOpen ==
  /\ pc = "enter" /\ Goto("missing")
  /\ rows' = Put(rows, <<seg.file, epoch>>, Row("OPEN", "LOCAL_ONLY", Path, seg.pos, seg.pos))
  /\ seg' = seg /\ RowsOnly

\* retireMissingLocalOpenRows.
RetireMissing ==
  /\ pc = "missing"
  /\ Goto(CASE dump = None -> "dump"
            [] dump # None /\ seg.sealed # None -> "put"
            [] OTHER -> "events")
  /\ rows' = Drop(rows, {k \in DOMAIN rows : rows[k].state = "OPEN" /\ rows[k].path \notin DOMAIN disk})
  /\ seg' = [seg EXCEPT !.from = seg.pos] /\ RowsOnly

----------------------------------------------------------------------------
(* The dump (run_dump.go) and what the source sends on it. *)

FilePosDump(f, p) == [mode |-> "FILE_POS", file |-> f, at |-> p, stage |-> "rotate", has |-> {}, saw |-> FALSE, fell |-> FALSE]

\* A GTID dump starts at the last file that has no missing transaction before it.
GTIDDump(s) ==
  [mode |-> "GTID", file |-> Max({f \in File : \A t \in 1..TxnsBefore(f) : t \in s}), at |-> Top,
   stage |-> "rotate", has |-> s, saw |-> FALSE, fell |-> FALSE]

\* MySQL 1236: the source no longer has what the dump asks for.
Gone(d) == IF d.mode = "FILE_POS" THEN d.file <= purged
           ELSE \E t \in 1..TxnsBefore(purged + 1) : t \notin d.has

OpenFirstDump ==
  /\ pc = "dump" /\ Goto("events")
  /\ dump' = IF run.mode = "GTID" THEN GTIDDump(run.exec) ELSE FilePosDump(seg.file, seg.pos)
  /\ UNCHANGED <<disk, rows, cp, epoch, purged, run, seg, ghost, world>>

\* readEvent: 1236 before any event falls back to a GTID dump from the flushed
\* set, once; without one the run fails.
Purged1236 ==
  /\ pc = "events" /\ Gone(dump) /\ ~dump.saw
  /\ IF dump.mode = "FILE_POS" /\ ~dump.fell /\ run.fallback # {}
     THEN dump' = [GTIDDump(run.fallback) EXCEPT !.fell = TRUE] /\ seg' = seg /\ pc' = pc
     ELSE dump' = None /\ seg' = NoSeg /\ pc' = "BINLOG_PURGED"
  /\ UNCHANGED <<disk, rows, cp, epoch, purged, run, ghost, world>>

\* Mutant: a GTID task reconnects from its executed set.
ReconnectByGTID ==
  /\ pc = "events" /\ world.drops < MaxDrops
  /\ world' = [world EXCEPT !.drops = @ + 1]
  /\ run' = [run EXCEPT !.fallback = IF run.track THEN run.exec ELSE @]
  /\ dump' = IF run.track THEN GTIDDump(run.exec) ELSE FilePosDump(seg.file, seg.pos)
  /\ UNCHANGED <<disk, rows, cp, epoch, purged, pc, seg, ghost>>

\* reopenDurableDump: the connection dropped; the dump reopens at the flushed
\* position, or from the executed set when no segment is open.
Reconnect ==
  /\ pc = "events" /\ world.drops < MaxDrops
  /\ world' = [world EXCEPT !.drops = @ + 1]
  /\ run' = [run EXCEPT !.fallback = IF run.track THEN run.exec ELSE @,
                        !.mode = IF seg.open THEN "FILE_POS" ELSE @]
  /\ dump' = IF seg.open THEN FilePosDump(seg.file, seg.pos) ELSE GTIDDump(run.exec)
  /\ UNCHANGED <<disk, rows, cp, epoch, purged, pc, seg, ghost>>

----------------------------------------------------------------------------
(* handleEvent, handleRotate and openSegment.rotate. *)

\* The next position the dump sends in its file; one past the end when it has
\* sent the whole file.  A GTID dump leaves out the transactions it was given.
NextPos(d) ==
  Min({p \in (d.at + 1)..(LastPos(d.file) + 1) :
         \/ p > LastPos(d.file) \/ KindAt(d.file, p) \in {"format", "rotate"}
         \/ TxnAt(d.file, p) \notin d.has})

Sent(p) == [dump EXCEPT !.at = p, !.saw = TRUE]
NextFile(d) == [d EXCEPT !.file = @ + 1, !.at = Top, !.stage = "rotate", !.saw = TRUE]

\* The dump has sent this file and goes on with the next one.
EndOfFile(d) == d.stage = "event" /\ d.file < Len(TxnsIn) /\ NextPos(d) > LastPos(d.file)

Reading == pc = "events" /\ (Gone(dump) => dump.saw)
Streaming == UNCHANGED <<rows, epoch, purged, ghost>>

\* The rotate without a position (end_log_pos 0) that opens every file of a
\* dump.  It names the open file, the first file, or, when the file before
\* has no rotate of its own, the next file.
HandleFakeRotate ==
  /\ Reading /\ dump.stage = "rotate"
  /\ dump' = [dump EXCEPT !.stage = "format", !.saw = TRUE]
  /\ CASE seg.open /\ dump.file < seg.file ->
            pc' = "STREAM_REGRESSION" /\ seg' = seg
       [] seg.open /\ dump.file = seg.file ->
            pc' = pc /\ seg' = [seg EXCEPT !.skip = FALSE, !.pos = IF dump.at > @ THEN dump.at ELSE @]
       [] ~seg.open ->
            pc' = "take" /\ seg' = [seg EXCEPT !.skip = FALSE, !.file = dump.file, !.pos = dump.at]
       [] OTHER ->
            /\ pc' = IF seg.unsaved # None THEN "checkpoint" ELSE "close"
            /\ seg' = [seg EXCEPT !.skip = FALSE, !.next = "close"]
  /\ UNCHANGED <<disk, cp, run, world>> /\ Streaming

\* The format description.  One that is not past the flushed position is held
\* for a segment that has no events.
Format(d) == IF d.at = Top THEN 2 ELSE MidFormatPos
HandleFormat ==
  /\ Reading /\ dump.stage = "format" /\ Format(dump) <= seg.pos
  /\ dump' = [dump EXCEPT !.stage = "event", !.at = IF @ = Top THEN 2 ELSE @, !.saw = TRUE]
  /\ seg' = [seg EXCEPT !.held = IF ~segmentHasEvents(disk[Path]) THEN {Format(dump)} ELSE @]
  /\ UNCHANGED <<disk, cp, pc, run, world>> /\ Streaming

SkipFile ==
  /\ Reading /\ EndOfFile(dump)
  /\ dump' = NextFile(dump)
  /\ UNCHANGED <<disk, cp, pc, run, seg, world>> /\ Streaming

\* The event that arrives: its end position.
Arrives == IF dump.stage = "format" THEN 2 ELSE NextPos(dump)
AfterEvent == IF dump.stage = "format" THEN [Sent(2) EXCEPT !.stage = "event"] ELSE Sent(Arrives)
Arriving ==
  /\ Reading
  /\ \/ dump.stage = "format" /\ Format(dump) > seg.pos
     \/ dump.stage = "event" /\ NextPos(dump) <= LastPos(dump.file)

Kind == KindAt(seg.file, Arrives)
ArrivedTxn == TxnAt(seg.file, Arrives)

\* Mutant: the set's end is taken one transaction too far.
StoredOrNext == run.track /\ Kind = "gtid" /\ \E t \in run.exec : ArrivedTxn \in {t, t + 1}

\* A GTID already stored is dropped with the rest of its transaction.
Stored == run.track /\ Kind = "gtid" /\ ArrivedTxn \in run.exec
Skipping == run.track /\ Kind \in {"row", "commit"} /\ seg.skip

\* An event that is not appended: part of a stored transaction, or not past
\* the flushed position.  One behind that position ends the run.
DropEvent ==
  /\ Arriving /\ (Stored \/ Skipping \/ Arrives <= seg.pos)
  /\ seg' = [seg EXCEPT !.skip = (Stored \/ Skipping) /\ Kind # "commit"]
  /\ pc' = IF ~Stored /\ ~Skipping /\ Arrives < seg.pos THEN "STREAM_REGRESSION" ELSE pc
  /\ dump' = AfterEvent
  /\ UNCHANGED <<disk, cp, run, world>> /\ Streaming

Writes == Arriving /\ ~Stored /\ ~Skipping /\ Arrives > seg.pos
Payload == IF seg.held # {} /\ ~segmentHasEvents(disk[Path])
           THEN <<CHOOSE h \in seg.held : TRUE, Arrives>> ELSE <<Arrives>>

\* executedGTID.note and txnBoundary.observe.
Noted ==
  CASE run.track /\ Kind = "gtid" -> [run EXCEPT !.pend = ArrivedTxn]
    [] run.track /\ Kind = "commit" /\ run.pend # 0 -> [run EXCEPT !.exec = @ \cup {run.pend}, !.pend = 0]
    [] OTHER -> run
Boundary == Kind = "commit" \/ (Kind \in {"row", "format"} /\ ~seg.inTxn)
InTxn == Kind = "gtid" \/ (Kind = "row" /\ seg.inTxn)

\* persistRaw: the bytes are flushed, and at a transaction boundary the
\* checkpoint is written, or held by the batch window.
AppendEvent ==
  /\ Writes /\ Kind # "rotate"
  /\ disk' = [disk EXCEPT ![Path] = AppendTo(@, Payload)]
  /\ run' = Noted
  /\ \E window \in {FALSE, seg.saved} :
       /\ pc' = IF Boundary /\ ~window THEN "checkpoint" ELSE pc
       /\ seg' = [seg EXCEPT !.pos = Arrives, !.held = {}, !.skip = FALSE, !.inTxn = InTxn, !.next = "events",
                             !.unsaved = IF Boundary THEN Check(seg.file, Arrives, Noted.exec) ELSE @]
  /\ dump' = AfterEvent
  /\ UNCHANGED <<cp, world>> /\ Streaming

\* A rotate event of the source's own is written at once, then the file closes.
AppendRotate ==
  /\ Writes /\ Kind = "rotate"
  /\ disk' = [disk EXCEPT ![Path] = AppendTo(@, Payload)]
  /\ seg' = [seg EXCEPT !.pos = Arrives, !.held = {}, !.skip = FALSE, !.next = "close",
                        !.unsaved = Check(seg.file, Arrives, run.exec)]
  /\ pc' = "checkpoint"
  /\ dump' = NextFile(dump)
  /\ UNCHANGED <<cp, run, world>> /\ Streaming

\* onHeartbeat: an idle source; a held checkpoint is written outside a
\* transaction.
Heartbeat ==
  /\ Reading /\ dump.stage = "event" /\ ~seg.inTxn
  /\ dump.file = Len(TxnsIn) /\ NextPos(dump) > LastPos(dump.file)
  /\ pc' = IF seg.unsaved # None THEN "checkpoint" ELSE pc
  /\ seg' = [seg EXCEPT !.next = "events"]
  /\ UNCHANGED <<disk, cp, run, dump, world>> /\ Streaming

\* flushCheckpoint: the checkpoint, then the OPEN row.
FlushCheckpoint ==
  /\ pc = "checkpoint" /\ Goto("openrow")
  /\ cp' = seg.unsaved
  /\ UNCHANGED <<disk, rows, epoch, purged, run, seg, dump, ghost, world>>

FlushOpenRow ==
  /\ pc = "openrow" /\ Goto(seg.next)
  /\ rows' = Put(rows, <<seg.file, epoch>>, Row("OPEN", "LOCAL_ONLY", Path, seg.from, seg.unsaved.pos))
  /\ IF seg.next = "down" THEN seg' = NoSeg /\ dump' = None
     ELSE seg' = [seg EXCEPT !.unsaved = None, !.saved = TRUE] /\ dump' = dump
  /\ UNCHANGED <<disk, cp, epoch, purged, run, ghost, world>>

----------------------------------------------------------------------------
(* The old file is discarded, released or sealed; the next one opens. *)

\* coveredByUploadedEpoch: an uploaded segment of another epoch already
\* contains where this one would seal.
Covered ==
  LET probe == IF Durable(disk[Path]) /\ DurablePos(disk[Path]) > seg.pos THEN DurablePos(disk[Path]) ELSE seg.pos
  IN \E k \in DOMAIN rows : /\ k[1] = seg.file /\ k[2] # epoch /\ rows[k].up = "UPLOADED"
                            /\ rows[k].from < rows[k].to /\ rows[k].from <= probe /\ probe <= rows[k].to

\* sealTarget: the first seal of a source name keeps the plain name.
SealTarget ==
  IF PlainName(seg.file) \in DOMAIN disk \/ \E k \in DOMAIN rows : k[1] = seg.file /\ k[2] # epoch
  THEN SealedName(seg.file, epoch) ELSE PlainName(seg.file)

\* Mutant: whatever the file holds, it is removed.
DiscardAny ==
  /\ pc = "close" /\ Goto("advance")
  /\ disk' = Drop(disk, {Path})
  /\ seg' = [seg EXCEPT !.open = FALSE, !.held = {}, !.sealed = None]
  /\ DiskOnly

\* Magic only: the file is removed, not sealed.
DiscardEmpty ==
  /\ pc = "close" /\ ~segmentHasEvents(disk[Path]) /\ Goto("advance")
  /\ disk' = Drop(disk, {Path})
  /\ seg' = [seg EXCEPT !.open = FALSE, !.held = {}, !.sealed = None]
  /\ DiskOnly

\* releaseCoveredOpen: the row, then the file.
ReleaseCovered ==
  /\ pc = "close" /\ segmentHasEvents(disk[Path]) /\ Covered /\ Goto("uncover")
  /\ rows' = Drop(rows, {<<seg.file, epoch>>})
  /\ seg' = [seg EXCEPT !.open = FALSE, !.held = {}, !.sealed = None]
  /\ RowsOnly

RemoveCovered ==
  /\ pc = "uncover" /\ Goto("advance")
  /\ disk' = Drop(disk, {Path})
  /\ seg' = seg /\ DiskOnly

\* sealLocalFile: the rename, which never replaces a sealed file and which an
\* open handle follows, then the row.
SealRename ==
  /\ pc = "close" /\ segmentHasEvents(disk[Path]) /\ ~Covered
  /\ IF SealTarget \in DOMAIN disk
     THEN Goto("SEALED_FILE_EXISTS") /\ seg' = NoSeg /\ dump' = None /\ UNCHANGED <<disk, ghost>>
     ELSE /\ Goto("sealrow") /\ dump' = dump
          /\ ghost' = IF ghost # None /\ ghost.name = Path THEN [ghost EXCEPT !.name = SealTarget] ELSE ghost
          /\ disk' = Put(Drop(disk, {Path}), SealTarget, disk[Path])
          /\ seg' = [seg EXCEPT !.open = FALSE, !.held = {}, !.sealed = SealTarget]
  /\ UNCHANGED <<rows, cp, epoch, purged, run, world>>

\* Mutant: the row is LOCAL_ONLY until the put succeeds.
SealRowLocal ==
  /\ pc = "sealrow" /\ Goto("advance")
  /\ rows' = Put(rows, <<seg.file, epoch>>, SealedRow(seg.sealed, "LOCAL_ONLY", seg.from, seg.pos))
  /\ seg' = seg /\ RowsOnly

SealRow ==
  /\ pc = "sealrow" /\ Goto("advance")
  /\ rows' = Put(rows, <<seg.file, epoch>>,
                   SealedRow(seg.sealed, IF Uploader THEN "UPLOAD_FAILED" ELSE "LOCAL_ONLY", seg.from, seg.pos))
  /\ seg' = seg /\ RowsOnly

\* Mutant: the checkpoint names the file after the one that opens.
NextCheckpointPast ==
  /\ pc = "advance" /\ Goto("take")
  /\ cp' = Check(dump.file + 1, dump.at, run.exec)
  /\ seg' = [seg EXCEPT !.file = dump.file, !.pos = dump.at, !.unsaved = None]
  /\ UNCHANGED <<disk, rows, epoch, purged, run, dump, ghost, world>>

\* The next-file checkpoint is written before the open and the upload.
NextCheckpoint ==
  /\ pc = "advance" /\ Goto("take")
  /\ cp' = Check(dump.file, dump.at, run.exec)
  /\ seg' = [seg EXCEPT !.file = dump.file, !.pos = dump.at, !.unsaved = None]
  /\ UNCHANGED <<disk, rows, epoch, purged, run, dump, ghost, world>>

\* ApplySealedUpload after the seal; a put that fails or times out leaves the
\* row UPLOAD_FAILED and does not stop the dump.
Uploaded(k) == [rows EXCEPT ![k].up = "UPLOADED"]
UploadSealed ==
  /\ pc = "put" /\ Goto("events")
  /\ LET mine == RowsOf(seg.sealed)
     IN rows' \in {rows} \cup (IF Uploader THEN {Uploaded(k) : k \in mine} ELSE {})
  /\ seg' = [seg EXCEPT !.sealed = None] /\ RowsOnly

\* The background retry uploads a sealed UPLOAD_FAILED row whose file is here.
RetryUpload ==
  /\ Uploader
  /\ \E k \in DOMAIN rows : /\ rows[k].state = "SEALED" /\ rows[k].up = "UPLOAD_FAILED"
                            /\ rows[k].path \in DOMAIN disk
                            /\ rows' = Uploaded(k)
  /\ UNCHANGED <<disk, cp, epoch, purged, pc, run, seg, dump, ghost, world>>

----------------------------------------------------------------------------
(* How a run ends, and what the world does meanwhile. *)

Ended == seg' = NoSeg /\ dump' = None /\ run' = NoRun

\* The process dies between any two steps.  Another start follows.
Crash ==
  /\ pc \notin {"down"} \cup Refused /\ world.starts < MaxStarts
  /\ pc' = "down" /\ Ended
  /\ UNCHANGED <<disk, rows, cp, epoch, purged, ghost, world>>

\* The write of an event stops part way: power loss, or a full disk.
TornWrite ==
  /\ Writes /\ world.torn < MaxTorn /\ world.starts < MaxStarts
  /\ \E n \in 0..(Len(Payload) - 1) :
       disk' = [disk EXCEPT ![Path] = [AppendTo(@, SubSeq(Payload, 1, n)) EXCEPT !.torn = IF @ = "no" THEN "tail" ELSE @]]
  /\ world' = [world EXCEPT !.torn = @ + 1]
  /\ pc' = "down" /\ Ended
  /\ UNCHANGED <<rows, cp, epoch, purged, ghost>>

\* A cancelled or failed run: openSegment.close writes the held checkpoint.
EndRun ==
  /\ pc = "events" /\ world.starts < MaxStarts
  /\ IF seg.open /\ seg.unsaved # None
     THEN pc' = "checkpoint" /\ seg' = [seg EXCEPT !.next = "down"] /\ UNCHANGED <<run, dump>>
     ELSE pc' = "down" /\ Ended
  /\ UNCHANGED <<disk, rows, cp, epoch, purged, ghost, world>>

\* The worker freezes (SIGSTOP, a VM pause) after the fence let an append
\* through, and its lease moves to another process.
Freeze ==
  /\ Writes /\ world.freezes < MaxFreeze /\ world.starts < MaxStarts /\ epoch < MaxEpoch
  /\ ghost' = [name |-> Path, payload |-> Payload]
  /\ world' = [world EXCEPT !.freezes = @ + 1]
  /\ pc' = "down" /\ Ended
  /\ UNCHANGED <<disk, rows, cp, epoch, purged>>

\* It wakes and finishes that append, into whatever its handle still names.
Thaw ==
  /\ ghost # None /\ ghost' = None
  /\ disk' = IF ghost.name \in DOMAIN disk THEN [disk EXCEPT ![ghost.name] = AppendTo(@, ghost.payload)] ELSE disk
  /\ UNCHANGED <<rows, cp, epoch, purged, pc, run, seg, dump, world>>

\* The source purges its oldest file, which no dump is reading.
Purge ==
  /\ purged < MaxPurge /\ purged + 1 < Len(TxnsIn)
  /\ dump # None /\ dump.saw => dump.file > purged + 1
  /\ purged' = purged + 1
  /\ UNCHANGED <<disk, rows, cp, epoch, pc, run, seg, dump, ghost, world>>

Step ==
  \/ EnrollSealed \/ EnrollDone \/ Resolve
  \/ ContinueDurable \/ RemoveTaken \/ CleanStale \/ CreateOpen \/ RetireOther \/ EnterOpen \/ RetireMissing
  \/ OpenFirstDump \/ Purged1236
  \/ HandleFakeRotate \/ HandleFormat \/ SkipFile \/ DropEvent \/ AppendEvent \/ AppendRotate
  \/ Heartbeat \/ FlushCheckpoint \/ FlushOpenRow
  \/ DiscardEmpty \/ ReleaseCovered \/ RemoveCovered \/ SealRename \/ SealRow \/ NextCheckpoint \/ UploadSealed

Next == StartRun \/ Step \/ Reconnect \/ RetryUpload \/ Crash \/ TornWrite \/ EndRun \/ Freeze \/ Thaw \/ Purge

Spec == Init /\ [][Next]_vars
FairSpec == Spec /\ WF_vars(StartRun) /\ WF_vars(Step) /\ WF_vars(RetryUpload)

----------------------------------------------------------------------------
(* What the segments promise. *)

\* Every variable has its shape: segment names, catalog keys, positions and
\* GTID sets of the code's types.
TypeOK ==
  /\ DOMAIN disk \subseteq Name
  /\ \A n \in DOMAIN disk : disk[n].torn \in {"no", "tail", "buried"}
  /\ DOMAIN rows \subseteq File \X Epoch
  /\ \A k \in DOMAIN rows : rows[k].state \in {"OPEN", "SEALED"} /\ rows[k].path \in Name
  /\ cp # None => cp.file \in File /\ cp.gtids \subseteq {0} \cup Txn
  /\ epoch \in Epoch /\ purged \in 0..Len(TxnsIn)
  /\ run.exec \subseteq {0} \cup Txn
  /\ seg.file \in 0..Len(TxnsIn)

\* What a restore replays: every sealed segment, and of each source file the
\* open segment of the highest epoch.
Replayed == Sealeds \cup {n \in Opens : \A m \in Opens : m.file = n.file => m.epoch <= n.epoch}
Archived == UNION {WholeTxns(n.file, disk[n]) : n \in Replayed}

\* No earlier owner was frozen in a write, and no event lies behind a torn one.
Undisturbed == world.freezes = 0 /\ \A n \in DOMAIN disk : disk[n].torn # "buried"

\* "checkpoint advanced means the data is safely on disk" (appendAndPersist):
\* whatever crashes, handoffs, reconnects, torn writes and seals happened, every
\* transaction the stored checkpoint claims, by its position and by its GTID
\* set, is whole in a segment a restore replays.
CheckpointIsStored ==
  Undisturbed /\ cp # None
    => (cp.gtids \ {0}) \subseteq Archived /\ TxnsUpTo(cp.file, cp.pos) \subseteq Archived

\* The executed set a run compares incoming GTIDs with (and sends as its GTID
\* dump start) names only transactions whole on disk: a transaction it skips
\* or never asks for is not lost.
ExecutedIsStored == (run.exec \ {0}) \subseteq Archived

\* A task that tracks GTIDs has no transaction in two of the segments a restore
\* replays: a re-dump of a file already stored, a takeover copy or a fallback to
\* GTID never appends one a second time (SkipStored, releaseCoveredOpen,
\* cleanupStaleOpenFiles).
NoTransactionTwice ==
  ByGTID /\ Undisturbed => \A n, m \in Replayed : n # m => WholeTxns(n.file, disk[n]) \cap WholeTxns(m.file, disk[m]) = {}

\* The replayed transactions are a prefix of the source's: resuming never
\* leaves one out between two that are stored.
NoHole == \A t \in Archived : \A s \in 1..t : s \in Archived

\* A segment that holds a complete event never gets events appended behind an
\* unfinished one: continueDurableOpenSegment cuts the tail first.
TornTailIsCut == \A n \in DOMAIN disk : disk[n].torn = "buried" => ~Durable(disk[n])

\* What the run itself asks the source for never trips its own guards against
\* storing an earlier event: a reopened dump, a resume and a 1236 fallback start
\* at or past the flushed position (durableDumpStart), and no start finds a
\* segment whose positions go backwards (Ledger.Damage).
GuardsNeverTrip == pc \notin {"STREAM_REGRESSION", "STORAGE_INCONSISTENT"}

\* A sealed segment is never changed or removed by the run, by a later epoch,
\* or by a frozen earlier owner that wakes and finishes its append (#415).
SealedKept == [][\A n \in Sealeds : n \in DOMAIN disk' /\ disk'[n] = disk[n]]_vars

\* While a run streams, every sealed file on disk has a SEALED row, so the
\* upload retry sees it (resolveRunStart: "Record it as UPLOAD_FAILED first").
SealedCataloged ==
  pc = "events" => \A n \in Sealeds : \E k \in RowsOf(n) : rows[k].state = "SEALED"

\* SEGMENT_NOT_ON_WORKER ("the lease moved; the segment directory did not")
\* is raised only for a row some of whose events no file here holds.
HeldHere(k) ==
  \A p \in (rows[k].from + 1)..rows[k].to :
    \E n \in DOMAIN disk : n.file = k[1] /\ \E i \in DOMAIN disk[n].ev : disk[n].ev[i] = p
RefusalMeansMissing ==
  pc = "SEGMENT_NOT_ON_WORKER" => \E k \in DOMAIN rows : rows[k].path \notin DOMAIN disk /\ ~HeldHere(k)

\* With starts that go on and a source that stays, every transaction of the
\* source ends up in a segment, and every sealed segment the catalog lists ends
\* up uploaded, unless a start was refused and waits for an operator.
AllBackedUp ==
  <>[](pc \in Refused \/ (Archived = Txn /\ \A k \in DOMAIN rows : rows[k].state = "SEALED" => rows[k].up = "UPLOADED"))
=============================================================================
