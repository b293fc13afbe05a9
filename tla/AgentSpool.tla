----------------------------- MODULE AgentSpool -----------------------------
(***************************************************************************)
(* SauronAgent/internal/spool: the agent's durable log of events awaiting  *)
(* the host's acknowledgement, in segment files with a checkpoint.         *)
(*                                                                         *)
(* Spool.mu serialises the operations, so only a crash can come between    *)
(* the steps of one: an operation is a chain of steps through pc, one per  *)
(* effect on the disk, and a crash is enabled at every one of them.  Disk  *)
(* operations fail at most MaxFaults times.                                *)
(*                                                                         *)
(* A segment is a sequence of cells, all of one size: a record (its        *)
(* sequence number), or what a short write leaves: a Stub shorter than the *)
(* record header, or a Fragment whose header claims bytes that the next    *)
(* record will occupy.                                                     *)
(***************************************************************************)
EXTENDS Integers, Sequences, FiniteSets, SequencesExt, FiniteSetsExt

CONSTANTS SegmentSize, MaxSize,  \* Options, in cells
          MaxSeq,                \* bound: last number appended in any environment
          MaxFaults,             \* bound: failing disk operations
          Environments           \* what can happen; a behaviour has one of them

\* Options.SyncOnWrite, the kind and the number of crashes, the disk
\* operations that may fail, and the last number appended.
ASSUME EnvironmentsAssumption ==
  \A e \in Environments :
    /\ DOMAIN e = {"sync", "crash", "crashes", "faults", "last"}
    /\ e.crash \in {"process", "power"} /\ e.last \in 1 .. MaxSeq
ASSUME SizesAssumption == SegmentSize \in Nat \ {0} /\ MaxSize \in Nat /\ SegmentSize <= MaxSize

Stub == 0
Fragment == -1

VARIABLES env,       \* the environment of this behaviour
          files,     \* segment files on disk and Spool.segs, oldest first
          removed,   \* unlinked, but the directory not yet synced
          chk, chkDurable,  \* the checkpoint file; what of it survives power loss
          pc, arg, boot,    \* the running operation, its argument; in recover?
          w, dirty, lastSeq, ackedThrough, firstPending, ackedInFirst, ackOffset,
          dropped, droppedLow, droppedHigh,
          nextSeq,   \* the agent's sequencer, which resumes at LastSequence()+1
          faults, crashes,  \* the kinds of fault so far, number of crashes
          stored,    \* history: numbers whose record was written
          accepted,  \* history: numbers for which Append returned nil
          missing, reported, forgotten,  \* history: losses recorded; drained;
                                         \* recorded but undrained at a crash
          cut        \* history: records a power loss took

disk == <<files, removed, chk, chkDurable>>
cursor == <<ackedThrough, firstPending, ackedInFirst, ackOffset>>
loss == <<dropped, droppedLow, droppedHigh, missing>>
fate == <<reported, forgotten, cut>>
history == <<stored, accepted>>
vars == <<env, disk, pc, arg, boot, w, dirty, lastSeq, cursor, loss, nextSeq, faults,
          crashes, history, fate>>

\* Which records a walk over cells c yields: a fragment's claimed length
\* swallows the record after it (the checksum fails and the walk skips on).
Readable(c) == {i \in DOMAIN c : c[i] > 0 /\ (i = 1 \/ c[i - 1] # Fragment)}

\* walkRecords from cell `from` through cell `upto`: regions of damage that a
\* valid record follows, and the bounds taken from the records around them.
WalkStats(c, from, upto) ==
  LET seen == {i \in Readable(c) : from < i /\ i <= upto}
      marks == {i \in seen : i - 1 > from /\ i - 1 \notin seen}
      prev(i) == LET b == {j \in seen : j < i} IN IF b = {} THEN 0 ELSE c[Max(b)]
  IN  IF marks = {} THEN [skipped |-> 0, low |-> 0, high |-> 0]
      ELSE LET z == Max(marks) IN
           [skipped |-> Cardinality(marks),
            low |-> prev(Min(marks)) + 1,
            high |-> Max({c[z] - 1, prev(z) + 1})]

Records(c) == SelectSeq(c, LAMBDA x : x > 0)
count(f) == Len(Records(f.cells))
base(f) == IF count(f) = 0 THEN f.name ELSE Records(f.cells)[1]
last(f) == IF count(f) = 0 THEN 0 ELSE Last(Records(f.cells))
Bytes(fs) == MapThenSumSet(LAMBDA i : Len(fs[i].cells), DOMAIN fs)
Count(fs) == MapThenSumSet(LAMBDA i : count(fs[i]), DOMAIN fs)
Pending(fs, acked) == Max({0, Count(fs) - acked})
pending == Pending(files, ackedInFirst)
active == files[Len(files)]

\* What a reader can still get back.
Retained(fs) == UNION {{fs[i].cells[j] : j \in Readable(fs[i].cells)} : i \in DOMAIN fs}

Linked(fs) == [i \in DOMAIN fs |-> [fs[i] EXCEPT !.linked = TRUE]]
Synced(fs) == [fs EXCEPT ![Len(fs)].synced = Len(fs[Len(fs)].cells)]

Init ==
  /\ env \in Environments
  /\ files = <<>> /\ removed = <<>> /\ chk = 0 /\ chkDurable = 0
  /\ pc = "down" /\ arg = 0 /\ boot = FALSE
  /\ w = FALSE /\ dirty = FALSE /\ lastSeq = 0
  /\ ackedThrough = 0 /\ firstPending = 0 /\ ackedInFirst = 0 /\ ackOffset = 0
  /\ dropped = 0 /\ droppedLow = 0 /\ droppedHigh = 0
  /\ nextSeq = 1 /\ faults = <<>> /\ crashes = 0
  /\ stored = {} /\ accepted = {}
  /\ missing = {} /\ reported = {} /\ forgotten = {} /\ cut = {}

Fails(kind) ==
  kind \in env.faults /\ Len(faults) < MaxFaults /\ faults' = Append(faults, kind)

recordLoss(k, low, high, lost) ==
  IF k <= 0 THEN UNCHANGED loss
  ELSE /\ dropped' = dropped + k
       /\ droppedLow' = IF droppedLow = 0 \/ (low > 0 /\ low < droppedLow) THEN low ELSE droppedLow
       /\ droppedHigh' = Max({droppedHigh, high})
       /\ missing' = missing \cup lost
-----------------------------------------------------------------------------
(* Append: check, roll to a new segment if needed, write, sync, make room. *)

Append1(s) ==
  /\ pc = "idle" /\ s > lastSeq
  /\ arg' = s /\ nextSeq' = s + 1
  /\ pc' = IF ~w \/ (count(active) > 0 /\ Len(active.cells) + 1 > SegmentSize)
           THEN "roll" ELSE "write"
  /\ UNCHANGED <<disk, boot, w, dirty, lastSeq, cursor, loss, faults, crashes, history, fate>>

NewSegment(s) == [name |-> s, cells |-> <<>>, synced |-> 0, linked |-> FALSE, reported |-> 0]

\* Sync and close the old segment, create the new one; then sync the directory.
Roll ==
  /\ pc = "roll"
  /\ LET closed == IF w /\ dirty THEN Synced(files) ELSE files IN
       \/ /\ pc' = "rolled" /\ w' = TRUE /\ dirty' = FALSE
          /\ files' = Append(closed, NewSegment(arg)) /\ UNCHANGED faults
       \/ /\ w /\ dirty /\ Fails("fsync")
          /\ pc' = "idle" /\ UNCHANGED <<files, w, dirty>>
       \/ /\ Fails("create")
          /\ pc' = "idle" /\ w' = FALSE /\ dirty' = FALSE /\ files' = closed
  /\ UNCHANGED <<removed, chk, chkDurable, arg, boot, lastSeq, cursor, loss, nextSeq,
                 crashes, history, fate>>

RollSyncDir ==
  /\ pc = "rolled"
  /\ \/ /\ pc' = "write" /\ files' = Linked(files)
        /\ removed' = <<>> /\ chkDurable' = chk /\ UNCHANGED faults
     \/ /\ Fails("dirsync") /\ pc' = "idle" /\ UNCHANGED <<files, removed, chkDurable>>
  /\ UNCHANGED <<chk, arg, boot, w, dirty, lastSeq, cursor, loss, nextSeq, crashes, history, fate>>

Write ==
  /\ pc = "write" /\ pc' = "sync"
  /\ files' = [files EXCEPT ![Len(files)].cells = Append(@, arg)]
  /\ lastSeq' = arg /\ dirty' = TRUE
  /\ firstPending' = IF firstPending = 0 THEN arg ELSE firstPending
  /\ stored' = stored \cup {arg} /\ cut' = cut \ {arg}
  /\ UNCHANGED <<removed, chk, chkDurable, arg, boot, w, ackedThrough, ackedInFirst, ackOffset,
                 loss, nextSeq, faults, crashes, accepted, reported, forgotten>>

\* A short write: an error to the caller, and bytes that stay in the file.
WriteShort ==
  /\ pc = "write" /\ pc' = "idle"
  /\ \E left \in {<<>>, <<Stub>>, <<Fragment>>} :
       /\ Fails(IF left = <<Fragment>> THEN "fragment" ELSE "stub")
       /\ files' = [files EXCEPT ![Len(files)].cells = @ \o left]
  /\ firstPending' = IF pending = 0 THEN 0 ELSE firstPending
  /\ UNCHANGED <<removed, chk, chkDurable, arg, boot, w, dirty, lastSeq, ackedThrough,
                 ackedInFirst, ackOffset, loss, nextSeq, crashes, history, fate>>

\* Without SyncOnWrite the interval timer decides.
MaybeSync ==
  /\ pc = "sync"
  /\ \/ /\ pc' = "evict" /\ files' = Synced(files) /\ dirty' = FALSE /\ UNCHANGED faults
     \/ /\ ~env.sync
        /\ pc' = "evict" /\ UNCHANGED <<files, dirty, faults>>
     \/ /\ Fails("fsync")
        /\ pc' = "idle" /\ UNCHANGED <<files, dirty>>
  /\ UNCHANGED <<removed, chk, chkDurable, arg, boot, w, lastSeq, cursor, loss, nextSeq,
                 crashes, history, fate>>

\* After an error an operation returns it; Open's caller has no spool then.
Abandoned == IF boot THEN "down" ELSE "idle"

TooBig == Bytes(files) > MaxSize /\ Len(files) > 1

\* enforceMaxSize makes the newest segment durable before it evicts any.
\* Faulty variant: it relies on the configured sync policy.
FaultyEvictSync ==
  /\ pc = "evict" /\ TooBig /\ pc' = "evicting"
  /\ UNCHANGED <<disk, arg, boot, w, dirty, lastSeq, cursor, loss, nextSeq, faults,
                 crashes, history, fate>>

EvictSync ==
  /\ pc = "evict" /\ TooBig
  /\ \/ /\ pc' = "evicting" /\ UNCHANGED faults
        /\ IF w /\ dirty THEN files' = Synced(files) /\ dirty' = FALSE
                         ELSE UNCHANGED <<files, dirty>>
     \/ /\ w /\ dirty /\ Fails("fsync")
        /\ pc' = Abandoned /\ UNCHANGED <<files, dirty>>
  /\ UNCHANGED <<removed, chk, chkDurable, arg, boot, w, lastSeq, cursor, loss, nextSeq,
                 crashes, history, fate>>

\* The loss is recorded before the file is removed.
EvictOne ==
  /\ pc = "evicting" /\ TooBig
  /\ LET oldest == files[1]
         low == IF firstPending < base(oldest) THEN base(oldest) ELSE firstPending
         outstanding == {oldest.cells[j] : j \in ackOffset + 1 .. Len(oldest.cells)} \ {Stub, Fragment}
         rest == Tail(files)
     IN  /\ recordLoss(count(oldest) - ackedInFirst, low, last(oldest), outstanding)
         /\ \/ /\ pc' = "evicted" /\ UNCHANGED faults
               /\ files' = rest /\ removed' = Append(removed, oldest)
               /\ ackedInFirst' = 0 /\ ackOffset' = 0
               /\ firstPending' = IF Pending(rest, 0) = 0 THEN 0 ELSE base(rest[1])
            \/ /\ Fails("remove") /\ pc' = Abandoned
               /\ UNCHANGED <<files, removed, ackedInFirst, ackOffset, firstPending>>
  /\ UNCHANGED <<chk, chkDurable, arg, boot, w, dirty, lastSeq, ackedThrough, nextSeq,
                 crashes, history, fate>>

EvictSyncDir ==
  /\ pc = "evicted"
  /\ \/ /\ pc' = "evicting" /\ files' = Linked(files)
        /\ removed' = <<>> /\ chkDurable' = chk /\ UNCHANGED faults
     \/ /\ Fails("dirsync") /\ pc' = Abandoned /\ UNCHANGED <<files, removed, chkDurable>>
  /\ UNCHANGED <<chk, arg, boot, w, dirty, lastSeq, cursor, loss, nextSeq, crashes, history, fate>>

\* It fits: Append returns nil, or Open returns the spool and the agent
\* resumes numbering after LastSequence.
Fits ==
  /\ pc \in {"evict", "evicting"} /\ ~TooBig
  /\ pc' = "idle" /\ boot' = FALSE
  /\ accepted' = IF boot THEN accepted ELSE accepted \cup {arg}
  /\ nextSeq' = IF boot THEN lastSeq + 1 ELSE nextSeq
  /\ UNCHANGED <<disk, arg, w, dirty, lastSeq, cursor, loss, faults, crashes, stored,
                 fate>>
-----------------------------------------------------------------------------
(* Ack: checkpoint, then delete what it covers, then move the cursor.      *)

Ack(s) ==
  /\ pc = "idle" /\ lastSeq # 0
  /\ arg' = Min({s, lastSeq})
  /\ pc' = IF arg' > ackedThrough THEN "checkpoint" ELSE "drop"
  /\ UNCHANGED <<disk, boot, w, dirty, lastSeq, cursor, loss, nextSeq, faults, crashes,
                 history, fate>>

\* writeCheckpoint: a synced temporary file renamed over the old one.
WriteCheckpoint ==
  /\ pc = "checkpoint"
  /\ \/ chk' = arg /\ pc' = "renamed" /\ UNCHANGED faults
     \/ Fails("checkpoint") /\ pc' = "idle" /\ UNCHANGED chk
  /\ UNCHANGED <<files, removed, chkDurable, arg, boot, w, dirty, lastSeq, cursor, loss,
                 nextSeq, crashes, history, fate>>

CheckpointSyncDir ==
  /\ pc = "renamed"
  /\ \/ /\ pc' = "drop" /\ files' = Linked(files) /\ removed' = <<>>
        /\ chkDurable' = chk /\ ackedThrough' = arg /\ UNCHANGED faults
     \/ /\ Fails("dirsync") /\ pc' = "idle"
        /\ UNCHANGED <<files, removed, chkDurable, ackedThrough>>
  /\ UNCHANGED <<chk, arg, boot, w, dirty, lastSeq, firstPending, ackedInFirst, ackOffset,
                 loss, nextSeq, crashes, history, fate>>

\* Faulty variant: a segment whose last record is the next to be acknowledged
\* already counts as covered.
FaultyCovered == files # <<>> /\ last(files[1]) <= ackedThrough + 1

Covered == files # <<>> /\ last(files[1]) <= ackedThrough

\* dropAckedSegments, one segment; the append handle goes with the last one.
DropOne ==
  /\ pc \in {"drop", "dropped"} /\ Covered
  /\ LET only == Len(files) = 1 IN w' = (w /\ ~only) /\ dirty' = (dirty /\ ~(only /\ w))
  /\ \/ /\ pc' = "dropped" /\ UNCHANGED faults
        /\ files' = Tail(files) /\ removed' = Append(removed, files[1])
        /\ ackedInFirst' = 0 /\ ackOffset' = 0
        /\ firstPending' = IF Len(files) = 1 THEN 0 ELSE base(files[2])
     \/ /\ Fails("remove") /\ pc' = IF boot THEN "down" ELSE "cursor"
        /\ UNCHANGED <<files, removed, ackedInFirst, ackOffset, firstPending>>
  /\ UNCHANGED <<chk, chkDurable, arg, boot, lastSeq, ackedThrough, loss, nextSeq, crashes,
                 history, fate>>

DropDone ==
  /\ pc \in {"drop", "dropped"} /\ ~Covered
  /\ \/ /\ pc = "drop" /\ pc' = "cursor" /\ UNCHANGED <<files, removed, chkDurable, faults>>
     \/ /\ pc = "dropped" /\ pc' = "cursor" /\ files' = Linked(files)
        /\ removed' = <<>> /\ chkDurable' = chk /\ UNCHANGED faults
     \/ /\ pc = "dropped" /\ Fails("dirsync") /\ pc' = IF boot THEN "down" ELSE "cursor"
        /\ UNCHANGED <<files, removed, chkDurable>>
  /\ UNCHANGED <<chk, arg, boot, w, dirty, lastSeq, cursor, loss, nextSeq, crashes, history, fate>>

\* Records of file f that damage bounded by st made unreadable.
Swallowed(f, st) ==
  {f.cells[j] : j \in DOMAIN f.cells \ Readable(f.cells)} \cap (1 .. MaxSeq) \cap (st.low .. st.high)

\* reportNewDamage for several files at once: st[i] is what the walk over
\* file i found.
ReportNewDamage(st) ==
  LET new == {i \in DOMAIN st : st[i].skipped > files[i].reported}
  IN  IF new = {} THEN UNCHANGED <<files, loss>>
      ELSE /\ recordLoss(MapThenSumSet(LAMBDA i : st[i].skipped - files[i].reported, new),
                         Min({st[i].low : i \in new}), Max({st[i].high : i \in new}),
                         UNION {Swallowed(files[i], st[i]) : i \in new})
           /\ files' = [i \in DOMAIN files |->
                IF i \in new THEN [files[i] EXCEPT !.reported = st[i].skipped] ELSE files[i]]

\* Faulty variant: the first record above the checkpoint counts as acknowledged.
FaultyCursorStop(c) == {i \in Readable(c) : i > ackOffset /\ c[i] > ackedThrough + 1}

\* The records of the oldest segment that are still outstanding.
CursorStop(c) == {i \in Readable(c) : i > ackOffset /\ c[i] > ackedThrough}

\* advanceAckCursor and recount; recover then opens the newest segment.
AdvanceAckCursor ==
  /\ pc = "cursor"
  /\ pc' = IF boot THEN "evict" ELSE "idle"
  /\ w' = IF boot THEN files # <<>> ELSE w
  /\ IF files = <<>> \/ base(files[1]) > ackedThrough
     THEN /\ UNCHANGED <<files, loss>>
          /\ ackedInFirst' = 0 /\ ackOffset' = 0
          /\ firstPending' = IF pending' = 0 THEN 0 ELSE base(files[1])
     ELSE LET f == files[1]
              stop == CursorStop(f.cells)
              upto == IF stop = {} THEN Len(f.cells) ELSE Min(stop)
              covered == {i \in Readable(f.cells) : ackOffset < i /\ i <= upto} \ stop
              found == ackedInFirst + Cardinality(covered)
          IN  /\ ReportNewDamage(<<WalkStats(f.cells, ackOffset, upto)>>)
              /\ ackedInFirst' = IF stop = {} THEN Min({found, count(f)}) ELSE found
              /\ ackOffset' = Max({ackOffset} \cup covered)
              /\ firstPending' = IF pending' = 0 THEN 0
                                 ELSE IF stop = {} THEN last(f) + 1 ELSE f.cells[upto]
  /\ UNCHANGED <<removed, chk, chkDurable, arg, boot, dirty, lastSeq, ackedThrough, nextSeq,
                 faults, crashes, history, fate>>
-----------------------------------------------------------------------------
(* NextAfter, Sync, DrainDropped, Close.                                   *)

Start(i) == IF i = 1 THEN ackOffset ELSE 0

\* The cells of file i that NextAfter(t, _) would hand out.
Wanted(i, t) ==
  LET f == files[i] IN
  IF last(f) < firstPending \/ last(f) <= t THEN {}
  ELSE {j \in Readable(f.cells) : j > Start(i) /\ f.cells[j] >= firstPending /\ f.cells[j] > t}

NextAfter(t, m) ==
  LET all == UNION {{files[i].cells[j] : j \in Wanted(i, t)} : i \in DOMAIN files}
  IN  IF pending = 0 \/ t >= lastSeq THEN <<>>
      ELSE LET q == SetToSortSeq(all, <) IN SubSeq(q, 1, Min({m, Len(q)}))

\* How far the read walks file i: to the record that filled the batch.
ReadThrough(i, t, m) ==
  LET f == files[i]
      q == NextAfter(t, m)
      end == IF Len(q) = m THEN q[m] ELSE MaxSeq
      past == {j \in Wanted(i, t) : f.cells[j] >= end}
  IN  IF last(f) < firstPending \/ last(f) <= t \/ base(f) > end THEN Start(i)
      ELSE IF past = {} THEN Len(f.cells) ELSE Min(past)

\* Reading consumes nothing, but accounts for damage it is first to see.
Read(t, m) ==
  /\ pc = "idle" /\ pending > 0 /\ t < lastSeq
  /\ ReportNewDamage([i \in DOMAIN files |->
                        WalkStats(files[i].cells, Start(i), ReadThrough(i, t, m))])
  /\ UNCHANGED <<removed, chk, chkDurable, pc, arg, boot, w, dirty, lastSeq, cursor, nextSeq,
                 faults, crashes, history, fate>>

Sync ==
  /\ pc = "idle" /\ w /\ dirty
  /\ files' = Synced(files) /\ dirty' = FALSE
  /\ UNCHANGED <<removed, chk, chkDurable, pc, arg, boot, w, lastSeq, cursor, loss, nextSeq,
                 faults, crashes, history, fate>>

DrainDropped ==
  /\ pc = "idle" /\ dropped # 0
  /\ dropped' = 0 /\ droppedLow' = 0 /\ droppedHigh' = 0
  /\ reported' = reported \cup missing /\ missing' = {}
  /\ UNCHANGED <<disk, pc, arg, boot, w, dirty, lastSeq, cursor, nextSeq, faults, crashes,
                 history, forgotten, cut>>

Close ==
  /\ pc = "idle" /\ pc' = "down" /\ w' = FALSE
  /\ \/ /\ UNCHANGED faults
        /\ IF w /\ dirty THEN files' = Synced(files) /\ dirty' = FALSE
                         ELSE UNCHANGED <<files, dirty>>
     \/ w /\ dirty /\ Fails("fsync") /\ UNCHANGED <<files, dirty>>
  /\ UNCHANGED <<removed, chk, chkDurable, arg, boot, lastSeq, cursor, loss, nextSeq, crashes,
                 history, fate>>
-----------------------------------------------------------------------------
(* Open, and what can make it necessary.                                   *)

\* scanSegment: cut the file after its last valid record.
Scanned(f) ==
  LET r == Readable(f.cells)
      end == Max(r)
  IN  [f EXCEPT !.cells = [i \in 1 .. end |-> IF i \in r THEN f.cells[i] ELSE Min({f.cells[i], Stub})],
                !.synced = IF end < Len(f.cells) THEN end ELSE @,
                !.reported = WalkStats(f.cells, 0, end).skipped]

\* Gaps found by the scan start no lower than the name of the file.
ScanStats(f) ==
  LET st == WalkStats(f.cells, 0, Len(f.cells))
      low == Max({st.low, f.name})
  IN  [st EXCEPT !.low = low, !.high = Max({st.high, low})]

\* Open and recover up to the deletion of acknowledged segments: segments
\* without a valid record are removed, LastSequence is the higher of the last
\* record and the checkpoint.
Open ==
  /\ pc = "down" /\ pc' = "drop" /\ boot' = TRUE
  /\ LET usable == SelectSeq(files, LAMBDA f : Readable(f.cells) # {})
         holes == {f \in Range(usable) : ScanStats(f).skipped > 0}
         newest == IF usable = <<>> THEN 0 ELSE last(Scanned(Last(usable)))
     IN  /\ files' = [i \in DOMAIN usable |-> Scanned(usable[i])]
         /\ lastSeq' = Max({newest, chk})
         /\ dropped' = MapThenSumSet(LAMBDA f : ScanStats(f).skipped, holes)
         /\ droppedLow' = IF holes = {} THEN 0 ELSE Min({ScanStats(f).low : f \in holes})
         /\ droppedHigh' = IF holes = {} THEN 0 ELSE Max({ScanStats(f).high : f \in holes})
         /\ missing' = UNION {Swallowed(f, ScanStats(f)) : f \in holes}
  /\ forgotten' = forgotten \cup missing
  /\ ackedThrough' = chk /\ firstPending' = 0 /\ ackedInFirst' = 0 /\ ackOffset' = 0
  /\ w' = FALSE /\ dirty' = FALSE /\ arg' = 0
  /\ UNCHANGED <<removed, chk, chkDurable, nextSeq, faults, crashes, history, reported, cut>>

ProcessCrash ==
  /\ env.crash = "process" /\ crashes < env.crashes
  /\ pc # "down" /\ pc' = "down" /\ crashes' = crashes + 1
  /\ UNCHANGED <<disk, arg, boot, w, dirty, lastSeq, cursor, loss, nextSeq, faults,
                 history, fate>>

\* A power loss keeps what was synced and any part of what was not: of data,
\* a prefix; of directory changes, any.
PowerLoss ==
  /\ env.crash = "power" /\ crashes < env.crashes
  /\ pc' = "down" /\ crashes' = crashes + 1
  /\ LET all == removed \o files IN
     \E keep \in SUBSET DOMAIN all, len \in [DOMAIN all -> 0 .. SegmentSize + MaxFaults] :
       /\ \A i \in DOMAIN all :
            /\ all[i].synced <= len[i] /\ len[i] <= Len(all[i].cells)
            /\ i > Len(removed) /\ all[i].linked => i \in keep
       /\ LET left == [i \in DOMAIN all |->
                 [all[i] EXCEPT !.cells = SubSeq(@, 1, len[i]), !.synced = len[i], !.linked = TRUE]]
              order == SetToSortSeq(keep, <)
          IN  files' = [i \in DOMAIN order |-> left[order[i]]]
       /\ cut' = cut \cup (Retained(files) \ Retained(files'))
  /\ \E c \in {chk, chkDurable} : chk' = c /\ chkDurable' = c
  /\ removed' = <<>>
  /\ UNCHANGED <<arg, boot, w, dirty, lastSeq, cursor, loss, nextSeq, faults, history,
                 reported, forgotten>>

Step ==
  \/ \E s \in {nextSeq, nextSeq + 1} : s <= env.last /\ Append1(s)
  \/ Roll \/ RollSyncDir \/ Write \/ WriteShort \/ MaybeSync
  \/ EvictSync \/ EvictOne \/ EvictSyncDir \/ Fits
  \/ \E s \in 1 .. MaxSeq : Ack(s)
  \/ WriteCheckpoint \/ CheckpointSyncDir \/ DropOne \/ DropDone \/ AdvanceAckCursor
  \/ \E t \in 0 .. MaxSeq, m \in 1 .. 2 : Read(t, m)
  \/ Sync \/ DrainDropped \/ Close \/ Open \/ ProcessCrash \/ PowerLoss

Next == Step /\ UNCHANGED env

Spec == Init /\ [][Next]_vars
-----------------------------------------------------------------------------

Numbers == 1 .. MaxSeq

TypeOK ==
  /\ \A i \in DOMAIN files :
       /\ files[i].name \in Numbers /\ files[i].linked \in BOOLEAN
       /\ Range(files[i].cells) \subseteq Numbers \cup {Stub, Fragment}
       /\ files[i].synced \in 0 .. Len(files[i].cells)
  /\ \A i \in 1 .. Len(files) - 1 : files[i].name < files[i + 1].name
  /\ chk \in 0 .. MaxSeq /\ chkDurable \in 0 .. MaxSeq
  /\ pc \in {"down", "idle", "roll", "rolled", "write", "sync", "evict", "evicting",
             "evicted", "checkpoint", "renamed", "drop", "dropped", "cursor"}
  /\ w \in BOOLEAN /\ dirty \in BOOLEAN /\ boot \in BOOLEAN
  /\ lastSeq \in 0 .. MaxSeq /\ ackedThrough \in 0 .. MaxSeq
  /\ firstPending \in 0 .. MaxSeq + 1
  /\ pc = "idle" /\ files # <<>> => ackOffset <= Len(files[1].cells) /\ ackedInFirst <= count(files[1])
  /\ pc \in {"write", "sync"} => w
  /\ pc = "idle" /\ w => files # <<>>

(***************************************************************************)
(* A record that was written is still readable, or acknowledged, or has    *)
(* been recorded as lost (for DrainDropped, spool.go:544), or was taken by *)
(* a power loss before it was synced: no path through rolling, eviction,   *)
(* acknowledgement, failing disk operations or recovery drops one quietly. *)
(***************************************************************************)
NothingSilentlyLost ==
  stored \subseteq Retained(files) \cup (1 .. chk) \cup missing \cup reported
                  \cup forgotten \cup cut

(***************************************************************************)
(* LastSequence is not below any number that was ever stored, except       *)
(* numbers a power loss itself took (spool.go:511, 741): numbers of        *)
(* acknowledged, evicted or retained events are never reissued.            *)
(***************************************************************************)
LastSequenceKept ==
  pc = "idle" => \A s \in (stored \ cut) \cup {chk} : s <= lastSeq

Outstanding == {s \in Retained(files) : s > ackedThrough}

(***************************************************************************)
(* NextAfter, which starts from the cursors that Append, Ack, eviction and *)
(* recovery maintain and stops when the running count says nothing is      *)
(* pending, skips no readable unacknowledged event (spool.go:388).         *)
(***************************************************************************)
NextIsComplete ==
  pc = "idle" =>
    \A t \in 0 .. MaxSeq, m \in 1 .. 2 :
      LET q == NextAfter(t, m)
      IN  \A s \in Outstanding : s > t => s \in Range(q) \/ (Len(q) = m /\ q[m] < s)

(***************************************************************************)
(* PendingCount is the number of outstanding events, and NextAfter returns *)
(* no acknowledged one: the cursor into the oldest segment is enough,      *)
(* since "every segment after the oldest is entirely outstanding"          *)
(* (spool.go:764), unless the removal of an acknowledged segment failed.   *)
(***************************************************************************)
CursorExact ==
  pc = "idle" /\ "remove" \notin Range(faults) =>
    /\ pending = Cardinality(Outstanding)
    /\ Range(NextAfter(0, MaxSeq)) \subseteq Outstanding

(***************************************************************************)
(* The range DrainDropped would return covers every recorded loss, and the *)
(* count is not below the number of events lost (spool.go:546).            *)
(***************************************************************************)
LossRangeCovers ==
  /\ missing \subseteq droppedLow .. droppedHigh
  /\ dropped >= Cardinality(missing)

(***************************************************************************)
(* With SyncOnWrite, an event for which Append returned nil survives a     *)
(* power loss (spool.go:99).                                               *)
(***************************************************************************)
AcceptedSurvives == env.sync => accepted \cap cut = {}

(***************************************************************************)
(* Recovery truncates the torn record of a short write (spool.go:342) and  *)
(* nothing else: when Open has returned, an event for which Append had     *)
(* returned nil is still in a file, unless it was acknowledged, recorded   *)
(* as lost or taken by a power loss.                                       *)
(***************************************************************************)
AcceptedRecovered ==
  pc = "idle" =>
    accepted \subseteq UNION {Range(files[i].cells) : i \in DOMAIN files} \cup (1 .. chk)
                      \cup missing \cup reported \cup forgotten \cup cut

(* Spool: what Append stored is there, acknowledged or known as lost, and    *)
(* the loss that DrainDropped will report covers it.                         *)
LossesCovered == NothingSilentlyLost /\ LossRangeCovers

(* Spool: between operations the fields in memory describe the files, so     *)
(* that NextAfter serves what is outstanding, all of it and nothing else.    *)
SpoolSound == TypeOK /\ CursorExact /\ NextIsComplete

(* Open after a crash: no number is issued again, and with SyncOnWrite no    *)
(* record is lost that Append accepted.                                      *)
SurvivesCrash == LastSequenceKept /\ AcceptedSurvives
=============================================================================
