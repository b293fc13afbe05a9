---------------------------- MODULE DeliverySpool ----------------------------
(***************************************************************************)
(* internal/sauron/spool.go: the durable queue between the gateway and     *)
(* Splunk, as operations on a value s of the struct.  GuestOutput and      *)
(* AuditOutput give it its writers, its forwarder and its crashes.         *)
(*                                                                         *)
(* A record is [id, size, bad]; a position is a segment and the number of  *)
(* its whole records before it, for the code accepts no other offset.      *)
(* What only a power cut tells apart is part of s: how much of the last    *)
(* segment is on stable storage (durable), the unlinked segments that may  *)
(* come back (gone) and the older checkpoint files that may (stale).       *)
(* f names the operation that fails: "fsync", "create", "write", "save",   *)
(* "remove" or, mostly, "none".                                            *)
(***************************************************************************)
EXTENDS Integers, Sequences, FiniteSets, FiniteSetsExt, SequencesExt

Pos(i, k) == [seg |-> i, off |-> k]
Torn == Pos(0, 0)      \* a checkpoint file that is missing or unreadable
before(p, q) == p.seg < q.seg \/ (p.seg = q.seg /\ p.off < q.off)

EndOf(seg) == Pos(seg.id, Len(seg.recs))
Active(s) == s.segs[Len(s.segs)]
Size(recs) == FoldLeft(LAMBDA n, r : n + r.size, 0, recs)
Total(s) == FoldLeft(LAMBDA n, seg : n + Size(seg.recs), 0, s.segs)
segmentSize(s) == Max({s.max \div 4, 1})

Ok(s) == [s |-> s, err |-> "none"]
Failed(s, e) == [s |-> s, err |-> e]
\* Op on what r left, unless r is a failure.
Then(r, Op(_)) ==
  CHOOSE y \in {IF x.err = "none" THEN Op(x.s) ELSE x : x \in {r}} : TRUE
-----------------------------------------------------------------------------
\* Faulty variant: the forwarder is not woken.
FaultyAdvanced(s, p) == IF before(s.committed, p) THEN [s EXCEPT !.committed = p] ELSE s

\* advanceCommittedLocked.
Advanced(s, p) ==
  IF before(s.committed, p) THEN [s EXCEPT !.committed = p, !.ready = TRUE] ELSE s

\* How many leading segments removeDeliveredSegmentsLocked deletes.
Delivered(s) ==
  Max({k \in 0 .. Len(s.segs) - 1 :
         \A j \in 1 .. k : ~before(s.checkpoint, EndOf(s.segs[j]))})

removeDelivered(s, f) ==
  LET k == Delivered(s)
  IN  IF k > 0 /\ f = "remove" THEN Failed(s, "io")
      ELSE Ok([s EXCEPT !.segs = SubSeq(@, k + 1, Len(@)),
                        !.gone = @ \cup {s.segs[j] : j \in 1 .. k}])

\* createSegmentLocked: the directory is synced, which also makes deletions last.
createSegment(s, i) ==
  [s EXCEPT !.segs = Append(@, [id |-> i, recs |-> <<>>]), !.active = TRUE,
            !.durable = 0, !.gone = {}]

\* rotateLocked.
rotate(s, f) ==
  LET t == [s EXCEPT !.active = FALSE, !.synced = s.appended,
                     !.durable = Len(Active(s).recs)]
  IN  IF s.active /\ f = "fsync" THEN Failed(s, "io")
      ELSE IF f = "create" THEN Failed(t, "io")
      ELSE Ok(Advanced(createSegment(t, Active(s).id + 1), Pos(Active(s).id + 1, 0)))

\* reclaimDeliveredLocked: a fully delivered active segment is rotated first.
reclaim(s, f) ==
  Then(IF Active(s).recs # <<>> /\ s.checkpoint = EndOf(Active(s)) THEN rotate(s, f) ELSE Ok(s),
       LAMBDA t : removeDelivered(t, f))

Fits(s, r) == r.size <= s.max - Total(s)

\* ensureCapacityLocked.
ensureCapacity(s, r, f) ==
  Then(IF r.size <= s.max /\ ~Fits(s, r) THEN reclaim(s, f) ELSE Ok(s),
       LAMBDA t : IF Fits(t, r) THEN Ok(t) ELSE Failed(t, "full"))

\* appendLocked.
Rotated(s, r, f) ==
  LET old == Active(s).recs
  IN  IF ~s.active \/ (old # <<>> /\ Size(old) + r.size > segmentSize(s))
      THEN rotate(s, f) ELSE Ok(s)
Written(s, r, f) ==
  IF f = "write" THEN Failed(s, "io")
  ELSE Ok([s EXCEPT !.segs[Len(s.segs)].recs = Append(@, r), !.appended = @ + 1])
append(s, r, f) ==
  IF s.closed THEN Failed(s, "closed")
  ELSE Then(Then(ensureCapacity(s, r, f), LAMBDA t : Rotated(t, r, f)),
            LAMBDA t : Written(t, r, f))

\* syncThrough, up to the fsync: what the fsync will have covered.
Covering(s) == [seg |-> Active(s).id, off |-> Len(Active(s).recs), target |-> s.appended]

\* Faulty variant: the record is called synced, and no fsync was made.
FaultySynced(s, c, generation, f) ==
  Ok(Advanced([s EXCEPT !.synced = Max({@, c.target})], Pos(c.seg, c.off)))

\* syncThrough after the fsync.  A rotation may have closed the file meanwhile.
Synced(s, c, generation, f) ==
  IF f = "fsync" \/ ~s.active \/ Active(s).id # c.seg
  THEN IF s.synced >= generation THEN Ok(s) ELSE Failed(s, "io")
  ELSE Ok(Advanced([s EXCEPT !.synced = Max({@, c.target}), !.durable = Max({@, c.off})],
                   Pos(c.seg, c.off)))
-----------------------------------------------------------------------------
\* readableRange, readSegment and readBatch: up to max committed records.
Readable(s, from, seg) ==
  LET lo == IF seg.id = from.seg THEN from.off ELSE IF seg.id < from.seg THEN Len(seg.recs) ELSE 0
      hi == IF seg.id = s.committed.seg THEN s.committed.off
            ELSE IF seg.id > s.committed.seg THEN 0 ELSE Len(seg.recs)
  IN  [k \in 1 .. Max({hi - lo, 0}) |-> [rec |-> seg.recs[lo + k], end |-> Pos(seg.id, lo + k)]]

readBatch(s, from, max) ==
  LET all == FlattenSeq([i \in DOMAIN s.segs |-> Readable(s, from, s.segs[i])])
  IN  SubSeq(all, 1, Min({max, Len(all)}))

\* validateCheckpointLocked.
Valid(s, p) ==
  /\ ~before(s.committed, p)
  /\ \E i \in DOMAIN s.segs : s.segs[i].id = p.seg /\ p.off <= Len(s.segs[i].recs)

\* acknowledge: the file is replaced and not synced.
acknowledge(s, p, f) ==
  IF s.closed THEN Failed(s, "closed")
  ELSE IF p = s.checkpoint THEN removeDelivered(s, f)
  ELSE IF before(p, s.checkpoint) \/ ~Valid(s, p) \/ f = "save" THEN Failed(s, "io")
  ELSE removeDelivered([s EXCEPT !.checkpoint = p, !.file = p, !.stale = @ \cup {s.file}], f)

\* Close makes everything durable.
Closed(s) ==
  [s EXCEPT !.closed = TRUE, !.active = FALSE,
            !.durable = IF s.active THEN Len(Active(s).recs) ELSE @]
-----------------------------------------------------------------------------
\* loadCheckpoint: an implausible file means the oldest record.
loadCheckpoint(s, file) ==
  LET oldest == Pos(s.segs[1].id, 0)
  IN  IF file = Torn \/ before(file, oldest) \/ ~Valid(s, file) THEN oldest ELSE file

\* openSpool on what a process found on disk; s carries the disk over.
openSpool(s) ==
  LET t == [s EXCEPT !.active = TRUE, !.closed = FALSE, !.appended = 0, !.synced = 0,
                     !.committed = EndOf(Active(s)), !.ready = FALSE]
      u == [t EXCEPT !.checkpoint = loadCheckpoint(t, s.file)]
  IN  removeDelivered(u, "none").s

\* An empty directory.
NewSpool(max) ==
  [max |-> max, segs |-> <<[id |-> 1, recs |-> <<>>]>>, active |-> TRUE, closed |-> FALSE,
   appended |-> 0, synced |-> 0, committed |-> Pos(1, 0), checkpoint |-> Pos(1, 0),
   ready |-> FALSE, durable |-> 0, file |-> Torn, stale |-> {}, gone |-> {}]

\* The disk after a power cut: the unsynced tail is lost from some record on
\* (repairSpoolTail drops a torn one), deletions and checkpoints may be undone.
PowerCuts(s) ==
  LET kept(n) == [s.segs EXCEPT ![Len(s.segs)].recs = SubSeq(@, 1, n)]
      back(g) == SetToSortSeq(g, LAMBDA a, b : a.id < b.id)
  IN  {[s EXCEPT !.segs = back(g) \o kept(n), !.durable = n,
                 !.file = c, !.stale = {}, !.gone = {}] :
         g \in SUBSET s.gone, n \in s.durable .. Len(Active(s).recs),
         c \in s.stale \cup {s.file, Torn}}
-----------------------------------------------------------------------------
\* What is still to be delivered: the records behind the checkpoint.
Retained(s) ==
  UNION {{s.segs[i].recs[k].id :
            k \in {j \in DOMAIN s.segs[i].recs : before(s.checkpoint, Pos(s.segs[i].id, j))}} :
         i \in DOMAIN s.segs}

\* The spool keeps its bookkeeping in order: size bound, increasing segments,
\* checkpoint at a boundary and behind the commit point, and nothing committed
\* or called synced that is not in a segment.
SpoolOK(s) ==
  /\ Total(s) <= s.max
  /\ \A i \in 1 .. Len(s.segs) - 1 : s.segs[i].id < s.segs[i + 1].id
  /\ ~before(s.committed, s.checkpoint) /\ ~before(EndOf(Active(s)), s.committed)
  /\ s.synced <= s.appended /\ s.durable <= Len(Active(s).recs)
=============================================================================
