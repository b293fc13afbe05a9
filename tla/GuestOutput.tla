----------------------------- MODULE GuestOutput -----------------------------
(***************************************************************************)
(* internal/sauron: what the gateway does with a guest event.  The         *)
(* sessions of the collector write it through observedSink to the event    *)
(* log and to the spool; the retry worker writes again what was rejected;  *)
(* hecForwarding carries the spool to Splunk.  Sessions, worker and        *)
(* forwarder are goroutines; Splunk and the event log are external.        *)
(***************************************************************************)
EXTENDS DeliverySpool, SplunkHec

CONSTANTS Sessions,    \* goroutines of the collector that write events
          BatchSize,   \* hecBatchSize
          GuestPlans   \* bounds: what is sent, the limits, the faults

VARIABLES gplan,    \* sends, keep, keepBytes, faults, kinds, cuts, kills, stops
          spool,    \* the DeliverySpool value
          out,      \* the writers: the sessions and the retry worker
          syncer,   \* the writer that holds syncMu, or None
          sink,     \* observedSink
          retry,    \* candidates of the current pass of the worker
          fwd,      \* hecForwarding
          splunk,   \* external: ids received, and those dropped as invalid
          acked,    \* ids acknowledged to their guest
          gstop     \* how far Close has come: "open", "draining", "stopping", "closed"

gvars == <<gplan, spool, out, syncer, sink, retry, fwd, splunk, acked, gstop>>

ASSUME GuestBounds == Sessions \subseteq Nat \ {0} /\ BatchSize \in Nat \ {0}

Worker == 0   \* the retry worker
None == -1
GuestWriters == Sessions \cup {Worker}
Quiet == [pc |-> "idle", rec |-> [id |-> 0, size |-> 0, bad |-> FALSE], before |-> 0, err |-> FALSE,
          gen |-> 0, cap |-> [seg |-> 0, off |-> 0, target |-> 0], keep |-> FALSE,
          owed |-> {}, version |-> 0]
NewSink == [failures |-> 0, lastErr |-> FALSE, rejected |-> {}, bytes |-> 0,
            overflow |-> FALSE, owed |-> {}]
NewForwarding(s) == [pc |-> "once", position |-> s.checkpoint, pending |-> Torn,
                     batch |-> <<>>, settled |-> 0, err |-> FALSE, confirmed |-> {}, again |-> FALSE]

GInit ==
  /\ gplan \in GuestPlans
  /\ spool = NewSpool(gplan.max)
  /\ out = [w \in GuestWriters |-> Quiet] /\ syncer = None
  /\ sink = NewSink /\ retry = <<>>
  /\ fwd = NewForwarding(spool)
  /\ splunk = [held |-> {}, dropped |-> {}] /\ acked = {} /\ gstop = "open"

\* A fault of one of the plan's kinds, paid for from its budget.
Faults == IF gplan.faults > 0 THEN gplan.kinds ELSE {}
Pay(f) == gplan' = IF f = "none" THEN gplan ELSE [gplan EXCEPT !.faults = @ - 1]
Either(kinds) == {"none"} \cup (Faults \cap kinds)
-----------------------------------------------------------------------------
(* observedSink.Write and the multi sink under it.                         *)

\* The failures counter is read, the event log is written, and spool.Append
\* works under mu.  Both sinks are tried whatever the first said.
Writing(r, f) ==
  [Quiet EXCEPT !.pc = "sync", !.rec = r, !.before = sink.failures, !.err = f = "log",
                !.owed = sink.owed]
Appended(o, r) ==
  IF r.err = "none" THEN [o EXCEPT !.gen = r.s.appended]
  ELSE [o EXCEPT !.pc = "retain", !.err = TRUE]
AppendFaults == {"log", "fsync", "create", "write", "remove"}

\* Which session writes next does not matter: the first idle one.
WriteBegins(w) ==
  /\ out[w].pc = "idle" /\ \A v \in Sessions : v < w => out[v].pc # "idle"
  /\ gstop = "open" /\ gplan.sends # <<>>
  /\ \E f \in Either(AppendFaults) :
       LET r == append(spool, Head(gplan.sends), f) IN
       /\ gplan' = [gplan EXCEPT !.sends = Tail(@), !.faults = IF f = "none" THEN @ ELSE @ - 1]
       /\ spool' = r.s
       /\ out' = [out EXCEPT ![w] = Appended(Writing(Head(gplan.sends), f), r)]
  /\ UNCHANGED <<syncer, sink, retry, fwd, splunk, acked, gstop>>

\* The end of the sinks' writes.
Wrote(o, err) ==
  [o EXCEPT !.err = @ \/ err, !.pc = IF o.err \/ err THEN "retain" ELSE "record"]

\* syncThrough takes syncMu; a record another fsync covered needs no own one.
WriteSync(w) ==
  /\ out[w].pc = "sync" /\ syncer = None
  /\ IF spool.synced < out[w].gen /\ spool.active
     THEN /\ syncer' = w
          /\ out' = [out EXCEPT ![w].pc = "fsync", ![w].cap = Covering(spool)]
     ELSE /\ out' = [out EXCEPT ![w] = Wrote(@, spool.synced < out[w].gen)]
          /\ UNCHANGED syncer
  /\ UNCHANGED <<gplan, spool, sink, retry, fwd, splunk, acked, gstop>>

WriteFsync(w) ==
  /\ out[w].pc = "fsync"
  /\ \E f \in Either({"fsync"}) :
       LET r == Synced(spool, out[w].cap, out[w].gen, f) IN
       /\ spool' = r.s /\ Pay(f)
       /\ out' = [out EXCEPT ![w] = Wrote(@, r.err # "none")]
  /\ syncer' = None
  /\ UNCHANGED <<sink, retry, fwd, splunk, acked, gstop>>

RejectedOf(s, k) == {r \in s.rejected : r.id = k}
Freed(rs) == FoldSet(LAMBDA r, n : n + (IF r.inflight THEN 0 ELSE r.bytes), 0, rs)

\* canRetain, asked before the rejected event is encoded; the worker has its copy.
Retain(w) ==
  LET old == RejectedOf(sink, out[w].rec.id) IN
  /\ out[w].pc = "retain"
  /\ out' = [out EXCEPT ![w].pc = "record",
       ![w].keep = IF w = Worker THEN TRUE
                   ELSE /\ sink.bytes - Freed(old) < gplan.keepBytes
                        /\ old # {} \/ Cardinality(sink.rejected) < gplan.keep]
  /\ UNCHANGED <<gplan, spool, syncer, sink, retry, fwd, splunk, acked, gstop>>

\* rejectLocked, after the failure has been counted.
rejectLocked(s, o) ==
  LET old == RejectedOf(s, o.rec.id)
      free == s.bytes - Freed(old)
      n == IF o.keep /\ o.rec.size <= gplan.keepBytes - free THEN o.rec.size ELSE 0
  IN  IF old = {} /\ Cardinality(s.rejected) >= gplan.keep THEN [s EXCEPT !.overflow = TRUE]
      ELSE [s EXCEPT !.overflow = @ \/ n = 0, !.bytes = free + n,
                     !.rejected = (@ \ old) \cup {[id |-> o.rec.id, version |-> s.failures, bytes |-> n,
                                                   rec |-> o.rec, inflight |-> FALSE]}]

\* Faulty variant: a write that was under way when the event was rejected clears it.
FaultyAccept(s, o) ==
  LET old == RejectedOf(s, o.rec.id)
      t == [s EXCEPT !.rejected = @ \ old, !.bytes = @ - Freed(old)]
  IN  [t EXCEPT !.lastErr = @ /\ ~(o.before = t.failures /\ t.rejected = {})]

\* acceptLocked.
acceptLocked(s, o) ==
  LET old == {r \in RejectedOf(s, o.rec.id) : r.version <= o.before}
      t == [s EXCEPT !.rejected = @ \ old, !.bytes = @ - Freed(old)]
  IN  [t EXCEPT !.lastErr = @ /\ ~(o.before = t.failures /\ t.rejected = {})]

\* recordLocked.  owed is what is still to be accepted, in an attempt that began
\* after the rejection.
recordLocked(s, o) ==
  IF o.err
  THEN [rejectLocked([s EXCEPT !.failures = @ + 1, !.lastErr = TRUE], o) EXCEPT
          !.owed = @ \cup {o.rec.id}]
  ELSE [acceptLocked(s, o) EXCEPT !.owed = @ \ (o.owed \cap {o.rec.id})]

Record(w) ==
  /\ w \in Sessions /\ out[w].pc = "record"
  /\ sink' = recordLocked(sink, out[w])
  /\ acked' = IF out[w].err THEN acked ELSE acked \cup {out[w].rec.id}
  /\ out' = [out EXCEPT ![w] = Quiet]
  /\ UNCHANGED <<gplan, spool, syncer, retry, fwd, splunk, gstop>>

\* A flush that fails is a failure of no event.
FlushFails ==
  /\ "flush" \in Faults /\ Pay("flush")
  /\ sink' = [sink EXCEPT !.failures = @ + 1, !.lastErr = TRUE]
  /\ UNCHANGED <<spool, out, syncer, retry, fwd, splunk, acked, gstop>>
-----------------------------------------------------------------------------
(* The retry worker.                                                       *)

\* retryRejected on a tick: the candidates, oldest failure first.
RetryTick ==
  LET kept == {r \in sink.rejected : r.bytes > 0} IN
  /\ retry = <<>> /\ out[Worker].pc = "idle" /\ kept # {} /\ gstop = "open"
  /\ gplan.ticks > 0 /\ gplan' = [gplan EXCEPT !.ticks = @ - 1]
  /\ retry' = SetToSortSeq({[id |-> r.id, version |-> r.version] : r \in kept},
                           LAMBDA a, b : a.version < b.version)
  /\ UNCHANGED <<spool, out, syncer, sink, fwd, splunk, acked, gstop>>

\* retryRecord: only a record that is still the one of the pass is written.
RetryBegins ==
  LET c == Head(retry)
      same == {r \in sink.rejected : r.id = c.id /\ r.version = c.version /\ ~r.inflight}
  IN  /\ retry # <<>> /\ out[Worker].pc = "idle"
      /\ retry' = Tail(retry)
      /\ IF same = {} \/ gstop # "open" THEN UNCHANGED <<gplan, spool, out, sink>>
         ELSE \E r \in same, f \in Either(AppendFaults) :
                LET a == append(spool, r.rec, f) IN
                /\ Pay(f) /\ spool' = a.s
                /\ sink' = [sink EXCEPT !.rejected = (@ \ {r}) \cup {[r EXCEPT !.inflight = TRUE]}]
                /\ out' = [out EXCEPT ![Worker] =
                             Appended([Writing(r.rec, f) EXCEPT !.version = r.version], a)]
      /\ UNCHANGED <<syncer, fwd, splunk, acked, gstop>>

\* The end of an attempt; one that was superseded only gives its bytes back.
RetryEnded(s, o) ==
  LET landed == [s EXCEPT !.rejected = {IF r.id = o.rec.id /\ r.version = o.version
                    THEN [r EXCEPT !.inflight = FALSE] ELSE r : r \in @}]
  IN  IF \E r \in s.rejected : r.id = o.rec.id /\ r.version = o.version
      THEN recordLocked(landed, o)
      ELSE [s EXCEPT !.bytes = @ - o.rec.size]

RetryEnds ==
  /\ out[Worker].pc = "record"
  /\ sink' = RetryEnded(sink, out[Worker])
  /\ out' = [out EXCEPT ![Worker] = Quiet]
  /\ UNCHANGED <<gplan, spool, syncer, retry, fwd, splunk, acked, gstop>>
-----------------------------------------------------------------------------
(* hecForwarding: the forwarder.                                           *)

\* forwardOnce reads the next batch, unless a checkpoint is pending.
ForwardRead ==
  LET batch == readBatch(spool, fwd.position, BatchSize) IN
  /\ fwd.pc = "once" /\ fwd.pending = Torn /\ ~(fwd.err /\ gstop = "stopping")
  /\ fwd' = [fwd EXCEPT !.batch = batch, !.settled = 0, !.err = FALSE,
                        !.pc = IF batch = <<>> THEN "wait" ELSE "post"]
  /\ UNCHANGED <<gplan, spool, out, syncer, sink, retry, splunk, acked, gstop>>

\* waitForRecords.
ForwardWait ==
  /\ fwd.pc = "wait" /\ spool.ready
  /\ spool' = [spool EXCEPT !.ready = FALSE] /\ fwd' = [fwd EXCEPT !.pc = "once"]
  /\ UNCHANGED <<gplan, out, syncer, sink, retry, splunk, acked, gstop>>
\* The end of run, in waitForRecords or in the backoff after a failure.
ForwardEnds ==
  /\ fwd.pc = "wait" \/ (fwd.pc = "once" /\ fwd.err)
  /\ gstop = "stopping" /\ fwd' = [fwd EXCEPT !.pc = "done"]
  /\ UNCHANGED <<gplan, spool, out, syncer, sink, retry, splunk, acked, gstop>>

Ends(q) == {q[i].end : i \in DOMAIN q}

\* client.Post with the records of q: the plan pays for a reply that is a fault.
ForwardReplies(q) ==
  Replies(q, Faults) \cup (IF gstop = "stopping" THEN {"cancelled"} ELSE {})
PayFor(q, reply) == Pay(IF reply \in {Expected(q), "cancelled"} THEN "none" ELSE reply)
Posted(q, reply) ==
  [fwd EXCEPT !.confirmed = IF Post(reply) = "ok" THEN @ \cup Ends(q) ELSE @,
              !.again = @ \/ Ends(q) \cap fwd.confirmed # {}]

\* deliverAndAdvance: n settled records are pending until their checkpoint is
\* saved.
Pending(h, n) ==
  [h EXCEPT !.settled = n, !.pc = IF n = 0 THEN "once" ELSE "save",
            !.pending = IF n = 0 THEN Torn ELSE h.batch[n].end]

\* deliver: the batch in one request.
ForwardPost ==
  /\ fwd.pc = "post"
  /\ \E reply \in ForwardReplies(fwd.batch) :
       /\ PayFor(fwd.batch, reply)
       /\ splunk' = [splunk EXCEPT !.held = @ \cup Indexed(fwd.batch, reply)]
       /\ fwd' = CASE Post(reply) = "ok" -> Pending(Posted(fwd.batch, reply), Len(fwd.batch))
                   [] Post(reply) = "invalid" -> [fwd EXCEPT !.pc = "isolate"]
                   [] Post(reply) = "error" -> [Posted(fwd.batch, reply) EXCEPT !.err = TRUE, !.pc = "once"]
  /\ UNCHANGED <<spool, out, syncer, sink, retry, acked, gstop>>

\* isolate: one record at a time, up to the first that got no verdict.
ForwardIsolate ==
  LET one == <<fwd.batch[fwd.settled + 1]>> IN
  /\ fwd.pc = "isolate"
  /\ \E reply \in ForwardReplies(one) :
       /\ PayFor(one, reply)
       /\ splunk' = [held |-> splunk.held \cup Indexed(one, reply),
                     dropped |-> IF Post(reply) = "invalid" THEN splunk.dropped \cup {one[1].rec}
                                 ELSE splunk.dropped]
       /\ fwd' = IF Post(reply) = "error"
                 THEN [Pending(Posted(one, reply), fwd.settled) EXCEPT !.err = TRUE]
                 ELSE IF fwd.settled + 1 = Len(fwd.batch)
                 THEN Pending(Posted(one, reply), Len(fwd.batch))
                 ELSE [Posted(one, reply) EXCEPT !.settled = @ + 1]
  /\ UNCHANGED <<spool, out, syncer, sink, retry, acked, gstop>>

\* advanceCheckpoint failed: the position stays pending.
Unsaved(h) == [h EXCEPT !.pc = "once", !.err = TRUE]

\* advanceCheckpoint, right after the delivery or on a later attempt.
ForwardSave ==
  /\ fwd.pc = "save" \/ (fwd.pc = "once" /\ fwd.pending # Torn /\ ~(fwd.err /\ gstop = "stopping"))
  /\ \E f \in Either({"save", "remove"}) :
       LET r == acknowledge(spool, fwd.pending, f) IN
       /\ spool' = r.s /\ Pay(f)
       /\ fwd' = IF r.err # "none" THEN Unsaved(fwd)
                 ELSE [fwd EXCEPT !.position = fwd.pending, !.pending = Torn, !.pc = "once"]
  /\ UNCHANGED <<out, syncer, sink, retry, splunk, acked, gstop>>
-----------------------------------------------------------------------------
(* Close, and the life of the process.                                     *)

CloseBegins ==
  /\ gstop = "open" /\ gplan.stops /\ gstop' = "draining"
  /\ UNCHANGED <<gplan, spool, out, syncer, sink, retry, fwd, splunk, acked>>

\* observedSink.Close, once sessions and worker have ended.
SinkCloses ==
  /\ gstop = "draining" /\ retry = <<>> /\ \A w \in GuestWriters : out[w].pc = "idle"
  /\ gstop' = "stopping"
  /\ UNCHANGED <<gplan, spool, out, syncer, sink, retry, fwd, splunk, acked>>
SpoolCloses ==
  /\ gstop = "stopping" /\ fwd.pc = "done"
  /\ gstop' = "closed" /\ spool' = Closed(spool)
  /\ UNCHANGED <<gplan, out, syncer, sink, retry, fwd, splunk, acked>>

\* The gateway is started again: after its end, or after it was killed; or the
\* machine lost power.
GReopen(s) ==
  /\ spool' = openSpool(s)
  /\ out' = [w \in GuestWriters |-> Quiet] /\ syncer' = None
  /\ sink' = NewSink /\ retry' = <<>>
  /\ fwd' = NewForwarding(spool') /\ gstop' = "open"
  /\ UNCHANGED <<splunk, acked>>
Killed ==
  /\ gplan.kills > 0 /\ gplan' = [gplan EXCEPT !.kills = @ - 1]
  /\ GReopen(spool)
PowerCut ==
  /\ gplan.cuts > 0 /\ gplan' = [gplan EXCEPT !.cuts = @ - 1]
  /\ \E s \in PowerCuts(spool) : GReopen(s)

GuestWork ==
  \/ \E w \in GuestWriters : WriteSync(w) \/ WriteFsync(w) \/ Retain(w)
  \/ \E w \in Sessions : WriteBegins(w) \/ Record(w)
  \/ RetryTick \/ RetryBegins \/ RetryEnds
  \/ ForwardRead \/ ForwardWait \/ ForwardPost \/ ForwardIsolate
  \/ ForwardSave \/ ForwardEnds
  \/ SinkCloses \/ SpoolCloses
GuestNext == GuestWork \/ FlushFails \/ CloseBegins \/ Killed \/ PowerCut
-----------------------------------------------------------------------------
\* The spool's bookkeeping is in order; bytes of rejected events are counted once,
\* also for one that was superseded while the worker was writing it again.
GuestTypeOK ==
  /\ SpoolOK(spool)
  /\ sink.bytes = FoldSet(LAMBDA r, n : n + r.bytes, 0, sink.rejected)
                  + (IF out[Worker].pc # "idle" /\ ~\E r \in sink.rejected : r.inflight
                     THEN out[Worker].rec.size ELSE 0)

Settled == splunk.held \cup {r.id : r \in splunk.dropped}

\* An event acknowledged to its guest has reached Splunk, was refused by Splunk as
\* invalid, or is in the spool behind the checkpoint, in spite of concurrent
\* appends, rotation, reclaimed segments, failed saves, kills and a power cut.
AcknowledgedKept == acked \subseteq Retained(spool) \cup Settled

\* Only an event that Splunk refused on its own account is dropped, not one that
\* shared a batch with it or came in a batch too large.
DroppedOnVerdict == \A r \in splunk.dropped : r.bad

\* An accepted event is not sent again because its checkpoint could not be saved.
NotSentAgain == ~fwd.again

\* Readiness is good only if every event that was rejected has been accepted by
\* an attempt that began after the rejection.
HealthyMeansAccepted == (~sink.lastErr /\ ~sink.overflow) => sink.owed = {}

\* Everything acknowledged reaches Splunk, unless a rotation has failed and nothing
\* was appended since; and what was rejected is accepted in the end, unless there
\* was no room to keep it or the ticks of the worker are used up.
GuestsCatchUp ==
  <>[](\/ gstop # "open"
       \/ /\ acked \subseteq Settled \/ ~spool.active
          /\ sink.owed = {} \/ sink.overflow \/ gplan.ticks = 0)

\* Close ends, with the spool closed.
OutputsClose == <>[](gstop \in {"closed", "open"})
=============================================================================
