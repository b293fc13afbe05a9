---------------------------- MODULE AgentDelivery ----------------------------
(***************************************************************************)
(* SauronAgent/internal/agent: from the event that is numbered to the      *)
(* acknowledgement that releases it.  The collection stages, the loss      *)
(* poller, the pump, the send loop and the receive loop of a session run   *)
(* as their own goroutines.  The other end is host/session.go, reduced to  *)
(* one stream: HostStream has its locks, gap reports and evictions.  What  *)
(* a connection carried when it ended may still be processed by its        *)
(* session of the host, next to the one that replaced it.                  *)
(*                                                                         *)
(* An event is its number, the run of the agent that numbered it and its   *)
(* kind.  The queue and the spool are the sequences EventQueue and         *)
(* AgentSpool implement; accounting of losses is a set of numbers.         *)
(***************************************************************************)
EXTENDS Integers, Sequences, FiniteSets, FiniteSetsExt, SequencesExt

CONSTANTS MaxUnacked,  \* transport.max_unacked
          Plans        \* bounds: configuration and course of a behaviour

ASSUME DeliveryBounds == MaxUnacked \in Nat \ {0}

VARIABLES plan,   \* capacities, and what may still happen: see MCAgentDelivery
          pipe,   \* the numbered stream: queue, next number, loss accounting
          backlog,
          pump, poll, snd, rcv,  \* the goroutines
          mark,   \* the sender's atomics and its oversized set
          link,   \* the connection
          host,   \* the collector: what it received, refused, holds, and has of older sessions
          run     \* the agent's run: context, collection, and where the numbering was lost

vars == <<plan, pipe, backlog, pump, poll, snd, rcv, mark, link, host, run>>

Numbers(q) == {q[i].n : i \in DOMAIN q}
Above(q, k) == SelectSeq(q, LAMBDA e : e.n > k)
TooLarge(e) == e.kind \in {"big", "bignote"}
Max2(a, b) == IF a > b THEN a ELSE b

\* Agent.submit: number the event and Put it.  A closed stream counts and logs
\* it, a full queue drops and counts the oldest.
Submitted(p, kind) ==
  LET e == [n |-> p.next, run |-> p.id, kind |-> kind]
      q == [p EXCEPT !.next = @ + 1, !.issued = @ \cup {<<e.run, e.n>>}]
  IN  IF p.closed THEN [q EXCEPT !.missing = @ \cup {e.n}, !.told = @ \cup {e.n}]
      ELSE IF Len(p.queue) < plan.queue THEN [q EXCEPT !.queue = Append(@, e)]
      ELSE [q EXCEPT !.queue = Append(Tail(@), e), !.missing = @ \cup {Head(p.queue).n}]

\* The stream of agent run i, which numbers from above what its backlog holds and
\* starts with agent.started.
NewPipe(i, last, carried) ==
  Submitted([id |-> i, queue |-> <<>>, closed |-> FALSE, next |-> last + 1, missing |-> {},
   issued |-> carried, told |-> {}], "plain")
NewSender == [pc |-> "dial", inflight |-> <<>>, sent |-> 0, batch |-> <<>>, acked |-> 0,
              flushing |-> FALSE, clean |-> FALSE, fault |-> "none",
              attempts |-> 0, misbehaved |-> FALSE, streak |-> 0]
NewMark == [acked |-> 0, sent |-> 0, ahead |-> 0, oversized |-> {}, pruned |-> 0, noted |-> <<>>]
NewBacklog == [events |-> <<>>, last |-> 0, slots |-> 0, discarded |-> {}, failed |-> {}]
NoLink == [up |-> FALSE, toHost |-> <<>>, toAgent |-> <<>>, point |-> 0, acked |-> 0,
           last |-> 0, again |-> FALSE]
NewRun == [cancelled |-> FALSE, collected |-> FALSE, lost |-> 0, first |-> 1]
NewHost == [top |-> 0, refused |-> {}, held |-> {}, older |-> {}]

Init ==
  /\ plan \in Plans
  /\ pipe = NewPipe(1, 0, {}) /\ backlog = NewBacklog
  /\ pump = "reserve"
  /\ poll = [pc |-> "idle", left |-> <<>>, hand |-> {}]
  /\ snd = NewSender /\ rcv = [pc |-> "read", seq |-> 0] /\ mark = NewMark
  /\ link = NoLink
  /\ host = NewHost
  /\ run = NewRun
-----------------------------------------------------------------------------
(* The host collector.                                                     *)

\* dedup.ResumeFrom: everything up to the position was written or reported
\* missing; what a sink refused stays above it.
Through(h) == IF h.refused = {} THEN h.top ELSE Min(h.refused) - 1

\* Frames of older sessions.  One at or below the position is a duplicate there.
Tidy(h) == [h EXCEPT !.older = {Above(q, Through(h)) : q \in @} \ {<<>>}]

\* A connection ends: its session of the host still has what was sent.
Orphaned(h) == Tidy([h EXCEPT !.older = @ \cup {link.toHost}])

\* dedup.CheckReplay: below first nothing can be sent again, so it is reported
\* missing.  A stream nothing has arrived on has nothing to miss.
CheckReplay(h, first) ==
  IF h.top = 0 THEN h
  ELSE Tidy([h EXCEPT !.top = Max2(@, first - 1), !.refused = {k \in @ : k >= first}])

\* handleEvent: a duplicate changes nothing, the sink takes the event or not.
Duplicate(h, n) == n <= Through(h) \/ \E id \in h.held : id[2] = n
Written(h, e) ==
  IF Duplicate(h, e.n) THEN h
  ELSE Tidy([h EXCEPT !.top = Max2(@, e.n), !.refused = @ \ {e.n}, !.held = @ \cup {<<e.run, e.n>>}])
Refused(h, e) == [h EXCEPT !.top = Max2(@, e.n), !.refused = @ \cup {e.n}]
-----------------------------------------------------------------------------
(* The stream.                                                             *)

\* Faulty variant: the host's position itself is numbered again.
FaultyLifted(p, through) == [p EXCEPT !.next = Max2(@, through)]

\* resumeNumbering and sequencer.advanceTo.
Lifted(p, through) == [p EXCEPT !.next = Max2(@, through + 1)]

\* The normalizer submits one event.
Collect ==
  /\ plan.kinds # <<>> /\ ~run.collected
  /\ pipe' = Submitted(pipe, Head(plan.kinds))
  /\ plan' = [plan EXCEPT !.kinds = Tail(@)]
  /\ UNCHANGED <<backlog, pump, poll, snd, rcv, mark, link, host, run>>

\* The context of Run is cancelled; the collection stages then finish.
Cancel ==
  /\ plan.stops /\ ~run.cancelled
  /\ run' = [run EXCEPT !.cancelled = TRUE]
  /\ UNCHANGED <<plan, pipe, backlog, pump, poll, snd, rcv, mark, link, host>>
Collected ==
  /\ run.cancelled /\ ~run.collected
  /\ run' = [run EXCEPT !.collected = TRUE]
  /\ UNCHANGED <<plan, pipe, backlog, pump, poll, snd, rcv, mark, link, host>>
-----------------------------------------------------------------------------
(* The loss poller.                                                        *)

Sources == <<"queue", "spool", "append">>
Accounted(src) == CASE src = "queue" -> pipe.missing
                    [] src = "spool" -> backlog.discarded
                    [] src = "append" -> backlog.failed

\* drainLosses on a tick (skipped while the queue is full), and the last one.
PollTick ==
  /\ poll.pc = "idle" /\ ~run.cancelled /\ Len(pipe.queue) < plan.queue
  /\ plan.ticks > 0 /\ plan' = [plan EXCEPT !.ticks = @ - 1]
  /\ \E src \in Range(Sources) : Accounted(src) # {}
  /\ poll' = [poll EXCEPT !.pc = "drain", !.left = Sources]
  /\ UNCHANGED <<pipe, backlog, pump, snd, rcv, mark, link, host, run>>
PollLast ==
  /\ poll.pc = "idle" /\ run.cancelled /\ run.collected
  /\ poll' = [poll EXCEPT !.pc = "last", !.left = Sources]
  /\ UNCHANGED <<plan, pipe, backlog, pump, snd, rcv, mark, link, host, run>>

\* DrainOverflow, DrainDropped, drainAppendFailures: the next source that has
\* something to report.
PollDrain ==
  \E i \in DOMAIN poll.left :
    LET src == poll.left[i] IN
    /\ poll.hand = {} /\ Accounted(src) # {}
    /\ \A j \in 1 .. i - 1 : Accounted(poll.left[j]) = {}
    /\ poll' = [poll EXCEPT !.left = SubSeq(@, i + 1, Len(@)), !.hand = Accounted(src)]
    /\ pipe' = [pipe EXCEPT !.missing = IF src = "queue" THEN {} ELSE @]
    /\ backlog' = [backlog EXCEPT !.discarded = IF src = "spool" THEN {} ELSE @,
                                  !.failed = IF src = "append" THEN {} ELSE @]
    /\ UNCHANGED <<plan, pump, snd, rcv, mark, link, host, run>>

\* Faulty variant: a report that finds the queue full is dropped.
FaultyReportLoss(p) ==
  IF Len(p.queue) >= plan.queue THEN p
  ELSE Submitted([p EXCEPT !.told = @ \cup poll.hand], "plain")

\* reportLoss: an event, or the log when the queue has filled up.
reportLoss(p) ==
  LET q == [p EXCEPT !.told = @ \cup poll.hand]
  IN  IF Len(p.queue) >= plan.queue THEN q ELSE Submitted(q, "plain")
PollReport ==
  /\ poll.hand # {}
  /\ pipe' = reportLoss(pipe)
  /\ poll' = [poll EXCEPT !.hand = {}]
  /\ UNCHANGED <<plan, backlog, pump, snd, rcv, mark, link, host, run>>

\* Back to the ticker; or submit agent.stopping, then close stream and queue.
PollDone ==
  /\ poll.hand = {} /\ poll.pc \in {"drain", "last", "close"}
  /\ \A src \in Range(poll.left) : Accounted(src) = {}
  /\ poll' = [poll EXCEPT !.left = <<>>, !.pc = CASE @ = "drain" -> "idle" [] @ = "last" -> "close"
                                   [] @ = "close" -> "done"]
  /\ pipe' = CASE poll.pc = "drain" -> pipe
               [] poll.pc = "last" -> Submitted(pipe, "plain")
               [] poll.pc = "close" -> [pipe EXCEPT !.closed = TRUE]
  /\ UNCHANGED <<plan, backlog, pump, snd, rcv, mark, link, host, run>>
-----------------------------------------------------------------------------
(* The pump and the backlog.                                               *)

\* k slots of the memory backlog; the spool has none to take or give back.
Slots(k) == IF plan.spool THEN 0 ELSE k

\* backlog.Ack, of the spool and of memory.
Released(b, through) ==
  LET kept == Above(b.events, through)
  IN  [b EXCEPT !.events = kept, !.slots = @ - Slots(Len(b.events) - Len(kept))]

\* memBacklog.discard.
Discarded(b, k) ==
  LET kept == SelectSeq(b.events, LAMBDA e : e.n # k)
  IN  [b EXCEPT !.events = kept, !.slots = @ - Slots(Len(b.events) - Len(kept))]

FirstUnacked(b) == IF b.events = <<>> THEN b.last + 1 ELSE Head(b.events).n

\* Reserve: the spool takes everything, memory has MaxUnacked slots.
PumpReserve ==
  /\ pump = "reserve"
  /\ plan.spool \/ backlog.slots < MaxUnacked
  /\ pump' = "get"
  /\ backlog' = [backlog EXCEPT !.slots = @ + Slots(1)]
  /\ UNCHANGED <<plan, pipe, poll, snd, rcv, mark, link, host, run>>

\* Without a spool the end of the context ends the pump, whatever is queued.
PumpGivesUp ==
  /\ pump = "reserve" /\ ~plan.spool /\ run.cancelled
  /\ pump' = "done"
  /\ pipe' = [pipe EXCEPT !.told = @ \cup Numbers(pipe.queue)]
  /\ UNCHANGED <<plan, backlog, poll, snd, rcv, mark, link, host, run>>

\* Get and Append: the spool makes room by discarding its oldest event, or
\* refuses.  A closed and empty queue ends the pump.
PumpMove ==
  LET e == Head(pipe.queue)
      full == plan.spool /\ Len(backlog.events) >= plan.room
  IN  /\ pump = "get" /\ pipe.queue # <<>>
      /\ pump' = "reserve"
      /\ pipe' = [pipe EXCEPT !.queue = Tail(@)]
      /\ backlog' = [backlog EXCEPT
           !.events = Append(IF full THEN Tail(@) ELSE @, e),
           !.last = e.n,
           !.discarded = IF full THEN @ \cup {Head(backlog.events).n} ELSE @]
      /\ UNCHANGED <<plan, poll, snd, rcv, mark, link, host, run>>
PumpRefused ==
  /\ pump = "get" /\ pipe.queue # <<>> /\ plan.spool /\ plan.faults > 0
  /\ pump' = "reserve"
  /\ pipe' = [pipe EXCEPT !.queue = Tail(@)]
  /\ backlog' = [backlog EXCEPT !.failed = @ \cup {Head(pipe.queue).n}]
  /\ plan' = [plan EXCEPT !.faults = @ - 1]
  /\ UNCHANGED <<poll, snd, rcv, mark, link, host, run>>
PumpEnds ==
  /\ pump = "get" /\ pipe.queue = <<>> /\ pipe.closed
  /\ pump' = "done"
  /\ UNCHANGED <<plan, pipe, backlog, poll, snd, rcv, mark, link, host, run>>
-----------------------------------------------------------------------------
(* The receive loop: applyAck, of an ACK and of READY's position.          *)

\* pruneOversized.
Pruned(m, through) ==
  IF through <= m.pruned THEN m
  ELSE [m EXCEPT !.oversized = {k \in @ : k > through}, !.pruned = through]

RcvRead ==
  /\ rcv.pc = "read" /\ link.toAgent # <<>>
  /\ rcv' = [pc |-> "release", seq |-> Head(link.toAgent)]
  /\ link' = [link EXCEPT !.toAgent = Tail(@)]
  /\ UNCHANGED <<plan, pipe, backlog, pump, poll, snd, mark, host, run>>

\* adoptHostPosition, and the release of what the position covers.
RcvRelease ==
  /\ rcv.pc = "release"
  /\ rcv' = [rcv EXCEPT !.pc = "publish"]
  /\ IF rcv.seq > backlog.last /\ rcv.seq > mark.ahead
     THEN /\ mark' = [mark EXCEPT !.ahead = rcv.seq]
          /\ pipe' = Lifted(pipe, rcv.seq)
     ELSE UNCHANGED <<mark, pipe>>
  /\ backlog' = Released(backlog, rcv.seq)
  /\ UNCHANGED <<plan, pump, poll, snd, link, host, run>>

RcvPublish ==
  /\ rcv.pc = "publish"
  /\ rcv' = [pc |-> "read", seq |-> 0]
  /\ mark' = Pruned([mark EXCEPT !.acked = Max2(@, rcv.seq)], rcv.seq)
  /\ UNCHANGED <<plan, pipe, backlog, pump, poll, snd, link, host, run>>
-----------------------------------------------------------------------------
(* The sender.                                                             *)

\* A new session: cursor and in-flight list start empty, and the backoff is
\* reset unless the host was at fault the last time.
Connected(s) ==
  [NewSender EXCEPT !.pc = "ready", !.streak = s.streak,
                    !.attempts = IF s.misbehaved THEN s.attempts ELSE 0]

\* Dial, HELLO and READY, which waits for no older session.  READY's position
\* is applied like an ACK.
Connect ==
  /\ snd.pc = "dial" /\ ~run.cancelled
  /\ snd' = Connected(snd)
  /\ pipe' = Submitted(pipe, "plain")
  /\ link' = [NoLink EXCEPT !.up = TRUE]
  /\ rcv' = IF Through(host) > 0 THEN [pc |-> "release", seq |-> Through(host)] ELSE rcv
  /\ host' = CheckReplay(host, FirstUnacked(backlog))
  /\ UNCHANGED <<plan, backlog, pump, poll, mark, run>>

\* The dial or the handshake fails.
ConnectFails(kind) ==
  /\ snd.pc = "dial" /\ ~run.cancelled /\ plan.faults > 0
  /\ plan' = [plan EXCEPT !.faults = @ - 1]
  /\ snd' = [snd EXCEPT !.pc = "report", !.fault = kind]
  /\ UNCHANGED <<pipe, backlog, pump, poll, rcv, mark, link, host, run>>

\* reportFailure, then the backoff: transport.disconnected, preceded by
\* protocol.violation where the host broke the protocol.
ReportFailure ==
  LET atFault == snd.fault \in {"fatal", "protocol"}
      p == IF snd.fault = "protocol" THEN Submitted(pipe, "plain") ELSE pipe
  IN  /\ snd.pc = "report"
      /\ pipe' = Submitted(p, "plain")
      /\ snd' = [snd EXCEPT !.pc = IF run.cancelled THEN "done" ELSE "dial",
                            !.attempts = IF run.cancelled THEN @ ELSE @ + 1,
                            !.misbehaved = atFault, !.fault = "none",
                            !.streak = IF atFault /\ ~run.cancelled THEN @ + 1 ELSE 0]
      /\ UNCHANGED <<plan, backlog, pump, poll, rcv, mark, link, host, run>>

\* The connection breaks, the host stays silent past a timeout, or it ends the
\* session; what is on its way to the agent is lost.
Cut(kind) ==
  /\ link.up /\ plan.faults > 0
  /\ plan' = [plan EXCEPT !.faults = @ - 1]
  /\ link' = NoLink /\ host' = Orphaned(host)
  /\ snd' = [snd EXCEPT !.fault = kind]
  /\ UNCHANGED <<pipe, backlog, pump, poll, rcv, mark, run>>

\* The session's loops start once READY has been applied; run returns when the
\* context ends before a connection.
SessionStarts ==
  /\ snd.pc = "ready" /\ rcv.pc = "read"
  /\ snd' = [snd EXCEPT !.pc = "loop"]
  /\ UNCHANGED <<plan, pipe, backlog, pump, poll, rcv, mark, link, host, run>>
RunReturns ==
  /\ snd.pc = "dial" /\ run.cancelled
  /\ snd' = [snd EXCEPT !.pc = "done"]
  /\ UNCHANGED <<plan, pipe, backlog, pump, poll, rcv, mark, link, host, run>>

\* Faulty variant: nothing is released after the acknowledgement itself.
FaultyReconcile(b) == b

\* reconcile, the part that releases; what it prunes of the oversized set.
Reconcile(b) ==
  IF mark.acked = 0 \/ b.events = <<>> \/ FirstUnacked(b) > mark.acked THEN b
  ELSE Released(b, mark.acked)

trimInflight(q) == SelectSeq(q, LAMBDA k : k > mark.acked)

\* transport.ack_timeout: events are in flight and the host, which refused one,
\* has nothing more to acknowledge.
AckTimesOut ==
  /\ snd.pc = "loop" /\ ~snd.flushing /\ link.up /\ rcv.pc = "read"
  /\ snd.inflight # <<>> /\ trimInflight(snd.inflight) = snd.inflight
  /\ link.toHost = <<>> /\ link.toAgent = <<>> /\ link.acked = link.point
  /\ snd' = [snd EXCEPT !.pc = "end", !.fault = "link"]
  /\ UNCHANGED <<plan, pipe, backlog, pump, poll, rcv, mark, link, host, run>>

\* The session is over, or the agent stops and the flush begins.
LoopEnds ==
  /\ snd.pc = "loop" /\ ~link.up
  /\ snd' = [snd EXCEPT !.pc = "end"]
  /\ UNCHANGED <<plan, pipe, backlog, pump, poll, rcv, mark, link, host, run>>
FlushBegins ==
  /\ snd.pc = "loop" /\ run.cancelled /\ ~snd.flushing
  /\ snd' = [snd EXCEPT !.pc = "flush", !.flushing = TRUE]
  /\ UNCHANGED <<plan, pipe, backlog, pump, poll, rcv, mark, link, host, run>>

\* The flush waits for the pump; it is over at its deadline.
FlushWaits ==
  /\ snd.pc = "flush" /\ (pump = "done" \/ ~link.up)
  /\ snd' = [snd EXCEPT !.pc = "loop"]
  /\ UNCHANGED <<plan, pipe, backlog, pump, poll, rcv, mark, link, host, run>>
FlushDeadline ==
  /\ snd.flushing /\ snd.pc \in {"flush", "loop"}
  /\ snd' = [snd EXCEPT !.pc = "end"]
  /\ UNCHANGED <<plan, pipe, backlog, pump, poll, rcv, mark, link, host, run>>

unsent(b) == b.events # <<>> /\ b.last > snd.sent
NextAfter(b, k, max) == SubSeq(Above(b.events, k), 1, Min({max, Len(Above(b.events, k))}))

\* A flush is over when nothing is in flight and nothing unsent.
FlushOver(b, q) == snd.flushing /\ q = <<>> /\ ~unsent(b)

\* What dispatch reads while the numbers of q are in flight.
Batch(b, q) ==
  IF Len(q) >= MaxUnacked \/ ~unsent(b) THEN <<>> ELSE NextAfter(b, snd.sent, MaxUnacked - Len(q))

\* One pass of sendLoop or flush: reconcile and trimInflight.  A pass that
\* would change nothing is left out, and so is the wait for the doorbell or the
\* timer that precedes it.
LoopPass ==
  LET b == Reconcile(backlog)
      q == trimInflight(snd.inflight)
  IN  /\ snd.pc = "loop" /\ link.up
      /\ b # backlog \/ q # snd.inflight \/ Batch(b, q) # <<>> \/ FlushOver(b, q)
      /\ backlog' = b
      /\ mark' = Pruned(mark, FirstUnacked(backlog) - 1)
      /\ snd' = [snd EXCEPT !.pc = "read", !.inflight = q]
      /\ UNCHANGED <<plan, pipe, pump, poll, rcv, link, host, run>>

\* The read of dispatch, and the position it compares the events with.
Dispatch ==
  LET batch == Batch(backlog, snd.inflight)
      over == batch = <<>> /\ FlushOver(backlog, snd.inflight)
  IN  /\ snd.pc = "read"
      /\ snd' = [snd EXCEPT !.batch = batch, !.acked = mark.acked, !.clean = over,
                            !.pc = IF batch # <<>> THEN "send" ELSE IF over THEN "end" ELSE "loop"]
      /\ UNCHANGED <<plan, pipe, backlog, pump, poll, rcv, mark, link, host, run>>

\* After an event of the batch: the next one, or another pass.
Disposed(s) ==
  [s EXCEPT !.sent = Head(s.batch).n, !.batch = Tail(@),
            !.pc = IF Len(s.batch) = 1 THEN "loop" ELSE "send"]

Sending == snd.pc = "send"
Current == Head(snd.batch)
Covered == Current.n <= snd.acked

SendSkips ==
  /\ Sending /\ Covered
  /\ snd' = Disposed(snd)
  /\ UNCHANGED <<plan, pipe, backlog, pump, poll, rcv, mark, link, host, run>>

\* releaseOversized: memory discards the event and its marker.
Unmarked(m, k) == IF plan.spool THEN m ELSE [m EXCEPT !.oversized = @ \ {k}]
releaseOversized(b, k) == IF plan.spool THEN b ELSE Discarded(b, k)

\* An event marked before is passed over; one the codec refuses is marked and
\* reported, in the log only if it is such a report itself.
SendTooLarge ==
  LET known == Current.n \in mark.oversized
      stale == Current.n \notin Numbers(backlog.events)
      m == [mark EXCEPT !.oversized = @ \cup {Current.n},
                        !.noted = IF known \/ stale THEN @ ELSE Append(@, Current.n)]
      p == [pipe EXCEPT !.told = @ \cup {Current.n}]
  IN  /\ Sending /\ ~Covered /\ (known \/ TooLarge(Current))
      /\ mark' = Unmarked(m, Current.n)
      /\ backlog' = releaseOversized(backlog, Current.n)
      /\ pipe' = IF known \/ Current.kind = "bignote" THEN p ELSE Submitted(p, plan.note)
      /\ snd' = Disposed(snd)
      /\ UNCHANGED <<plan, pump, poll, rcv, link, host, run>>

SendEvent ==
  /\ Sending /\ ~Covered /\ ~TooLarge(Current) /\ link.up
  /\ link' = [link EXCEPT !.toHost = Append(@, Current), !.last = Current.n,
                          !.again = @ \/ Current.n <= link.last]
  /\ mark' = [mark EXCEPT !.sent = Max2(@, Current.n)]
  /\ snd' = [Disposed(snd) EXCEPT !.inflight = Append(@, Current.n)]
  /\ UNCHANGED <<plan, pipe, backlog, pump, poll, rcv, host, run>>

\* The error of the send is the session's error, whatever the reader saw.
SendFails ==
  /\ Sending /\ ~Covered /\ ~TooLarge(Current) /\ ~link.up
  /\ snd' = [snd EXCEPT !.pc = "end", !.fault = "link"]
  /\ UNCHANGED <<plan, pipe, backlog, pump, poll, rcv, mark, link, host, run>>

\* SHUTDOWN where there was a flush, the close, and the wait for the reader.
SessionEnds ==
  /\ snd.pc = "end" /\ rcv.pc = "read"
  /\ link' = NoLink /\ host' = Orphaned(host)
  /\ snd' = [NewSender EXCEPT !.pc = IF run.cancelled THEN "done" ELSE "report",
       !.clean = snd.clean, !.fault = snd.fault, !.streak = snd.streak,
       !.attempts = snd.attempts, !.misbehaved = snd.misbehaved]
  /\ UNCHANGED <<plan, pipe, backlog, pump, poll, rcv, mark, run>>
-----------------------------------------------------------------------------
(* The sessions of the host, and the life of the agent.                    *)

\* The session of the link takes the next frame; what it may acknowledge moves
\* with its own events, duplicates included.
HostReceive ==
  LET h == Written(host, Head(link.toHost)) IN
  /\ link.toHost # <<>>
  /\ host' = h
  /\ link' = [link EXCEPT !.toHost = Tail(@), !.point = Max2(@, Through(h))]
  /\ UNCHANGED <<plan, pipe, backlog, pump, poll, snd, rcv, mark, run>>

\* The sink refuses the event: the agent keeps it.
HostRefuses ==
  /\ link.toHost # <<>> /\ ~Duplicate(host, Head(link.toHost).n)
  /\ plan.faults > 0 /\ plan' = [plan EXCEPT !.faults = @ - 1]
  /\ host' = Refused(host, Head(link.toHost))
  /\ link' = [link EXCEPT !.toHost = Tail(@)]
  /\ UNCHANGED <<pipe, backlog, pump, poll, snd, rcv, mark, run>>

\* A session whose connection has ended goes on with the frames it has; it may
\* also end before it gets to them.
HostLate ==
  \E q \in host.older :
    /\ host' = Written([host EXCEPT !.older = (@ \ {q}) \cup {Tail(q)}], Head(q))
    /\ UNCHANGED <<plan, pipe, backlog, pump, poll, snd, rcv, mark, link, run>>

HostAck ==
  /\ link.up /\ link.acked < link.point /\ link.toAgent = <<>>
  /\ link' = [link EXCEPT !.toAgent = <<link.point>>, !.acked = link.point]
  /\ UNCHANGED <<plan, pipe, backlog, pump, poll, snd, rcv, mark, host, run>>

\* The process dies, or has stopped, and is started again in the same boot:
\* with its spool, or with the backlog and the numbering gone.
Restart ==
  /\ plan.restarts > 0
  /\ plan' = [plan EXCEPT !.restarts = @ - 1]
  /\ LET kept == plan.spool /\ ~plan.loses
         b == IF kept THEN [NewBacklog EXCEPT !.events = backlog.events, !.last = backlog.last]
              ELSE NewBacklog
     IN  /\ backlog' = b
         /\ pipe' = NewPipe(pipe.id + 1, b.last, {<<b.events[i].run, b.events[i].n>> : i \in DOMAIN b.events})
         /\ run' = IF kept THEN [NewRun EXCEPT !.lost = run.lost, !.first = run.first]
                   ELSE [NewRun EXCEPT !.lost = Through(host), !.first = pipe.id + 1]
  /\ pump' = "reserve"
  /\ poll' = [pc |-> "idle", left |-> <<>>, hand |-> {}]
  /\ snd' = NewSender /\ rcv' = [pc |-> "read", seq |-> 0] /\ mark' = NewMark
  /\ link' = NoLink /\ host' = Orphaned(host)

Work ==
  \/ Collected \/ PollTick \/ PollLast \/ PollDrain \/ PollReport \/ PollDone
  \/ PumpReserve \/ PumpGivesUp \/ PumpMove \/ PumpEnds
  \/ RcvRead \/ RcvRelease \/ RcvPublish
  \/ Connect \/ ReportFailure \/ SessionStarts \/ RunReturns
  \/ LoopPass \/ AckTimesOut \/ LoopEnds \/ FlushBegins \/ FlushWaits \/ FlushDeadline
  \/ Dispatch \/ SendSkips \/ SendTooLarge \/ SendEvent \/ SendFails
  \/ SessionEnds \/ HostReceive \/ HostAck
Next ==
  \/ Work \/ Collect \/ Cancel \/ Restart \/ PumpRefused \/ HostRefuses \/ HostLate
  \/ \E kind \in plan.errors : ConnectFails(kind) \/ Cut(kind)

Spec == Init /\ [][Next]_vars

\* As long as some goroutine of the agent or the collector can go on, one does.
\* Records need not arrive, and the link is not assumed to break or to hold.
FairSpec == Spec /\ WF_vars(Work)
-----------------------------------------------------------------------------
\* The state is what the pipeline handles, and a slot of the memory backlog is
\* taken for each event it holds and for the one the pump is fetching.
DeliveryTypeOK ==
  /\ pipe.next \in Nat \ {0} /\ Len(pipe.queue) <= plan.queue
  /\ snd.pc \in {"dial", "ready", "loop", "read", "send", "flush", "end", "report", "done"}
  /\ rcv.pc \in {"read", "release", "publish"}
  /\ pump \in {"reserve", "get", "done"}
  /\ poll.pc \in {"idle", "drain", "last", "close", "done"}
  /\ Len(snd.inflight) <= MaxUnacked
  /\ (~plan.spool /\ pump # "done") => backlog.slots = Len(backlog.events) + (IF pump = "get" THEN 1 ELSE 0)

InAgent(n) == n \in Numbers(pipe.queue) \cup Numbers(backlog.events)
Named(n) == n \in pipe.missing \cup backlog.discarded \cup backlog.failed \cup poll.hand \cup pipe.told

\* Numbers a host that remembers an earlier, lost numbering takes for duplicates:
\* up to its position at the restart, and up to those that older sessions have
\* brought under its position since.
Overtaken == {id[2] : id \in {i \in host.held :
                /\ i[1] < run.first /\ run.lost < i[2] /\ i[2] <= Through(host)}}
Reissued(n) == n <= run.lost \/ \E k \in Overtaken : n <= k

\* An event that was numbered is on its way, held by the host, or named as a
\* loss, however acknowledgements, appends, overflows and reconnects interleave:
\* a cumulative acknowledgement never releases what the host does not hold.  The
\* exception is what an agent that lost its numbering issues below the position
\* the host had then, or got to with events of the numbering before.
DeliveredOrNamed ==
  \A id \in pipe.issued :
    \/ InAgent(id[2]) \/ Named(id[2])
    \/ id \in host.held
    \/ Reissued(id[2])

\* One session sends no number twice and never goes back, so that the send loop
\* cannot spin on what it has sent, whatever position the host reports.
WireOrdered == ~link.again

\* Once READY has been applied, the next number is above the host's position, also
\* for an agent that lost its numbering; only older sessions of the host, which
\* READY does not wait for, may still carry the position past it.
NumberingAhead ==
  snd.pc \in {"loop", "read", "send", "flush"} =>
    pipe.next > Through(host) \/ \E k \in Overtaken : pipe.next <= k

\* An event too large for the link is reported once per run of the agent as long
\* as the backlog holds it, although every session reads it again from the spool.
\* (One that an acknowledgement releases, marker included, after a session read
\* it and before it gets to it may be reported a second time.)
ReportedOnce == IsInjective(mark.noted)

\* A stop whose flush ran to its end has delivered everything that was numbered
\* and not named as lost, agent.stopping included (with a spool).
StopDelivers ==
  (snd.pc = "done" /\ snd.clean /\ plan.spool) =>
    \A id \in pipe.issued : id \in host.held \/ Named(id[2]) \/ Reissued(id[2])

\* A host that ends session after session for its own faults meets a backoff that
\* has grown by as many steps, although every dial succeeded.
BackoffGrows == snd.streak <= snd.attempts

\* What was numbered is acknowledged or named in the end, unless the agent is
\* stopped: nothing stays pinned in the backlog.
Settles ==
  <>[](run.cancelled \/ \A n \in {id[2] : id \in pipe.issued} : InAgent(n) => Named(n))

\* Once the context of Run is cancelled, every stage returns.
Stops ==
  [](run.cancelled => <>(~run.cancelled \/
       (poll.pc = "done" /\ pump = "done" /\ snd.pc = "done")))

(* Sender and backlogs: a numbered event is in the agent, at the host, or    *)
(* named as lost, and named once; a clean stop leaves none in a spool.       *)
EventsAccounted == DeliveredOrNamed /\ ReportedOnce /\ StopDelivers

(* Sessions of the sender: nothing is sent twice in one, numbers stay above  *)
(* the position of the host, and a host that misbehaves does not reset the   *)
(* backoff.                                                                  *)
StreamSound == DeliveryTypeOK /\ WireOrdered /\ NumberingAhead /\ BackoffGrows

(* Agent.Run: the stream settles, and a cancelled agent stops.               *)
SettlesAndStops == Settles /\ Stops
=============================================================================
