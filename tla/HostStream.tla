----------------------------- MODULE HostStream -----------------------------
(***************************************************************************)
(* SauronAgent/internal/host: sessions (session.go), the deduplication     *)
(* table they share (dedup.go, arrival.go, stream_write.go), the           *)
(* publication of gap reports (pending_gaps.go) and its background retries *)
(* (gap_retry.go), with the guests' agents as the environment.             *)
(*                                                                         *)
(* A step is one critical section of dedup.mu or one call of the sink.     *)
(* An agent holds its events until the host's position covers them, sends  *)
(* them in order on one connection at a time, and may give an event up     *)
(* (spool or queue overflow).  Frames of a connection it abandoned may     *)
(* still reach the host.                                                   *)
(***************************************************************************)
EXTENDS StreamLedger

CONSTANTS Streams,      \* (peer, boot) keys, all of one peer
          Sessions,     \* connections the host may serve at a time
          MaxStreams,   \* maxTrackedStreams
          Budgets       \* bounds of the environment; a behaviour has one of them

ASSUME TableAssumption == MaxStreams \in Nat \ {0}

\* The bounds: streams and connections in use at a time, events of a stream,
\* events agents give up, writes the sink refuses (of events too, if events),
\* whether the retry ticker fires, connections opened, collector restarts.
\* One frame is in flight on a connection.
BudgetFields == {"streams", "sessions", "seq", "losses", "refusals", "events", "ticks",
                 "reconnects", "restarts"}
ASSUME BudgetsAssumption == \A b \in Budgets : DOMAIN b = BudgetFields

Worker == "worker"      \* the goroutine of startGapRetries
Actors == Sessions \cup {Worker}
None == "none"

VARIABLES
  budget,    \* the bounds of this behaviour
  table,     \* dedup.streams, a function on the streams remembered
  lru,       \* their keys, least recently used first (dedupStream.used)
  created,   \* dedup.nextStream
  gate,      \* the holder of the peer's streamWriteGate
  pc,        \* of every actor
  key, first, seq,        \* session: stream, HELLO.first_sequence, event in hand
  res,       \* session: the gap of the dedupResult in hand, and its version
  pub,       \* actor: the gapPublication in hand
  back,      \* actor: where to continue after the publication
  ackPoint,  \* session: position to acknowledge
  held, cur, sent, wire,  \* agents: events held, current session, cursor, frames
  reconnects, restarts, losses, refusals,
  output,    \* history: events the sink accepted
  twice,     \* history: events the sink accepted more than once
  forgot,    \* history: events written whose number the table has forgotten
  noted,     \* history: numbers whose loss was reported and accounted for
  released,  \* history: events agents deleted because of the host's position
  known      \* session, history: the event in hand was accounted for on arrival

ledger == <<table, lru, created>>
agent == <<held, cur, sent, wire, released>>
control == <<key, first, seq, back, known>>
counts == <<reconnects, restarts, losses, refusals>>
history == <<output, twice, noted>>
vars == <<budget, forgot, ledger, gate, pc, control, res, pub, ackPoint, agent, counts, history>>

NoRes == [gap |-> {}, id |-> 0, gen |-> 0]
NoPub == [key |-> None, gap |-> {}, gen |-> 0, ok |-> FALSE, retry |-> FALSE]

Init ==
  /\ budget \in Budgets
  /\ table = <<>> /\ lru = <<>> /\ created = 0 /\ gate = None
  /\ pc = [a \in Actors |-> "off"]
  /\ key = [s \in Sessions |-> None] /\ first = [s \in Sessions |-> 0]
  /\ seq = [s \in Sessions |-> 0] /\ known = [s \in Sessions |-> FALSE]
  /\ res = [s \in Sessions |-> NoRes] /\ pub = [a \in Actors |-> NoPub]
  /\ back = [a \in Actors |-> "off"]
  /\ ackPoint = [s \in Sessions |-> 0]
  /\ held = [k \in Streams |-> 1 .. budget.seq] /\ cur = [k \in Streams |-> None]
  /\ sent = [s \in Sessions |-> 0] /\ wire = [s \in Sessions |-> <<>>]
  /\ reconnects = 0 /\ restarts = 0 /\ losses = 0 /\ refusals = 0
  /\ output = [k \in Streams |-> {}] /\ twice = [k \in Streams |-> {}]
  /\ forgot = [k \in Streams |-> {}]
  /\ noted = [k \in Streams |-> {}] /\ released = [k \in Streams |-> {}]
-----------------------------------------------------------------------------
(* The table.                                                              *)

Known(k) == k \in DOMAIN table
Touched(k) == SelectSeq(lru, LAMBDA x : x # k) \o <<k>>
Store(k, st) == [x \in DOMAIN table \cup {k} |-> IF x = k THEN st ELSE table[x]]

\* Unresolved evidence, a publication or a received event pins a stream.
\* Faulty variant: evidence does not.
FaultyPinnedEvidence(k) == table[k].claim # None \/ table[k].arrivals # <<>> \/ table[k].overflow
Pinned(k) ==
  \/ table[k].pending # {} \/ table[k].claim # None
  \/ table[k].arrivals # <<>> \/ table[k].overflow

\* stream: the entry for k, created if need be in place of the least recently
\* used one that may be evicted.  Full: there is none, and nothing happens.
Victims == SelectSeq(lru, LAMBDA k : ~Pinned(k))
Full(k) == ~Known(k) /\ Cardinality(DOMAIN table) >= MaxStreams /\ Victims = <<>>
Entry(k) == IF Known(k) THEN table[k] ELSE NewStream(created + 1)
UseStream(k, st) ==
  LET evict == ~Known(k) /\ Cardinality(DOMAIN table) >= MaxStreams
      gone == IF evict THEN {Victims[1]} ELSE {}
  IN  /\ table' = [x \in (DOMAIN table \ gone) \cup {k} |-> IF x = k THEN st ELSE table[x]]
      /\ lru' = SelectSeq(Touched(k), LAMBDA x : x \notin gone)
      /\ created' = IF Known(k) THEN created ELSE created + 1

Update(k, st) == table' = Store(k, st) /\ lru' = Touched(k) /\ UNCHANGED created
Goto(a, l) == pc' = [pc EXCEPT ![a] = l]

\* A session ends: its socket is closed, so its agent loses the connection.
Hangup(s) == /\ wire' = [wire EXCEPT ![s] = <<>>]
             /\ cur' = [cur EXCEPT ![key[s]] = IF @ = s THEN None ELSE @]
             /\ sent' = [sent EXCEPT ![s] = 0]
             /\ UNCHANGED <<held, released>>
-----------------------------------------------------------------------------
(* The agents.                                                             *)

\* applyAck: what the host's position covers is deleted.
Applied(k, ack) ==
  /\ held' = [held EXCEPT ![k] = {n \in @ : n > ack}]
  /\ released' = [released EXCEPT ![k] = @ \cup {n \in held[k] : n <= ack}]

Connect(s, k) ==
  /\ pc[s] = "off" /\ cur[k] = None /\ wire[s] = <<>> /\ reconnects < budget.reconnects
  /\ k \in budget.streams /\ Cardinality({t \in Sessions : pc[t] # "off"}) < budget.sessions
  /\ reconnects' = reconnects + 1
  /\ cur' = [cur EXCEPT ![k] = s] /\ key' = [key EXCEPT ![s] = k]
  /\ first' = [first EXCEPT ![s] = Min(held[k] \cup {budget.seq + 1})]
  /\ Goto(s, "hello")
  /\ UNCHANGED <<ledger, gate, seq, back, known, res, pub, ackPoint, held, sent, wire, released,
                 restarts, losses, refusals, history>>

Send(s) ==
  LET k == key[s]
      unsent == {n \in held[k] : n > sent[s]}
  IN  /\ pc[s] \notin {"off", "hello"} /\ cur[k] = s
      /\ unsent # {} /\ wire[s] = <<>>
      /\ wire' = [wire EXCEPT ![s] = Append(@, Min(unsent))]
      /\ sent' = [sent EXCEPT ![s] = Min(unsent)]
      /\ UNCHANGED <<ledger, gate, pc, control, res, pub, ackPoint, held, cur, released, counts, history>>

\* The queue overflows, or the spool discards a segment.
GiveUp(k, low, high) ==
  /\ {low, high} \subseteq held[k] /\ low <= high
  /\ losses < budget.losses /\ losses' = losses + 1
  /\ held' = [held EXCEPT ![k] = @ \ (low .. high)]
  /\ UNCHANGED <<ledger, gate, pc, control, res, pub, ackPoint, cur, sent, wire, released,
                 reconnects, restarts, refusals, history>>

\* The agent drops its connection; what it sent may still be read.
Disconnect(k) ==
  /\ cur[k] # None /\ cur' = [cur EXCEPT ![k] = None]
  /\ sent' = [sent EXCEPT ![cur[k]] = 0]
  /\ UNCHANGED <<ledger, gate, pc, control, res, pub, ackPoint, held, wire, released, counts, history>>
-----------------------------------------------------------------------------
(* Publication of gap reports.                                             *)

Claimed(st, a) == [st EXCEPT !.claim = a]

\* claimGap, for the gap of the result in hand.  A claim that is busy or
\* cannot be recorded still remembers the source.
ReportGap(s) ==
  LET k == key[s]
      g == res[s].gap
      current == /\ Known(k) /\ table[k].pending # {} /\ table[k].id = res[s].id
                 /\ table[k].gen = res[s].gen /\ g \subseteq table[k].pending
      st == [table[k] EXCEPT !.src = TRUE]
  IN  /\ pc[s] = "gap"
      /\ \/ /\ ~current /\ Goto(s, back[s]) /\ UNCHANGED <<ledger, pub>>
         \/ /\ current /\ (st.claim # None \/ ~canPublishGap(st, g))
            /\ Goto(s, back[s]) /\ table' = Store(k, st) /\ UNCHANGED <<lru, created, pub>>
         \/ /\ current /\ st.claim = None /\ canPublishGap(st, g)
            /\ Goto(s, "publish") /\ Update(k, Claimed(st, s))
            /\ pub' = [pub EXCEPT ![s] = [key |-> k, gap |-> g, gen |-> st.gen,
                                          ok |-> FALSE, retry |-> FALSE]]
      /\ res' = [res EXCEPT ![s] = NoRes]
      /\ UNCHANGED <<gate, control, ackPoint, agent, counts, history>>

\* publishGap: the report goes to the sink.
PublishGap(a) ==
  /\ pc[a] = "publish" /\ Goto(a, "finish")
  /\ \/ /\ pub' = [pub EXCEPT ![a].ok = TRUE] /\ UNCHANGED refusals
     \/ /\ refusals < budget.refusals /\ refusals' = refusals + 1 /\ UNCHANGED pub
  /\ UNCHANGED <<ledger, gate, control, res, ackPoint, agent, reconnects, restarts, losses, history>>

\* finishGap.
FinishGap(a) ==
  LET p == pub[a]
      st == [table[p.key] EXCEPT !.claim = None]
      counts_ == p.ok /\ Accountable(st, p.gap, p.gen)
  IN  /\ pc[a] = "finish"
      /\ \/ /\ counts_
            /\ \E new \in accounted(st, p.gap) : Update(p.key, new)
            /\ noted' = [noted EXCEPT ![p.key] = @ \cup p.gap]
            /\ Goto(a, IF p.retry THEN "next" ELSE back[a])
         \/ /\ ~counts_
            /\ table' = Store(p.key, st) /\ Goto(a, back[a])
            /\ UNCHANGED <<lru, created, noted>>
      /\ pub' = [pub EXCEPT ![a] = IF pc'[a] = "next" THEN @ ELSE NoPub]
      /\ UNCHANGED <<gate, control, res, ackPoint, agent, counts, output, twice>>

\* takePendingGap, takeNextPendingGap: every candidate's arrivals are excluded
\* (Scan); the claim goes to the least recently used, or stays with the stream.
Candidates == {k \in DOMAIN table : table[k].pending # {} /\ table[k].src /\ table[k].claim = None}
Scan(ks) == {t \in [DOMAIN table -> UNION {excludeArrivals(table[k]) \cup {table[k]} : k \in DOMAIN table}] :
               \A k \in DOMAIN table : t[k] \in IF k \in ks THEN excludeArrivals(table[k]) ELSE {table[k]}}
Take(a, ks, none) ==
  \E t \in Scan(ks) :
    LET ready == SelectSeq(lru, LAMBDA k : k \in ks /\ nextPublishableGap(t[k]) # {}) IN
    /\ IF ready = <<>>
       THEN Goto(a, none) /\ table' = t /\ lru' = lru /\ pub' = [pub EXCEPT ![a] = NoPub]
       ELSE LET k == ready[1] IN
            /\ Goto(a, "publish")
            /\ table' = [t EXCEPT ![k] = Claimed(@, a)] /\ lru' = Touched(k)
            /\ pub' = [pub EXCEPT ![a] = [key |-> k, gap |-> nextPublishableGap(t[k]),
                                          gen |-> t[k].gen, ok |-> FALSE, retry |-> TRUE]]
    /\ UNCHANGED <<created, gate, control, res, ackPoint, agent, counts, history>>

RetryPendingGaps(a) == pc[a] = "retry" /\ Take(a, Candidates, back[a])
RetryNext(a) == pc[a] = "next" /\ Take(a, Candidates \cap {pub[a].key}, back[a])

\* The attempts or the write timeout run out: the claim is given back unused.
RetryStop(a) ==
  /\ pc[a] = "publish" /\ pub[a].retry /\ Goto(a, "finish")
  /\ UNCHANGED <<ledger, gate, control, res, pub, ackPoint, agent, counts, history>>

\* The ticker of gapRetryLoop.
Tick ==
  /\ budget.ticks /\ pc[Worker] = "off" /\ Candidates # {} /\ Goto(Worker, "retry")
  /\ UNCHANGED <<ledger, gate, control, res, pub, ackPoint, agent, counts, history>>
-----------------------------------------------------------------------------
(* Sessions.                                                               *)

\* handshake up to READY, which carries ResumeFrom and acts as an ACK.
Ready(s) ==
  LET k == key[s]
      resume == IF Known(k) THEN table[k].written ELSE 0
  IN  /\ pc[s] = "hello" /\ Goto(s, "replay")
      /\ lru' = IF Known(k) THEN Touched(k) ELSE lru
      /\ IF cur[k] = s THEN Applied(k, resume) ELSE UNCHANGED <<held, released>>
      /\ UNCHANGED <<table, created, gate, control, res, pub, ackPoint, cur, sent, wire, counts, history>>

Result(r) == IF r.gap = {} THEN NoRes ELSE [gap |-> r.gap, id |-> r.st.id, gen |-> r.st.gen]

\* CheckReplay and what handshake does with its result.
Replay(s) ==
  LET k == key[s]
      r == CheckReplay(table[k], first[s])
      then == IF r.blocked THEN "end" ELSE "serve"
  IN  /\ pc[s] = "replay"
      /\ first' = [first EXCEPT ![s] = 0]
      /\ \/ ~Known(k) /\ Goto(s, "serve") /\ UNCHANGED <<ledger, res, back>>
         \/ /\ Known(k) /\ Update(k, r.st)
            /\ Goto(s, IF r.gap # {} THEN "gap" ELSE then)
            /\ res' = [res EXCEPT ![s] = Result(r)]
            /\ back' = [back EXCEPT ![s] = then]
      /\ UNCHANGED <<gate, key, seq, known, pub, ackPoint, agent, counts, history>>

\* reserveArrival; when the table or the stream has no room, pending reports
\* are retried and it is tried once more.
Reserve(s) ==
  LET k == key[s]
      n == Head(wire[s])
      st == Entry(k)
  IN  /\ pc[s] \in {"serve", "again"} /\ wire[s] # <<>>
      /\ \/ /\ Full(k) /\ UNCHANGED <<ledger, seq, known, wire>>
            /\ Goto(s, IF pc[s] = "serve" THEN "retry" ELSE "end")
            /\ back' = [back EXCEPT ![s] = "again"]
         \/ /\ ~Full(k) /\ ~HasPlace(st, n) /\ UNCHANGED <<seq, known, wire>>
            /\ UseStream(k, [st EXCEPT !.overflow = TRUE])
            /\ Goto(s, IF pc[s] = "serve" THEN "retry" ELSE "end")
            /\ back' = [back EXCEPT ![s] = "again"]
         \/ /\ ~Full(k) /\ HasPlace(st, n)
            /\ UseStream(k, reserved(st, n))
            /\ wire' = [wire EXCEPT ![s] = Tail(@)]
            /\ seq' = [seq EXCEPT ![s] = n]
            /\ known' = [known EXCEPT ![s] = Known(k) /\ (n <= st.written \/ n \in st.missing)]
            /\ Goto(s, "gate") /\ UNCHANGED back
      /\ UNCHANGED <<gate, key, first, res, pub, ackPoint, held, cur, sent, released, counts, history>>

\* requireResolvedIdentity fails, or the wait for the gate times out.
Abandon(s) ==
  /\ pc[s] = "gate" /\ Goto(s, "release") /\ back' = [back EXCEPT ![s] = "end"]
  /\ UNCHANGED <<ledger, gate, key, first, seq, known, res, pub, ackPoint, agent, counts, history>>

\* Faulty variant: sessions do not wait for one another.
FaultyLockEventWrite(s) ==
  /\ pc[s] = "gate" /\ Goto(s, "check") /\ gate' = s
  /\ UNCHANGED <<ledger, control, res, pub, ackPoint, agent, counts, history>>

lockEventWrite(s) ==
  /\ pc[s] = "gate" /\ gate = None /\ gate' = s /\ Goto(s, "check")
  /\ UNCHANGED <<ledger, control, res, pub, ackPoint, agent, counts, history>>

\* Check under the gate.  Blocked without a gap to report: pending reports are
\* retried and it is asked again.
Check(s) ==
  LET k == key[s]
      r == check(Entry(k), seq[s])
      then == IF r.blocked THEN "drop" ELSE IF r.dup THEN "duplicate" ELSE "write"
      retry == r.blocked /\ r.gap = {} /\ pc[s] = "check"
  IN  /\ pc[s] \in {"check", "recheck"} /\ UseStream(k, r.st)
      /\ res' = [res EXCEPT ![s] = Result(r)]
      /\ back' = [back EXCEPT ![s] = IF retry THEN "recheck" ELSE then]
      /\ Goto(s, IF retry THEN "retry" ELSE IF r.gap # {} THEN "gap" ELSE then)
      /\ UNCHANGED <<gate, key, first, seq, known, pub, ackPoint, agent, counts, history>>

\* advanceAck; the gate is released on the way out of handleEvent.
Advance(s, point) == ackPoint' = [ackPoint EXCEPT ![s] = Max({@, point})]
Leave(s, next) == /\ gate' = None /\ Goto(s, "release") /\ back' = [back EXCEPT ![s] = next]

Drop(s) ==
  /\ pc[s] = "drop" /\ Leave(s, "end")
  /\ UNCHANGED <<ledger, key, first, seq, known, res, pub, ackPoint, agent, counts, history>>

Duplicate(s) ==
  /\ pc[s] = "duplicate" /\ Leave(s, "serve")
  /\ lru' = IF Known(key[s]) THEN Touched(key[s]) ELSE lru
  /\ Advance(s, IF Known(key[s]) THEN table[key[s]].written ELSE 0)
  /\ UNCHANGED <<table, created, key, first, seq, known, res, pub, agent, counts, history>>

WriteEvent(s) ==
  /\ pc[s] = "write" /\ Goto(s, "commit")
  /\ output' = [output EXCEPT ![key[s]] = @ \cup {seq[s]}]
  /\ twice' = [twice EXCEPT ![key[s]] = @ \cup ({seq[s]} \cap output[key[s]])]
  /\ UNCHANGED <<ledger, gate, control, res, pub, ackPoint, agent, counts, noted>>

\* The sink refuses the event: nothing is committed, the session goes on.
WriteFails(s) ==
  /\ pc[s] = "write" /\ budget.events /\ refusals < budget.refusals /\ refusals' = refusals + 1
  /\ Leave(s, "serve")
  /\ UNCHANGED <<ledger, key, first, seq, known, res, pub, ackPoint, agent, reconnects, restarts,
                 losses, history>>

CommitEvent(s) ==
  LET k == key[s] IN
  /\ pc[s] = "commit" /\ Leave(s, "serve")
  /\ \E st \in Commit(Entry(k), seq[s]) : UseStream(k, st) /\ Advance(s, st.written)
  /\ UNCHANGED <<key, first, seq, known, res, pub, agent, counts, history>>

\* The deferred arrival.release().
Release(s) ==
  LET k == key[s] IN
  /\ pc[s] = "release" /\ Goto(s, back[s])
  /\ \E st \in release(table[k], seq[s]) : table' = Store(k, st)
  /\ seq' = [seq EXCEPT ![s] = 0] /\ known' = [known EXCEPT ![s] = FALSE]
  /\ back' = [back EXCEPT ![s] = "off"]
  /\ UNCHANGED <<lru, created, gate, key, first, res, pub, ackPoint, agent, counts, history>>

\* flushAck, from ackLoop or at the end of a session, and the agent applies it.
\* A position the agent already has changes nothing; a frame is lost only with
\* its connection.
FlushAck(s) ==
  /\ pc[s] # "off" /\ cur[key[s]] = s /\ \E n \in held[key[s]] : n <= ackPoint[s]
  /\ Applied(key[s], ackPoint[s])
  /\ UNCHANGED <<ledger, gate, pc, control, res, pub, ackPoint, cur, sent, wire, counts, history>>

\* The connection is read to its end or torn, or a handler returned an error.
End(s) ==
  /\ \/ pc[s] = "end"
     \/ pc[s] \in {"hello", "serve"}
  /\ pc' = [pc EXCEPT ![s] = "off"]
  /\ Hangup(s)
  /\ key' = [key EXCEPT ![s] = None] /\ first' = [first EXCEPT ![s] = 0]
  /\ back' = [back EXCEPT ![s] = "off"]
  /\ ackPoint' = [ackPoint EXCEPT ![s] = 0]
  /\ UNCHANGED <<ledger, gate, seq, known, res, pub, counts, history>>

\* The collector restarts: nothing of the table survives.
Restart ==
  /\ restarts < budget.restarts /\ restarts' = restarts + 1
  /\ table' = <<>> /\ lru' = <<>> /\ created' = 0 /\ gate' = None
  /\ pc' = [a \in Actors |-> "off"] /\ key' = [s \in Sessions |-> None]
  /\ first' = [s \in Sessions |-> 0] /\ seq' = [s \in Sessions |-> 0]
  /\ known' = [s \in Sessions |-> FALSE] /\ res' = [s \in Sessions |-> NoRes]
  /\ pub' = [a \in Actors |-> NoPub] /\ back' = [a \in Actors |-> "off"]
  /\ ackPoint' = [s \in Sessions |-> 0]
  /\ cur' = [k \in Streams |-> None] /\ wire' = [s \in Sessions |-> <<>>]
  /\ sent' = [s \in Sessions |-> 0]
  /\ UNCHANGED <<held, released, reconnects, losses, refusals, history>>

SessionStep(s) ==
  \/ Ready(s) \/ Replay(s) \/ ReportGap(s) \/ Reserve(s) \/ Abandon(s)
  \/ lockEventWrite(s) \/ Check(s) \/ Drop(s) \/ Duplicate(s)
  \/ WriteEvent(s) \/ WriteFails(s) \/ CommitEvent(s) \/ Release(s)
  \/ FlushAck(s) \/ End(s)

Publication(a) ==
  PublishGap(a) \/ FinishGap(a) \/ RetryPendingGaps(a) \/ RetryNext(a) \/ RetryStop(a)

Step ==
  \/ \E s \in Sessions, k \in Streams : Connect(s, k)
  \/ \E s \in Sessions : Send(s) \/ SessionStep(s)
  \/ \E k \in Streams : Disconnect(k) \/ \E low, high \in 1 .. budget.seq : GiveUp(k, low, high)
  \/ \E a \in Actors : Publication(a)
  \/ Tick \/ Restart

\* The numbers of stream k that table t would suppress.
Remembered(t, k) ==
  IF k \in DOMAIN t THEN {n \in 1 .. budget.seq : n <= t[k].written \/ n \in t[k].ahead} ELSE {}

Next ==
  /\ Step /\ UNCHANGED budget
  /\ forgot' = [k \in Streams |-> forgot[k] \cup
        {n \in output[k] \ Remembered(table', k) : restarts' # restarts \/ n \in Remembered(table, k)}]

Spec == Init /\ [][Next]_vars
-----------------------------------------------------------------------------
(* The event a session has in hand, from its arrival to the release.       *)
InHand(s) == seq[s] # 0

(***************************************************************************)
(* Types, the bounds of the two range lists and of the reservations, and:  *)
(* the stream of an event in hand stays in the table (release and Commit   *)
(* work on the entry that the arrival reserved, arrival.go:39).            *)
(***************************************************************************)
TypeOK ==
  /\ DOMAIN table \subseteq Streams /\ Cardinality(DOMAIN table) <= MaxStreams
  /\ ToSet(lru) = DOMAIN table /\ Len(lru) = Cardinality(DOMAIN table)
  /\ \A k \in DOMAIN table :
       LET st == table[k] IN
       /\ st.written \in 0 .. budget.seq /\ st.highest \in 0 .. budget.seq
       /\ st.ahead \cup st.missing \cup st.pending \subseteq 1 .. budget.seq
       /\ Ranges(st.pending) <= MaxRanges /\ Ranges(st.missing) <= MaxRanges
       /\ Cardinality(st.ahead) <= Window /\ Cardinality(DOMAIN st.arrivals) <= Window
       /\ st.claim \in Actors \cup {None}
  /\ gate \in Sessions \cup {None}
  /\ \A s \in Sessions : InHand(s) => Known(key[s])

(***************************************************************************)
(* "an ACK never silently tells a guest to delete an event the collector   *)
(* neither holds nor reported losing" (dedup.go:244): what an agent        *)
(* deletes because of an ACK or READY.resume_from was written by the sink  *)
(* or is covered by a gap report the sink accepted.                        *)
(***************************************************************************)
AckedIsHeld == \A k \in Streams : released[k] \subseteq output[k] \cup noted[k]

(***************************************************************************)
(* An event that arrived before anything accounted for its number is not   *)
(* declared lost while it waits for the gate or for the sink: the          *)
(* watermark passes it only once a copy of it was written (arrival.go:15). *)
(***************************************************************************)
InFlightNotLost ==
  \A s \in Sessions : InHand(s) /\ ~known[s] =>
    /\ seq[s] \notin table[key[s]].missing
    /\ seq[s] <= table[key[s]].written => seq[s] \in output[key[s]]

(***************************************************************************)
(* Reservations and publication claims are neither leaked nor dropped      *)
(* early: both pin the stream and hold back gap reports.  A reservation    *)
(* nobody holds is kept only for a number still pending (arrival.go:50).   *)
(***************************************************************************)
PinsExact ==
  \A k \in DOMAIN table :
    /\ \A n \in 1 .. budget.seq :
         LET holders == Cardinality({s \in Sessions : key[s] = k /\ seq[s] = n}) IN
         IF n \in DOMAIN table[k].arrivals
         THEN table[k].arrivals[n] = holders /\ (holders = 0 => n \in table[k].pending)
         ELSE holders = 0
    /\ \A a \in Actors :
         table[k].claim = a <=> pc[a] \in {"publish", "finish"} /\ pub[a].key = k

(***************************************************************************)
(* Evidence of a gap is given up only for a report the sink accepted or    *)
(* for the arrival of the event (dedup.go:119), except by a restart.       *)
(***************************************************************************)
EvidenceKept ==
  [][restarts' = restarts =>
       \A k \in DOMAIN table : table[k].pending # {} =>
         /\ k \in DOMAIN table'
         /\ table[k].pending \subseteq
              table'[k].pending \cup noted'[k] \cup DOMAIN table[k].arrivals
                \cup DOMAIN table'[k].arrivals]_vars

(***************************************************************************)
(* No event is written twice unless the table has forgotten it since, by   *)
(* trimming the window, evicting the stream or a restart: copies that      *)
(* arrive on two connections at once wait for one another                  *)
(* (stream_write.go:8).                                                    *)
(***************************************************************************)
WrittenOnce == \A k \in Streams : twice[k] \subseteq forgot[k]

(* Arrivals: a reservation or a claim is held by exactly those who have it   *)
(* in hand, and an event that has arrived is not declared lost meanwhile.    *)
ArrivalsExact == TypeOK /\ InFlightNotLost /\ PinsExact
=============================================================================
