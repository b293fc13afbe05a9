--------------------------- MODULE AuditCollection ---------------------------
(* The collection stages of the agent: the kernel's audit socket, the        *)
(* listener that takes records off it, the correlator that groups the        *)
(* records of an event, and the normalizer that submits each group.  The     *)
(* stages are goroutines with bounded channels between them.                 *)
(*                                                                           *)
(* A record is its number, the id of its audit event (0 for none), whether   *)
(* it is the end marker, and whether it is excluded or cannot be parsed.     *)
EXTENDS Naturals, Sequences, FiniteSets, SequencesExt

CONSTANTS SocketBuffer,       \* datagrams the kernel keeps for the socket
          RecordChanCap, GroupChanCap,
          CorrelationTimeout, \* in ticks of the correlator
          MaxPendingEvents,
          CollectionPlans     \* the datagrams the kernel sends, and the budgets

VARIABLES kplan,      \* the plan: [emit, fail, stop, late, overdue]
          kernel,     \* external: [buf, err, congested, lost], the socket
          listener,   \* [pc, hand]: the records of a datagram still to deliver
          records,    \* the channel to the correlator
          correlator, \* [pc, pending, hand, last, due]: order and pending are one sequence
          groups,     \* the channel to the normalizer
          normalizer, \* "run" or "done"
          events,     \* what was submitted
          stopped,    \* the context of Run is cancelled
          past        \* history: the records taken off the socket, abandoned at the stop, counted as dropped

collectionVars == <<kplan, kernel, listener, records, correlator, groups, normalizer, events, stopped, past>>

CollectionInit ==
    /\ kplan \in CollectionPlans
    /\ kernel = [buf |-> <<>>, err |-> FALSE, congested |-> FALSE, lost |-> 0]
    /\ listener = [pc |-> "check", hand |-> <<>>]
    /\ records = <<>> /\ groups = <<>> /\ events = <<>> /\ normalizer = "run" /\ stopped = FALSE
    /\ correlator = [pc |-> "select", pending |-> <<>>, hand |-> <<>>, last |-> FALSE, due |-> FALSE]
    /\ past = [taken |-> {}, left |-> {}, dropped |-> {}]

Submit(kind, recs, complete) ==
    events' = Append(events, [kind |-> kind, recs |-> recs, complete |-> complete])

-----------------------------------------------------------------------------
(* The kernel: a datagram that finds the buffer full is lost.  The socket    *)
(* reports it once, until the reader has emptied the buffer.                 *)
KernelEmits ==
    /\ kplan.emit # <<>>
    /\ kplan' = [kplan EXCEPT !.emit = Tail(@)]
    /\ kernel' = IF Len(kernel.buf) < SocketBuffer
                 THEN [kernel EXCEPT !.buf = Append(@, Head(kplan.emit))]
                 ELSE [kernel EXCEPT !.lost = @ + 1, !.congested = TRUE, !.err = @ \/ ~kernel.congested]
    /\ UNCHANGED <<listener, records, correlator, groups, normalizer, events, stopped, past>>

StopCollection ==
    /\ kplan.stop /\ ~stopped
    /\ stopped' = TRUE
    /\ UNCHANGED <<kplan, kernel, listener, records, correlator, groups, normalizer, events, past>>

-----------------------------------------------------------------------------
(* The listener.                                                             *)
Listen(l) ==
    /\ listener' = l
    /\ UNCHANGED <<kplan, correlator, groups, normalizer>>

RecordsClosed == listener.pc \in {"failed", "gone"}

ListenerChecks ==
    /\ listener.pc = "check"
    /\ Listen([listener EXCEPT !.pc = IF stopped THEN "gone" ELSE "receive"])
    /\ UNCHANGED <<kernel, records, events, stopped, past>>

(* One datagram.  What the kernel did not send is rejected and the next one  *)
(* is read, as after a datagram without records.  Records in front of a      *)
(* malformed rest are delivered.                                             *)
Receive ==
    /\ listener.pc = "receive" /\ ~kernel.err /\ kernel.buf # <<>>
    /\ LET d == Head(kernel.buf)
           msgs == IF d.tail = "foreign" THEN <<>> ELSE d.msgs
       IN /\ kernel' = [kernel EXCEPT !.buf = Tail(@), !.congested = @ /\ Tail(kernel.buf) # <<>>]
          /\ Listen([pc |-> IF msgs # <<>> THEN "deliver" ELSE IF d.tail = "bad" THEN "check" ELSE "receive",
                     hand |-> msgs])
          /\ past' = [past EXCEPT !.taken = @ \cup {r \in ToSet(msgs) : r.form # "excluded"}]
    /\ UNCHANGED <<records, events, stopped>>

(* The socket reports lost records: an event of their own. *)
Overrun ==
    /\ listener.pc = "receive" /\ kernel.err
    /\ kernel' = [kernel EXCEPT !.err = FALSE]
    /\ Submit("lost", <<>>, FALSE)
    /\ Listen([listener EXCEPT !.pc = "check"])
    /\ UNCHANGED <<records, stopped, past>>

(* The deadline that the cancelled context sets. *)
ReceiveInterrupted ==
    /\ listener.pc = "receive" /\ stopped
    /\ Listen([listener EXCEPT !.pc = "check"])
    /\ UNCHANGED <<kernel, records, events, stopped, past>>

(* An error of the socket: the stage fails, and then cancels the others. *)
ReceiveFails ==
    /\ listener.pc = "receive" /\ kplan.fail
    /\ Listen([listener EXCEPT !.pc = "failed"])
    /\ UNCHANGED <<kernel, records, events, stopped, past>>
StageFailed ==
    /\ listener.pc = "failed"
    /\ stopped' = TRUE /\ Listen([listener EXCEPT !.pc = "gone"])
    /\ UNCHANGED <<kernel, records, events, past>>

Delivered == LET rest == Tail(listener.hand)
             IN [pc |-> IF rest = <<>> THEN "check" ELSE "deliver", hand |-> rest]

Deliver ==
    /\ listener.pc = "deliver" /\ Listen(Delivered)
    /\ LET r == Head(listener.hand)
       IN CASE r.form = "excluded" -> UNCHANGED <<records, events>>
            [] r.form = "garbled" -> Submit("parse", <<r>>, FALSE) /\ UNCHANGED records
            [] r.form = "ok" -> Len(records) < RecordChanCap /\ records' = Append(records, r) /\ UNCHANGED events
    /\ UNCHANGED <<kernel, stopped, past>>

DeliverStops ==
    /\ listener.pc = "deliver" /\ stopped /\ Head(listener.hand).form = "ok"
    /\ Listen([pc |-> "gone", hand |-> <<>>])
    /\ past' = [past EXCEPT !.left = @ \cup ToSet(listener.hand)]
    /\ UNCHANGED <<kernel, records, events, stopped>>

-----------------------------------------------------------------------------
(* The correlator.  A pending group has, beside its records, the age its     *)
(* timeout is measured by, and, as history, the ticks since its first        *)
(* record.                                                                   *)
Group(r) == [id |-> r.id, recs |-> <<r>>, complete |-> FALSE, age |-> 0, old |-> 0]
JoinsGroup(g, r) == [g EXCEPT !.recs = Append(@, r)]

(* Filing a record: the pending groups with it. *)
Filed(r) ==
    IF \E g \in ToSet(correlator.pending) : g.id = r.id
    THEN [k \in DOMAIN correlator.pending |->
             IF correlator.pending[k].id = r.id THEN JoinsGroup(correlator.pending[k], r) ELSE correlator.pending[k]]
    ELSE Append(correlator.pending, Group(r))

(* How many of the oldest groups are forced out. *)
Excess(n) == IF n > MaxPendingEvents THEN n - MaxPendingEvents ELSE 0

(* The groups a record closes, and what stays pending. *)
AddRecord(r) ==
    IF r.id = 0 THEN [closed |-> <<Group(r)>>, pending |-> correlator.pending]
    ELSE LET done == SelectSeq(Filed(r), LAMBDA g : r.eoe /\ g.id = r.id)
             open == SelectSeq(Filed(r), LAMBDA g : ~(r.eoe /\ g.id = r.id))
             n == Excess(Len(open))
         IN [closed |-> [k \in DOMAIN done |-> [done[k] EXCEPT !.complete = TRUE]] \o SubSeq(open, 1, n),
             pending |-> SubSeq(open, n + 1, Len(open))]

(* The correlator goes on: it sends what is in its hand, or is done with it. *)
Correlate(c) ==
    /\ correlator' = [c EXCEPT !.pc = IF c.hand # <<>> THEN c.pc
                                      ELSE IF c.last \/ c.pc = "drain" THEN "done" ELSE "select"]
    /\ UNCHANGED <<kplan, kernel, listener, normalizer, events, stopped>>

TakeRecord ==
    /\ correlator.pc = "select" /\ records # <<>>
    /\ records' = Tail(records)
    /\ LET add == AddRecord(Head(records))
       IN Correlate([correlator EXCEPT !.pc = "send", !.hand = add.closed, !.pending = add.pending])
    /\ UNCHANGED <<groups, past>>

IsExpired(g) == g.age >= CorrelationTimeout

Expire ==
    /\ correlator.pc = "select" /\ correlator.due
    /\ Correlate([correlator EXCEPT !.pc = "send", !.due = FALSE,
           !.hand = SelectSeq(correlator.pending, IsExpired),
           !.pending = SelectSeq(@, LAMBDA g : ~IsExpired(g))])
    /\ UNCHANGED <<records, groups, past>>

(* The channel of records is closed: everything goes out. *)
InputEnds ==
    /\ correlator.pc = "select" /\ RecordsClosed /\ records = <<>>
    /\ Correlate([correlator EXCEPT !.pc = "send", !.last = TRUE, !.hand = correlator.pending, !.pending = <<>>])
    /\ UNCHANGED <<records, groups, past>>

(* The context is cancelled, also while a group waits for room: what is in   *)
(* hand and what is pending is drained.                                      *)
DrainHandOnly == [correlator EXCEPT !.pc = "drain", !.pending = <<>>]
DrainAll == [correlator EXCEPT !.pc = "drain", !.hand = @ \o correlator.pending, !.pending = <<>>]
CorrelatorStops ==
    /\ correlator.pc \in {"select", "send"} /\ stopped
    /\ Correlate(DrainAll)
    /\ UNCHANGED <<records, groups, past>>

SendGroup ==
    /\ correlator.pc \in {"send", "drain"} /\ Len(groups) < GroupChanCap
    /\ groups' = Append(groups, Head(correlator.hand))
    /\ Correlate([correlator EXCEPT !.hand = Tail(@)])
    /\ UNCHANGED <<records, past>>

(* The grace of the drain is over: the rest is counted as dropped. *)
DrainExpires ==
    /\ correlator.pc = "drain" /\ kplan.late > 0
    /\ kplan' = [kplan EXCEPT !.late = @ - 1]
    /\ correlator' = [correlator EXCEPT !.pc = "done", !.hand = <<>>]
    /\ past' = [past EXCEPT !.dropped = @ \cup UNION {ToSet(g.recs) : g \in ToSet(correlator.hand)}]
    /\ UNCHANGED <<kernel, listener, records, groups, normalizer, events, stopped>>

(* Time passes.  The correlator keeps up with it but for kplan.late ticks. *)
KeepsUp == correlator.pc = "select" /\ ~correlator.due /\ records = <<>>
TickerFires ==
    /\ correlator.pc # "done" /\ correlator.pending # <<>> /\ (KeepsUp \/ kplan.late > 0)
    /\ kplan' = IF KeepsUp THEN kplan ELSE [kplan EXCEPT !.late = @ - 1, !.overdue = TRUE]
    /\ correlator' = [correlator EXCEPT !.due = TRUE,
           !.pending = [k \in DOMAIN @ |-> [@[k] EXCEPT !.age = IF @ > CorrelationTimeout THEN @ ELSE @ + 1,
                                                        !.old = IF @ > CorrelationTimeout THEN @ ELSE @ + 1]]]
    /\ UNCHANGED <<kernel, listener, records, groups, normalizer, events, stopped, past>>

-----------------------------------------------------------------------------
(* The normalizer.                                                           *)
GroupsClosed == correlator.pc = "done"

Normalize ==
    /\ normalizer = "run" /\ groups # <<>>
    /\ groups' = Tail(groups)
    /\ Submit("audit", Head(groups).recs, Head(groups).complete)
    /\ UNCHANGED <<kplan, kernel, listener, records, correlator, normalizer, stopped, past>>

NormalizerEnds ==
    /\ normalizer = "run" /\ groups = <<>> /\ GroupsClosed
    /\ normalizer' = "done"
    /\ UNCHANGED <<kplan, kernel, listener, records, correlator, groups, events, stopped, past>>

-----------------------------------------------------------------------------
CollectionWork ==
    \/ ListenerChecks \/ Receive \/ Overrun \/ ReceiveInterrupted \/ StageFailed \/ Deliver \/ DeliverStops
    \/ TakeRecord \/ Expire \/ InputEnds \/ CorrelatorStops \/ SendGroup
    \/ Normalize \/ NormalizerEnds
    \/ (KeepsUp /\ TickerFires)

CollectionNext == CollectionWork \/ KernelEmits \/ StopCollection \/ ReceiveFails \/ DrainExpires \/ TickerFires

-----------------------------------------------------------------------------
RecordsOf(gs) == FlattenSeq([k \in DOMAIN gs |-> gs[k].recs])

(* The correlator keeps one group per audit event and no more than it may,   *)
(* the channels keep their capacity.                                         *)
CollectionTypeOK ==
    /\ Len(correlator.pending) <= MaxPendingEvents
    /\ \A i, j \in DOMAIN correlator.pending : correlator.pending[i].id = correlator.pending[j].id => i = j
    /\ Len(records) <= RecordChanCap /\ Len(groups) <= GroupChanCap /\ Len(kernel.buf) <= SocketBuffer

(* Correlator: a record that was taken off the socket is in one place, and   *)
(* in one event; it is missing only if the collection was stopped while the  *)
(* listener waited, or is counted as dropped.                                *)
RecordsAccounted ==
    LET held == listener.hand \o records \o RecordsOf(correlator.pending) \o RecordsOf(correlator.hand)
                   \o RecordsOf(groups) \o RecordsOf(events)
    IN /\ Cardinality(ToSet(held)) = Len(held)
       /\ past.taken = {r \in ToSet(held) \cup past.left \cup past.dropped : r.form # "excluded"}

(* Group.Complete: the end marker closed the group, so an event that is      *)
(* complete ends with it and nothing of its audit event follows; an event    *)
(* has the records of one audit event in the kernel's order.                 *)
CompleteIsLast ==
    LET stream == SelectSeq(events, LAMBDA e : e.kind = "audit") \o groups \o correlator.hand \o correlator.pending
    IN \A i \in DOMAIN stream :
          LET rs == stream[i].recs
          IN /\ \A k \in 1 .. (Len(rs) - 1) : rs[k].id = rs[k + 1].id /\ rs[k].n < rs[k + 1].n
             /\ stream[i].complete = (rs[Len(rs)].eoe /\ rs[1].id # 0)
             /\ stream[i].complete => \A j \in (i + 1) .. Len(stream) : stream[j].recs[1].id # rs[1].id

(* pendingGroup.first: a group goes out when its timeout has passed since    *)
(* its first record, whatever records follow, if the correlator keeps up.    *)
GroupsTimely ==
    kplan.overdue \/ \A g \in ToSet(correlator.pending) : g.old <= CorrelationTimeout

(* Run: once the context is cancelled the stages end. *)
CollectionEnds == <>[](stopped => normalizer = "done")

(* ErrKernelOverrun: that the kernel lost records is told. *)
LossTold == <>[](kernel.lost > 0 => stopped \/ \E k \in DOMAIN events : events[k].kind = "lost")

(* Every record comes out, with or without the end marker of its event. *)
RecordsComeOut == <>[](stopped \/ past.taken = ToSet(RecordsOf(events)))

(* Listener and correlator: each record taken from the kernel is in one      *)
(* place and one event or is named, groups are bounded, in order and in      *)
(* time, and a complete one ends with its marker.                            *)
CollectionSound == CollectionTypeOK /\ RecordsAccounted /\ CompleteIsLast /\ GroupsTimely
=============================================================================
