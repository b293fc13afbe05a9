----------------------------- MODULE AuditOutput -----------------------------
(***************************************************************************)
(* internal/audit with a Splunk collector: an operation of the gateway is  *)
(* admitted, its audit record goes through slog (whose handler writes one  *)
(* record at a time) and observedAuditWriter to hecForwarder.Write, and    *)
(* the forwarder's goroutine carries the spool to Splunk or, on a verdict  *)
(* of Splunk, to the file of rejected records.                             *)
(***************************************************************************)
EXTENDS DeliverySpool, SplunkHec

CONSTANTS AuditBatch,   \* hecBatchSize
          AuditPlans    \* bounds: the operations, the limit, the faults

VARIABLES aplan,     \* ops, faults, kinds, down, kills, cuts, stops
          aspool,    \* the DeliverySpool value
          aops,      \* what became of each operation
          awrite,    \* the write under way, one at a time
          afwd,      \* the goroutine of hecForwarder
          ahec,      \* external: ids Splunk holds
          arej,      \* rejected.jsonl: is it there, is its name stable, records
          ahealth,   \* auditHealth and failingSince
          aacc,      \* ids hecForwarder.Write reported as persisted
          aclose     \* "open", "late", "closing", "draining", "cancelled", "closed"

avars == <<aplan, aspool, aops, awrite, afwd, ahec, arej, ahealth, aacc, aclose>>

ASSUME AuditBounds == AuditBatch \in Nat \ {0}

NoWrite == [op |-> 0, gen |-> 0, cap |-> [seg |-> 0, off |-> 0, target |-> 0]]
NewForwarder == [pc |-> "read", batch |-> <<>>, settled |-> 0, confirmed |-> {}, again |-> FALSE]
Healthy == [latched |-> FALSE, failing |-> FALSE]

\* Configure starts the forwarder at once.
AInit ==
  /\ aplan \in AuditPlans
  /\ aspool = NewSpool(aplan.max) /\ aops = [o \in DOMAIN aplan.ops |-> "new"]
  /\ awrite = NoWrite /\ afwd = NewForwarder /\ ahec = {}
  /\ arej = [there |-> FALSE, stable |-> FALSE, recs |-> {}]
  /\ ahealth = Healthy /\ aacc = {} /\ aclose = "open"

AFaults == IF aplan.faults > 0 THEN aplan.kinds ELSE {}
APay(f) == aplan' = IF f = "none" THEN aplan ELSE [aplan EXCEPT !.faults = @ - 1]
AEither(kinds) == {"none"} \cup (AFaults \cap kinds)

\* A segment that is created syncs the directory, and with it rejected.jsonl.
DirectorySynced(s) ==
  arej' = [arej EXCEPT !.stable = arej.there /\ (@ \/ Active(s).id # Active(aspool).id)]
-----------------------------------------------------------------------------
(* Admission and the write.                                                *)

\* DeliverySpool.Capacity.
Used(s) == Total(s) - (IF s.checkpoint = EndOf(Active(s)) THEN Size(Active(s).recs) ELSE 0)

\* capacityReadiness.
Pressured == Used(aspool) >= aspool.max - aspool.max \div 10

\* auditAdmissionMiddleware, for an operation that requires admission.
Admit(o) ==
  /\ aops[o] = "new" /\ \A p \in DOMAIN aops : p < o => aops[p] # "new"
  /\ aclose = "open"
  /\ aops' = [aops EXCEPT ![o] =
       IF aplan.ops[o].gate /\ (ahealth.latched \/ Pressured) THEN "refused" ELSE "admitted"]
  /\ UNCHANGED <<aplan, aspool, awrite, afwd, ahec, arej, ahealth, aacc, aclose>>

\* observedAuditWriter.Write.
Observed(h, err) == [h EXCEPT !.latched = @ \/ err]

\* hecForwarder.Write up to the fsync: closing, the context, TryAppend.
LogWrite(o) ==
  /\ aops[o] = "admitted" /\ awrite = NoWrite
  /\ \E f \in AEither({"fsync", "create", "write", "remove"}) :
       LET rec == aplan.ops[o].rec
           r == IF aclose # "open" \/ rec.size > aspool.max THEN Failed(aspool, "closed")
                ELSE append(aspool, rec, f)
       IN  /\ aspool' = r.s /\ APay(f) /\ DirectorySynced(r.s)
           /\ IF r.err = "none"
              THEN /\ aops' = [aops EXCEPT ![o] = "writing"]
                   /\ awrite' = [op |-> o, gen |-> r.s.appended, cap |-> Covering(r.s)]
                   /\ UNCHANGED ahealth
              ELSE /\ aops' = [aops EXCEPT ![o] = "failed"]
                   /\ ahealth' = Observed(ahealth, TRUE) /\ UNCHANGED awrite
  /\ UNCHANGED <<afwd, ahec, aacc, aclose>>

LogFsync ==
  /\ awrite # NoWrite /\ awrite' = NoWrite
  /\ \E f \in AEither({"fsync"}) :
       LET r == Synced(aspool, awrite.cap, awrite.gen, f)
           o == awrite.op
       IN  /\ aspool' = r.s /\ APay(f)
           /\ ahealth' = Observed(ahealth, r.err # "none")
           /\ aops' = [aops EXCEPT ![o] = IF r.err = "none" THEN "logged" ELSE "failed"]
           /\ aacc' = IF r.err = "none" THEN aacc \cup {aplan.ops[o].rec.id} ELSE aacc
  /\ UNCHANGED <<afwd, ahec, arej, aclose>>
-----------------------------------------------------------------------------
(* hecForwarder.run.                                                       *)

Cancelled == aclose = "cancelled"
FailedDelivery(h) == [h EXCEPT !.failing = TRUE]

\* The batch after the checkpoint; an empty one waits, and ends at stop or cancel.
AuditRead ==
  LET batch == readBatch(aspool, aspool.checkpoint, AuditBatch) IN
  /\ afwd.pc = "read"
  /\ afwd' = [afwd EXCEPT !.batch = batch, !.settled = 0,
                !.pc = IF Cancelled THEN "done" ELSE IF batch = <<>> THEN "wait" ELSE "post"]
  /\ UNCHANGED <<aplan, aspool, aops, awrite, ahec, arej, ahealth, aacc, aclose>>
AuditWait ==
  /\ afwd.pc = "wait" /\ aspool.ready
  /\ aspool' = [aspool EXCEPT !.ready = FALSE] /\ afwd' = [afwd EXCEPT !.pc = "read"]
  /\ UNCHANGED <<aplan, aops, awrite, ahec, arej, ahealth, aacc, aclose>>
AuditEnds ==
  /\ afwd.pc = "wait" /\ aclose \in {"draining", "cancelled"}
  /\ afwd' = [afwd EXCEPT !.pc = "done"]
  /\ UNCHANGED <<aplan, aspool, aops, awrite, ahec, arej, ahealth, aacc, aclose>>

\* What Post may return, and what the plan pays for it.
AuditReplies(q) ==
  (IF aplan.down THEN {"unreached"} ELSE Replies(q, AFaults))
  \cup (IF Cancelled THEN {"cancelled"} ELSE {})
APayFor(q, reply) ==
  APay(IF aplan.down \/ reply \in {Expected(q), "cancelled"} THEN "none" ELSE reply)
APosted(q, reply) ==
  [afwd EXCEPT !.confirmed = IF Post(reply) = "ok" THEN @ \cup {q[i].end : i \in DOMAIN q} ELSE @,
               !.again = @ \/ {q[i].end : i \in DOMAIN q} \cap afwd.confirmed # {}]

\* deliver, settleInvalid: "error" is tried again until the context ends.
AuditPost ==
  /\ afwd.pc = "post"
  /\ \E reply \in AuditReplies(afwd.batch) :
       LET h == APosted(afwd.batch, reply)
           failed == Post(reply) = "error" /\ ~Cancelled
       IN  /\ APayFor(afwd.batch, reply)
           /\ ahec' = ahec \cup Indexed(afwd.batch, reply)
           /\ afwd' = [h EXCEPT !.pc =
                CASE Post(reply) = "ok" -> "save"
                  [] Post(reply) # "ok" /\ Cancelled -> "done"
                  [] Post(reply) = "invalid" /\ ~Cancelled ->
                       IF Len(afwd.batch) = 1 THEN "reject" ELSE "isolate"
                  [] failed -> "post"]
           /\ ahealth' = IF failed THEN FailedDelivery(ahealth) ELSE ahealth
  /\ UNCHANGED <<aspool, aops, awrite, arej, aacc, aclose>>

\* The record after the settled ones is settled as well.
Settle(h) ==
  [h EXCEPT !.settled = @ + 1, !.pc = IF h.settled + 1 = Len(h.batch) THEN "save" ELSE "isolate"]

\* deliverIsolated.
AuditIsolate ==
  LET one == <<afwd.batch[afwd.settled + 1]>> IN
  /\ afwd.pc = "isolate"
  /\ \E reply \in AuditReplies(one) :
       LET h == APosted(one, reply)
           failed == Post(reply) = "error" /\ ~Cancelled
       IN  /\ APayFor(one, reply)
           /\ ahec' = ahec \cup Indexed(one, reply)
           /\ afwd' = IF Post(reply) = "ok" THEN Settle(h)
                      ELSE [h EXCEPT !.pc = IF Cancelled THEN "done"
                                            ELSE IF failed THEN "isolate" ELSE "reject"]
           /\ ahealth' = IF failed THEN FailedDelivery(ahealth) ELSE ahealth
  /\ UNCHANGED <<aspool, aops, awrite, arej, aacc, aclose>>

\* Faulty variant: delivery moves on although the record could not be preserved.
FaultyReject(h, err) == Settle(h)

\* reject: not before the record is in the file.
Rejecting(h, err) ==
  IF ~err THEN Settle(h) ELSE [h EXCEPT !.pc = IF Cancelled THEN "done" ELSE "reject"]

\* rejectedRecords.append: only an attempt that found no file syncs the directory.
AuditReject ==
  /\ afwd.pc = "reject"
  /\ \E f \in AEither({"reject"}) :
       /\ APay(f) /\ afwd' = Rejecting(afwd, f # "none")
       /\ arej' = IF f = "none"
                  THEN [there |-> TRUE, stable |-> arej.stable \/ ~arej.there,
                        recs |-> arej.recs \cup {afwd.batch[afwd.settled + 1].rec}]
                  ELSE [arej EXCEPT !.there = TRUE]
       /\ ahealth' = IF f = "none" THEN ahealth ELSE FailedDelivery(ahealth)
  /\ UNCHANGED <<aspool, aops, awrite, ahec, aacc, aclose>>

\* checkpoint: a failed one is tried again, without sending again.
Saved(h, err) ==
  [h EXCEPT !.pc = IF ~err THEN "read" ELSE IF Cancelled THEN "done" ELSE "save"]
AuditSave ==
  /\ afwd.pc = "save"
  /\ \E f \in AEither({"save", "remove"}) :
       LET r == acknowledge(aspool, afwd.batch[Len(afwd.batch)].end, f) IN
       /\ aspool' = r.s /\ APay(f)
       /\ afwd' = Saved(afwd, r.err # "none")
       /\ ahealth' = [ahealth EXCEPT !.failing = r.err # "none"]
  /\ UNCHANGED <<aops, awrite, ahec, arej, aacc, aclose>>
-----------------------------------------------------------------------------
(* Shutdown, and the life of the process.                                  *)

\* beginShutdown, whose timer may end the time for writes before Close does.
ShutdownDeadline ==
  /\ aclose = "open" /\ aplan.stops /\ aclose' = "late"
  /\ UNCHANGED <<aplan, aspool, aops, awrite, afwd, ahec, arej, ahealth, aacc>>
AuditCloseBegins ==
  /\ aclose \in {"open", "late"} /\ aplan.stops /\ aclose' = "closing"
  /\ UNCHANGED <<aplan, aspool, aops, awrite, afwd, ahec, arej, ahealth, aacc>>

\* Close once the write under way has ended; then done, or the deadline.
AuditStops ==
  /\ aclose = "closing" /\ awrite = NoWrite /\ aclose' = "draining"
  /\ UNCHANGED <<aplan, aspool, aops, awrite, afwd, ahec, arej, ahealth, aacc>>
AuditDeadline ==
  /\ aclose = "draining" /\ aclose' = "cancelled"
  /\ UNCHANGED <<aplan, aspool, aops, awrite, afwd, ahec, arej, ahealth, aacc>>

AuditCloses ==
  /\ aclose \in {"draining", "cancelled"} /\ afwd.pc = "done"
  /\ aclose' = "closed" /\ aspool' = Closed(aspool)
  /\ UNCHANGED <<aplan, aops, awrite, afwd, ahec, arej, ahealth, aacc>>

\* The next process.  Its predecessor may have made the file and come no further.
AReopen(s, rej) ==
  /\ aspool' = openSpool(s) /\ arej' = rej
  /\ aops' = [o \in DOMAIN aops |-> IF aops[o] = "new" THEN "new" ELSE "over"]
  /\ awrite' = NoWrite /\ afwd' = NewForwarder /\ ahealth' = Healthy /\ aclose' = "open"
  /\ UNCHANGED <<ahec, aacc>>
AuditKilled ==
  /\ aplan.kills > 0 /\ aplan' = [aplan EXCEPT !.kills = @ - 1]
  /\ \E made \in {FALSE} \cup {afwd.pc = "reject"} :
       AReopen(aspool, [arej EXCEPT !.there = @ \/ made])

\* A file whose name is not on stable storage may be gone.
AuditPowerCut ==
  /\ aplan.cuts > 0 /\ aplan' = [aplan EXCEPT !.cuts = @ - 1]
  /\ \E s \in PowerCuts(aspool), left \in {arej.stable, arej.there} :
       AReopen(s, [there |-> left, stable |-> left, recs |-> IF left THEN arej.recs ELSE {}])

AuditWork ==
  \/ \E o \in DOMAIN aops : Admit(o) \/ LogWrite(o)
  \/ LogFsync \/ AuditRead \/ AuditWait \/ AuditEnds \/ AuditPost \/ AuditIsolate
  \/ AuditReject \/ AuditSave \/ AuditStops \/ AuditDeadline \/ AuditCloses
AuditNext ==
  AuditWork \/ ShutdownDeadline \/ AuditCloseBegins \/ AuditKilled \/ AuditPowerCut
-----------------------------------------------------------------------------
ASettled == ahec \cup {r.id : r \in arej.recs}

\* A record reported as persisted is held by Splunk, kept among the rejected ones
\* or in the spool behind the checkpoint; over kills and power cuts, failed
\* checkpoints and failed writes to rejected.jsonl.
AuditKept == SpoolOK(aspool) /\ aacc \subseteq Retained(aspool) \cup ASettled

\* Only a record Splunk refused on its own account is set aside.
SetAsideOnVerdict == \A r \in arej.recs : r.bad

\* An accepted batch is not sent again because its checkpoint could not be saved.
AuditNotSentAgain == ~afwd.again

\* While readiness is good, every operation that was performed has its record.
\* Nothing that happens later turns readiness good again in the same process.
LoggedOrLatched ==
  (\E o \in DOMAIN aops : aops[o] = "failed") => ahealth.latched

\* All that was persisted reaches Splunk or is set aside, and the spool's pressure on
\* admission ends, unless the collector stays down or a record was refused for good.
AuditRecovers ==
  <>[](\/ aclose # "open" \/ aplan.down
       \/ aacc \subseteq ASettled /\ (Pressured => ahealth.latched))

\* Close ends, also with a collector that does not answer.
AuditCloseEnds == <>[](aclose \notin {"closing", "draining", "cancelled"})
=============================================================================
