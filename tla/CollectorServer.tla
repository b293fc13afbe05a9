--------------------------- MODULE CollectorServer ---------------------------
(***************************************************************************)
(* The collector as a server: its accept loop names the virtual machine    *)
(* behind each vsock connection by asking the hypervisor who holds the     *)
(* context id (CID), sessions report that they have heard from it, and a   *)
(* monitor compares what was heard with the machines that should be heard  *)
(* and publishes "stream lost" and "stream resumed".                       *)
(*                                                                         *)
(* Machines start and stop, and CIDs are handed out again, while a lookup, *)
(* a refresh or a publication is under way.  A machine is a record of its  *)
(* name and UUID; two may have the same name, never at the same time.      *)
(* Time is counted in monitor intervals and only up to the limits that are *)
(* compared with: a Tick comes when the work at hand is done, or before    *)
(* that as often as cplan.late says.                                       *)
(***************************************************************************)
EXTENDS Naturals, Sequences, FiniteSets, SequencesExt

CONSTANTS Machines,        \* records [name, uuid]
          Cids,
          MaxConns,        \* limits.max_connections
          MaxConnsPerCid,  \* limits.max_connections_per_cid
          Timeout, Grace,  \* allowed silence, of a machine heard from and of a new one
          MaxAlerts,       \* maxPendingStreamAlerts
          Slots,           \* connections that may exist at a time
          CollectorPlans   \* [up, unknown, starts, stops, dials, faults, kinds, late, ends]

VARIABLES cplan,   \* the budgets, counted down
          hv,      \* the hypervisor: hv[m] is the CID of a running m, else 0
          conns,   \* connections and their sessions
          acc,     \* the accept loop: [pc, conn, src]
          slots,   \* Server.total and Server.perPeer
          hints,   \* vsockCIDHints: CID -> name of its holder at the last scan
          mon,     \* the monitor
          pub,     \* publishPending: who is in it and how many attempts are left
          said,    \* ghost: the last published alert of each machine
          got,     \* ghost: written events, as [vm, src]
          server   \* Run: "serving", "stopping", "closed"

collectorVars == <<cplan, hv, conns, acc, slots, hints, mon, pub, said, got, server>>

NoMachine == [name |-> "", uuid |-> 0]
Unknown == [known |-> FALSE, vm |-> NoMachine]
Gone == [pc |-> "gone", vm |-> NoMachine, cid |-> 0, up |-> FALSE, src |-> Unknown,
         beat |-> TRUE, next |-> "serve"]
Nobody == 0
TheMonitor == Slots + 1
NoPub == [who |-> Nobody, left |-> 0]
Full == IF Timeout > Grace THEN Timeout + 1 ELSE Grace + 1
Stale == 4

Older(age) == IF age < Full THEN age + 1 ELSE age
Live(i) == conns[i].pc \notin {"gone", "backlog", "accepting"}
Stopping == server = "stopping"

\* A call of the hypervisor or of the outputs goes well, or fails as the plan allows.
Fault(kinds) == {"no"} \cup (IF cplan.faults > 0 THEN kinds \cap cplan.kinds ELSE {})
Spend(f) == cplan' = IF f = "no" THEN cplan ELSE [cplan EXCEPT !.faults = @ - 1]

CInit == /\ cplan \in CollectorPlans
         /\ hv = cplan.up
         /\ conns = [i \in 1..Slots |-> Gone]
         /\ acc = [pc |-> "accept", conn |-> 0, src |-> Unknown]
         /\ slots = [total |-> 0, per |-> [c \in Cids |-> 0]]
         /\ hints = [c \in Cids |-> ""]
         /\ mon = [pc |-> "list", due |-> FALSE, list |-> {}, bad |-> FALSE, lag |-> 0,
                   vms |-> {}, fresh |-> Stale, err |-> FALSE, pending |-> <<>>, overflow |-> FALSE]
         /\ pub = NoPub
         /\ said = [m \in Machines |-> "none"]
         /\ got = {}
         /\ server = "serving"

(***************************************************************************)
(* The hypervisor and the agents in the machines.                          *)
(***************************************************************************)
Start(m, c) ==
  /\ <<m, c>> \in cplan.starts
  /\ \A n \in Machines : hv[n] # c /\ (hv[n] # 0 => n.name # m.name)
  /\ hv[m] = 0
  /\ hv' = [hv EXCEPT ![m] = c]
  /\ cplan' = [cplan EXCEPT !.starts = @ \ {<<m, c>>}]
  /\ UNCHANGED <<conns, acc, slots, hints, mon, pub, said, got, server>>

\* A machine's connections do not outlive it.
Stop(m) ==
  /\ cplan.stops > 0
  /\ hv[m] # 0
  /\ hv' = [hv EXCEPT ![m] = 0]
  /\ conns' = [i \in 1..Slots |-> IF conns[i].vm = m THEN [conns[i] EXCEPT !.up = FALSE] ELSE conns[i]]
  /\ cplan' = [cplan EXCEPT !.stops = @ - 1]
  /\ UNCHANGED <<acc, slots, hints, mon, pub, said, got, server>>

\* An agent connects when it has no connection; a dropped one is an agent restart.
Dial(m) ==
  /\ cplan.dials > 0
  /\ hv[m] # 0 /\ server = "serving"
  /\ \A i \in 1..Slots : conns[i].vm = m => ~conns[i].up
  /\ \E i \in 1..Slots :
       /\ conns[i] = Gone
       /\ \A j \in 1..Slots : conns[j] = Gone => i <= j
       /\ conns' = [conns EXCEPT ![i] =
            [Gone EXCEPT !.pc = "backlog", !.vm = m, !.cid = hv[m], !.up = TRUE, !.beat = FALSE]]
  /\ cplan' = [cplan EXCEPT !.dials = @ - 1]
  /\ UNCHANGED <<hv, acc, slots, hints, mon, pub, said, got, server>>

Drop(i) ==
  /\ "drop" \in Fault({"drop"}) /\ Spend("drop")
  /\ conns[i].up
  /\ conns' = [conns EXCEPT ![i].up = FALSE]
  /\ UNCHANGED <<hv, acc, slots, hints, mon, pub, said, got, server>>

(***************************************************************************)
(* The accept loop: one connection at a time, its source looked up once.   *)
(***************************************************************************)
Accept(i) ==
  /\ acc.pc = "accept" /\ server = "serving"
  /\ conns[i].pc = "backlog"
  /\ conns' = [conns EXCEPT ![i].pc = "accepting"]
  /\ acc' = [acc EXCEPT !.pc = "confirm", !.conn = i]
  /\ UNCHANGED <<cplan, hv, slots, hints, mon, pub, said, got, server>>

\* vsockGuest: the name, and the UUID if it can be read.
Guest(m, f) == [known |-> TRUE, vm |-> IF f = "uuid" THEN [m EXCEPT !.uuid = 0] ELSE m]

\* A faulty variant: the hint is believed without asking whether it still holds.
TrustHint(cid, f) ==
  IF hints[cid] = "" THEN {[pc |-> "scan", src |-> Unknown]}
  ELSE {[pc |-> "admit", src |-> Guest(m, f)] : m \in {n \in Machines : n.name = hints[cid]}}

\* A hint is believed only if the machine of that name runs and holds the CID now.
LookupVSockGuest(cid, f) ==
  IF f = "connect" THEN {[pc |-> "admit", src |-> Unknown]}
  ELSE IF \E m \in Machines : hints[cid] = m.name /\ hv[m] = cid
  THEN {[pc |-> "admit", src |-> Guest(m, f)] : m \in {n \in Machines : hv[n] = cid}}
  ELSE {[pc |-> "scan", src |-> Unknown]}

Confirm ==
  /\ acc.pc = "confirm"
  /\ \E f \in Fault({"connect", "uuid"}) :
       \E r \in LookupVSockGuest(conns[acc.conn].cid, f) :
         acc' = [acc EXCEPT !.pc = r.pc, !.src = r.src] /\ Spend(f)
  /\ UNCHANGED <<hv, conns, slots, hints, mon, pub, said, got, server>>

\* A machine whose XML cannot be read is left out of the hints and not found.
ScanVSockGuests ==
  /\ acc.pc = "scan"
  /\ \E f \in Fault({"list", "xml", "uuid"}) :
       /\ Spend(f)
       /\ LET cid == conns[acc.conn].cid
              seen == {m \in Machines : hv[m] # 0 /\ ~(f = "xml" /\ hv[m] = cid)}
              match == {m \in seen : hv[m] = cid}
          IN /\ hints' = IF f = "list" THEN hints
                         ELSE [c \in Cids |-> IF \E m \in seen : hv[m] = c
                                              THEN (CHOOSE m \in seen : hv[m] = c).name ELSE ""]
             /\ acc' = [acc EXCEPT !.pc = "admit",
                          !.src = IF f = "list" \/ match = {} THEN Unknown
                                  ELSE Guest(CHOOSE m \in match : TRUE, f)]
  /\ UNCHANGED <<hv, conns, slots, mon, pub, said, got, server>>

Admissible(cid) ==
  /\ acc.src.known \/ cplan.unknown
  /\ slots.total < MaxConns
  /\ slots.per[cid] < MaxConnsPerCid

Admit ==
  /\ acc.pc = "admit"
  /\ LET cid == conns[acc.conn].cid
     IN IF Admissible(cid)
        THEN /\ slots' = [total |-> slots.total + 1, per |-> [slots.per EXCEPT ![cid] = @ + 1]]
             /\ conns' = [conns EXCEPT ![acc.conn].pc = "hello", ![acc.conn].src = acc.src]
             /\ acc' = [acc EXCEPT !.pc = "accept", !.conn = 0, !.src = Unknown]
        ELSE /\ conns' = [conns EXCEPT ![acc.conn] = Gone]
             /\ acc' = [acc EXCEPT !.pc = "reject"]
             /\ slots' = slots
  /\ UNCHANGED <<cplan, hv, hints, mon, pub, said, got, server>>

\* The refusal is itself reported through the sink.
Reject ==
  /\ acc.pc = "reject"
  /\ got' = got \cup {[vm |-> NoMachine, src |-> acc.src]}
  /\ acc' = [acc EXCEPT !.pc = "accept", !.conn = 0, !.src = Unknown]
  /\ UNCHANGED <<cplan, hv, conns, slots, hints, mon, pub, said, server>>

\* Accept returns an error: the listener was closed, or the socket is gone, which ends
\* the serving and cancels everything else.
AcceptReturns ==
  /\ acc.pc = "accept"
  /\ acc' = [acc EXCEPT !.pc = "done"]
  /\ server' = "stopping"
  /\ UNCHANGED <<hv, conns, slots, hints, mon, pub, said, got>>

AcceptStops == Stopping /\ cplan' = cplan /\ AcceptReturns
AcceptFails == server = "serving" /\ "accept" \in Fault({"accept"}) /\ Spend("accept") /\ AcceptReturns

(***************************************************************************)
(* The monitor's health table, shared by the sessions and the monitor.     *)
(***************************************************************************)
\* queueLocked; the alert counts only if there was room for it.
Queued(q, h, what) ==
  IF Len(q.pending) >= MaxAlerts THEN [q EXCEPT !.overflow = TRUE]
  ELSE [q EXCEPT !.pending = Append(@, [vm |-> h.vm, what |-> what]),
                 !.vms = (@ \ {h}) \cup {[h EXCEPT !.lost = (what = "lost")]}]

AllowedSilence(h) == IF h.observed THEN Timeout ELSE Grace

MonitorSeen(q, cid, src) ==
  LET hs == {h \in q.vms : h.cid = cid /\ src.known /\ h.vm = src.vm}
  IN IF hs = {} THEN q
     ELSE LET h == CHOOSE h \in hs : TRUE
              k == [h EXCEPT !.age = 0, !.observed = TRUE]
              r == [q EXCEPT !.vms = (@ \ {h}) \cup {k}]
          IN IF k.lost THEN Queued(r, k, "resumed") ELSE r

\* checkContext for one machine, and for all of them in some order.
CheckOne(q, h) ==
  IF h.age <= AllowedSilence(h)
  THEN IF h.lost /\ h.observed THEN Queued(q, h, "resumed") ELSE q
  ELSE IF h.lost THEN q ELSE Queued(q, h, "lost")

CheckAll(q) == FoldLeft(CheckOne, q, SetToSeq(q.vms))

\* identityAvailable: fresh inventory can name a session that is not fully named.
IdentityAvailable(cid, src) ==
  /\ ~(src.known /\ src.vm.uuid # 0)
  /\ ~mon.err /\ mon.fresh < Stale
  /\ \E h \in mon.vms : h.cid = cid

\* publishPending by i: entered unless somebody is in it already.
EntersPublisher(q) == pub.who = Nobody /\ q.pending # <<>>
EnterPublisher(i, q) ==
  pub' = IF EntersPublisher(q) THEN [who |-> i, left |-> Len(q.pending)] ELSE pub

(***************************************************************************)
(* Sessions.                                                               *)
(***************************************************************************)
Hears(i, next) ==
  /\ mon' = MonitorSeen(mon, conns[i].cid, conns[i].src)
  /\ EnterPublisher(i, mon')
  /\ conns' = [conns EXCEPT ![i].pc = IF EntersPublisher(mon') THEN "publish" ELSE next,
                            ![i].next = next]

\* The handshake needs answers in both directions, so the machine is still there.
Handshake(i) ==
  /\ conns[i].pc = "hello" /\ conns[i].up /\ server = "serving"
  /\ Hears(i, "serve")
  /\ UNCHANGED <<cplan, hv, acc, slots, hints, said, got, server>>

\* An event or a heartbeat; an insufficiently named session is told to reconnect.
Frame(i) ==
  /\ conns[i].pc = "serve" /\ conns[i].up /\ ~conns[i].beat /\ server = "serving"
  /\ IF IdentityAvailable(conns[i].cid, conns[i].src)
     THEN conns' = [conns EXCEPT ![i].pc = "end"] /\ UNCHANGED <<mon, pub>>
     ELSE Hears(i, "write")
  /\ UNCHANGED <<cplan, hv, acc, slots, hints, said, got, server>>

Write(i) ==
  /\ conns[i].pc = "write"
  /\ got' = got \cup {[vm |-> conns[i].vm, src |-> conns[i].src]}
  /\ conns' = [conns EXCEPT ![i].pc = "serve", ![i].beat = TRUE]
  /\ UNCHANGED <<cplan, hv, acc, slots, hints, mon, pub, said, server>>

Release(cid) == slots' = [total |-> slots.total - 1, per |-> [slots.per EXCEPT ![cid] = @ - 1]]

SessionEnds(i) ==
  /\ \/ conns[i].pc \in {"hello", "serve"} /\ (~conns[i].up \/ Stopping)
     \/ conns[i].pc = "end"
  /\ Release(conns[i].cid)
  /\ conns' = [conns EXCEPT ![i] = Gone]
  /\ UNCHANGED <<cplan, hv, acc, hints, mon, pub, said, got, server>>

(***************************************************************************)
(* The monitor's own goroutine.                                            *)
(***************************************************************************)
\* ListExpectedVSockGuests: all running machines, or an error.
Expected ==
  /\ mon.pc = "list" \/ (mon.pc = "idle" /\ mon.due /\ ~Stopping)
  /\ \E f \in Fault({"inventory"}) :
       /\ Spend(f)
       /\ mon' = [mon EXCEPT !.pc = IF @ = "list" THEN "first" ELSE "apply", !.due = FALSE, !.lag = 0,
                    !.bad = (f # "no"), !.list = {[cid |-> hv[m], vm |-> m] : m \in {n \in Machines : hv[n] # 0}}]
  /\ UNCHANGED <<hv, conns, acc, slots, hints, pub, said, got, server>>

\* Ghost: what the last alert about m says, published or still waiting.
LastAlert(m) ==
  LET mine == SelectSeq(mon.pending, LAMBDA a : a.vm = m)
  IN IF mine # <<>> THEN mine[Len(mine)].what ELSE said[m]

\* A machine known before under the same CID, name and UUID keeps its health.
Kept(g) ==
  LET old == {h \in mon.vms : h.cid = g.cid /\ h.vm = g.vm}
  IN IF old # {} THEN CHOOSE h \in old : TRUE
     ELSE [cid |-> g.cid, vm |-> g.vm, age |-> mon.lag, observed |-> FALSE, lost |-> FALSE,
      told |-> LastAlert(g.vm)]

Refresh ==
  /\ mon.pc \in {"first", "apply"}
  /\ mon' = [mon EXCEPT !.pc = IF @ = "first" THEN "idle" ELSE "check", !.list = {}, !.fresh = 0,
                        !.err = mon.bad, !.bad = FALSE, !.lag = 0,
                        !.vms = IF mon.bad THEN @ ELSE {Kept(g) : g \in mon.list}]
  /\ UNCHANGED <<cplan, hv, conns, acc, slots, hints, pub, said, got, server>>

Check ==
  /\ mon.pc = "check"
  /\ LET q == CheckAll(mon)
     IN /\ mon' = [q EXCEPT !.pc = IF EntersPublisher(q) THEN "publish" ELSE "idle"]
        /\ EnterPublisher(TheMonitor, q)
  /\ UNCHANGED <<cplan, hv, conns, acc, slots, hints, said, got, server>>

MonitorStops ==
  /\ mon.pc = "idle" /\ Stopping
  /\ mon' = [mon EXCEPT !.pc = "done"]
  /\ UNCHANGED <<cplan, hv, conns, acc, slots, hints, pub, said, got, server>>

(***************************************************************************)
(* publishPending: the oldest alert is removed once it is written.  A write*)
(* may fail; one that succeeds after the five seconds are up is the last.  *)
(***************************************************************************)
PublishOne ==
  /\ pub.left > 0
  /\ \E f \in Fault({"fail", "slow"}) \cup (IF pub.who = TheMonitor /\ Stopping THEN {"fail"} ELSE {}) :
       /\ IF f \in Fault({"fail", "slow"}) THEN Spend(f) ELSE cplan' = cplan
       /\ IF f = "fail" THEN UNCHANGED <<mon, said>>
          ELSE /\ said' = [said EXCEPT ![Head(mon.pending).vm] = Head(mon.pending).what]
               /\ mon' = [mon EXCEPT !.pending = Tail(@)]
       /\ pub' = [pub EXCEPT !.left = IF f = "no" THEN @ - 1 ELSE 0]
  /\ UNCHANGED <<hv, conns, acc, slots, hints, got, server>>

LeavePublisher ==
  /\ pub.who # Nobody /\ pub.left = 0
  /\ pub' = NoPub
  /\ IF pub.who = TheMonitor
     THEN mon' = [mon EXCEPT !.pc = "idle"] /\ conns' = conns
     ELSE conns' = [conns EXCEPT ![pub.who].pc = conns[pub.who].next] /\ mon' = mon
  /\ UNCHANGED <<cplan, hv, acc, slots, hints, said, got, server>>

(***************************************************************************)
(* Time, and the end of the server.                                        *)
(***************************************************************************)
Busy == \/ acc.pc # "accept" \/ pub # NoPub \/ mon.pc # "idle" \/ mon.due
        \/ \E i \in 1..Slots : conns[i] # Gone /\ ~(conns[i].pc = "serve" /\ conns[i].up /\ conns[i].beat)

\* One interval passes; readiness calls an inventory stale after three.
Tick ==
  /\ server = "serving" /\ (Busy => cplan.late > 0)
  /\ cplan' = IF Busy THEN [cplan EXCEPT !.late = @ - 1] ELSE cplan
  /\ mon' = [mon EXCEPT !.due = TRUE, !.fresh = IF @ < Stale THEN @ + 1 ELSE @,
               !.lag = IF mon.pc \in {"first", "apply"} THEN Older(@) ELSE 0,
               !.vms = {[h EXCEPT !.age = Older(@)] : h \in @}]
  /\ conns' = [i \in 1..Slots |-> IF conns[i] = Gone THEN Gone ELSE [conns[i] EXCEPT !.beat = FALSE]]
  /\ UNCHANGED <<hv, acc, slots, hints, pub, said, got, server>>

Cancel ==
  /\ cplan.ends /\ server = "serving"
  /\ server' = "stopping"
  /\ UNCHANGED <<cplan, hv, conns, acc, slots, hints, mon, pub, said, got>>

\* Run waits for the sessions and the monitor, then closes the sink.
Drained == (\A i \in 1..Slots : ~Live(i)) /\ mon.pc = "done"

Teardown ==
  /\ Stopping /\ acc.pc = "done" /\ Drained
  /\ server' = "closed"
  /\ UNCHANGED <<cplan, hv, conns, acc, slots, hints, mon, pub, said, got>>

CWork ==
  \/ \E i \in 1..Slots : Accept(i) \/ Handshake(i) \/ Frame(i) \/ Write(i) \/ SessionEnds(i)
  \/ Confirm \/ ScanVSockGuests \/ Admit \/ Reject
  \/ AcceptStops
  \/ Expected \/ Refresh \/ Check \/ MonitorStops \/ PublishOne \/ LeavePublisher
  \/ Tick \/ Teardown

CDial == \E m \in Machines : Dial(m)

CNext ==
  \/ CWork \/ CDial \/ AcceptFails \/ Cancel
  \/ \E m \in Machines : Stop(m) \/ \E c \in Cids : Start(m, c)
  \/ \E i \in 1..Slots : Drop(i)

(***************************************************************************)
(* Properties.                                                             *)
(***************************************************************************)
\* monitor.queueLocked: the backlog of alerts keeps its limit, hints name machines that
\* exist, and no more sessions are counted than connections can be.
CTypeOK ==
  /\ hv \in [Machines -> Cids \cup {0}] /\ hints \in [Cids -> {""} \cup {m.name : m \in Machines}]
  /\ acc.conn \in 0..Slots /\ slots.total \in 0..Slots
  /\ server \in {"serving", "stopping", "closed"}
  /\ Len(mon.pending) <= MaxAlerts /\ pub.who \in 0..TheMonitor

\* Server.admit and its release function: the counters are the live sessions, in total
\* and per CID, so a limit never lets one too many in and never locks a guest out.
CountsMatch ==
  /\ slots.total = Cardinality({i \in 1..Slots : Live(i)})
  /\ \A c \in Cids : slots.per[c] = Cardinality({i \in 1..Slots : Live(i) /\ conns[i].cid = c})
  /\ slots.total <= MaxConns /\ \A c \in Cids : slots.per[c] <= MaxConnsPerCid

\* LookupVSockGuest and Server.serve: an event written under a known machine's name came
\* from that machine, however CIDs were reassigned around the lookup.
AttributionRight ==
  \A e \in got : e.vm # NoMachine /\ e.src.known =>
     /\ e.src.vm.name = e.vm.name
     /\ e.src.vm.uuid \in {0, e.vm.uuid}

\* monitor.queueLocked, loseLocked and resumeLocked: while a machine keeps its entry in
\* the table, the last alert about it (waiting, or published) says what the table says, unless
\* it was lost when it was last removed from the table (told).
AlertsTellHealth ==
  \A h \in mon.vms : IF h.lost THEN LastAlert(h.vm) = "lost"
                     ELSE LastAlert(h.vm) # "lost" \/ h.told = "lost"

\* monitor.publishPending removes the head of the backlog after writing it: whoever is
\* in there still has as many alerts as it means to take, and is alone.
PublisherSafe ==
  /\ pub.left <= Len(mon.pending)
  /\ {i \in 1..Slots : conns[i].pc = "publish"} \cup
       (IF mon.pc = "publish" THEN {TheMonitor} ELSE {}) = {pub.who} \ {Nobody}

\* Server.Run closes the sink after the last of its writers: nobody is between reading
\* a frame, an alert or a refusal and writing it.
SinkOutlivesWriters ==
  server = "closed" => /\ pub = NoPub /\ acc.pc = "done"
                       /\ \A i \in 1..Slots : ~Live(i)

\* Readiness of the stream monitor.
Ready == /\ ~mon.err /\ mon.fresh < Stale /\ ~mon.overflow /\ mon.pending = <<>>
         /\ \A h \in mon.vms : h.age <= AllowedSilence(h)
Named(m) == \E i \in 1..Slots : Live(i) /\ conns[i].up /\ conns[i].vm = m /\ conns[i].src = [known |-> TRUE, vm |-> m]

\* monitor.run: in the long run readiness says whether every running machine has a live
\* session under its own name, and the silent ones are published as lost.
HealthSettles ==
  <>[](server = "serving" /\ ~mon.overflow /\ ~mon.due =>
         /\ Busy \/ (Ready <=> \A m \in Machines : hv[m] # 0 => Named(m))
         /\ \A m \in Machines : hv[m] # 0 /\ ~Named(m) => Busy \/ said[m] = "lost")

\* requireResolvedIdentity: a session admitted without a full name does not stay so.
IdentityRecovered ==
  <>[](server = "serving" =>
        \A i \in 1..Slots : conns[i].pc = "serve" /\ conns[i].up => Named(conns[i].vm))

\* Server.Run: once the accept loop has stopped, or was told to, Run does not stay: it returns.
RunEnds == <>[]~Stopping

(* Server and monitor: sessions are counted and named for the machine that   *)
(* runs them, the alerts tell what the health table says, one publisher      *)
(* writes at a time, and the sink outlives its writers.                      *)
CollectorSound ==
    /\ CTypeOK /\ CountsMatch /\ AttributionRight
    /\ AlertsTellHealth /\ PublisherSafe /\ SinkOutlivesWriters
=============================================================================
