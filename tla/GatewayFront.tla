---------------------------- MODULE GatewayFront ----------------------------
(***************************************************************************)
(* The gateway's shared front listener: the two connection caps, the four  *)
(* things a connection can become (an RDP proxy, a web request, a VNC or a *)
(* serial console, the last two by taking the connection away from the HTTP*)
(* server), the registries that know of them, and the orderly shutdown,    *)
(* which must find every connection in one registry or the other and close *)
(* the audit sink after the last of them has recorded its end.             *)
(*                                                                         *)
(* Every connection is a process.  A client, a backend, an authorisation   *)
(* or a timeout that may fail does so as the plan allows.                  *)
(***************************************************************************)
EXTENDS Naturals, Sequences, FiniteSets

CONSTANTS Sources,         \* perSourceLimitKey buckets
          FrontPlans       \* [maxOpen, maxPer, conns, requests, leaves, faults, kinds, late, overdue, stop]

VARIABLES fplan,   \* the budgets, counted down
          fconns,  \* the connections, in the order of their arrival
          cap,     \* slots taken: [all, per]
          loop,    \* serveListener: "accept", "retry", "dead", "stopped"
          refuse,  \* [users, http]: Manager.connectionsClosing, httpServerRegistry.closing
          due,     \* close functions CloseAllConnections has dispatched, not yet run
          stage,   \* gatewayRuntime.close, by the step it is in
          torn     \* ghost: a libvirt stream was freed in use or aborted after it was freed

frontVars == <<fplan, fconns, cap, loop, refuse, due, stage, torn>>

Web == {"web", "vnc", "serial"}
Conn(k) == [pc |-> "new", kind |-> k.kind, src |-> k.src, peer |-> TRUE, open |-> FALSE,
            back |-> "none", http |-> "none", hj |-> FALSE, reg |-> FALSE, use |-> FALSE,
            log |-> "none", pumps |-> {}, srv |-> "up"]
Ids == 1..Len(fconns)

FFault(kinds) == {"no"} \cup (IF fplan.faults > 0 THEN kinds \cap fplan.kinds ELSE {})
FSpend(f) == fplan' = IF f = "no" THEN fplan ELSE [fplan EXCEPT !.faults = @ - 1]

FInit == /\ fplan \in FrontPlans
         /\ fconns = [i \in 1..Len(fplan.conns) |-> Conn(fplan.conns[i])]
         /\ cap = [all |-> 0, per |-> [s \in Sources |-> 0]]
         /\ loop = "accept"
         /\ refuse = [users |-> FALSE, http |-> FALSE]
         /\ due = {}
         /\ stage = "serve"
         /\ torn = FALSE

(***************************************************************************)
(* Slots.  Closing an accepted connection, however often, gives its slots  *)
(* back once (slotTrackedConn).                                            *)
(***************************************************************************)
Freed(k, s) == [all |-> k.all - 1, per |-> [k.per EXCEPT ![s] = @ - 1]]

ReleaseOnce(c) == IF fconns[c].open THEN Freed(cap, fconns[c].src) ELSE cap

Put(c, r) == fconns' = [fconns EXCEPT ![c] = r] /\ cap' = cap
PutClosed(c, r) == fconns' = [fconns EXCEPT ![c] = [r EXCEPT !.open = FALSE]] /\ cap' = ReleaseOnce(c)

\* perSourceLimitListener inside failFastLimitListener: a connection over the global cap
\* is closed by the outer one, which returns the slot the inner one gave it.
Admitted(s) ==
  IF cap.per[s] >= fplan.maxPer THEN [ok |-> FALSE, cap |-> cap]
  ELSE IF cap.all >= fplan.maxOpen THEN [ok |-> FALSE, cap |-> cap]
  ELSE [ok |-> TRUE, cap |-> [all |-> cap.all + 1, per |-> [cap.per EXCEPT ![s] = @ + 1]]]

Accept1(c) ==
  /\ loop = "accept" /\ stage = "serve"
  /\ fconns[c].pc = "new" /\ \A d \in Ids : d < c => fconns[d].pc # "new"
  /\ LET a == Admitted(fconns[c].src)
     IN /\ cap' = a.cap
        /\ fconns' = [fconns EXCEPT ![c].pc = IF a.ok THEN "sniff" ELSE "end", ![c].open = a.ok]
  /\ UNCHANGED <<fplan, loop, refuse, due, stage, torn>>

\* A transient Accept error is retried after a pause; another one ends the loop, and so
\* does the closed listener.
AcceptError ==
  /\ loop = "accept" /\ stage = "serve"
  /\ \E f \in FFault({"emfile", "accept"}) \ {"no"} :
       loop' = (IF f = "emfile" THEN "retry" ELSE "dead") /\ FSpend(f)
  /\ UNCHANGED <<fconns, cap, refuse, due, stage, torn>>

AcceptAgain ==
  /\ loop = "retry" \/ (loop = "accept" /\ stage # "serve")
  /\ loop' = IF loop = "retry" THEN "accept" ELSE "stopped"
  /\ UNCHANGED <<fplan, fconns, cap, refuse, due, stage, torn>>

(***************************************************************************)
(* A connection before it is known what it will be.                        *)
(***************************************************************************)
\* The first byte says TLS or RDP; RDP is refused while the audit log cannot take events.
Sniff(c) ==
  /\ fconns[c].pc = "sniff"
  /\ \E f \in FFault(IF fconns[c].kind = "rdp" THEN {"pressure"} ELSE {}) :
       /\ FSpend(f)
       /\ IF ~fconns[c].peer \/ f # "no" THEN PutClosed(c, [fconns[c] EXCEPT !.pc = "end"])
          ELSE Put(c, [fconns[c] EXCEPT !.pc = IF fconns[c].kind = "rdp" THEN "use" ELSE "tls"])
  /\ UNCHANGED <<loop, refuse, due, stage, torn>>

\* After the TLS handshake the connection's own HTTP server is registered, or refused
\* by a registry that is closing.
Registers(r) == r.peer /\ ~refuse.http
RegisterHTTP(c) ==
  /\ fconns[c].pc = "tls"
  /\ IF Registers(fconns[c]) THEN Put(c, [fconns[c] EXCEPT !.pc = "serve", !.http = "in"])
     ELSE PutClosed(c, [fconns[c] EXCEPT !.pc = "end"])
  /\ UNCHANGED <<fplan, loop, refuse, due, stage, torn>>

\* srv.Serve accepts the one connection, unless Shutdown closed the listener before.
Serve(c) ==
  /\ fconns[c].pc = "serve"
  /\ IF fconns[c].srv = "up" THEN Put(c, [fconns[c] EXCEPT !.pc = "wait"])
     ELSE PutClosed(c, [fconns[c] EXCEPT !.pc = "end", !.http = "out"])
  /\ UNCHANGED <<fplan, loop, refuse, due, stage, torn>>

(***************************************************************************)
(* The HTTP server's connection: between requests, and in a handler.       *)
(***************************************************************************)
Request(c) ==
  /\ fconns[c].pc = "wait" /\ fconns[c].peer /\ fconns[c].open /\ fplan.requests > 0
  /\ fplan' = [fplan EXCEPT !.requests = @ - 1]
  /\ Put(c, [fconns[c] EXCEPT !.pc = IF fconns[c].kind = "serial" THEN "upgrade"
                                     ELSE IF fconns[c].kind = "vnc" THEN "use" ELSE "handle"])
  /\ UNCHANGED <<loop, refuse, due, stage, torn>>

\* StateClosed: the client left, the connection was idle too long, Shutdown closed it
\* as idle, or the shutdown cut the transport.
HTTPClosed(c) ==
  /\ fconns[c].pc = "wait"
  /\ ~fconns[c].peer \/ ~fconns[c].open \/ fconns[c].srv # "up"
  /\ PutClosed(c, [fconns[c] EXCEPT !.pc = "end", !.http = "out"])
  /\ UNCHANGED <<fplan, loop, refuse, due, stage, torn>>

\* An ordinary handler runs, records what it did, and returns.
Handle(c) ==
  /\ fconns[c].pc = "handle"
  /\ Put(c, [fconns[c] EXCEPT !.pc = "wait", !.log = "did"])
  /\ UNCHANGED <<fplan, loop, refuse, due, stage, torn>>

(***************************************************************************)
(* RDP, VNC and serial: authorise, take the machine into use, open the     *)
(* backend, (web) take the connection over, register with the sessions.    *)
(***************************************************************************)
\* negotiateFrontRDP: the client's request, the confirmation and the TLS handshake.
Negotiated(r) == r.kind = "rdp" => r.peer

\* Authorised, TrackVMUse; or turned away.
BeginUse(c) ==
  /\ fconns[c].pc = "use"
  /\ \E f \in FFault(IF fconns[c].kind = "serial" THEN {} ELSE {"denied"}) :
       /\ FSpend(f)
       /\ IF f = "no" /\ Negotiated(fconns[c])
          THEN Put(c, [fconns[c] EXCEPT !.pc = "dial", !.use = TRUE])
          ELSE IF fconns[c].kind = "rdp" THEN PutClosed(c, [fconns[c] EXCEPT !.pc = "end"])
          ELSE Put(c, [fconns[c] EXCEPT !.pc = "wait"])
  /\ UNCHANGED <<loop, refuse, due, stage, torn>>

\* A backend that cannot be opened: the deferred endVMUse runs; serial, already taken
\* over, closes its websocket, VNC answers with an error.
Opens(r, f, next, failed) ==
  IF f = "no" THEN [r EXCEPT !.pc = next, !.back = "open"] ELSE [r EXCEPT !.pc = failed, !.use = FALSE]
DialBackendRDP(r, f) == Opens(r, f, "register", "return")
OpenVNCConn(r, f) == Opens(r, f, "upgrade", "wait")
OpenSerialConsole(r, f) == Opens(r, f, "register", "return")

OpenBackend(c) ==
  /\ fconns[c].pc = "dial"
  /\ \E f \in FFault({"backend"}) :
       LET r == CASE fconns[c].kind = "rdp" -> DialBackendRDP(fconns[c], f)
                  [] fconns[c].kind = "vnc" -> OpenVNCConn(fconns[c], f)
                  [] fconns[c].kind = "serial" -> OpenSerialConsole(fconns[c], f)
       IN FSpend(f) /\ IF r.pc = "return" THEN PutClosed(c, r) ELSE Put(c, r)
  /\ UNCHANGED <<loop, refuse, due, stage, torn>>

\* Upgrade and StateHijacked; a failed upgrade answers with an error.
Upgrade(c) ==
  /\ fconns[c].pc = "upgrade"
  /\ \E f \in FFault({"upgrade"}) :
       /\ FSpend(f)
       /\ Put(c, IF f # "no" \/ ~fconns[c].open
                 THEN [fconns[c] EXCEPT !.pc = "wait", !.use = FALSE,
                                        !.back = IF @ = "open" THEN "closed" ELSE @]
                 ELSE [fconns[c] EXCEPT !.pc = IF fconns[c].kind = "serial" THEN "use" ELSE "register",
                                        !.hj = TRUE])
  /\ UNCHANGED <<loop, refuse, due, stage, torn>>

\* A refused registration closes both sides, and the handler returns.
Refused(r) == [r EXCEPT !.pc = "return", !.use = FALSE, !.back = "closed"]

\* The connect is recorded, and the bridge starts.
Connected(r) == [r EXCEPT !.pc = "bridge", !.reg = TRUE, !.log = "connected",
                          !.pumps = IF r.kind = "serial" THEN {"up", "down"} ELSE {}]

\* RegisterUserConnection, then the audit record of the connect.
RegisterUser(c) ==
  /\ fconns[c].pc = "register"
  /\ \E f \in FFault({"limit"}) :
       /\ FSpend(f)
       /\ IF f # "no" \/ refuse.users THEN PutClosed(c, Refused(fconns[c]))
          ELSE Put(c, Connected(fconns[c]))
  /\ UNCHANGED <<loop, refuse, due, stage, torn>>

(***************************************************************************)
(* The bridges.  Mind the serial one: a libvirt stream may be aborted while*)
(* it is read or written, but freed only afterwards, and not aborted then. *)
(***************************************************************************)
Interrupt(b) == IF b = "closed" THEN b ELSE "aborted"

Aborts(c) == torn' = (torn \/ (fconns[c].back = "closed" /\ Interrupt("closed") # "closed"))

\* One pump of the serial bridge ends and stops the other: "up" is blocked in reading the
\* websocket, "down" in reading the console.
PumpEnds(c, p) ==
  /\ fconns[c].pc = "bridge" /\ p \in fconns[c].pumps
  /\ IF p = "up" THEN ~fconns[c].peer \/ ~fconns[c].open ELSE fconns[c].back # "open"
  /\ PutClosed(c, [fconns[c] EXCEPT !.pumps = @ \ {p}, !.back = Interrupt(@)])
  /\ Aborts(c)
  /\ UNCHANGED <<fplan, loop, refuse, due, stage>>

\* wg.Wait: both pumps.
PumpsDone(c) == fconns[c].pumps = {}

\* proxyBidirectional: one direction's copy ends, which closes both sides.
PipeBroken(r) == ~r.peer \/ ~r.open \/ r.back # "open"

\* Both sides are closed (freed), and the disconnect is recorded.
Disconnected(r) == [r EXCEPT !.pc = "unuse", !.back = "closed", !.log = "disconnected"]

BridgeEnds(c) ==
  /\ fconns[c].pc = "bridge"
  /\ IF fconns[c].kind = "serial" THEN PumpsDone(c) ELSE PipeBroken(fconns[c])
  /\ PutClosed(c, Disconnected(fconns[c]))
  /\ torn' = (torn \/ fconns[c].pumps # {})
  /\ UNCHANGED <<fplan, loop, refuse, due, stage>>

\* A faulty variant: the connection is unregistered before its use of the machine is ended.
UnregisterFirst(r) ==
  IF r.pc = "unuse" THEN [r EXCEPT !.pc = "unregister", !.reg = FALSE]
  ELSE [r EXCEPT !.pc = "return", !.use = FALSE]

\* finishDashboardConnection and Handle's last defer: the end of the use is stored
\* (endVMUse) before the connection counts as drained (unregister).
Finish(r) ==
  IF r.pc = "unuse" THEN [r EXCEPT !.pc = "unregister", !.use = FALSE]
  ELSE [r EXCEPT !.pc = "return", !.reg = FALSE]

FinishConnection(c) ==
  /\ fconns[c].pc \in {"unuse", "unregister"}
  /\ Put(c, Finish(fconns[c]))
  /\ UNCHANGED <<fplan, loop, refuse, due, stage, torn>>

\* The handler returns: a taken-over connection leaves the HTTP registry only now.
Return(c) ==
  /\ fconns[c].pc = "return"
  /\ PutClosed(c, [fconns[c] EXCEPT !.pc = "end", !.http = IF @ = "in" THEN "out" ELSE @])
  /\ UNCHANGED <<fplan, loop, refuse, due, stage, torn>>

\* The close function of a registered connection: both transports, or the websocket and
\* Interrupt.  It runs on a goroutine of its own, perhaps after all is over.
CloseFn(c) ==
  /\ c \in due
  /\ due' = due \ {c}
  /\ PutClosed(c, [fconns[c] EXCEPT !.back = IF fconns[c].kind = "serial" THEN Interrupt(@) ELSE "closed"])
  /\ IF fconns[c].kind = "serial" THEN Aborts(c) ELSE torn' = torn
  /\ UNCHANGED <<fplan, loop, refuse, stage>>

(***************************************************************************)
(* The shutdown.                                                           *)
(***************************************************************************)
\* wait: cancelled, or the accept loop or the collector ended by itself.
Wait ==
  /\ stage = "serve"
  /\ fplan.stop # "no" \/ loop = "dead"
  /\ stage' = "listener"
  /\ UNCHANGED <<fplan, fconns, cap, loop, refuse, due, torn>>

\* A bounded wait runs out.
Late == fplan.late > 0 /\ fplan' = [fplan EXCEPT !.late = @ - 1, !.overdue = TRUE]

\* CloseAllConnections refuses newcomers and dispatches the close functions in one
\* critical section, once closeListener has waited for the accept loop.
DrainUsers ==
  /\ stage = "listener"
  /\ refuse' = [refuse EXCEPT !.users = TRUE]
  /\ due' = {c \in Ids : fconns[c].reg}
  /\ stage' = "draining"
  /\ UNCHANGED <<fconns, cap, loop, torn>>

Drain == loop \in {"dead", "stopped"} /\ fplan' = fplan /\ DrainUsers
DrainLate == loop \in {"accept", "retry"} /\ Late /\ DrainUsers

\* drainHTTP, when every connection is unregistered: closed to newcomers, every
\* registered server is told to shut down.
DrainHTTP ==
  /\ stage = "draining"
  /\ refuse' = [refuse EXCEPT !.http = TRUE]
  /\ fconns' = [c \in Ids |-> IF fconns[c].http = "in" THEN [fconns[c] EXCEPT !.srv = "grace"] ELSE fconns[c]]
  /\ stage' = "http"
  /\ UNCHANGED <<cap, loop, due, torn>>

ConnectionsDrained == \A c \in Ids : ~fconns[c].reg
ShutdownHTTP == ConnectionsDrained /\ fplan' = fplan /\ DrainHTTP
ShutdownHTTPLate == ~ConnectionsDrained /\ Late /\ DrainHTTP

\* The grace period of one server is over: its request is cancelled and cut off; later
\* its handler is given up.
GraceEnds(c) ==
  /\ stage = "http" /\ fconns[c].http = "in" /\ Late
  /\ \/ fconns[c].srv = "grace" /\ PutClosed(c, [fconns[c] EXCEPT !.srv = "cut"])
     \/ fconns[c].srv = "cut" /\ Put(c, [fconns[c] EXCEPT !.srv = "left"])
  /\ UNCHANGED <<loop, refuse, due, stage, torn>>

\* registration.shutdown waits for done, which a handler closes as it returns.
DrainedHTTP == \A c \in Ids : fconns[c].srv \in {"grace", "cut"} => fconns[c].http = "out"

\* The session manager, the collector, the profiler and the certificates are closed;
\* the audit sink comes last.
CloseSink ==
  /\ stage = "http" /\ DrainedHTTP
  /\ stage' = "closed"
  /\ UNCHANGED <<fplan, fconns, cap, loop, refuse, due, torn>>

(***************************************************************************)
(* Clients and backends.                                                   *)
(***************************************************************************)
Leave(c) ==
  /\ fplan.leaves > 0 /\ fconns[c].pc \notin {"new", "end"}
  /\ \/ fconns[c].peer /\ fconns' = [fconns EXCEPT ![c].peer = FALSE]
     \/ fconns[c].back = "open" /\ fconns[c].pc = "bridge" /\ fconns' = [fconns EXCEPT ![c].back = "aborted"]
  /\ fplan' = [fplan EXCEPT !.leaves = @ - 1]
  /\ UNCHANGED <<cap, loop, refuse, due, stage, torn>>

FWork ==
  \/ \E c \in Ids : \/ Accept1(c) \/ Sniff(c) \/ RegisterHTTP(c) \/ Serve(c) \/ HTTPClosed(c) \/ Handle(c)
                    \/ BeginUse(c) \/ OpenBackend(c) \/ Upgrade(c) \/ RegisterUser(c) \/ BridgeEnds(c)
                    \/ FinishConnection(c) \/ Return(c) \/ CloseFn(c) \/ Request(c)
                    \/ \E p \in {"up", "down"} : PumpEnds(c, p)
  \/ AcceptAgain \/ Wait \/ Drain \/ ShutdownHTTP \/ CloseSink

FNext == \/ FWork \/ AcceptError \/ DrainLate \/ ShutdownHTTPLate
         \/ \E c \in Ids : Leave(c) \/ GraceEnds(c)

(***************************************************************************)
(* Properties.                                                             *)
(***************************************************************************)
\* slotTrackedConn: the counts of taken slots never fall below zero, and only connections
\* that exist are waiting to be closed.
FTypeOK == /\ cap.all \in Nat /\ \A s \in Sources : cap.per[s] \in Nat
           /\ due \subseteq Ids

\* slotTrackedConn, failFastLimitListener and perSourceLimitListener: the slots taken are
\* the connections open, of each source and of all, on whatever path they were closed.
SlotsMatchOpen ==
  /\ cap.all = Cardinality({c \in Ids : fconns[c].open})
  /\ \A s \in Sources : cap.per[s] = Cardinality({c \in Ids : fconns[c].open /\ fconns[c].src = s})
  /\ cap.all <= fplan.maxOpen /\ \A s \in Sources : cap.per[s] <= fplan.maxPer

\* gatewayRuntime.close: when the audit sink is closed no connection still has an audit
\* record to write: each one that was connected has recorded its end, and no handler of
\* the HTTP registry is running.  (A wait given up after its timeout excuses those.)
InHandler(r) == r.pc \in {"handle", "use", "dial", "upgrade", "register", "bridge", "unuse", "unregister", "return"}
RecordedBeforeClosed ==
  stage = "closed" =>
    \A c \in Ids : \/ fconns[c].srv = "left" \/ (fplan.overdue /\ fconns[c].http = "none")
                   \/ /\ fconns[c].log # "connected"
                      /\ fconns[c].http # "none" => ~InHandler(fconns[c])

\* RegisterUserConnection and TrackVMUse: the machine is in use for as long as its backend
\* is open, and when the drain is over the end of every drained use has been stored.
UseCoversBackend ==
  /\ \A c \in Ids : fconns[c].back = "open" => fconns[c].use
  /\ stage \in {"http", "closed"} /\ ~fplan.overdue =>
       \A c \in Ids : fconns[c].log # "none" => ~fconns[c].use

\* handleSharedConn and the handlers: a connection that is over has given back all it
\* held: its backend, its use, its registrations, its slots.
AllReturned ==
  \A c \in Ids : fconns[c].pc = "end" =>
     /\ ~fconns[c].open /\ ~fconns[c].use /\ ~fconns[c].reg
     /\ fconns[c].back \notin {"open", "aborted"} /\ fconns[c].http # "in"

\* SerialConsole: a stream is not freed while a pump uses it, and not aborted once freed.
StreamSafe == ~torn

\* gatewayRuntime.Run: a cancelled gateway, and one whose accept loop or collector died,
\* closes down completely.
CloseEnds == <>[](stage # "serve" \/ loop = "dead" => stage = "closed")

(* Front door: a connection holds its slots while it is open, gives back     *)
(* what it took on every path, and is recorded before the audit sink closes; *)
(* a use covers its backend, and a stream is not aborted while it is freed.  *)
FrontOrderly ==
    /\ FTypeOK /\ SlotsMatchOpen /\ RecordedBeforeClosed
    /\ UseCoversBackend /\ AllReturned /\ StreamSafe
=============================================================================
