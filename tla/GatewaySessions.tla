-------------------------- MODULE GatewaySessions ---------------------------
(***************************************************************************)
(* internal/session: the store of browser sessions and its expiry audit    *)
(* (session.go, session_expiry.go), RDP tokens (rdp.go) and the registry   *)
(* of live connections (connection_authorization.go), as the handlers of   *)
(* the gateway, the RDP listener and the shutdown use them.                *)
(*                                                                         *)
(* A step is one critical section of sessionExpiryStore.mu or              *)
(* connectionsMu, one closing of a transport or one audit record.          *)
(* sessionsMu is held over several of them: variable lock.  A request is a *)
(* goroutine that serves one HTTP request or RDP connection.  Sessions and *)
(* RDP tokens are the numbers of their creation.                           *)
(***************************************************************************)
EXTENDS Integers, FiniteSets, Functions

CONSTANTS Slots,      \* requests under way at a time
          Users, VMs,
          Limit,      \* userConnectionLimit; none when it is 0
          TTL,        \* sessionTTL
          Grace,      \* rdpConnectWindow
          Plans       \* bounds; a behaviour has one of them

\* Kinds of requests and how many of them, who logs in, sessions and RDP tokens
\* created, the last instant, and whether the gateway shuts down.
ASSUME PlansAssumption ==
  Plans \subseteq [kinds : SUBSET STRING, requests : Nat, users : SUBSET Users, sessions : Nat,
                   grants : Nat, time : Nat, shutdown : BOOLEAN]

ASSUME LimitsAssumption == {Slots, Limit, TTL, Grace} \subseteq Nat

None == "none"
Requests == 1 .. Slots

VARIABLES
  plan, now,
  store,       \* scs memstore: token -> [user, deadline, grants]
  tracked,     \* sessionExpiryStore.tracked: token -> deadline
  closed,      \* sessionExpiryStore.closed
  auditing,    \* expiry callbacks counted in sessionExpiryStore.active
  lock,        \* holder of sessionsMu, or 0
  index,       \* rdpTokens: token -> [tok, vm, user, expires]
  generation, conns, active, closing,   \* the connection registry
  closeFns,    \* closes dispatched by CloseAllConnections
  stage,       \* of gatewayRuntime.close
  req,         \* the requests
  open,        \* connections whose transport is open
  nextTok, nextGrant, begun,
  dead,        \* history: sessions that left the store
  explicit,    \* history: ... by a logout or a new login of their browser
  recorded,    \* history: audit records of the end of a session
  gone,        \* history: RDP tokens that left their session
  uses,        \* history: connections authorized by an RDP token
  outdated     \* history: requests older than a completed logout of their user

sessions == <<store, tracked, closed, auditing>>
registry == <<generation, conns, active, closing, open>>
shutdown == <<closeFns, stage>>
bounds == <<nextTok, nextGrant, begun>>
vars == <<plan, now, sessions, lock, index, registry, shutdown, req, bounds,
          dead, explicit, recorded, gone, uses, outdated>>

Idle == [pc |-> "idle", user |-> None, tok |-> 0, gen |-> 0, deadline |-> 0, grant |-> 0,
         vm |-> None, data |-> None, at |-> 0, todo |-> {}, before |-> {}]

Tokens == 1 .. plan.sessions
Grants == 1 .. plan.grants

Init ==
  /\ plan \in Plans /\ now = 0
  /\ store = <<>> /\ tracked = <<>> /\ closed = FALSE /\ auditing = {}
  /\ lock = 0 /\ index = <<>>
  /\ generation = [u \in Users |-> 0] /\ conns = [u \in Users |-> {}]
  /\ active = 0 /\ closing = FALSE /\ open = {}
  /\ closeFns = {} /\ stage = "up"
  /\ req = [r \in Requests |-> Idle]
  /\ nextTok = 1 /\ nextGrant = 1 /\ begun = 0
  /\ dead = {} /\ explicit = {} /\ gone = {} /\ outdated = {}
  /\ recorded = [t \in Tokens |-> 0] /\ uses = [g \in Grants |-> 0]
-----------------------------------------------------------------------------
Without(f, S) == Restrict(f, DOMAIN f \ S)
With(f, x, v) == [y \in DOMAIN f \cup {x} |-> IF y = x THEN v ELSE f[y]]

\* Store.Find and the check of the deadline that follows it.
Live(t) == t \in DOMAIN store /\ now < store[t].deadline

\* removeSessionRDPTokenIndex.
OfSession(t) == {g \in DOMAIN index : index[g].tok = t}

At(r, pc) == req[r].pc = pc
Goto(r, pc) == req' = [req EXCEPT ![r].pc = pc]
End(r) == req' = [req EXCEPT ![r] = Idle]
Free == lock = 0

\* A request arrives, in the first free slot.
Begin(r, kind, rec) ==
  /\ At(r, "idle") /\ \A q \in 1 .. r - 1 : ~At(q, "idle")
  /\ kind \in plan.kinds /\ ~closed
  /\ begun < plan.requests /\ begun' = begun + 1
  /\ req' = [q \in Requests |-> IF q = r THEN rec ELSE [req[q] EXCEPT !.before = @ \ {r}]]

\* ... with the cookie of a session that is still in the store (LoadAndSave).
BeginWith(r, kind, t) ==
  /\ Live(t)
  /\ Begin(r, kind, [Idle EXCEPT !.pc = kind, !.tok = t, !.user = store[t].user])
  /\ UNCHANGED <<sessions, lock, index, registry, shutdown, nextTok, nextGrant, explicit, recorded, uses>>

\* sessionExpiryStore.Delete and the removal of the session's RDP tokens.
Delete(S) ==
  /\ store' = Without(store, S) /\ tracked' = Without(tracked, S)
  /\ index' = Without(index, UNION {OfSession(t) : t \in S})
  /\ UNCHANGED <<closed, auditing>>

\* sessionExpiryStore.Commit of session s under token t, in its three cases.
\* Faulty variant: the timer is cancelled and not scheduled again.
FaultyUntracked(t, s) ==
  /\ ~closed /\ now < s.deadline
  /\ store' = With(store, t, s) /\ tracked' = Without(tracked, {t})
  /\ UNCHANGED <<closed, auditing>>

Committed(t, s) ==
  /\ ~closed /\ now < s.deadline
  /\ store' = With(store, t, s) /\ tracked' = With(tracked, t, s.deadline)
  /\ UNCHANGED <<closed, auditing>>

CommitExpired(t, s) ==
  /\ ~closed /\ now >= s.deadline
  /\ store' = Without(store, {t}) /\ tracked' = Without(tracked, {t})
  /\ UNCHANGED <<closed, auditing>>

\* The error of a commit that is refused reaches the handler once the timeout
\* is audited, if this call took it out of tracking.
CommitFails(r) ==
  /\ \/ /\ closed /\ UNCHANGED sessions
        /\ End(r) /\ lock' = IF lock = r THEN 0 ELSE lock
     \/ /\ CommitExpired(req[r].tok, req[r].data)
        /\ IF req[r].tok \in DOMAIN tracked THEN Goto(r, "expired") /\ UNCHANGED lock
           ELSE End(r) /\ lock' = IF lock = r THEN 0 ELSE lock
  /\ UNCHANGED <<index, uses>>

AuditExpired(r) ==
  /\ At(r, "expired") /\ End(r) /\ lock' = IF lock = r THEN 0 ELSE lock
  /\ recorded' = [recorded EXCEPT ![req[r].tok] = @ + 1]
  /\ UNCHANGED <<sessions, index, registry, shutdown, bounds, explicit, uses>>
-----------------------------------------------------------------------------
(* Login.                                                                  *)

\* CreateSession by a browser with cookie old: RenewToken deletes its session.
CreateSession(r, u, old) ==
  /\ Free /\ nextTok <= plan.sessions /\ now + TTL <= plan.time
  /\ Begin(r, "login", [Idle EXCEPT !.pc = "save", !.user = u, !.tok = nextTok,
       !.data = [user |-> u, deadline |-> now + TTL, grants |-> <<>>]])
  /\ nextTok' = nextTok + 1
  /\ Delete({old}) /\ explicit' = explicit \cup ({old} \cap DOMAIN store)
  /\ UNCHANGED <<lock, registry, shutdown, nextGrant, recorded, uses>>

\* LoadAndSave commits the session when the handler is done.
SaveSession(r) ==
  /\ At(r, "save")
  /\ \/ Committed(req[r].tok, req[r].data) /\ End(r) /\ UNCHANGED <<lock, index, uses>>
     \/ CommitFails(r)
  /\ UNCHANGED <<registry, shutdown, bounds, explicit, recorded>>
-----------------------------------------------------------------------------
(* Logout everywhere (handleLogout).                                       *)

IsConnection(q) ==
  req[q].pc \in {"console", "validate", "rdp", "consume", "consuming", "setup", "live"}

\* DestroyAllSessionsForUser: the sessions found, and then each of them.
DestroyAll(r) ==
  /\ At(r, "logout") /\ Free /\ lock' = r
  /\ req' = [req EXCEPT ![r].pc = "destroying",
       ![r].todo = {t \in DOMAIN store : Live(t) /\ store[t].user = req[r].user},
       ![r].before = {q \in Requests : IsConnection(q) /\ req[q].user = req[r].user}]
  /\ UNCHANGED <<sessions, index, registry, shutdown, bounds, explicit, recorded, uses>>

DestroyOne(r) ==
  /\ At(r, "destroying")
  /\ \E t \in req[r].todo :
       /\ Delete({t}) /\ explicit' = explicit \cup ({t} \cap DOMAIN store)
       /\ req' = [req EXCEPT ![r].todo = @ \ {t}]
  /\ UNCHANGED <<lock, registry, shutdown, bounds, recorded, uses>>

DestroyDone(r) ==
  /\ At(r, "destroying") /\ req[r].todo = {} /\ lock' = 0 /\ Goto(r, "destroy")
  /\ UNCHANGED <<sessions, index, registry, shutdown, bounds, explicit, recorded, uses>>

DestroySession(r) ==
  /\ At(r, "destroy") /\ Free /\ Goto(r, "close")
  /\ Delete({req[r].tok}) /\ explicit' = explicit \cup ({req[r].tok} \cap DOMAIN store)
  /\ UNCHANGED <<lock, registry, shutdown, bounds, recorded, uses>>

\* CloseUserConnections: the new generation, and then each transport.
CloseUserConnections(r) ==
  LET u == req[r].user IN
  /\ At(r, "close")
  /\ generation' = [generation EXCEPT ![u] = @ + 1]
  /\ conns' = [conns EXCEPT ![u] = {}]
  /\ req' = [req EXCEPT ![r].pc = "closing", ![r].todo = conns[u]]
  /\ UNCHANGED <<sessions, lock, index, active, closing, open, shutdown, bounds, explicit, recorded, uses>>

CloseOne(r) ==
  /\ At(r, "closing")
  /\ \E q \in req[r].todo : open' = open \ {q} /\ req' = [req EXCEPT ![r].todo = @ \ {q}]
  /\ UNCHANGED <<sessions, lock, index, generation, conns, active, closing, shutdown, bounds,
                 explicit, recorded, uses>>

LogoutDone(r) ==
  /\ At(r, "closing") /\ req[r].todo = {} /\ End(r)
  /\ UNCHANGED <<sessions, lock, index, registry, shutdown, bounds, explicit, recorded, uses>>
-----------------------------------------------------------------------------
(* A request from another address (enforceClientIP, invalidateSession).    *)

\* Faulty variant: the session is destroyed without asking who ended it.
FaultyClaim(r) ==
  /\ At(r, "roam") /\ Free /\ lock' = r
  /\ tracked' = Without(tracked, {req[r].tok})
  /\ Goto(r, "claimed")
  /\ UNCHANGED <<store, closed, auditing, index, registry, shutdown, bounds, explicit, recorded, uses>>

Claim(r) ==
  /\ At(r, "roam") /\ Free /\ lock' = r
  /\ tracked' = Without(tracked, {req[r].tok})
  /\ Goto(r, IF req[r].tok \in DOMAIN tracked THEN "claimed" ELSE "unclaimed")
  /\ UNCHANGED <<store, closed, auditing, index, registry, shutdown, bounds, explicit, recorded, uses>>

Invalidate(r) ==
  /\ req[r].pc \in {"claimed", "unclaimed"}
  /\ Delete({req[r].tok}) /\ lock' = 0
  /\ IF At(r, "claimed") THEN Goto(r, "roamed") ELSE End(r)
  /\ UNCHANGED <<registry, shutdown, bounds, explicit, recorded, uses>>

AuditRoamed(r) ==
  /\ At(r, "roamed") /\ End(r)
  /\ recorded' = [recorded EXCEPT ![req[r].tok] = @ + 1]
  /\ UNCHANGED <<sessions, lock, index, registry, shutdown, bounds, explicit, uses>>
-----------------------------------------------------------------------------
(* RDP tokens (rdp.go).                                                    *)

\* GrantRDPConnect: the caller's snapshot, and the random token.
GrantRDPConnect(r, t, vm) ==
  /\ Live(t) /\ nextGrant <= plan.grants /\ nextGrant' = nextGrant + 1
  /\ Begin(r, "grant", [Idle EXCEPT !.pc = "grant", !.tok = t, !.user = store[t].user,
                                    !.vm = vm, !.grant = nextGrant])
  /\ UNCHANGED <<sessions, lock, index, registry, shutdown, nextTok, explicit, recorded, uses>>

\* Faulty variant: the read and the commit are not one critical section.
FaultyGrantLoad(r) ==
  LET s == store[req[r].tok]
      g == [id |-> req[r].grant, expires |-> now + Grace]
  IN
  /\ At(r, "grant") /\ Free
  /\ IF Live(req[r].tok)
     THEN req' = [req EXCEPT ![r].pc = "granting", ![r].at = now,
                    ![r].data = [s EXCEPT !.grants = With(@, req[r].vm, g)]]
     ELSE End(r)
  /\ UNCHANGED <<sessions, lock, index, registry, shutdown, bounds, explicit, recorded, uses>>

\* grantStoredRDPConnect up to the commit: the session as it is in the store.
GrantLoad(r) ==
  LET s == store[req[r].tok]
      g == [id |-> req[r].grant, expires |-> IF s.deadline < now + Grace THEN s.deadline ELSE now + Grace]
      current == Restrict(s.grants, {v \in DOMAIN s.grants : now < s.grants[v].expires})
  IN
  /\ At(r, "grant") /\ Free
  /\ \/ ~Live(req[r].tok) /\ End(r) /\ UNCHANGED lock
     \/ /\ Live(req[r].tok) /\ lock' = r
        /\ req' = [req EXCEPT ![r].pc = "granting", ![r].at = now,
             ![r].data = [s EXCEPT !.grants = With(current, req[r].vm, g)]]
  /\ UNCHANGED <<sessions, index, registry, shutdown, bounds, explicit, recorded, uses>>

\* indexRDPConnectGrant.
Indexed(r) ==
  LET q == req[r]
      stale == {g \in DOMAIN index : q.at >= index[g].expires \/ (index[g].tok = q.tok /\ index[g].vm = q.vm)}
  IN With(Without(index, stale), q.grant,
          [tok |-> q.tok, vm |-> q.vm, user |-> q.user, expires |-> q.data.grants[q.vm].expires])

GrantCommit(r) ==
  /\ At(r, "granting")
  /\ \/ /\ Committed(req[r].tok, req[r].data) /\ index' = Indexed(r)
        /\ lock' = 0 /\ End(r) /\ UNCHANGED uses
     \/ CommitFails(r)
  /\ UNCHANGED <<registry, shutdown, bounds, explicit, recorded>>

\* loadRDPConnectGrant: whether token g is valid, and the entries it drops.
Valid(g) ==
  /\ g \in DOMAIN index /\ now < index[g].expires /\ Live(index[g].tok)
  /\ LET grants == store[index[g].tok].grants IN
       index[g].vm \in DOMAIN grants /\ grants[index[g].vm].id = g /\ now < grants[index[g].vm].expires

Dropped(g) ==
  CASE g \notin DOMAIN index \/ Valid(g) -> {}
    [] OTHER -> IF now < index[g].expires /\ ~Live(index[g].tok) THEN OfSession(index[g].tok) ELSE {g}

\* RDPConnectTarget, and the owner of the VM it names (external).
RDPConnectTarget(r, g, owner) ==
  /\ Free /\ g < nextGrant
  /\ Begin(r, "rdp", IF Valid(g) THEN [Idle EXCEPT !.pc = "rdp", !.grant = g, !.user = owner] ELSE Idle)
  /\ index' = Without(index, Dropped(g))
  /\ UNCHANGED <<sessions, lock, registry, shutdown, nextTok, nextGrant, explicit, recorded, uses>>

\* AuthorizeRDPConnection: the validation, and then the commit.
ConsumeLoad(r) ==
  LET g == req[r].grant
      s == store[index[g].tok]
  IN
  /\ At(r, "consume") /\ Free
  /\ IF Valid(g) /\ index[g].user = req[r].user
     THEN /\ lock' = r
          /\ req' = [req EXCEPT ![r].pc = "consuming", ![r].tok = index[g].tok, ![r].deadline = s.deadline,
               ![r].data = [s EXCEPT !.grants = Without(@, {index[g].vm})]]
     ELSE End(r) /\ UNCHANGED lock
  /\ index' = Without(index, Dropped(g))
  /\ UNCHANGED <<sessions, registry, shutdown, bounds, explicit, recorded, uses>>

ConsumeCommit(r) ==
  LET g == req[r].grant IN
  /\ At(r, "consuming")
  /\ \/ /\ Committed(req[r].tok, req[r].data) /\ index' = Without(index, {g})
        /\ lock' = 0 /\ Goto(r, "setup") /\ uses' = [uses EXCEPT ![g] = @ + 1]
     \/ CommitFails(r)
  /\ UNCHANGED <<registry, shutdown, bounds, explicit, recorded>>
-----------------------------------------------------------------------------
(* Live connections.                                                       *)

\* connectionAuthorization: the generation, before the session is validated.
Capture(r) ==
  /\ req[r].pc \in {"console", "rdp"}
  /\ req' = [req EXCEPT ![r].pc = IF At(r, "rdp") THEN "consume" ELSE "validate",
                        ![r].gen = generation[req[r].user]]
  /\ UNCHANGED <<sessions, lock, index, registry, shutdown, bounds, explicit, recorded, uses>>

\* AuthorizeConnection, for the dashboard, the serial console and VNC.
Validate(r) ==
  /\ At(r, "validate") /\ Free
  /\ IF Live(req[r].tok)
     THEN req' = [req EXCEPT ![r].pc = "setup", ![r].deadline = store[req[r].tok].deadline]
     ELSE End(r)
  /\ UNCHANGED <<sessions, lock, index, registry, shutdown, bounds, explicit, recorded, uses>>

SetupFails(r) ==
  /\ At(r, "setup") /\ End(r)
  /\ UNCHANGED <<sessions, lock, index, registry, shutdown, bounds, explicit, recorded, uses>>

\* Faulty variant: no look at the generation.
FaultyGeneration(r) ==
  ~closing /\ now < req[r].deadline /\ (Limit > 0 => Cardinality(conns[req[r].user]) < Limit)

\* RegisterUserConnection.
Admissible(r) ==
  LET q == req[r] IN
  /\ ~closing /\ generation[q.user] = q.gen /\ now < q.deadline
  /\ Limit > 0 => Cardinality(conns[q.user]) < Limit

Register(r) ==
  /\ At(r, "setup")
  /\ IF Admissible(r)
     THEN /\ conns' = [conns EXCEPT ![req[r].user] = @ \cup {r}] /\ active' = active + 1
          /\ open' = open \cup {r} /\ Goto(r, "live")
     ELSE End(r) /\ UNCHANGED <<conns, active, open>>
  /\ UNCHANGED <<sessions, lock, index, generation, closing, shutdown, bounds, explicit, recorded, uses>>

PeerLeaves(r) ==
  /\ r \in open /\ open' = open \ {r}
  /\ UNCHANGED <<sessions, lock, index, generation, conns, active, closing, shutdown, req, bounds,
                 explicit, recorded, uses>>

\* The handler returns once its transport is closed, and unregisters.
Unregister(r) ==
  /\ At(r, "live") /\ r \notin open /\ End(r)
  /\ conns' = [conns EXCEPT ![req[r].user] = @ \ {r}] /\ active' = active - 1
  /\ UNCHANGED <<sessions, lock, index, generation, closing, open, shutdown, bounds, explicit, recorded, uses>>
-----------------------------------------------------------------------------
(* Time, the expiry callbacks and the shutdown.                            *)

Tick ==
  /\ now < plan.time /\ now' = now + 1
  /\ UNCHANGED <<sessions, lock, index, registry, shutdown, req, bounds, explicit, recorded, uses>>

\* sessionExpiryStore.expire, and its audit record.
Expire(t) ==
  /\ t \in DOMAIN tracked /\ now >= tracked[t] /\ ~closed
  /\ tracked' = Without(tracked, {t}) /\ store' = Without(store, {t})
  /\ auditing' = auditing \cup {t}
  /\ UNCHANGED <<now, closed, lock, index, registry, shutdown, req, bounds, explicit, recorded, uses>>

AuditTimeout(t) ==
  /\ t \in auditing /\ auditing' = auditing \ {t}
  /\ recorded' = [recorded EXCEPT ![t] = @ + 1]
  /\ UNCHANGED <<now, store, tracked, closed, lock, index, registry, shutdown, req, bounds, explicit, uses>>

\* CloseAllConnections: the closes it dispatches, and the wait for the drain.
CloseAllConnections ==
  /\ plan.shutdown /\ stage = "up" /\ stage' = "draining"
  /\ closing' = TRUE /\ closeFns' = UNION Range(conns)
  /\ conns' = [u \in Users |-> {}]
  /\ UNCHANGED <<now, sessions, lock, index, generation, active, open, req, bounds, explicit, recorded, uses>>

CloseDispatched ==
  /\ \E q \in closeFns : closeFns' = closeFns \ {q} /\ open' = open \ {q}
  /\ UNCHANGED <<now, sessions, lock, index, generation, conns, active, closing, stage, req, bounds,
                 explicit, recorded, uses>>

Drained ==
  /\ stage = "draining" /\ stage' \in {"drained", "timeout"}
  /\ stage' = "drained" => active = 0
  /\ UNCHANGED <<now, sessions, lock, index, registry, closeFns, req, bounds, explicit, recorded, uses>>

\* Manager.Close after the HTTP drain, which gives up on requests that take
\* too long; the audit sink is closed once the expiry audits are written.
Close ==
  /\ stage \in {"drained", "timeout"} /\ stage' = "closed"
  /\ closed' = TRUE /\ tracked' = <<>>
  /\ UNCHANGED <<now, store, auditing, lock, index, registry, closeFns, req, bounds, explicit, recorded, uses>>

Auditing == auditing # {} \/ \E r \in Requests : At(r, "expired")

CloseAuditSink ==
  /\ stage = "closed" /\ ~Auditing /\ stage' = "sink"
  /\ UNCHANGED <<now, sessions, lock, index, registry, closeFns, req, bounds, explicit, recorded, uses>>
-----------------------------------------------------------------------------
Arrive(r) ==
  \/ \E u \in plan.users, old \in 0 .. nextTok - 1 : CreateSession(r, u, old)
  \/ \E t \in DOMAIN store : \E kind \in {"logout", "roam", "console"} : BeginWith(r, kind, t)
  \/ \E t \in DOMAIN store, vm \in VMs : GrantRDPConnect(r, t, vm)
  \/ \E g \in Grants, owner \in Users : RDPConnectTarget(r, g, owner)

\* What a request does once it is under way.
Proceed(r) ==
  \/ SaveSession(r) \/ AuditExpired(r)
  \/ DestroyAll(r) \/ DestroyOne(r) \/ DestroyDone(r) \/ DestroySession(r)
  \/ CloseUserConnections(r) \/ CloseOne(r) \/ LogoutDone(r)
  \/ Claim(r) \/ Invalidate(r) \/ AuditRoamed(r)
  \/ GrantLoad(r) \/ GrantCommit(r) \/ ConsumeLoad(r) \/ ConsumeCommit(r)
  \/ Capture(r) \/ Validate(r) \/ Register(r) \/ Unregister(r)

Granted(st) == UNION {{st[t].grants[v].id : v \in DOMAIN st[t].grants} : t \in DOMAIN st}

Step ==
  \/ \E r \in Requests : (Arrive(r) \/ Proceed(r) \/ SetupFails(r) \/ PeerLeaves(r)) /\ UNCHANGED now
  \/ Tick
  \/ \E t \in Tokens : Expire(t) \/ AuditTimeout(t)
  \/ CloseAllConnections \/ CloseDispatched \/ Drained \/ Close \/ CloseAuditSink

\* The history.  A slot that starts or ends a request loses its past.
History ==
  /\ UNCHANGED plan
  /\ dead' = dead \cup (DOMAIN store \ DOMAIN store')
  /\ gone' = gone \cup (Granted(store) \ Granted(store'))
  /\ outdated' =
       (outdated \cup UNION {req[r].before : r \in {x \in Requests : At(x, "closing") /\ req'[x].pc = "idle"}})
         \ {r \in Requests : req'[r].pc = "idle"}

Next == Step /\ History

Spec == Init /\ [][Next]_vars

\* Time passes, timers fire, and handlers run on; nobody has to send a request,
\* leave a connection or shut the gateway down.  A behaviour is bounded, so one
\* condition for all of them is enough, and weaker than one for each.
Work ==
  \/ Tick
  \/ \E t \in Tokens : Expire(t) \/ AuditTimeout(t)
  \/ \E r \in Requests : Proceed(r) /\ UNCHANGED now

Fairness == WF_vars(Work /\ History)

FairSpec == Spec /\ Fairness
-----------------------------------------------------------------------------
(* Properties.                                                             *)

\* The registry is exact: activeConnections counts the handlers between their
\* registration and their unregistration, the table of a user holds only such
\* handlers of theirs, and within the limit if there is one; and only live handlers have a
\* transport.
RegistryExact ==
  /\ active = Cardinality({r \in Requests : At(r, "live")})
  /\ \A u \in Users :
       /\ conns[u] \subseteq {r \in Requests : At(r, "live") /\ req[r].user = u}
       /\ Limit > 0 => Cardinality(conns[u]) <= Limit
  /\ open \subseteq {r \in Requests : At(r, "live")}

\* Logout everywhere: when it is done, a connection whose request, token
\* included, is older than it is closed, and never registers if it was still
\* being set up.  The one exception is a close function in the hands of another
\* caller: a second logout, or the shutdown, that emptied the table before and
\* has not called it yet.
LogoutEndsConnections ==
  \A q \in outdated \cap open :
    q \in closeFns \/ \E r \in Requests : At(r, "closing") /\ q \in req[r].todo

\* A session that was deleted (logout, roaming, timeout, renewed token) is
\* never in the store again, whatever a request that loaded it earlier saves.
NeverResurrected == dead \cap DOMAIN store = {}

\* An RDP token is in its session until the step that consumes it, and never
\* after; a token that was replaced, revoked or consumed authorizes nothing.
SpentOnce ==
  [][ /\ gone \cap Granted(store') = {}
      /\ \A g \in Grants : uses'[g] # uses[g] => g \in Granted(store) \ Granted(store') ]_vars

\* Each end of a session other than a logout is recorded once: by the timer,
\* by a save that comes too late or by the request that found the address
\* changed, whichever takes the session out of tracking; a session that was
\* logged out has no such record.
EndRecordedOnce ==
  ~closed => \A t \in dead :
    recorded[t] + Cardinality(auditing \cap {t})
      + Cardinality({r \in Requests : req[r].pc \in {"expired", "roamed"} /\ req[r].tok = t})
      = IF t \in explicit THEN 0 ELSE 1

\* A drain that reports success left no handler behind, and none comes later.
DrainComplete == stage = "drained" => \A r \in Requests : ~At(r, "live")

\* No expiry audit is under way once the audit sink is closed.
NoAuditAfterSink == stage = "sink" => ~Auditing

\* Every session in the store comes to a recorded end: a timeout or an address
\* change, or a logout, unless the store is closed before.
EndIsRecorded ==
  <>[](closed \/ \A t \in dead \cup DOMAIN store : t \in explicit \/ (t \in DOMAIN recorded /\ recorded[t] = 1))

(* Registry of live connections: it counts exactly those that are live, and  *)
(* after a logout none is left that was made before it.                      *)
ConnectionsAccounted == RegistryExact /\ LogoutEndsConnections

(* End of a session and of the gateway: an ended session does not come back  *)
(* and its end is recorded once; a drain that reports success is complete,   *)
(* and nothing is recorded after the sink closed.                            *)
EndsOrderly == NeverResurrected /\ EndRecordedOnce /\ DrainComplete /\ NoAuditAfterSink
=============================================================================
