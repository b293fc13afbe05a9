----------------------- MODULE GatewaySessionsProofs ------------------------
(***************************************************************************)
(* The inductive invariant of GatewaySessions, what each step does to the  *)
(* parts of the state it speaks of, and that every step keeps its part     *)
(* about the browser sessions. It holds for any number of requests under   *)
(* way, any users and VMs, any limits and any plan.                        *)
(*                                                                         *)
(* Typed gives the state its types. SessionInv is about the browser        *)
(* sessions, TokenInv about the RDP tokens granted in them, RegistryInv    *)
(* about the live connections; GatewayLogoutsProofs adds what a logout     *)
(* everywhere takes away. The first lemmas state the effect of an          *)
(* operation once (Moves, Finishes, Arrives, Loses, Puts, ...), so that    *)
(* the proofs of the parts reason about effects and not about the code's   *)
(* updates.                                                                *)
(***************************************************************************)
EXTENDS GatewaySessions, TLAPS

\* The default prover is Zenon; SMT is cited where a leaf needs arithmetic or
\* the fields of a record.
USE ZenonT(40)

Fields == {"pc", "user", "tok", "gen", "deadline", "grant", "vm", "data", "at", "todo", "before"}
SessionFields == {"user", "deadline", "grants"}

IsSession(s) ==
  /\ DOMAIN s = SessionFields
  /\ s.user \in Users /\ s.deadline \in Int
  /\ \A v \in DOMAIN s.grants : s.grants[v].id \in Nat

\* A request carries what its handler has in local variables: a user as long as
\* it is under way, and a session while it saves one.
IsRequest(q) ==
  /\ DOMAIN q = Fields
  /\ q.tok \in Nat /\ q.gen \in Nat /\ q.deadline \in Int /\ q.grant \in Nat /\ q.before \subseteq Requests
  /\ q.pc # "idle" => q.user \in Users
  /\ q.pc \in {"save", "granting", "consuming"} => IsSession(q.data)
  /\ q.pc = "closing" => q.todo \subseteq Requests

Bounded ==
  /\ plan \in Plans /\ now \in Nat
  /\ nextTok \in Nat \ {0} /\ nextTok <= plan.sessions + 1
  /\ nextGrant \in Nat \ {0} /\ nextGrant <= plan.grants + 1
  /\ recorded \in [Tokens -> Nat] /\ uses \in [Grants -> Nat]

StoreTyped ==
  /\ \A t \in DOMAIN store : t \in 1 .. nextTok - 1 /\ IsSession(store[t])
  /\ closed \in BOOLEAN /\ lock \in Nat
  /\ dead \subseteq 1 .. nextTok - 1 /\ explicit \subseteq dead

IndexTyped ==
  \A g \in DOMAIN index : g \in 1 .. nextGrant - 1 /\ index[g].tok \in Nat /\ index[g].user \in Users

RequestsTyped == DOMAIN req = Requests /\ \A r \in Requests : IsRequest(req[r])

RegistryTyped ==
  /\ generation \in [Users -> Nat] /\ conns \in [Users -> SUBSET Requests]
  /\ active \in Int /\ closing \in BOOLEAN
  /\ closeFns \subseteq Requests /\ open \subseteq Requests /\ outdated \subseteq Requests

Typed == Bounded /\ StoreTyped /\ IndexTyped /\ RequestsTyped /\ RegistryTyped
-----------------------------------------------------------------------------
(* Sessions.                                                               *)

\* Where sessionsMu is held over several steps, and that nobody else holds it.
Holding == {"destroying", "claimed", "unclaimed", "granting", "consuming"}
Locked == \A r \in Requests : req[r].pc \in Holding => lock = r

\* A session in the store has its timer, with its deadline, unless a request
\* from another address has claimed it.
TimersMatch ==
  ~closed =>
    /\ \A t \in DOMAIN tracked : t \in DOMAIN store /\ tracked[t] = store[t].deadline
    /\ \A t \in DOMAIN store \ DOMAIN tracked : \E r \in Requests : At(r, "claimed") /\ req[r].tok = t
    /\ \A r \in Requests : At(r, "claimed") => req[r].tok \in DOMAIN store \ DOMAIN tracked
    /\ \A r \in Requests : At(r, "unclaimed") => req[r].tok \notin DOMAIN store

\* A login saves a session that nobody has seen, and no two logins the same.
Fresh ==
  /\ \A r \in Requests : At(r, "save") => req[r].tok \in 1 .. nextTok - 1 /\ req[r].tok \notin DOMAIN store \cup dead
  /\ \A r, q \in Requests : At(r, "save") /\ At(q, "save") /\ req[r].tok = req[q].tok => r = q

\* The other requests were given a session that was in the store.
Seen == {"logout", "destroying", "destroy", "close", "closing", "roam", "claimed", "unclaimed", "roamed",
         "grant", "granting", "consuming", "console", "validate", "expired"}
FromStore == \A r \in Requests : req[r].pc \in Seen => req[r].tok \in DOMAIN store \cup dead

\* The session a holder of the lock is about to save is the one in the store, or
\* it has expired meanwhile.
Held ==
  \A r \in Requests : req[r].pc \in {"granting", "consuming"} /\ ~closed =>
    /\ req[r].tok \in DOMAIN store => store[req[r].tok].deadline = req[r].data.deadline
    /\ now < req[r].data.deadline => req[r].tok \in DOMAIN store

\* The end of a session is recorded, or one actor is about to record it; it is
\* nobody else's.
Records(r, t) == req[r].pc \in {"expired", "roamed"} /\ req[r].tok = t
Unrecorded(t) == recorded[t] = 0 /\ t \notin auditing /\ \A r \in Requests : ~Records(r, t)
RecordedOnce(t) ==
  \/ recorded[t] = 1 /\ t \notin auditing /\ \A r \in Requests : ~Records(r, t)
  \/ recorded[t] = 0 /\ t \in auditing /\ \A r \in Requests : ~Records(r, t)
  \/ recorded[t] = 0 /\ t \notin auditing /\ \E r \in Requests : \A q \in Requests : Records(q, t) <=> q = r
Ends ==
  ~closed => \A t \in Tokens : IF t \in dead \ explicit THEN RecordedOnce(t) ELSE Unrecorded(t)

\* gatewayRuntime.close, in order.
Stages ==
  /\ stage \in {"up", "draining", "drained", "timeout", "closed", "sink"}
  /\ closed <=> stage \in {"closed", "sink"}
  /\ stage # "up" => closing

SessionInv == Locked /\ TimersMatch /\ NeverResurrected /\ Fresh /\ FromStore /\ Held /\ Ends /\ Stages /\ NoAuditAfterSink
-----------------------------------------------------------------------------
(* Connections.                                                            *)

\* A transport that is open is in the table of its user, or a caller that
\* emptied the table is about to close it.
InHand(q) == q \in closeFns \/ \E r \in Requests : At(r, "closing") /\ q \in req[r].todo
OpenIsHeld == \A q \in open : q \in conns[req[q].user] \/ InHand(q)

RegistryInv ==
  /\ RegistryExact /\ OpenIsHeld /\ DrainComplete
  /\ stage = "up" => closeFns = {}
-----------------------------------------------------------------------------
(* RDP tokens.                                                             *)

OneIdEach(s) == \A v, w \in DOMAIN s.grants : s.grants[v].id = s.grants[w].id => v = w
Ids(s) == {s.grants[v].id : v \in DOMAIN s.grants}

\* Each RDP token is of one VM in one session.
Unique ==
  /\ \A t \in DOMAIN store : OneIdEach(store[t])
  /\ \A t, u \in DOMAIN store : t # u => Ids(store[t]) \cap Ids(store[u]) = {}
  /\ \A t \in DOMAIN store : Ids(store[t]) \subseteq 1 .. nextGrant - 1

\* A token that is being granted is not known to anyone yet.
Granting == {"grant", "granting"}
NewToken ==
  /\ \A r \in Requests : req[r].pc \in Granting \cup {"rdp", "consume", "consuming"} => req[r].grant \in 1 .. nextGrant - 1
  /\ \A r \in Requests : req[r].pc \in Granting =>
       /\ req[r].grant \notin DOMAIN index \cup gone \cup Granted(store)
       /\ \A q \in Requests : req[q].pc \in Granting \cup {"rdp", "consume", "consuming"} /\ req[q].grant = req[r].grant => q = r

\* What is saved under the lock: the session in the store with a token more, or
\* with a token less.
Saves ==
  \A r \in Requests : req[r].pc \in {"granting", "consuming"} /\ ~closed /\ now < req[r].data.deadline =>
    /\ OneIdEach(req[r].data)
    /\ At(r, "granting") => Ids(req[r].data) \subseteq Ids(store[req[r].tok]) \cup {req[r].grant}
    /\ At(r, "consuming") =>
         /\ Ids(req[r].data) \subseteq Ids(store[req[r].tok]) \ {req[r].grant}
         /\ req[r].grant \in Ids(store[req[r].tok])

NewSession == \A r \in Requests : At(r, "save") => DOMAIN req[r].data.grants = {}

TokenInv ==
  /\ Unique /\ NewToken /\ Saves /\ NewSession
  /\ gone \subseteq 1 .. nextGrant - 1 /\ gone \cap Granted(store) = {}
-----------------------------------------------------------------------------
(* What the steps do to the requests.                                      *)

Others(r) == DOMAIN req' = Requests /\ \A q \in Requests \ {r} : req'[q] = req[q]

\* Request r goes on to p; it is otherwise the request it was, but for what the
\* step to p is there to set.
Moves(r, p) ==
  /\ Others(r) /\ DOMAIN req'[r] = Fields /\ req'[r].pc = p
  /\ req'[r].user = req[r].user /\ req'[r].grant = req[r].grant
  /\ p # "consuming" => req'[r].tok = req[r].tok
  /\ p \notin {"validate", "consume"} => req'[r].gen = req[r].gen
  /\ p \notin {"consuming", "setup"} => req'[r].deadline = req[r].deadline
  /\ p \notin {"granting", "consuming"} => req'[r].data = req[r].data
  /\ p \notin {"destroying", "closing"} => req'[r].todo = req[r].todo
  /\ p # "destroying" => req'[r].before = req[r].before

Finishes(r) == Others(r) /\ req'[r] = Idle

Keeps(q) == req'[q].pc = req[q].pc /\ req'[q].tok = req[q].tok /\ req'[q].data = req[q].data

\* A request arrives as rec in slot r, which leaves the lists of older requests.
Arrives(r, rec) ==
  /\ DOMAIN req' = Requests /\ req'[r] = rec
  /\ \A q \in Requests \ {r} :
       /\ DOMAIN req'[q] = Fields /\ req'[q].pc = req[q].pc /\ req'[q].user = req[q].user
       /\ req'[q].tok = req[q].tok /\ req'[q].gen = req[q].gen /\ req'[q].deadline = req[q].deadline
       /\ req'[q].grant = req[q].grant /\ req'[q].data = req[q].data /\ req'[q].todo = req[q].todo
       /\ req'[q].before = req[q].before \ {r}

\* Goto moves its request and leaves its lists as they are.
LEMMA GotoMoves ==
  ASSUME RequestsTyped, NEW r \in Requests, NEW p, Goto(r, p)
  PROVE  Moves(r, p) /\ req'[r].todo = req[r].todo /\ req'[r].before = req[r].before
BY SMTT(30) DEF RequestsTyped, IsRequest, Fields, Goto, Others, Moves

\* End finishes its request: the handler has returned.
LEMMA EndEnds ==
  ASSUME RequestsTyped, NEW r \in Requests, End(r)
  PROVE  Finishes(r)
BY DEF RequestsTyped, End, Others, Finishes

\* Begin puts a request into an idle slot, while the store is open.
LEMMA BeginArrives ==
  ASSUME RequestsTyped, NEW r \in Requests, NEW kind, NEW rec, Begin(r, kind, rec)
  PROVE  Arrives(r, rec) /\ At(r, "idle") /\ ~closed
BY SMTT(30) DEF RequestsTyped, IsRequest, Fields, Begin, Arrives

\* DestroyAllSessionsForUser starts: the sessions found, and the connection
\* requests that are older.
LEMMA DestroyAllMoves ==
  ASSUME RequestsTyped, NEW r \in Requests, DestroyAll(r)
  PROVE  /\ Moves(r, "destroying")
         /\ req'[r].todo = {t \in DOMAIN store : Live(t) /\ store[t].user = req[r].user}
         /\ req'[r].before = {q \in Requests : IsConnection(q) /\ req[q].user = req[r].user}
<1> DEFINE todo == {t \in DOMAIN store : Live(t) /\ store[t].user = req[r].user}
           before == {q \in Requests : IsConnection(q) /\ req[q].user = req[r].user}
<1>1. req' = [req EXCEPT ![r].pc = "destroying", ![r].todo = todo, ![r].before = before]
  BY DEF DestroyAll
<1> HIDE DEF todo, before
<1>2. Moves(r, "destroying") /\ req'[r].todo = todo /\ req'[r].before = before
  BY SMTT(30), <1>1 DEF RequestsTyped, IsRequest, Fields, Others, Moves
<1> QED BY <1>2 DEF todo, before

\* A logout takes one session, or one connection, off its list.
LEMMA OneMoves ==
  ASSUME RequestsTyped, NEW r \in Requests, NEW p \in {"destroying", "closing"}, At(r, p),
         NEW x, req' = [req EXCEPT ![r].todo = @ \ {x}]
  PROVE  Moves(r, p) /\ req'[r].todo = req[r].todo \ {x} /\ req'[r].before = req[r].before
BY SMTT(30) DEF RequestsTyped, IsRequest, Fields, Others, Moves, At

\* CloseUserConnections takes the table of its user as the list of transports
\* to close.
LEMMA CloseMoves ==
  ASSUME RequestsTyped, NEW r \in Requests, CloseUserConnections(r)
  PROVE  Moves(r, "closing") /\ req'[r].todo = conns[req[r].user]
BY SMTT(30) DEF RequestsTyped, IsRequest, Fields, Others, Moves, CloseUserConnections

\* Session d is session s with a token more, or less.
WithToken(d, s, vm, id) ==
  /\ DOMAIN d = SessionFields /\ d.user = s.user /\ d.deadline = s.deadline
  /\ vm \in DOMAIN d.grants /\ DOMAIN d.grants \subseteq DOMAIN s.grants \cup {vm}
  /\ d.grants[vm].id = id /\ \A v \in DOMAIN d.grants \ {vm} : d.grants[v] = s.grants[v]

WithoutToken(d, s, vm) ==
  /\ DOMAIN d = SessionFields /\ d.user = s.user /\ d.deadline = s.deadline
  /\ DOMAIN d.grants = DOMAIN s.grants \ {vm} /\ \A v \in DOMAIN d.grants : d.grants[v] = s.grants[v]

\* grantStoredRDPConnect up to the commit: the session as stored with the new
\* token, if it is live.
LEMMA GrantLoadMoves ==
  ASSUME RequestsTyped, StoreTyped, NEW r \in Requests, GrantLoad(r)
  PROVE  \/ Finishes(r) /\ lock' = lock /\ ~Live(req[r].tok)
         \/ /\ Moves(r, "granting") /\ lock' = r /\ Live(req[r].tok)
            /\ WithToken(req'[r].data, store[req[r].tok], req[r].vm, req[r].grant)
<1> DEFINE s == store[req[r].tok]
           g == [id |-> req[r].grant, expires |-> IF s.deadline < now + Grace THEN s.deadline ELSE now + Grace]
           current == Restrict(s.grants, {v \in DOMAIN s.grants : now < s.grants[v].expires})
           data == [s EXCEPT !.grants = With(current, req[r].vm, g)]
<1>1. CASE ~Live(req[r].tok) /\ End(r) /\ UNCHANGED lock
  BY <1>1, EndEnds
<1>2. CASE /\ Live(req[r].tok) /\ lock' = r
           /\ req' = [req EXCEPT ![r].pc = "granting", ![r].at = now, ![r].data = data]
  <2>1. g.id = req[r].grant /\ DOMAIN s = SessionFields
    BY <1>2 DEF StoreTyped, IsSession, Live
  <2>2. /\ req[r].vm \in DOMAIN With(current, req[r].vm, g)
        /\ DOMAIN With(current, req[r].vm, g) \subseteq DOMAIN s.grants \cup {req[r].vm}
        /\ With(current, req[r].vm, g)[req[r].vm] = g
        /\ \A v \in DOMAIN With(current, req[r].vm, g) \ {req[r].vm} : With(current, req[r].vm, g)[v] = s.grants[v]
    <3> HIDE DEF s, g
    <3> QED BY DEF With, Restrict
  <2>3. WithToken(data, s, req[r].vm, req[r].grant)
    <3> HIDE DEF s, g, current
    <3> QED BY <2>1, <2>2 DEF WithToken, SessionFields
  <2> HIDE DEF data
  <2>4. Moves(r, "granting") /\ req'[r].data = data
    BY SMTT(30), <1>2 DEF RequestsTyped, IsRequest, Fields, Others, Moves
  <2> QED BY <1>2, <2>3, <2>4
<1> QED BY <1>1, <1>2 DEF GrantLoad

\* AuthorizeRDPConnection up to the commit: the session of a valid token
\* without that token.
LEMMA ConsumeLoadMoves ==
  ASSUME RequestsTyped, StoreTyped, NEW r \in Requests, ConsumeLoad(r)
  PROVE  LET g == req[r].grant IN
         \/ Finishes(r) /\ lock' = lock /\ ~(Valid(g) /\ index[g].user = req[r].user)
         \/ /\ Moves(r, "consuming") /\ lock' = r /\ Valid(g) /\ index[g].user = req[r].user
            /\ req'[r].tok = index[g].tok /\ req'[r].deadline = store[index[g].tok].deadline
            /\ WithoutToken(req'[r].data, store[index[g].tok], index[g].vm)
<1> DEFINE g == req[r].grant
           s == store[index[g].tok]
           data == [s EXCEPT !.grants = Without(@, {index[g].vm})]
<1>1. CASE End(r) /\ UNCHANGED lock /\ ~(Valid(g) /\ index[g].user = req[r].user)
  BY <1>1, EndEnds
<1>2. CASE /\ Valid(g) /\ index[g].user = req[r].user /\ lock' = r
           /\ req' = [req EXCEPT ![r].pc = "consuming", ![r].tok = index[g].tok, ![r].deadline = s.deadline,
                        ![r].data = data]
  <2>1. DOMAIN s = SessionFields
    BY <1>2 DEF StoreTyped, IsSession, Live, Valid
  <2>2. WithoutToken(data, s, index[g].vm)
    <3> HIDE DEF s, g
    <3> QED BY <2>1 DEF WithoutToken, SessionFields, Without, Restrict
  <2> HIDE DEF data, s
  <2>3. /\ Moves(r, "consuming") /\ req'[r].data = data /\ req'[r].deadline = s.deadline
        /\ req'[r].tok = index[g].tok
    BY SMTT(30), <1>2 DEF RequestsTyped, IsRequest, Fields, Others, Moves
  <2> QED BY <1>2, <2>2, <2>3 DEF s
<1> QED BY <1>1, <1>2 DEF ConsumeLoad

\* connectionAuthorization captures the generation of its user.
LEMMA CaptureMoves ==
  ASSUME RequestsTyped, NEW r \in Requests, Capture(r)
  PROVE  /\ Moves(r, IF At(r, "rdp") THEN "consume" ELSE "validate")
         /\ req'[r].gen = generation[req[r].user]
BY SMTT(30) DEF RequestsTyped, IsRequest, Fields, Others, Moves, Capture, At

\* AuthorizeConnection goes on only with a session that is live.
LEMMA ValidateMoves ==
  ASSUME RequestsTyped, NEW r \in Requests, Validate(r)
  PROVE  \/ Finishes(r) /\ ~Live(req[r].tok)
         \/ /\ Moves(r, "setup") /\ Live(req[r].tok) /\ req'[r].deadline = store[req[r].tok].deadline
<1>1. CASE End(r) /\ ~Live(req[r].tok)
  BY <1>1, EndEnds
<1>2. CASE /\ Live(req[r].tok)
           /\ req' = [req EXCEPT ![r].pc = "setup", ![r].deadline = store[req[r].tok].deadline]
  BY SMTT(30), <1>2 DEF RequestsTyped, IsRequest, Fields, Others, Moves
<1> QED BY <1>1, <1>2 DEF Validate

(* ... and to the store and the index.                                     *)

Loses(S) == DOMAIN store' = DOMAIN store \ S /\ \A t \in DOMAIN store' : store'[t] = store[t]
Untracks(S) == DOMAIN tracked' = DOMAIN tracked \ S /\ \A t \in DOMAIN tracked' : tracked'[t] = tracked[t]
Drops(S) == DOMAIN index' = DOMAIN index \ S /\ \A g \in DOMAIN index' : index'[g] = index[g]

Puts(t, s) ==
  /\ DOMAIN store' = DOMAIN store \cup {t} /\ store'[t] = s
  /\ \A x \in DOMAIN store \ {t} : store'[x] = store[x]
  /\ DOMAIN tracked' = DOMAIN tracked \cup {t} /\ tracked'[t] = s.deadline
  /\ \A x \in DOMAIN tracked \ {t} : tracked'[x] = tracked[x]

Gone == dead' = dead \cup (DOMAIN store \ DOMAIN store')

\* A store, a table of timers or an index that is left alone loses nothing.
LEMMA Unchanged ==
  /\ store' = store => Loses({})
  /\ tracked' = tracked => Untracks({})
  /\ index' = index => Drops({})
BY DEF Loses, Untracks, Drops

\* sessionExpiryStore.Delete removes the sessions, their timers and their
\* tokens' entries.
LEMMA DeleteLoses ==
  ASSUME NEW S, Delete(S)
  PROVE  /\ Loses(S) /\ Untracks(S) /\ Drops({g \in DOMAIN index : index[g].tok \in S})
         /\ closed' = closed /\ auditing' = auditing
<1>1. UNION {OfSession(t) : t \in S} = {g \in DOMAIN index : index[g].tok \in S}
  BY SMTT(30) DEF OfSession
<1> QED BY <1>1 DEF Delete, Without, Restrict, Loses, Untracks, Drops

\* A commit that is accepted stores the session and schedules its timer.
LEMMA CommittedPuts ==
  ASSUME NEW t, NEW s, Committed(t, s)
  PROVE  Puts(t, s) /\ ~closed /\ now < s.deadline /\ closed' = closed /\ auditing' = auditing
BY DEF Committed, With, Puts

\* A commit that fails changes nothing, as the store is closed, or removes the
\* session, as its deadline has passed.
LEMMA FailsLoses ==
  ASSUME RequestsTyped, NEW r \in Requests, CommitFails(r)
  PROVE  /\ index' = index /\ uses' = uses /\ closed' = closed /\ auditing' = auditing
         /\ \/ closed /\ store' = store /\ tracked' = tracked /\ Finishes(r) /\ lock' = IF lock = r THEN 0 ELSE lock
            \/ /\ ~closed /\ now >= req[r].data.deadline /\ Loses({req[r].tok}) /\ Untracks({req[r].tok})
               /\ \/ req[r].tok \in DOMAIN tracked /\ Moves(r, "expired") /\ lock' = lock
                  \/ req[r].tok \notin DOMAIN tracked /\ Finishes(r) /\ lock' = IF lock = r THEN 0 ELSE lock
BY GotoMoves, EndEnds DEF CommitFails, CommitExpired, Without, Restrict, Loses, Untracks, sessions

\* An index without some entries keeps the others as they are.
LEMMA WithoutDrops ==
  ASSUME NEW S, index' = Without(index, S)
  PROVE  Drops(S)
BY DEF Without, Restrict, Drops

\* What the history variables record in a step.
LEMMA HistoryKeeps ==
  ASSUME RequestsTyped, RegistryTyped, History
  PROVE  plan' = plan /\ Gone /\ outdated' \subseteq Requests
BY SMTT(30) DEF History, RequestsTyped, IsRequest, Gone, RegistryTyped
-----------------------------------------------------------------------------
(* Types.                                                                  *)

\* The state is typed after a step that stores no session: it may remove
\* sessions and entries of the index, count, create a token and take or release
\* sessionsMu.
LEMMA KeptTyped ==
  ASSUME Typed, History, RequestsTyped', RegistryTyped', NEW S, Loses(S), NEW T, Drops(T),
         now' \in Nat, closed' \in BOOLEAN, uses' = uses, recorded' \in [Tokens -> Nat],
         lock' = lock \/ lock' = 0 \/ lock' \in Requests,
         nextTok' = nextTok \/ (nextTok' = nextTok + 1 /\ nextTok <= plan.sessions),
         nextGrant' = nextGrant \/ (nextGrant' = nextGrant + 1 /\ nextGrant <= plan.grants),
         explicit' = explicit \/ explicit' = explicit \cup (S \cap DOMAIN store)
  PROVE  Typed'
<1>1. plan' = plan /\ Gone
  BY HistoryKeeps DEF Typed
<1>2. Bounded'
  <2>1. plan.sessions \in Nat /\ plan.grants \in Nat
    BY SMTT(30), PlansAssumption DEF Typed, Bounded
  <2> QED BY SMTT(30), <1>1, <2>1 DEF Typed, Bounded, Tokens, Grants
<1>3. StoreTyped'
  <2>1. \A t \in DOMAIN store' : t \in 1 .. nextTok' - 1 /\ IsSession(store'[t])
    BY SMTT(30) DEF Typed, StoreTyped, Bounded, Loses
  <2>2. dead' \subseteq 1 .. nextTok' - 1
    <3>1. ASSUME NEW t \in dead' PROVE t \in 1 .. nextTok - 1
      BY <1>1 DEF Typed, StoreTyped, Gone
    <3> QED BY SMTT(30), <3>1 DEF Typed, Bounded
  <2>3. explicit \subseteq dead' /\ S \cap DOMAIN store \subseteq dead'
    BY <1>1 DEF Typed, StoreTyped, Loses, Gone
  <2>4. explicit' \subseteq dead'
    BY <2>3
  <2>5. lock' \in Nat
    BY SMTT(30) DEF Typed, StoreTyped, Requests
  <2> QED BY <2>1, <2>2, <2>4, <2>5 DEF StoreTyped, IsSession
<1>4. IndexTyped'
  BY SMTT(30) DEF Typed, IndexTyped, Bounded, Drops
<1> QED BY <1>2, <1>3, <1>4 DEF Typed

\* It is typed after a step that leaves store, index and counters alone and at
\* most closes transports.
LEMMA QuietTyped ==
  ASSUME Typed, History, RequestsTyped',
         UNCHANGED <<now, nextTok, nextGrant, recorded, uses, store, index, closed, explicit>>,
         UNCHANGED <<generation, conns, active, closing>>, closeFns' \subseteq closeFns, open' \subseteq open,
         lock' = lock \/ lock' = 0 \/ lock' \in Requests
  PROVE  Typed'
<1>1. RegistryTyped'
  BY HistoryKeeps DEF Typed, RegistryTyped
<1>2. closed' \in BOOLEAN /\ now' \in Nat /\ recorded' \in [Tokens -> Nat] /\ Loses({}) /\ Drops({})
  BY Unchanged DEF Typed, StoreTyped, Bounded
<1> QED BY <1>1, <1>2, KeptTyped

\* It is typed after Delete ...
LEMMA DeleteTyped ==
  ASSUME Typed, History, RequestsTyped', NEW S, Delete(S),
         UNCHANGED <<now, nextGrant, recorded, uses, closeFns, generation, conns, active, closing, open>>,
         explicit' = explicit \/ explicit' = explicit \cup (S \cap DOMAIN store),
         nextTok' = nextTok \/ (nextTok' = nextTok + 1 /\ nextTok <= plan.sessions),
         lock' = lock \/ lock' = 0
  PROVE  Typed'
<1>1. RegistryTyped'
  BY HistoryKeeps DEF Typed, RegistryTyped
<1>2. closed' \in BOOLEAN /\ now' \in Nat /\ recorded' \in [Tokens -> Nat]
  BY DEF Typed, StoreTyped, Bounded, Delete
<1>3. PICK T : Loses(S) /\ Drops(T)
  BY DeleteLoses
<1> QED BY <1>1, <1>2, <1>3, KeptTyped

\* Counting up keeps a function into the naturals one, wherever it is applied.
LEMMA CountUp ==
  ASSUME NEW S, NEW f \in [S -> Nat], NEW x
  PROVE  [f EXCEPT ![x] = @ + 1] \in [S -> Nat]
<1>1. [f EXCEPT ![x] = @ + 1] = [y \in S |-> IF y = x THEN f[y] + 1 ELSE f[y]]
  OBVIOUS
<1>2. [y \in S |-> IF y = x THEN f[y] + 1 ELSE f[y]] \in [S -> Nat]
  BY SMTT(30)
<1> QED BY <1>1, <1>2

\* ... after an audit record, which counts up whatever session it is of ...
LEMMA RecordTyped ==
  ASSUME Typed, History, RequestsTyped', NEW t, recorded' = [recorded EXCEPT ![t] = @ + 1],
         UNCHANGED <<now, nextTok, nextGrant, uses, store, index, closed, explicit, closeFns>>,
         UNCHANGED <<generation, conns, active, closing, open>>, lock' = lock \/ lock' = 0
  PROVE  Typed'
<1>1. RegistryTyped'
  BY HistoryKeeps DEF Typed, RegistryTyped
<1>3. recorded' \in [Tokens -> Nat]
  BY CountUp DEF Typed, Bounded
<1>4. closed' \in BOOLEAN /\ now' \in Nat /\ Loses({}) /\ Drops({})
  BY Unchanged DEF Typed, StoreTyped, Bounded
<1> QED BY <1>1, <1>3, <1>4, KeptTyped

\* ... and after a commit, whether it stores a session or is refused.
LEMMA CommitTyped ==
  ASSUME Typed, Fresh, FromStore, History, NEW r \in Requests, req[r].pc \in {"save", "granting", "consuming"},
         UNCHANGED <<now, nextTok, nextGrant, recorded, explicit, closeFns>>,
         UNCHANGED <<generation, conns, active, closing, open>>, RequestsTyped',
         \/ CommitFails(r)
         \/ Committed(req[r].tok, req[r].data) /\ IndexTyped' /\ uses' \in [Grants -> Nat] /\ lock' \in {lock, 0}
  PROVE  Typed'
<1>1. RegistryTyped'
  BY HistoryKeeps DEF Typed, RegistryTyped
<1>2. CASE CommitFails(r)
  <2>1. /\ Loses({}) \/ Loses({req[r].tok})
        /\ Drops({}) /\ uses' = uses /\ closed' = closed /\ (lock' = lock \/ lock' = 0)
    BY <1>2, FailsLoses, Unchanged DEF Typed
  <2>2. closed' \in BOOLEAN /\ now' \in Nat /\ recorded' \in [Tokens -> Nat]
    BY <2>1 DEF Typed, StoreTyped, Bounded
  <2> QED BY <1>1, <2>1, <2>2, KeptTyped
<1>3. CASE Committed(req[r].tok, req[r].data) /\ IndexTyped' /\ uses' \in [Grants -> Nat] /\ lock' \in {lock, 0}
  <2>1. req[r].tok \in 1 .. nextTok - 1 /\ IsSession(req[r].data)
    BY DEF Typed, Fresh, FromStore, Seen, At, StoreTyped, RequestsTyped, IsRequest
  <2>2. Puts(req[r].tok, req[r].data) /\ closed' = closed
    BY <1>3, CommittedPuts
  <2>3. plan' = plan /\ Gone
    BY HistoryKeeps DEF Typed
  <2>4. StoreTyped'
    <3>1. \A t \in DOMAIN store' : t \in 1 .. nextTok' - 1 /\ IsSession(store'[t])
      BY <2>1, <2>2 DEF Typed, StoreTyped, Puts
    <3>2. dead' = dead
      BY <2>2, <2>3 DEF Puts, Gone
    <3> QED BY SMTT(30), <1>3, <2>2, <3>1, <3>2 DEF Typed, StoreTyped, IsSession
  <2> QED BY <1>1, <1>3, <2>3, <2>4 DEF Typed, Bounded, Tokens, Grants
<1> QED BY <1>2, <1>3

\* A request that goes on stays typed if what the step sets is.
LEMMA MovesTyped ==
  ASSUME RequestsTyped, NEW r \in Requests, NEW p, Moves(r, p), ~At(r, "idle"),
         p = "consuming" => req'[r].tok \in Nat,
         p \in {"validate", "consume"} => req'[r].gen \in Nat,
         p \in {"consuming", "setup"} => req'[r].deadline \in Int,
         p = "destroying" => req'[r].before \subseteq Requests,
         p # "save",
         p \in {"granting", "consuming"} => IsSession(req'[r].data),
         p = "closing" => req'[r].todo \subseteq Requests
  PROVE  RequestsTyped'
BY SMTT(30) DEF RequestsTyped, IsRequest, IsSession, Moves, Others, At

\* A handler that returns leaves the requests typed.
LEMMA EndsTyped ==
  ASSUME RequestsTyped, NEW r \in Requests, Finishes(r)
  PROVE  RequestsTyped'
BY SMTT(30) DEF RequestsTyped, IsRequest, IsSession, Finishes, Others, Idle, Fields

\* A typed request arrives, and the requests are typed.
LEMMA BeginTyped ==
  ASSUME RequestsTyped, NEW r \in Requests, NEW kind, NEW rec, IsRequest(rec), Begin(r, kind, rec)
  PROVE  RequestsTyped'
BY SMTT(30), BeginArrives DEF RequestsTyped, IsRequest, IsSession, Arrives

\* The handlers keep the requests typed: the lists of a logout are requests and
\* sessions, the session a request is about to save is a session, a captured
\* generation is a number.
LEMMA HandlersTyped ==
  ASSUME Typed, NEW r \in Requests, Proceed(r) \/ SetupFails(r)
  PROVE  RequestsTyped'
<1>0. RequestsTyped /\ RegistryTyped /\ StoreTyped /\ IndexTyped /\ IsRequest(req[r])
  BY DEF Typed, RequestsTyped
<1>1. ASSUME ~At(r, "idle"), \E p \in {"expired", "destroy", "close", "claimed", "unclaimed", "roamed", "live"} : Moves(r, p)
      PROVE  RequestsTyped'
  BY <1>0, <1>1, MovesTyped
<1>2. ASSUME ~At(r, "idle"), CommitFails(r) PROVE RequestsTyped'
  BY <1>0, <1>1, <1>2, FailsLoses, EndsTyped
<1>3. CASE SaveSession(r)
  BY <1>0, <1>2, <1>3, EndEnds, EndsTyped DEF SaveSession, At
<1>4. CASE AuditExpired(r) \/ LogoutDone(r) \/ AuditRoamed(r) \/ Unregister(r) \/ SetupFails(r)
  BY <1>0, <1>4, EndEnds, EndsTyped DEF AuditExpired, LogoutDone, AuditRoamed, Unregister, SetupFails
<1>5. CASE DestroyAll(r)
  <2>1. Moves(r, "destroying") /\ req'[r].before \subseteq Requests
    BY <1>0, <1>5, DestroyAllMoves
  <2> QED BY <1>0, <1>5, <2>1, MovesTyped DEF DestroyAll, At
<1>6. CASE DestroyOne(r)
  <2>1. PICK t : req' = [req EXCEPT ![r].todo = @ \ {t}]
    BY <1>6 DEF DestroyOne
  <2>2. Moves(r, "destroying") /\ req'[r].before = req[r].before
    BY <1>0, <1>6, <2>1, OneMoves DEF DestroyOne
  <2> QED BY <1>0, <1>6, <2>2, MovesTyped DEF DestroyOne, At, IsRequest
<1>7. CASE DestroyDone(r) \/ DestroySession(r)
  BY <1>0, <1>1, <1>7, GotoMoves DEF DestroyDone, DestroySession, At
<1>8. CASE CloseUserConnections(r)
  <2>1. Moves(r, "closing") /\ req'[r].todo = conns[req[r].user]
    BY <1>0, <1>8, CloseMoves
  <2>2. conns[req[r].user] \subseteq Requests /\ ~At(r, "idle")
    BY <1>0, <1>8 DEF CloseUserConnections, At, RegistryTyped, IsRequest
  <2> QED BY <1>0, <2>1, <2>2, MovesTyped
<1>9. CASE CloseOne(r)
  <2>1. PICK q : req' = [req EXCEPT ![r].todo = @ \ {q}]
    BY <1>9 DEF CloseOne
  <2>2. Moves(r, "closing") /\ req'[r].todo = req[r].todo \ {q}
    BY <1>0, <1>9, <2>1, OneMoves DEF CloseOne
  <2> QED BY <1>0, <1>9, <2>2, MovesTyped DEF CloseOne, At, IsRequest
<1>10. CASE Claim(r) \/ Invalidate(r) \/ Register(r)
  BY <1>0, <1>1, <1>10, GotoMoves, EndEnds, EndsTyped DEF Claim, Invalidate, Register, At
<1>11. CASE GrantLoad(r)
  <2>1. ASSUME Moves(r, "granting"), Live(req[r].tok),
               WithToken(req'[r].data, store[req[r].tok], req[r].vm, req[r].grant)
        PROVE  RequestsTyped'
    <3>1. IsSession(store[req[r].tok]) /\ req[r].grant \in Nat
      BY <1>0, <2>1 DEF StoreTyped, Live, IsRequest
    <3>2. IsSession(req'[r].data)
      BY <2>1, <3>1 DEF IsSession, WithToken
    <3> QED BY <1>0, <1>11, <2>1, <3>2, MovesTyped DEF GrantLoad, At
  <2> QED BY <1>0, <1>11, <2>1, GrantLoadMoves, EndsTyped
<1>12. CASE GrantCommit(r)
  BY <1>0, <1>2, <1>12, EndEnds, EndsTyped DEF GrantCommit, At
<1>13. CASE ConsumeLoad(r)
  <2> DEFINE g == req[r].grant
  <2>1. ASSUME Moves(r, "consuming"), Valid(g), req'[r].tok = index[g].tok,
               req'[r].deadline = store[index[g].tok].deadline,
               WithoutToken(req'[r].data, store[index[g].tok], index[g].vm)
        PROVE  RequestsTyped'
    <3>1. IsSession(store[index[g].tok]) /\ index[g].tok \in Nat
      BY <1>0, <2>1 DEF StoreTyped, Live, Valid, IndexTyped
    <3>2. IsSession(req'[r].data) /\ store[index[g].tok].deadline \in Int
      BY <2>1, <3>1 DEF IsSession, WithoutToken
    <3> QED BY <1>0, <1>13, <2>1, <3>1, <3>2, MovesTyped DEF ConsumeLoad, At
  <2> QED BY <1>0, <1>13, <2>1, ConsumeLoadMoves, EndsTyped
<1>14. CASE ConsumeCommit(r)
  <2>1. ASSUME Goto(r, "setup") PROVE RequestsTyped'
    BY SMTT(30), <1>0, <1>14, <2>1 DEF RequestsTyped, IsRequest, IsSession, Goto, At, Fields, ConsumeCommit
  <2> QED BY <1>2, <1>14, <2>1 DEF ConsumeCommit, At
<1>15. CASE Capture(r)
  <2>1. generation[req[r].user] \in Nat
    BY <1>0, <1>15 DEF IsRequest, RegistryTyped, Capture
  <2> QED BY <1>0, <1>15, <2>1, CaptureMoves, MovesTyped DEF Capture, At
<1>16. CASE Validate(r)
  <2>1. Live(req[r].tok) => store[req[r].tok].deadline \in Int
    BY <1>0 DEF StoreTyped, IsSession, Live
  <2> QED BY <1>0, <1>16, <2>1, ValidateMoves, MovesTyped, EndsTyped DEF Validate, At
<1> QED BY <1>3, <1>4, <1>5, <1>6, <1>7, <1>8, <1>9, <1>10, <1>11, <1>12, <1>13, <1>14, <1>15, <1>16
        DEF Proceed

\* indexRDPConnectGrant keeps the index typed.
LEMMA IndexedTyped ==
  ASSUME IndexTyped, RequestsTyped, NewToken, NEW r \in Requests, At(r, "granting"),
         index' = Indexed(r), nextGrant' = nextGrant
  PROVE  IndexTyped'
<1> DEFINE stale == {g \in DOMAIN index : req[r].at >= index[g].expires \/ (index[g].tok = req[r].tok /\ index[g].vm = req[r].vm)}
           entry == [tok |-> req[r].tok, vm |-> req[r].vm, user |-> req[r].user,
                     expires |-> req[r].data.grants[req[r].vm].expires]
<1>1. index' = With(Without(index, stale), req[r].grant, entry)
  BY DEF Indexed
<1>2. entry.tok \in Nat /\ entry.user \in Users /\ req[r].grant \in 1 .. nextGrant - 1
  BY DEF RequestsTyped, IsRequest, At, NewToken, Granting
<1> HIDE DEF stale, entry
<1> QED BY <1>1, <1>2 DEF IndexTyped, With, Without, Restrict

\* Every step of a handler, of the timers and of the shutdown keeps the state
\* typed.
LEMMA KeepsTyped ==
  ASSUME Typed, Fresh, FromStore, NewToken, Next
  PROVE  Typed'
<1> USE DEF sessions, registry, shutdown, bounds
<1>0. RequestsTyped /\ History
  BY DEF Typed, Next
<1>1. ASSUME NEW r \in Requests, NEW u \in plan.users, NEW old \in 0 .. nextTok - 1, CreateSession(r, u, old),
             UNCHANGED now
      PROVE  Typed'
  <2>1. IsRequest([Idle EXCEPT !.pc = "save", !.user = u, !.tok = nextTok,
       !.data = [user |-> u, deadline |-> now + TTL, grants |-> <<>>]])
    <3>1. u \in Users /\ now + TTL \in Int /\ nextTok \in Nat
      BY SMTT(30), PlansAssumption, LimitsAssumption DEF Typed, Bounded
    <3> QED BY SMTT(30), <3>1 DEF Idle, IsRequest, IsSession, Fields, SessionFields
  <2>2. RequestsTyped'
    BY <1>0, <1>1, <2>1, BeginTyped DEF CreateSession
  <2> QED BY <1>0, <1>1, <2>2, DeleteTyped DEF CreateSession
<1>2. ASSUME NEW r \in Requests, NEW t \in DOMAIN store, NEW kind \in {"logout", "roam", "console"},
             BeginWith(r, kind, t), UNCHANGED now
      PROVE  Typed'
  <2>1. IsRequest([Idle EXCEPT !.pc = kind, !.tok = t, !.user = store[t].user])
    BY SMTT(30) DEF Idle, IsRequest, Fields, Typed, StoreTyped, IsSession
  <2>2. RequestsTyped'
    BY <1>0, <1>2, <2>1, BeginTyped DEF BeginWith
  <2> QED BY <1>0, <1>2, <2>2, QuietTyped DEF BeginWith
<1>3. ASSUME NEW r \in Requests, NEW t \in DOMAIN store, NEW vm \in VMs, GrantRDPConnect(r, t, vm), UNCHANGED now
      PROVE  Typed'
  <2>1. IsRequest([Idle EXCEPT !.pc = "grant", !.tok = t, !.user = store[t].user, !.vm = vm, !.grant = nextGrant])
    BY SMTT(30) DEF Idle, IsRequest, Fields, Typed, Bounded, StoreTyped, IsSession
  <2>2. RequestsTyped'
    BY <1>0, <1>3, <2>1, BeginTyped DEF GrantRDPConnect
  <2>3. RegistryTyped' /\ closed' \in BOOLEAN /\ now' \in Nat /\ recorded' \in [Tokens -> Nat]
    BY <1>0, <1>3, HistoryKeeps DEF GrantRDPConnect, Typed, RegistryTyped, StoreTyped, Bounded
  <2> QED BY <1>0, <1>3, <2>2, <2>3, KeptTyped, Unchanged DEF GrantRDPConnect
<1>4. ASSUME NEW r \in Requests, NEW g \in Grants, NEW owner \in Users, RDPConnectTarget(r, g, owner), UNCHANGED now
      PROVE  Typed'
  <2>1. IsRequest([Idle EXCEPT !.pc = "rdp", !.grant = g, !.user = owner]) /\ IsRequest(Idle)
    BY SMTT(30) DEF Idle, IsRequest, Fields, Typed, Bounded, Grants
  <2>2. RequestsTyped'
    BY <1>0, <1>4, <2>1, BeginTyped DEF RDPConnectTarget
  <2>3. RegistryTyped' /\ closed' \in BOOLEAN /\ now' \in Nat /\ recorded' \in [Tokens -> Nat]
    BY <1>0, <1>4, HistoryKeeps DEF RDPConnectTarget, Typed, RegistryTyped, StoreTyped, Bounded
  <2> QED BY <1>0, <1>4, <2>2, <2>3, KeptTyped, Unchanged, WithoutDrops DEF RDPConnectTarget
<1>5. ASSUME NEW r \in Requests, Proceed(r), UNCHANGED now PROVE Typed'
  <2>1. RequestsTyped'
    BY <1>5, HandlersTyped
  <2>2. CASE SaveSession(r)
    <3>1. index' = index => IndexTyped'
      BY <2>2 DEF Typed, IndexTyped, SaveSession
    <3>2. uses' = uses => uses' \in [Grants -> Nat]
      BY DEF Typed, Bounded
    <3> QED BY <1>0, <1>5, <2>1, <2>2, <3>1, <3>2, CommitTyped DEF SaveSession, At
  <2>3. CASE AuditExpired(r) \/ AuditRoamed(r)
    BY <1>0, <1>5, <2>1, <2>3, RecordTyped DEF AuditExpired, AuditRoamed
  <2>4. CASE DestroyAll(r)
    BY <1>0, <1>5, <2>1, <2>4, QuietTyped DEF DestroyAll
  <2>5. CASE DestroyOne(r)
    BY <1>0, <1>5, <2>1, <2>5, DeleteTyped DEF DestroyOne
  <2>6. CASE DestroySession(r)
    BY <1>0, <1>5, <2>1, <2>6, DeleteTyped DEF DestroySession
  <2>7. CASE CloseOne(r)
    BY <1>0, <1>5, <2>1, <2>7, QuietTyped DEF CloseOne
  <2>8. CASE DestroyDone(r) \/ LogoutDone(r) \/ Claim(r) \/ Capture(r)
    BY <1>0, <1>5, <2>1, <2>8, QuietTyped DEF DestroyDone, LogoutDone, Claim, Capture
  <2>9. CASE GrantLoad(r) \/ Validate(r)
    BY <1>0, <1>5, <2>1, <2>9, QuietTyped DEF GrantLoad, Validate
  <2>10. CASE Invalidate(r)
    BY <1>0, <1>5, <2>1, <2>10, DeleteTyped DEF Invalidate
  <2>11. CASE GrantCommit(r)
    <3>1. uses' = uses => uses' \in [Grants -> Nat]
      BY DEF Typed, Bounded
    <3>2. index' = Indexed(r) => IndexTyped'
      BY <2>11, IndexedTyped DEF GrantCommit, Typed
    <3> QED BY <1>0, <1>5, <2>1, <2>11, <3>1, <3>2, CommitTyped DEF GrantCommit, At
  <2>12. CASE ConsumeLoad(r)
    <3>1. RegistryTyped' /\ closed' \in BOOLEAN /\ now' \in Nat /\ recorded' \in [Tokens -> Nat]
      BY <1>0, <1>5, <2>12, HistoryKeeps DEF ConsumeLoad, Typed, RegistryTyped, StoreTyped, Bounded
    <3>2. Loses({}) /\ Drops(Dropped(req[r].grant))
      BY <2>12, Unchanged, WithoutDrops DEF ConsumeLoad
    <3> QED BY <1>0, <1>5, <2>1, <2>12, <3>1, <3>2, KeptTyped DEF ConsumeLoad
  <2>13. CASE ConsumeCommit(r)
    <3> DEFINE g == req[r].grant
    <3>1. uses' = [uses EXCEPT ![g] = @ + 1] => uses' \in [Grants -> Nat]
      <4>1. uses \in [Grants -> Nat]
        BY DEF Typed, Bounded
      <4> HIDE DEF g
      <4>2. [uses EXCEPT ![g] = @ + 1] \in [Grants -> Nat]
        BY <4>1, CountUp
      <4> QED BY <4>2
    <3>2. index' = Without(index, {g}) => IndexTyped'
      BY <2>13, WithoutDrops DEF ConsumeCommit, Typed, IndexTyped, Drops
    <3> QED BY <1>0, <1>5, <2>1, <2>13, <3>1, <3>2, CommitTyped DEF ConsumeCommit, At
  <2>14. CASE CloseUserConnections(r) \/ Register(r) \/ Unregister(r)
    <3>1. req[r].user \in Users
      BY <1>0, <2>14 DEF CloseUserConnections, Register, Unregister, RequestsTyped, IsRequest, At
    <3>2. RegistryTyped'
      BY SMTT(30), <1>0, <2>14, <3>1, HistoryKeeps
         DEF CloseUserConnections, Register, Unregister, Typed, RegistryTyped
    <3>3. /\ closed' \in BOOLEAN /\ now' \in Nat /\ recorded' \in [Tokens -> Nat] /\ Loses({}) /\ Drops({})
      BY <1>5, <2>14, Unchanged DEF CloseUserConnections, Register, Unregister, Typed, StoreTyped, Bounded
    <3> QED BY <1>0, <1>5, <2>1, <2>14, <3>2, <3>3, KeptTyped DEF CloseUserConnections, Register, Unregister
  <2> QED BY <1>5, <2>2, <2>3, <2>4, <2>5, <2>6, <2>7, <2>8, <2>9, <2>10, <2>11, <2>12, <2>13, <2>14
          DEF Proceed
<1>6. ASSUME NEW r \in Requests, SetupFails(r), UNCHANGED now PROVE Typed'
  <2>1. RequestsTyped'
    BY <1>6, HandlersTyped
  <2> QED BY <1>0, <1>6, <2>1, QuietTyped DEF SetupFails
<1>7. ASSUME UNCHANGED req PROVE RequestsTyped'
  BY <1>0, <1>7 DEF RequestsTyped, IsRequest, IsSession
<1>8. ASSUME NEW r \in Requests, PeerLeaves(r), UNCHANGED now PROVE Typed'
  BY <1>0, <1>7, <1>8, QuietTyped DEF PeerLeaves
<1>9. ASSUME Tick PROVE Typed'
  <2>1. RegistryTyped' /\ closed' \in BOOLEAN /\ now' \in Nat /\ recorded' \in [Tokens -> Nat]
    BY SMTT(30), <1>0, <1>9, HistoryKeeps DEF Tick, Typed, RegistryTyped, StoreTyped, Bounded
  <2> QED BY <1>0, <1>7, <1>9, <2>1, KeptTyped, Unchanged DEF Tick
<1>10. ASSUME NEW t \in Tokens, Expire(t) PROVE Typed'
  <2>1. RegistryTyped' /\ closed' \in BOOLEAN /\ now' \in Nat /\ recorded' \in [Tokens -> Nat]
    BY <1>0, <1>10, HistoryKeeps DEF Expire, Typed, RegistryTyped, StoreTyped, Bounded
  <2>2. Loses({t}) /\ Drops({})
    BY <1>10, Unchanged DEF Expire, Loses, Without, Restrict
  <2> QED BY <1>0, <1>7, <1>10, <2>1, <2>2, KeptTyped DEF Expire
<1>11. ASSUME NEW t \in Tokens, AuditTimeout(t) PROVE Typed'
  BY <1>0, <1>7, <1>11, RecordTyped DEF AuditTimeout
<1>12. ASSUME CloseAllConnections PROVE Typed'
  <2>1. RegistryTyped'
    BY <1>0, <1>12, HistoryKeeps DEF CloseAllConnections, Typed, RegistryTyped, Range
  <2>2. closed' \in BOOLEAN /\ now' \in Nat /\ recorded' \in [Tokens -> Nat] /\ Loses({}) /\ Drops({})
    BY <1>12, Unchanged DEF CloseAllConnections, Typed, StoreTyped, Bounded
  <2> QED BY <1>0, <1>7, <1>12, <2>1, <2>2, KeptTyped DEF CloseAllConnections
<1>13. ASSUME Close PROVE Typed'
  <2>1. RegistryTyped' /\ now' \in Nat /\ recorded' \in [Tokens -> Nat]
    BY <1>0, <1>13, HistoryKeeps DEF Close, Typed, RegistryTyped, Bounded
  <2> QED BY <1>0, <1>7, <1>13, <2>1, KeptTyped, Unchanged DEF Close
<1>14. ASSUME CloseDispatched \/ Drained \/ CloseAuditSink PROVE Typed'
  BY <1>0, <1>7, <1>14, QuietTyped DEF CloseDispatched, Drained, CloseAuditSink
<1> QED BY <1>1, <1>2, <1>3, <1>4, <1>5, <1>6, <1>8, <1>9, <1>10, <1>11, <1>12, <1>13, <1>14
        DEF Next, Step, Arrive

-----------------------------------------------------------------------------
(* SessionInv: sessionsMu has one holder, a stored session has its timer,  *)
(* a session that ended does not come back, and its end is recorded once   *)
(* or is in the hands of the one actor that is about to record it. There   *)
(* is a lemma for each operation or group of like operations, and          *)
(* KeepsSessions puts them together.                                       *)

\* Where a request has nothing to do with the store or with the audit.
Busy == {"save", "granting", "consuming", "claimed", "unclaimed", "expired", "roamed"}
Passes(q) == req[q].pc \notin Busy /\ req'[q].pc \notin Busy

\* A step that leaves the store and its audit alone keeps all that is said of
\* them.
LEMMA QuietCore ==
  ASSUME SessionInv, plan' = plan, Gone,
         UNCHANGED <<now, store, tracked, closed, auditing, nextTok, explicit, recorded>>,
         \A q \in Requests : Keeps(q) \/ Passes(q),
         \A q \in Requests : req'[q].pc \in Seen => Keeps(q) \/ req'[q].tok \in DOMAIN store \cup dead
  PROVE  TimersMatch' /\ NeverResurrected' /\ Fresh' /\ FromStore' /\ Held' /\ Ends'
<1> USE DEF SessionInv, Keeps, Passes, Busy, At
<1>0. dead' = dead
  BY DEF Gone
<1>1. TimersMatch' BY SMTT(30) DEF TimersMatch
<1>2. NeverResurrected' BY <1>0 DEF NeverResurrected
<1>3. Fresh' BY <1>0 DEF Fresh
<1>4. FromStore' BY <1>0 DEF FromStore
<1>5. Held' BY DEF Held
<1>6. Ends' BY SMTT(30), <1>0 DEF Ends, Unrecorded, RecordedOnce, Records, Tokens
<1> QED BY <1>1, <1>2, <1>3, <1>4, <1>5, <1>6

\* ... and SessionInv if it leaves sessionsMu and the stage of the shutdown
\* alone, too.
LEMMA QuietSessions ==
  ASSUME SessionInv, plan' = plan, Gone,
         UNCHANGED <<now, store, tracked, closed, auditing, lock, nextTok, explicit, recorded, stage>>,
         closing => closing',
         \A q \in Requests : Keeps(q) \/ (Passes(q) /\ req'[q].pc # "destroying"),
         \A q \in Requests : req'[q].pc \in Seen => Keeps(q) \/ req'[q].tok \in DOMAIN store \cup dead
  PROVE  SessionInv'
<1>1. Locked' BY DEF SessionInv, Keeps, Passes, Busy, Locked, Holding
<1>2. TimersMatch' /\ NeverResurrected' /\ Fresh' /\ FromStore' /\ Held' /\ Ends'
  BY QuietCore
<1>3. Stages' /\ NoAuditAfterSink'
  BY DEF SessionInv, Stages, NoAuditAfterSink, Auditing, Keeps, Passes, Busy, At
<1> QED BY <1>1, <1>2, <1>3 DEF SessionInv

\* A request that goes on from one place outside the store to another.
Aside == {"idle", "logout", "destroy", "close", "closing", "roam", "grant", "console", "validate", "rdp", "consume",
          "setup", "live"}

\* A request that goes on or ends outside of the store is such a step ...
LEMMA MovesQuiet ==
  ASSUME SessionInv, RequestsTyped, NEW r \in Requests, NEW p \in Aside, req[r].pc \in Aside,
         Finishes(r) \/ (Moves(r, p) /\ (p \in Seen => req[r].pc \in Seen))
  PROVE  /\ \A q \in Requests : Keeps(q) \/ (Passes(q) /\ req'[q].pc # "destroying")
         /\ \A q \in Requests : req'[q].pc \in Seen => Keeps(q) \/ req'[q].tok \in DOMAIN store \cup dead
BY SMTT(30) DEF SessionInv, FromStore, Moves, Finishes, Others, Idle, Keeps, Passes, Busy, Aside, Seen

\* ... and so is one that arrives.
LEMMA ArrivesQuiet ==
  ASSUME NEW r \in Requests, NEW rec, rec.pc \in Aside, Arrives(r, rec), At(r, "idle"),
         rec.pc \in Seen => rec.tok \in DOMAIN store
  PROVE  /\ \A q \in Requests : Keeps(q) \/ (Passes(q) /\ req'[q].pc # "destroying")
         /\ \A q \in Requests : req'[q].pc \in Seen => Keeps(q) \/ req'[q].tok \in DOMAIN store \cup dead
BY DEF Arrives, Keeps, Passes, Busy, Aside, At

\* The sessions that ended and have to be recorded, and who records them.
LEMMA EndsKept ==
  ASSUME Ends, plan' = plan, UNCHANGED <<auditing, recorded, closed>>, dead' \ explicit' = dead \ explicit,
         \A q \in Requests : Keeps(q) \/ {req[q].pc, req'[q].pc} \cap {"expired", "roamed"} = {}
  PROVE  Ends'
<1>1. \A q \in Requests : \A t : Records(q, t)' <=> Records(q, t)
  BY DEF Keeps, Records
<1> QED BY SMTT(30), <1>1 DEF Ends, Unrecorded, RecordedOnce, Tokens

\* The stages of gatewayRuntime.close hold where a step starts no audit.
LEMMA StagesKept ==
  ASSUME Stages, NoAuditAfterSink,
         UNCHANGED <<closed, stage>>, closing => closing', auditing' \subseteq auditing,
         \A q \in Requests : req'[q].pc = "expired" => req[q].pc = "expired"
  PROVE  Stages' /\ NoAuditAfterSink'
BY DEF Stages, NoAuditAfterSink, Auditing, At

\* A logout or a new login deletes a session that nobody is working on.
LEMMA ExplicitEnd ==
  ASSUME SessionInv, Typed, Gone, NEW S, Loses(S), Untracks(S), explicit' = explicit \cup (S \cap DOMAIN store),
         UNCHANGED <<now, closed, recorded, auditing, stage, closing>>, plan' = plan,
         \A q \in Requests : req[q].pc \notin {"claimed", "unclaimed", "granting", "consuming"},
         \A q \in Requests : req'[q].pc \notin {"claimed", "unclaimed", "granting", "consuming"},
         \A q \in Requests : Keeps(q) \/ {req[q].pc, req'[q].pc} \cap {"expired", "roamed"} = {}
  PROVE  /\ TimersMatch' /\ NeverResurrected' /\ Held' /\ Ends' /\ Stages' /\ NoAuditAfterSink'
         /\ DOMAIN store' \cup dead' = DOMAIN store \cup dead
<1> USE DEF SessionInv
<1>1. TimersMatch' BY DEF TimersMatch, Loses, Untracks, At
<1>2. NeverResurrected' BY DEF NeverResurrected, Loses, Gone
<1>3. Held' BY DEF Held
<1>4. dead' \ explicit' = dead \ explicit
  BY DEF Gone, Loses, NeverResurrected
<1>5. Ends' BY <1>4, EndsKept
<1>6. Stages' /\ NoAuditAfterSink'
  BY StagesKept DEF Keeps
<1>7. DOMAIN store' \cup dead' = DOMAIN store \cup dead
  BY DEF Loses, Gone
<1> QED BY <1>1, <1>2, <1>3, <1>5, <1>6, <1>7

\* A session is saved: a new one, or under the lock the one that is there.
LEMMA CommitSessions ==
  ASSUME SessionInv, Typed, Gone, plan' = plan,
         NEW r \in Requests, req[r].pc \in {"save", "granting", "consuming"},
         Puts(req[r].tok, req[r].data), ~closed, now < req[r].data.deadline,
         UNCHANGED <<now, closed, auditing, nextTok, explicit, recorded, stage, closing>>,
         Finishes(r) \/ Moves(r, "setup"), lock' = IF At(r, "save") THEN lock ELSE 0
  PROVE  SessionInv'
<1> USE DEF SessionInv, At
<1>0. /\ \A q \in Requests \ {r} : req'[q] = req[q]
      /\ req'[r].pc \in {"idle", "setup"}
  BY SMTT(30) DEF Finishes, Moves, Others, Idle
<1>1. At(r, "save") \/ (req[r].tok \in DOMAIN store /\ lock = r)
  BY DEF Held, Locked, Holding
<1>2. dead' = dead
  BY DEF Puts, Gone
<1>3. Locked' BY <1>0, <1>1 DEF Locked, Holding
<1>4. TimersMatch'
  <2>1. \A q \in Requests : req[q].pc \in {"claimed", "unclaimed"} => req[q].tok # req[r].tok
    BY <1>1 DEF Locked, Holding, Fresh, FromStore, Seen
  <2>2. \A t \in DOMAIN tracked' : t \in DOMAIN store' /\ tracked'[t] = store'[t].deadline
    BY DEF TimersMatch, Puts
  <2>3. ASSUME NEW t \in DOMAIN store' \ DOMAIN tracked'
        PROVE  \E q \in Requests : req'[q].pc = "claimed" /\ req'[q].tok = t
    <3>1. PICK q \in Requests : req[q].pc = "claimed" /\ req[q].tok = t
      BY <2>3 DEF TimersMatch, Puts
    <3> QED BY <1>0, <3>1
  <2>4. \A q \in Requests : req'[q].pc = "claimed" => req'[q].tok \in DOMAIN store' \ DOMAIN tracked'
    BY SMTT(30), <1>0, <2>1 DEF TimersMatch, Puts
  <2>5. \A q \in Requests : req'[q].pc = "unclaimed" => req'[q].tok \notin DOMAIN store'
    BY SMTT(30), <1>0, <2>1 DEF TimersMatch, Puts
  <2> QED BY <2>2, <2>3, <2>4, <2>5 DEF TimersMatch
<1>5. NeverResurrected' BY <1>1, <1>2 DEF NeverResurrected, Fresh, Puts
<1>6. Fresh' BY SMTT(30), <1>0, <1>1, <1>2 DEF Fresh, Puts
<1>7. FromStore' BY <1>0, <1>2 DEF FromStore, Seen, Puts
<1>8. Held' BY SMTT(30), <1>0, <1>1 DEF Held, Locked, Holding, Puts, Fresh, FromStore, Seen
<1>9. Ends' BY <1>0, <1>2, EndsKept DEF Keeps
<1>10. Stages' /\ NoAuditAfterSink' BY <1>0, StagesKept
<1> QED BY <1>3, <1>4, <1>5, <1>6, <1>7, <1>8, <1>9, <1>10

\* A commit is refused: the store is closed, or the session has expired.
LEMMA RefusedSessions ==
  ASSUME SessionInv, Typed, Gone, plan' = plan,
         NEW r \in Requests, req[r].pc \in {"save", "granting", "consuming"},
         CommitFails(r), UNCHANGED <<now, nextTok, explicit, recorded, stage, closing>>
  PROVE  SessionInv'
<1> USE DEF SessionInv, At
<1>0. /\ closed' = closed /\ auditing' = auditing
      /\ \A q \in Requests \ {r} : req'[q] = req[q]
      /\ Loses({}) \/ Loses({req[r].tok})
      /\ \/ req'[r].pc = "idle" /\ lock' = IF lock = r THEN 0 ELSE lock
         \/ /\ ~closed /\ req'[r].pc = "expired" /\ req'[r].tok = req[r].tok /\ lock' = lock
            /\ req[r].tok \in DOMAIN tracked /\ Loses({req[r].tok})
  <2>1. RequestsTyped
    BY DEF Typed
  <2>2. closed' = closed /\ auditing' = auditing
    BY <2>1, FailsLoses
  <2>3. CASE closed /\ store' = store /\ Finishes(r) /\ lock' = IF lock = r THEN 0 ELSE lock
    BY SMTT(30), <2>3, <2>2, Unchanged DEF Finishes, Others, Idle
  <2>4. CASE ~closed /\ Loses({req[r].tok}) /\ Finishes(r) /\ lock' = IF lock = r THEN 0 ELSE lock
    BY SMTT(30), <2>4, <2>2 DEF Finishes, Others, Idle
  <2>5. CASE ~closed /\ Loses({req[r].tok}) /\ req[r].tok \in DOMAIN tracked /\ Moves(r, "expired") /\ lock' = lock
    BY <2>5, <2>2 DEF Moves, Others
  <2> QED BY <2>1, <2>3, <2>4, <2>5, FailsLoses
<1>1. ~closed => /\ Loses({req[r].tok}) /\ Untracks({req[r].tok}) /\ now >= req[r].data.deadline
                 /\ req'[r].pc = "idle" => req[r].tok \notin DOMAIN tracked
  BY FailsLoses DEF Typed, Finishes, Moves, Idle
<1>2. DOMAIN store' \cup dead' = DOMAIN store \cup dead
  BY <1>0 DEF Loses, Gone
<1>3. Locked' BY <1>0 DEF Locked, Holding
<1>4. ASSUME ~closed
      PROVE  /\ \A q \in Requests : req[q].pc \in {"claimed", "unclaimed"} => req[q].tok # req[r].tok
             /\ req[r].tok \in DOMAIN store => req[r].tok \in DOMAIN tracked
  BY <1>4 DEF Locked, Holding, Fresh, FromStore, Seen, TimersMatch
<1>5. TimersMatch'
  BY SMTT(30), <1>0, <1>1, <1>4 DEF TimersMatch, Loses, Untracks
<1>6. NeverResurrected' BY <1>0 DEF NeverResurrected, Loses, Gone
<1>7. Fresh' BY <1>0, <1>2 DEF Fresh
<1>8. FromStore'
  BY SMTT(30), <1>0, <1>2 DEF FromStore, Seen, TimersMatch
<1>9. Held'
  BY SMTT(30), <1>0, <1>1 DEF Held, Locked, Holding, Loses, Fresh, FromStore, Seen
<1>10. Ends'
  <2>1. SUFFICES ASSUME ~closed PROVE Ends'
    BY <1>0 DEF Ends
  <2>2. CASE req'[r].pc = "idle"
    <3>1. dead' = dead
      BY <1>1, <1>4, <2>1, <2>2 DEF Loses, Gone
    <3> QED BY <1>0, <2>2, <3>1, EndsKept DEF Keeps
  <2>3. CASE req'[r].pc = "expired"
    <3>1. req[r].tok \in DOMAIN store /\ dead' = dead \cup {req[r].tok} /\ req[r].tok \notin dead
      BY SMTT(30), <1>0, <2>1, <2>3 DEF Loses, Gone, TimersMatch, NeverResurrected
    <3>2. req[r].tok \notin explicit'
      BY <3>1 DEF Typed, StoreTyped
    <3>3. \A q \in Requests : \A t : Records(q, t)' <=> Records(q, t) \/ (q = r /\ t = req[r].tok)
      BY <1>0, <2>3 DEF Records
    <3>4. ASSUME NEW t \in Tokens PROVE IF t \in dead' \ explicit' THEN RecordedOnce(t)' ELSE Unrecorded(t)'
      <4>1. CASE t = req[r].tok
        <5>1. Unrecorded(t)
          BY <2>1, <3>1, <4>1 DEF Ends
        <5> QED BY SMTT(30), <1>0, <3>1, <3>2, <3>3, <4>1, <5>1 DEF Unrecorded, RecordedOnce
      <4>2. CASE t # req[r].tok
        BY SMTT(30), <1>0, <2>1, <3>1, <3>3, <4>2 DEF Ends, Unrecorded, RecordedOnce
      <4> QED BY <4>1, <4>2
    <3> QED BY <3>4 DEF Ends, Tokens
  <2> QED BY <1>0, <2>2, <2>3
<1>11. Stages' /\ NoAuditAfterSink'
  BY <1>0 DEF Stages, NoAuditAfterSink, Auditing
<1> QED BY <1>3, <1>5, <1>6, <1>7, <1>8, <1>9, <1>10, <1>11

\* The end of a session is recorded, by the request that ended it.
LEMMA RecordSessions ==
  ASSUME SessionInv, Typed, Gone, plan' = plan, NEW r \in Requests, req[r].pc \in {"expired", "roamed"},
         Finishes(r),
         recorded' = [recorded EXCEPT ![req[r].tok] = @ + 1], lock' = lock \/ (lock = r /\ lock' = 0),
         UNCHANGED <<now, store, tracked, closed, auditing, nextTok, explicit, stage, closing>>
  PROVE  SessionInv'
<1> USE DEF SessionInv, At
<1>0. dead' = dead /\ req'[r].pc = "idle" /\ \A q \in Requests \ {r} : req'[q] = req[q]
  BY SMTT(30) DEF Gone, Finishes, Others, Idle
<1>1. Locked' BY <1>0 DEF Locked, Holding
<1>2. TimersMatch' BY SMTT(30), <1>0 DEF TimersMatch
<1>3. NeverResurrected' BY <1>0 DEF NeverResurrected
<1>4. Fresh' BY <1>0 DEF Fresh
<1>5. FromStore' BY <1>0 DEF FromStore, Seen
<1>6. Held' BY <1>0 DEF Held
<1>7. Ends'
  <2>1. SUFFICES ASSUME ~closed, NEW t \in Tokens
                 PROVE  IF t \in dead \ explicit THEN RecordedOnce(t)' ELSE Unrecorded(t)'
    BY <1>0 DEF Ends, Tokens
  <2>2. IF t \in dead \ explicit THEN RecordedOnce(t) ELSE Unrecorded(t)
    BY <2>1 DEF Ends
  <2>3. recorded \in [Tokens -> Nat]
    BY DEF Typed, Bounded
  <2>4. \A q \in Requests : Records(q, t)' <=> Records(q, t) /\ q # r
    BY <1>0 DEF Records
  <2>5. CASE t = req[r].tok
    <3>1. Records(r, t)
      BY <2>5 DEF Records
    <3>2. recorded[t] = 0 /\ t \notin auditing /\ t \in dead \ explicit /\ \A q \in Requests : Records(q, t) <=> q = r
      BY <2>2, <3>1 DEF Unrecorded, RecordedOnce
    <3>3. recorded'[t] = 1
      BY SMTT(30), <2>3, <2>5, <3>2
    <3> QED BY <2>4, <3>2, <3>3 DEF RecordedOnce
  <2>6. CASE t # req[r].tok
    <3>1. recorded'[t] = recorded[t] /\ ~Records(r, t)
      BY <2>3, <2>6 DEF Records
    <3> QED BY <2>2, <2>4, <3>1 DEF Unrecorded, RecordedOnce
  <2> QED BY <2>5, <2>6
<1>8. Stages' /\ NoAuditAfterSink' BY <1>0, StagesKept
<1> QED BY <1>1, <1>2, <1>3, <1>4, <1>5, <1>6, <1>7, <1>8

\* A request takes sessionsMu, which was free, over several steps.
LEMMA LockTaken ==
  ASSUME Locked, Free, NEW r \in Requests, lock' = r, \A q \in Requests \ {r} : req'[q] = req[q]
  PROVE  Locked' /\ \A q \in Requests : req[q].pc \notin Holding
BY SMTT(30) DEF Locked, Free, Requests

\* A holder of sessionsMu has just read what it is about to save.
LEMMA LoadSessions ==
  ASSUME SessionInv, Typed, Gone, plan' = plan, Free, NEW r \in Requests, lock' = r,
         Moves(r, "granting") \/ Moves(r, "consuming"), req[r].pc \in {"grant", "consume"},
         req'[r].tok \in DOMAIN store, req'[r].data.deadline = store[req'[r].tok].deadline,
         UNCHANGED <<now, store, tracked, closed, auditing, nextTok, explicit, recorded, stage, closing>>
  PROVE  SessionInv'
<1> USE DEF SessionInv, At
<1>0. /\ dead' = dead /\ req'[r].pc \in {"granting", "consuming"}
      /\ \A q \in Requests \ {r} : req'[q] = req[q]
  BY DEF Gone, Moves, Others
<1>1. Locked' /\ \A q \in Requests : req[q].pc \notin Holding
  BY <1>0, LockTaken
<1>2. TimersMatch' BY SMTT(30), <1>0 DEF TimersMatch
<1>3. NeverResurrected' BY <1>0 DEF NeverResurrected
<1>4. Fresh' BY <1>0 DEF Fresh
<1>5. FromStore' BY <1>0 DEF FromStore
<1>6. Held' BY <1>0, <1>1 DEF Held, Holding
<1>7. Ends' BY <1>0, EndsKept DEF Keeps
<1>8. Stages' /\ NoAuditAfterSink' BY <1>0, StagesKept
<1> QED BY <1>1, <1>2, <1>3, <1>4, <1>5, <1>6, <1>7, <1>8

\* invalidateSession takes the session out of tracking, or finds that it was.
LEMMA ClaimSessions ==
  ASSUME SessionInv, Typed, Gone, plan' = plan, NEW r \in Requests, Claim(r), UNCHANGED now
  PROVE  SessionInv'
<1> USE DEF SessionInv, At
<1>0. /\ dead' = dead /\ req'[r].pc = IF req[r].tok \in DOMAIN tracked THEN "claimed" ELSE "unclaimed"
      /\ req'[r].tok = req[r].tok /\ req[r].pc = "roam" /\ lock' = r /\ Free
      /\ \A q \in Requests \ {r} : req'[q] = req[q]
      /\ UNCHANGED <<store, closed, auditing, nextTok, explicit, recorded, stage, closing>>
  BY SMTT(30), GotoMoves DEF Claim, Gone, Moves, Others, Typed, registry, shutdown, bounds
<1>1. Locked' /\ \A q \in Requests : req[q].pc \notin Holding
  BY <1>0, LockTaken
<1>2. Untracks({req[r].tok})
  BY DEF Claim, Without, Restrict, Untracks
<1>3. TimersMatch' BY SMTT(30), <1>0, <1>1, <1>2 DEF TimersMatch, Untracks, Holding
<1>4. NeverResurrected' BY <1>0 DEF NeverResurrected
<1>5. Fresh' BY <1>0 DEF Fresh
<1>6. FromStore' BY <1>0 DEF FromStore, Seen
<1>7. Held' BY <1>0 DEF Held
<1>8. Ends' BY <1>0, EndsKept DEF Keeps
<1>9. Stages' /\ NoAuditAfterSink' BY <1>0, StagesKept
<1> QED BY <1>1, <1>3, <1>4, <1>5, <1>6, <1>7, <1>8, <1>9

\* The session that was claimed is deleted, and its record is due.
LEMMA InvalidateSessions ==
  ASSUME SessionInv, Typed, Gone, plan' = plan, NEW r \in Requests, Invalidate(r), UNCHANGED now
  PROVE  SessionInv'
<1> USE DEF SessionInv, At
<1> DEFINE t0 == req[r].tok
<1>0. /\ req[r].pc \in {"claimed", "unclaimed"} /\ lock = r /\ lock' = 0
      /\ UNCHANGED <<closed, auditing, nextTok, explicit, recorded, stage, closing>>
      /\ Loses({t0}) /\ Untracks({t0})
  BY DeleteLoses DEF Invalidate, Locked, Holding, registry, shutdown, bounds
<1>1. /\ \A q \in Requests \ {r} : req'[q] = req[q]
      /\ req'[r].pc = IF At(r, "claimed") THEN "roamed" ELSE "idle"
      /\ At(r, "claimed") => req'[r].tok = t0
  BY SMTT(30), GotoMoves, EndEnds DEF Invalidate, Typed, Moves, Finishes, Others, Idle
<1>2. \A q \in Requests \ {r} : req[q].pc \notin Holding
  BY <1>0 DEF Locked
<1>3. DOMAIN store' \cup dead' = DOMAIN store \cup dead
  BY <1>0 DEF Loses, Gone
<1>4. Locked' BY <1>1, <1>2 DEF Locked, Holding
<1>5. TimersMatch' BY SMTT(30), <1>0, <1>1, <1>2 DEF TimersMatch, Loses, Untracks, Holding
<1>6. NeverResurrected' BY <1>0 DEF NeverResurrected, Loses, Gone
<1>7. Fresh' BY <1>0, <1>1, <1>3 DEF Fresh
<1>8. FromStore' BY <1>0, <1>1, <1>3 DEF FromStore, Seen
<1>9. Held' BY <1>0, <1>1, <1>2 DEF Held, Holding
<1>10. Ends'
  <2>1. SUFFICES ASSUME ~closed PROVE Ends'
    BY <1>0 DEF Ends
  <2>2. CASE At(r, "unclaimed")
    <3>1. dead' = dead
      BY SMTT(30), <1>0, <2>1, <2>2 DEF Loses, Gone, TimersMatch
    <3> QED BY <1>0, <1>1, <2>2, <3>1, EndsKept DEF Keeps
  <2>3. CASE At(r, "claimed")
    <3>1. t0 \in DOMAIN store /\ dead' = dead \cup {t0} /\ t0 \notin dead
      BY SMTT(30), <1>0, <2>1, <2>3 DEF Loses, Gone, TimersMatch, NeverResurrected
    <3>2. t0 \notin explicit'
      BY <1>0, <3>1 DEF Typed, StoreTyped
    <3>3. \A q \in Requests : \A t : Records(q, t)' <=> Records(q, t) \/ (q = r /\ t = t0)
      BY <1>1, <2>3 DEF Records
    <3>4. ASSUME NEW t \in Tokens PROVE IF t \in dead' \ explicit' THEN RecordedOnce(t)' ELSE Unrecorded(t)'
      <4>1. CASE t = t0
        <5>1. Unrecorded(t)
          BY <2>1, <3>1, <4>1 DEF Ends
        <5> QED BY <1>0, <3>1, <3>2, <3>3, <4>1, <5>1 DEF Unrecorded, RecordedOnce
      <4>2. CASE t # t0
        BY SMTT(30), <1>0, <2>1, <3>1, <3>3, <4>2 DEF Ends, Unrecorded, RecordedOnce
      <4> QED BY <4>1, <4>2
    <3> QED BY <3>4 DEF Ends, Tokens
  <2> QED BY <1>0, <2>2, <2>3
<1>11. Stages' /\ NoAuditAfterSink' BY <1>0, <1>1, StagesKept
<1> QED BY <1>4, <1>5, <1>6, <1>7, <1>8, <1>9, <1>10, <1>11

\* sessionExpiryStore.expire: the timer takes the session, and owes its record.
LEMMA ExpireSessions ==
  ASSUME SessionInv, Typed, Gone, plan' = plan, NEW t0 \in Tokens, Expire(t0)
  PROVE  SessionInv'
<1> USE DEF SessionInv, At
<1>0. /\ t0 \in DOMAIN tracked /\ now >= tracked[t0] /\ ~closed /\ auditing' = auditing \cup {t0}
      /\ UNCHANGED <<now, closed, lock, req, nextTok, explicit, recorded, stage, closing>>
      /\ Loses({t0}) /\ Untracks({t0})
  BY DEF Expire, registry, shutdown, bounds, Without, Restrict, Loses, Untracks
<1>1. t0 \in DOMAIN store /\ tracked[t0] = store[t0].deadline
  BY <1>0 DEF TimersMatch
<1>2. DOMAIN store' \cup dead' = DOMAIN store \cup dead
  BY <1>0 DEF Loses, Gone
<1>3. Locked' BY <1>0 DEF Locked
<1>4. TimersMatch' BY SMTT(30), <1>0 DEF TimersMatch, Loses, Untracks
<1>5. NeverResurrected' BY <1>0 DEF NeverResurrected, Loses, Gone
<1>6. Fresh' BY <1>0, <1>2 DEF Fresh
<1>7. FromStore' BY <1>0, <1>2 DEF FromStore
<1>8. Held' BY SMTT(30), <1>0, <1>1 DEF Held, Loses, Typed, StoreTyped, IsSession, Bounded
<1>9. Ends'
  <2>1. dead' = dead \cup {t0} /\ t0 \notin dead
    BY <1>0, <1>1 DEF Loses, Gone, NeverResurrected
  <2>2. t0 \notin explicit
    BY <2>1 DEF Typed, StoreTyped
  <2>3. ASSUME NEW t \in Tokens PROVE IF t \in dead' \ explicit' THEN RecordedOnce(t)' ELSE Unrecorded(t)'
    BY SMTT(30), <1>0, <2>1, <2>2 DEF Ends, Unrecorded, RecordedOnce, Records
  <2> QED BY <2>3 DEF Ends, Tokens
<1>10. Stages' /\ NoAuditAfterSink' BY <1>0 DEF Stages, NoAuditAfterSink
<1> QED BY <1>3, <1>4, <1>5, <1>6, <1>7, <1>8, <1>9, <1>10

\* The expiry callback writes the record it owes.
LEMMA TimeoutSessions ==
  ASSUME SessionInv, Typed, Gone, plan' = plan, NEW t0 \in Tokens, AuditTimeout(t0)
  PROVE  SessionInv'
<1> USE DEF SessionInv, At
<1>0. /\ t0 \in auditing /\ auditing' = auditing \ {t0} /\ dead' = dead
      /\ UNCHANGED <<now, store, tracked, closed, lock, req, nextTok, explicit, stage, closing>>
  BY DEF AuditTimeout, registry, shutdown, bounds, Gone
<1>1. Locked' /\ TimersMatch' /\ NeverResurrected' /\ Fresh' /\ FromStore' /\ Held'
  <2>1. Locked' /\ TimersMatch' /\ NeverResurrected'
    BY <1>0 DEF Locked, TimersMatch, NeverResurrected
  <2>2. Fresh' /\ FromStore' /\ Held'
    BY <1>0 DEF Fresh, FromStore, Held
  <2> QED BY <2>1, <2>2
<1>2. Ends'
  <2>1. recorded' = [recorded EXCEPT ![t0] = @ + 1] /\ recorded \in [Tokens -> Nat]
    BY DEF AuditTimeout, Typed, Bounded
  <2>2. recorded'[t0] = recorded[t0] + 1 /\ \A t \in Tokens \ {t0} : recorded'[t] = recorded[t]
    BY <2>1
  <2>3. ASSUME ~closed,
               NEW t \in Tokens PROVE IF t \in dead \ explicit THEN RecordedOnce(t)' ELSE Unrecorded(t)'
    <3>1. IF t \in dead \ explicit THEN RecordedOnce(t) ELSE Unrecorded(t)
      BY <2>3 DEF Ends
    <3>2. \A q \in Requests : Records(q, t)' <=> Records(q, t)
      BY <1>0 DEF Records
    <3>3. CASE t = t0
      BY SMTT(30), <1>0, <2>2, <3>1, <3>2, <3>3 DEF Unrecorded, RecordedOnce
    <3>4. CASE t # t0
      BY <1>0, <2>2, <3>1, <3>2, <3>4 DEF Unrecorded, RecordedOnce
    <3> QED BY <3>3, <3>4
  <2> QED BY <1>0, <2>3 DEF Ends, Tokens
<1>3. Stages' /\ NoAuditAfterSink' BY <1>0, StagesKept
<1> QED BY <1>1, <1>2, <1>3

\* Every step of a handler, of the timers and of the shutdown keeps SessionInv.
LEMMA KeepsSessions ==
  ASSUME Typed, SessionInv, Next
  PROVE  SessionInv'
<1>1. ASSUME NEW r \in Requests, NEW u \in plan.users, NEW old \in 0 .. nextTok - 1, CreateSession(r, u, old),
             UNCHANGED now, History
      PROVE  SessionInv'
  <2>0. plan' = plan /\ Gone /\ RequestsTyped
    BY <1>1, HistoryKeeps DEF Typed
  <2>1. /\ Arrives(r, [Idle EXCEPT !.pc = "save", !.user = u, !.tok = nextTok,
                           !.data = [user |-> u, deadline |-> now + TTL, grants |-> <<>>]])
        /\ At(r, "idle") /\ Free
    BY <1>1, <2>0, BeginArrives DEF CreateSession
  <2>2. req'[r].pc = "save" /\ req'[r].tok = nextTok /\ \A q \in Requests \ {r} : Keeps(q)
    BY <2>1 DEF Arrives, Keeps, Idle
  <2>3. \A q \in Requests : req[q].pc \notin Holding
    BY SMTT(30), <2>1 DEF SessionInv, Locked, Free, Requests
  <2>4. /\ TimersMatch' /\ NeverResurrected' /\ Held' /\ Ends' /\ Stages' /\ NoAuditAfterSink'
        /\ DOMAIN store' \cup dead' = DOMAIN store \cup dead
    <3>1. /\ \A q \in Requests : req'[q].pc \notin {"claimed", "unclaimed", "granting", "consuming"}
          /\ \A q \in Requests : Keeps(q) \/ {req[q].pc, req'[q].pc} \cap {"expired", "roamed"} = {}
      BY <2>1, <2>2, <2>3 DEF Keeps, Holding, At
    <3>2. \A q \in Requests : req[q].pc \notin {"claimed", "unclaimed", "granting", "consuming"}
      BY <2>3 DEF Holding
    <3>3. /\ Loses({old}) /\ Untracks({old}) /\ explicit' = explicit \cup ({old} \cap DOMAIN store)
          /\ UNCHANGED <<now, closed, recorded, auditing, stage, closing>>
      BY <1>1, DeleteLoses DEF CreateSession, sessions, registry, shutdown, bounds
    <3> QED BY <2>0, <3>1, <3>2, <3>3, ExplicitEnd
  <2>5. Locked'
    BY <1>1, <2>2, <2>3 DEF CreateSession, Locked, Keeps, Holding
  <2>6. Fresh'
    <3>1. nextTok' = nextTok + 1 /\ nextTok \in Nat \ {0} /\ DOMAIN store \cup dead \subseteq 1 .. nextTok - 1
      BY <1>1 DEF CreateSession, Typed, Bounded, StoreTyped
    <3> QED BY SMTT(30), <2>2, <2>4, <3>1 DEF SessionInv, Fresh, Keeps, At
  <2>7. FromStore'
    BY <2>2, <2>4 DEF SessionInv, FromStore, Keeps, Seen
  <2> QED BY <2>4, <2>5, <2>6, <2>7 DEF SessionInv
<1>2. ASSUME NEW r \in Requests, NEW t \in DOMAIN store, NEW kind \in {"logout", "roam", "console"},
             BeginWith(r, kind, t), UNCHANGED now, History
      PROVE  SessionInv'
  <2>0. plan' = plan /\ Gone /\ RequestsTyped
    BY <1>2, HistoryKeeps DEF Typed
  <2>1. /\ \A q \in Requests : Keeps(q) \/ (Passes(q) /\ req'[q].pc # "destroying")
        /\ \A q \in Requests : req'[q].pc \in Seen => Keeps(q) \/ req'[q].tok \in DOMAIN store \cup dead
    <3> DEFINE rec == [Idle EXCEPT !.pc = kind, !.tok = t, !.user = store[t].user]
    <3>1. rec.pc = kind /\ rec.tok = t
      BY DEF Idle
    <3>2. Arrives(r, rec) /\ At(r, "idle")
      BY <1>2, <2>0, BeginArrives DEF BeginWith
    <3> HIDE DEF rec
    <3> QED BY SMTT(30), <1>2, <3>1, <3>2, ArrivesQuiet DEF Aside, Seen
  <2> QED BY <1>2, <2>0, <2>1, QuietSessions DEF BeginWith, sessions, registry, shutdown, bounds
<1>3. ASSUME NEW r \in Requests, NEW t \in DOMAIN store, NEW vm \in VMs, GrantRDPConnect(r, t, vm),
             UNCHANGED now, History
      PROVE  SessionInv'
  <2>0. plan' = plan /\ Gone /\ RequestsTyped
    BY <1>3, HistoryKeeps DEF Typed
  <2>1. /\ \A q \in Requests : Keeps(q) \/ (Passes(q) /\ req'[q].pc # "destroying")
        /\ \A q \in Requests : req'[q].pc \in Seen => Keeps(q) \/ req'[q].tok \in DOMAIN store \cup dead
    <3> DEFINE rec == [Idle EXCEPT !.pc = "grant", !.tok = t, !.user = store[t].user, !.vm = vm, !.grant = nextGrant]
    <3>1. rec.pc = "grant" /\ rec.tok = t
      BY DEF Idle
    <3>2. Arrives(r, rec) /\ At(r, "idle")
      BY <1>3, <2>0, BeginArrives DEF GrantRDPConnect
    <3> HIDE DEF rec
    <3> QED BY SMTT(30), <1>3, <3>1, <3>2, ArrivesQuiet DEF Aside, Seen
  <2> QED BY <1>3, <2>0, <2>1, QuietSessions DEF GrantRDPConnect, sessions, registry, shutdown, bounds
<1>4. ASSUME NEW r \in Requests, NEW g \in Grants, NEW owner \in Users, RDPConnectTarget(r, g, owner),
             UNCHANGED now, History
      PROVE  SessionInv'
  <2>0. plan' = plan /\ Gone /\ RequestsTyped
    BY <1>4, HistoryKeeps DEF Typed
  <2>1. /\ \A q \in Requests : Keeps(q) \/ (Passes(q) /\ req'[q].pc # "destroying")
        /\ \A q \in Requests : req'[q].pc \in Seen => Keeps(q) \/ req'[q].tok \in DOMAIN store \cup dead
    <3> DEFINE rec == IF Valid(g) THEN [Idle EXCEPT !.pc = "rdp", !.grant = g, !.user = owner] ELSE Idle
    <3>1. rec.pc \in {"rdp", "idle"}
      BY DEF Idle
    <3>2. Arrives(r, rec) /\ At(r, "idle")
      BY <1>4, <2>0, BeginArrives DEF RDPConnectTarget
    <3> HIDE DEF rec
    <3> QED BY SMTT(30), <1>4, <3>1, <3>2, ArrivesQuiet DEF Aside, Seen
  <2> QED BY <1>4, <2>0, <2>1, QuietSessions DEF RDPConnectTarget, sessions, registry, shutdown, bounds
<1>5. ASSUME NEW r \in Requests, SaveSession(r), UNCHANGED now, History PROVE SessionInv'
  <2>0. plan' = plan /\ Gone /\ RequestsTyped
    BY <1>5, HistoryKeeps DEF Typed
  <2>1. CASE Committed(req[r].tok, req[r].data) /\ ~CommitFails(r)
    <3>1. /\ Puts(req[r].tok, req[r].data) /\ ~closed /\ now < req[r].data.deadline
          /\ UNCHANGED <<closed, auditing>>
      BY <2>1, CommittedPuts
    <3>2. Finishes(r) \/ Moves(r, "setup")
      BY <1>5, <2>0, <2>1, EndEnds DEF SaveSession
    <3> QED BY <1>5, <2>0, <2>1, <3>1, <3>2, CommitSessions DEF SaveSession, At, registry, shutdown, bounds
  <2>2. CASE CommitFails(r)
    BY <1>5, <2>0, <2>2, RefusedSessions DEF SaveSession, At, registry, shutdown, bounds
  <2> QED BY <1>5, <2>1, <2>2 DEF SaveSession
<1>6. ASSUME NEW r \in Requests, AuditExpired(r), UNCHANGED now, History PROVE SessionInv'
  <2>0. plan' = plan /\ Gone /\ RequestsTyped
    BY <1>6, HistoryKeeps DEF Typed
  <2> QED BY <1>6, <2>0, EndEnds, RecordSessions DEF AuditExpired, At, sessions, registry, shutdown, bounds
<1>7. ASSUME NEW r \in Requests, DestroyAll(r), UNCHANGED now, History PROVE SessionInv'
  <2>0. plan' = plan /\ Gone /\ RequestsTyped
    BY <1>7, HistoryKeeps DEF Typed
  <2>1. Moves(r, "destroying") /\ req[r].pc = "logout"
    BY <1>7, <2>0, DestroyAllMoves DEF DestroyAll, At
  <2>2. Locked'
    BY <1>7, <2>1, LockTaken DEF DestroyAll, SessionInv, Moves, Others
  <2>3. TimersMatch' /\ NeverResurrected' /\ Fresh' /\ FromStore' /\ Held' /\ Ends'
    <3>1. /\ \A q \in Requests : Keeps(q) \/ Passes(q)
          /\ \A q \in Requests : req'[q].pc \in Seen => Keeps(q) \/ req'[q].tok \in DOMAIN store \cup dead
      BY <2>1 DEF SessionInv, FromStore, Moves, Others, Keeps, Passes, Busy, Seen
    <3> QED BY <1>7, <2>0, <3>1, QuietCore DEF DestroyAll, sessions, registry, shutdown, bounds
  <2>4. Stages' /\ NoAuditAfterSink'
    BY <1>7, <2>1, StagesKept DEF DestroyAll, SessionInv, Moves, Others, sessions, registry, shutdown, bounds
  <2> QED BY <2>2, <2>3, <2>4 DEF SessionInv
<1>8. ASSUME NEW r \in Requests, DestroyOne(r), UNCHANGED now, History PROVE SessionInv'
  <2>0. plan' = plan /\ Gone /\ RequestsTyped
    BY <1>8, HistoryKeeps DEF Typed
  <2>1. PICK x : Delete({x}) /\ explicit' = explicit \cup ({x} \cap DOMAIN store) /\ req' = [req EXCEPT ![r].todo = @ \ {x}]
    BY <1>8 DEF DestroyOne
  <2>2. req[r].pc = "destroying" /\ Moves(r, "destroying")
    BY <1>8, <2>0, <2>1, OneMoves DEF DestroyOne, At
  <2>3. \A q \in Requests \ {r} : req[q].pc \notin Holding /\ Keeps(q)
    BY <2>1, <2>2 DEF SessionInv, Locked, Free, Requests, Holding, Moves, Others, Keeps
  <2>4. /\ TimersMatch' /\ NeverResurrected' /\ Held' /\ Ends' /\ Stages' /\ NoAuditAfterSink'
        /\ DOMAIN store' \cup dead' = DOMAIN store \cup dead
    <3>1. /\ \A q \in Requests : req'[q].pc \notin {"claimed", "unclaimed", "granting", "consuming"}
          /\ \A q \in Requests : Keeps(q) \/ {req[q].pc, req'[q].pc} \cap {"expired", "roamed"} = {}
      BY <2>2, <2>3 DEF Keeps, Holding, Moves
    <3>2. \A q \in Requests : req[q].pc \notin {"claimed", "unclaimed", "granting", "consuming"}
      BY <2>2, <2>3 DEF Holding
    <3>3. Loses({x}) /\ Untracks({x}) /\ UNCHANGED <<now, closed, recorded, auditing, stage, closing>>
      BY <1>8, <2>1, DeleteLoses DEF DestroyOne, sessions, registry, shutdown, bounds
    <3> QED BY <2>0, <2>1, <3>1, <3>2, <3>3, ExplicitEnd
  <2>5. Locked'
    BY <1>8, <2>2, <2>3 DEF DestroyOne, SessionInv, Locked, Keeps, Holding, Moves
  <2>6. Fresh'
    BY SMTT(30), <1>8, <2>2, <2>3, <2>4 DEF DestroyOne, SessionInv, Fresh, Keeps, Moves, At, bounds
  <2>7. FromStore'
    BY <2>2, <2>3, <2>4 DEF SessionInv, FromStore, Keeps, Moves, Seen
  <2> QED BY <2>4, <2>5, <2>6, <2>7 DEF SessionInv
<1>9. ASSUME NEW r \in Requests, DestroyDone(r), UNCHANGED now, History PROVE SessionInv'
  <2>0. plan' = plan /\ Gone /\ RequestsTyped
    BY <1>9, HistoryKeeps DEF Typed
  <2>1. Moves(r, "destroy") /\ req[r].pc = "destroying"
    BY <1>9, <2>0, GotoMoves DEF DestroyDone, At
  <2>2. Locked'
    BY <1>9, <2>1 DEF DestroyDone, SessionInv, Locked, Holding, Moves, Others
  <2>3. TimersMatch' /\ NeverResurrected' /\ Fresh' /\ FromStore' /\ Held' /\ Ends'
    <3>1. /\ \A q \in Requests : Keeps(q) \/ Passes(q)
          /\ \A q \in Requests : req'[q].pc \in Seen => Keeps(q) \/ req'[q].tok \in DOMAIN store \cup dead
      BY <2>1 DEF SessionInv, FromStore, Moves, Others, Keeps, Passes, Busy, Seen
    <3> QED BY <1>9, <2>0, <3>1, QuietCore DEF DestroyDone, sessions, registry, shutdown, bounds
  <2>4. Stages' /\ NoAuditAfterSink'
    BY <1>9, <2>1, StagesKept DEF DestroyDone, SessionInv, Moves, Others, sessions, registry, shutdown, bounds
  <2> QED BY <2>2, <2>3, <2>4 DEF SessionInv
<1>10. ASSUME NEW r \in Requests, DestroySession(r), UNCHANGED now, History PROVE SessionInv'
  <2>0. plan' = plan /\ Gone /\ RequestsTyped
    BY <1>10, HistoryKeeps DEF Typed
  <2>1. /\ Delete({req[r].tok}) /\ explicit' = explicit \cup ({req[r].tok} \cap DOMAIN store) /\ Free
        /\ Goto(r, "close")
    BY <1>10 DEF DestroySession
  <2>2. req[r].pc = "destroy" /\ Moves(r, "close")
    BY <1>10, <2>0, <2>1, GotoMoves DEF DestroySession, At
  <2>3. \A q \in Requests \ {r} : req[q].pc \notin Holding /\ Keeps(q)
    BY SMTT(30), <2>1, <2>2 DEF SessionInv, Locked, Free, Requests, Holding, Moves, Others, Keeps
  <2>4. /\ TimersMatch' /\ NeverResurrected' /\ Held' /\ Ends' /\ Stages' /\ NoAuditAfterSink'
        /\ DOMAIN store' \cup dead' = DOMAIN store \cup dead
    <3>1. /\ \A q \in Requests : req'[q].pc \notin {"claimed", "unclaimed", "granting", "consuming"}
          /\ \A q \in Requests : Keeps(q) \/ {req[q].pc, req'[q].pc} \cap {"expired", "roamed"} = {}
      BY SMTT(30), <2>2, <2>3 DEF Keeps, Holding, Moves
    <3>2. \A q \in Requests : req[q].pc \notin {"claimed", "unclaimed", "granting", "consuming"}
      BY <2>2, <2>3 DEF Holding
    <3>3. /\ Loses({req[r].tok}) /\ Untracks({req[r].tok})
          /\ UNCHANGED <<now, closed, recorded, auditing, stage, closing>>
      BY <1>10, <2>1, DeleteLoses DEF DestroySession, sessions, registry, shutdown, bounds
    <3> QED BY <2>0, <2>1, <3>1, <3>2, <3>3, ExplicitEnd
  <2>5. Locked'
    BY <1>10, <2>2, <2>3 DEF DestroySession, SessionInv, Locked, Keeps, Holding, Moves
  <2>6. Fresh'
    BY SMTT(30), <1>10, <2>2, <2>3, <2>4 DEF DestroySession, SessionInv, Fresh, Keeps, Moves, At, bounds
  <2>7. FromStore'
    BY <2>2, <2>3, <2>4 DEF SessionInv, FromStore, Keeps, Moves, Seen
  <2> QED BY <2>4, <2>5, <2>6, <2>7 DEF SessionInv
<1>11. ASSUME NEW r \in Requests, CloseUserConnections(r), UNCHANGED now, History PROVE SessionInv'
  <2>0. plan' = plan /\ Gone /\ RequestsTyped
    BY <1>11, HistoryKeeps DEF Typed
  <2>1. /\ \A q \in Requests : Keeps(q) \/ (Passes(q) /\ req'[q].pc # "destroying")
        /\ \A q \in Requests : req'[q].pc \in Seen => Keeps(q) \/ req'[q].tok \in DOMAIN store \cup dead
    BY <1>11, <2>0, CloseMoves, MovesQuiet DEF CloseUserConnections, At, Aside, Seen
  <2> QED BY <1>11, <2>0, <2>1, QuietSessions DEF CloseUserConnections, sessions, registry, shutdown, bounds
<1>12. ASSUME NEW r \in Requests, CloseOne(r), UNCHANGED now, History PROVE SessionInv'
  <2>0. plan' = plan /\ Gone /\ RequestsTyped
    BY <1>12, HistoryKeeps DEF Typed
  <2>1. /\ \A q \in Requests : Keeps(q) \/ (Passes(q) /\ req'[q].pc # "destroying")
        /\ \A q \in Requests : req'[q].pc \in Seen => Keeps(q) \/ req'[q].tok \in DOMAIN store \cup dead
    BY <1>12, <2>0, OneMoves, MovesQuiet DEF CloseOne, At, Aside, Seen
  <2> QED BY <1>12, <2>0, <2>1, QuietSessions DEF CloseOne, sessions, registry, shutdown, bounds
<1>13. ASSUME NEW r \in Requests, LogoutDone(r), UNCHANGED now, History PROVE SessionInv'
  <2>0. plan' = plan /\ Gone /\ RequestsTyped
    BY <1>13, HistoryKeeps DEF Typed
  <2>1. /\ \A q \in Requests : Keeps(q) \/ (Passes(q) /\ req'[q].pc # "destroying")
        /\ \A q \in Requests : req'[q].pc \in Seen => Keeps(q) \/ req'[q].tok \in DOMAIN store \cup dead
    BY <1>13, <2>0, EndEnds, MovesQuiet DEF LogoutDone, At, Aside
  <2> QED BY <1>13, <2>0, <2>1, QuietSessions DEF LogoutDone, sessions, registry, shutdown, bounds
<1>14. ASSUME NEW r \in Requests, Claim(r), UNCHANGED now, History PROVE SessionInv'
  <2>0. plan' = plan /\ Gone /\ RequestsTyped
    BY <1>14, HistoryKeeps DEF Typed
  <2> QED BY <1>14, <2>0, ClaimSessions
<1>15. ASSUME NEW r \in Requests, Invalidate(r), UNCHANGED now, History PROVE SessionInv'
  <2>0. plan' = plan /\ Gone /\ RequestsTyped
    BY <1>15, HistoryKeeps DEF Typed
  <2> QED BY <1>15, <2>0, InvalidateSessions
<1>16. ASSUME NEW r \in Requests, AuditRoamed(r), UNCHANGED now, History PROVE SessionInv'
  <2>0. plan' = plan /\ Gone /\ RequestsTyped
    BY <1>16, HistoryKeeps DEF Typed
  <2> QED BY <1>16, <2>0, EndEnds, RecordSessions DEF AuditRoamed, At, sessions, registry, shutdown, bounds
<1>17. ASSUME NEW r \in Requests, GrantLoad(r), UNCHANGED now, History PROVE SessionInv'
  <2>0. plan' = plan /\ Gone /\ RequestsTyped
    BY <1>17, HistoryKeeps DEF Typed
  <2>1. CASE Finishes(r) /\ lock' = lock
    <3>1. /\ \A q \in Requests : Keeps(q) \/ (Passes(q) /\ req'[q].pc # "destroying")
          /\ \A q \in Requests : req'[q].pc \in Seen => Keeps(q) \/ req'[q].tok \in DOMAIN store \cup dead
      BY <1>17, <2>0, <2>1, MovesQuiet DEF GrantLoad, At, Aside
    <3> QED BY <1>17, <2>0, <2>1, <3>1, QuietSessions DEF GrantLoad, sessions, registry, shutdown, bounds
  <2>2. CASE ~(Finishes(r) /\ lock' = lock)
    <3>1. /\ Moves(r, "granting") /\ lock' = r /\ req'[r].tok \in DOMAIN store
          /\ req'[r].data.deadline = store[req'[r].tok].deadline
      BY <1>17, <2>0, <2>2, GrantLoadMoves DEF Typed, WithToken, Live, Moves
    <3> QED BY <1>17, <2>0, <3>1, LoadSessions DEF GrantLoad, At, sessions, registry, shutdown, bounds
  <2> QED BY <2>1, <2>2
<1>18. ASSUME NEW r \in Requests, GrantCommit(r), UNCHANGED now, History PROVE SessionInv'
  <2>0. plan' = plan /\ Gone /\ RequestsTyped
    BY <1>18, HistoryKeeps DEF Typed
  <2>1. CASE Committed(req[r].tok, req[r].data) /\ ~CommitFails(r)
    <3>1. /\ Puts(req[r].tok, req[r].data) /\ ~closed /\ now < req[r].data.deadline
          /\ UNCHANGED <<closed, auditing>>
      BY <2>1, CommittedPuts
    <3>2. Finishes(r) \/ Moves(r, "setup")
      BY <1>18, <2>0, <2>1, EndEnds DEF GrantCommit
    <3> QED BY <1>18, <2>0, <2>1, <3>1, <3>2, CommitSessions DEF GrantCommit, At, registry, shutdown, bounds
  <2>2. CASE CommitFails(r)
    BY <1>18, <2>0, <2>2, RefusedSessions DEF GrantCommit, At, registry, shutdown, bounds
  <2> QED BY <1>18, <2>1, <2>2 DEF GrantCommit
<1>19. ASSUME NEW r \in Requests, ConsumeLoad(r), UNCHANGED now, History PROVE SessionInv'
  <2>0. plan' = plan /\ Gone /\ RequestsTyped
    BY <1>19, HistoryKeeps DEF Typed
  <2>1. CASE Finishes(r) /\ lock' = lock
    <3>1. /\ \A q \in Requests : Keeps(q) \/ (Passes(q) /\ req'[q].pc # "destroying")
          /\ \A q \in Requests : req'[q].pc \in Seen => Keeps(q) \/ req'[q].tok \in DOMAIN store \cup dead
      BY <1>19, <2>0, <2>1, MovesQuiet DEF ConsumeLoad, At, Aside
    <3> QED BY <1>19, <2>0, <2>1, <3>1, QuietSessions DEF ConsumeLoad, sessions, registry, shutdown, bounds
  <2>2. CASE ~(Finishes(r) /\ lock' = lock)
    <3>1. /\ Moves(r, "consuming") /\ lock' = r /\ req'[r].tok \in DOMAIN store
          /\ req'[r].data.deadline = store[req'[r].tok].deadline
      BY <1>19, <2>0, <2>2, ConsumeLoadMoves DEF Typed, WithoutToken, Live, Moves, Valid
    <3> QED BY <1>19, <2>0, <3>1, LoadSessions DEF ConsumeLoad, At, sessions, registry, shutdown, bounds
  <2> QED BY <2>1, <2>2
<1>20. ASSUME NEW r \in Requests, ConsumeCommit(r), UNCHANGED now, History PROVE SessionInv'
  <2>0. plan' = plan /\ Gone /\ RequestsTyped
    BY <1>20, HistoryKeeps DEF Typed
  <2>1. CASE Committed(req[r].tok, req[r].data) /\ ~CommitFails(r)
    <3>1. /\ Puts(req[r].tok, req[r].data) /\ ~closed /\ now < req[r].data.deadline
          /\ UNCHANGED <<closed, auditing>>
      BY <2>1, CommittedPuts
    <3>2. Finishes(r) \/ Moves(r, "setup")
      BY <1>20, <2>0, <2>1, GotoMoves DEF ConsumeCommit
    <3> QED BY <1>20, <2>0, <2>1, <3>1, <3>2, CommitSessions DEF ConsumeCommit, At, registry, shutdown, bounds
  <2>2. CASE CommitFails(r)
    BY <1>20, <2>0, <2>2, RefusedSessions DEF ConsumeCommit, At, registry, shutdown, bounds
  <2> QED BY <1>20, <2>1, <2>2 DEF ConsumeCommit
<1>21. ASSUME NEW r \in Requests, Capture(r), UNCHANGED now, History PROVE SessionInv'
  <2>0. plan' = plan /\ Gone /\ RequestsTyped
    BY <1>21, HistoryKeeps DEF Typed
  <2>1. /\ \A q \in Requests : Keeps(q) \/ (Passes(q) /\ req'[q].pc # "destroying")
        /\ \A q \in Requests : req'[q].pc \in Seen => Keeps(q) \/ req'[q].tok \in DOMAIN store \cup dead
    BY <1>21, <2>0, CaptureMoves, MovesQuiet DEF Capture, At, Aside, Seen
  <2> QED BY <1>21, <2>0, <2>1, QuietSessions DEF Capture, sessions, registry, shutdown, bounds
<1>22. ASSUME NEW r \in Requests, Validate(r), UNCHANGED now, History PROVE SessionInv'
  <2>0. plan' = plan /\ Gone /\ RequestsTyped
    BY <1>22, HistoryKeeps DEF Typed
  <2>1. /\ \A q \in Requests : Keeps(q) \/ (Passes(q) /\ req'[q].pc # "destroying")
        /\ \A q \in Requests : req'[q].pc \in Seen => Keeps(q) \/ req'[q].tok \in DOMAIN store \cup dead
    BY <1>22, <2>0, ValidateMoves, MovesQuiet DEF Validate, At, Aside, Seen
  <2> QED BY <1>22, <2>0, <2>1, QuietSessions DEF Validate, sessions, registry, shutdown, bounds
<1>23. ASSUME NEW r \in Requests, Register(r), UNCHANGED now, History PROVE SessionInv'
  <2>0. plan' = plan /\ Gone /\ RequestsTyped
    BY <1>23, HistoryKeeps DEF Typed
  <2>1. /\ \A q \in Requests : Keeps(q) \/ (Passes(q) /\ req'[q].pc # "destroying")
        /\ \A q \in Requests : req'[q].pc \in Seen => Keeps(q) \/ req'[q].tok \in DOMAIN store \cup dead
    BY <1>23, <2>0, GotoMoves, EndEnds, MovesQuiet DEF Register, At, Aside, Seen
  <2> QED BY <1>23, <2>0, <2>1, QuietSessions DEF Register, sessions, registry, shutdown, bounds
<1>24. ASSUME NEW r \in Requests, Unregister(r), UNCHANGED now, History PROVE SessionInv'
  <2>0. plan' = plan /\ Gone /\ RequestsTyped
    BY <1>24, HistoryKeeps DEF Typed
  <2>1. /\ \A q \in Requests : Keeps(q) \/ (Passes(q) /\ req'[q].pc # "destroying")
        /\ \A q \in Requests : req'[q].pc \in Seen => Keeps(q) \/ req'[q].tok \in DOMAIN store \cup dead
    BY <1>24, <2>0, EndEnds, MovesQuiet DEF Unregister, At, Aside
  <2> QED BY <1>24, <2>0, <2>1, QuietSessions DEF Unregister, sessions, registry, shutdown, bounds
<1>25. ASSUME NEW r \in Requests, SetupFails(r), UNCHANGED now, History PROVE SessionInv'
  <2>0. plan' = plan /\ Gone /\ RequestsTyped
    BY <1>25, HistoryKeeps DEF Typed
  <2>1. /\ \A q \in Requests : Keeps(q) \/ (Passes(q) /\ req'[q].pc # "destroying")
        /\ \A q \in Requests : req'[q].pc \in Seen => Keeps(q) \/ req'[q].tok \in DOMAIN store \cup dead
    BY <1>25, <2>0, EndEnds, MovesQuiet DEF SetupFails, At, Aside
  <2> QED BY <1>25, <2>0, <2>1, QuietSessions DEF SetupFails, sessions, registry, shutdown, bounds
<1>26. ASSUME NEW r \in Requests, PeerLeaves(r), UNCHANGED now, History PROVE SessionInv'
  <2>0. plan' = plan /\ Gone /\ RequestsTyped
    BY <1>26, HistoryKeeps DEF Typed
  <2>1. /\ \A q \in Requests : Keeps(q) \/ (Passes(q) /\ req'[q].pc # "destroying")
        /\ \A q \in Requests : req'[q].pc \in Seen => Keeps(q) \/ req'[q].tok \in DOMAIN store \cup dead
    BY <1>26 DEF PeerLeaves, Keeps
  <2> QED BY <1>26, <2>0, <2>1, QuietSessions DEF PeerLeaves, sessions, registry, shutdown, bounds
<1>27. ASSUME Tick, History PROVE SessionInv'
  <2>0. plan' = plan /\ Gone /\ RequestsTyped
    BY <1>27, HistoryKeeps DEF Typed
  <2>1. Held'
    BY SMTT(30), <1>27 DEF Tick, SessionInv, Held, sessions, Typed, Bounded, RequestsTyped, IsRequest, IsSession
  <2>2. UNCHANGED <<store, tracked, closed, auditing, lock, req, stage, closing, nextTok, explicit, recorded>>
    BY <1>27 DEF Tick, sessions, registry, shutdown, bounds
  <2>3. dead' = dead
    BY <2>0, <2>2 DEF Gone
  <2>4. Locked' /\ TimersMatch' /\ NeverResurrected'
    BY <2>2, <2>3 DEF SessionInv, Locked, TimersMatch, NeverResurrected, At
  <2>5. Fresh' /\ FromStore' /\ Stages' /\ NoAuditAfterSink'
    BY <2>2, <2>3 DEF SessionInv, Fresh, FromStore, Stages, NoAuditAfterSink, Auditing, At
  <2>6. Ends'
    BY SMTT(30), <2>0, <2>2, <2>3 DEF SessionInv, Ends, Unrecorded, RecordedOnce, Records, Tokens
  <2> QED BY <2>1, <2>4, <2>5, <2>6 DEF SessionInv
<1>28. ASSUME NEW t \in Tokens, Expire(t), History PROVE SessionInv'
  <2>0. plan' = plan /\ Gone /\ RequestsTyped
    BY <1>28, HistoryKeeps DEF Typed
  <2> QED BY <1>28, <2>0, ExpireSessions
<1>29. ASSUME NEW t \in Tokens, AuditTimeout(t), History PROVE SessionInv'
  <2>0. plan' = plan /\ Gone /\ RequestsTyped
    BY <1>29, HistoryKeeps DEF Typed
  <2> QED BY <1>29, <2>0, TimeoutSessions
<1>30. ASSUME CloseAllConnections, History PROVE SessionInv'
  <2>0. plan' = plan /\ Gone /\ RequestsTyped
    BY <1>30, HistoryKeeps DEF Typed
  <2>1. \A q \in Requests : Keeps(q)
    BY <1>30 DEF CloseAllConnections, Keeps
  <2>2. TimersMatch' /\ NeverResurrected' /\ Fresh' /\ FromStore' /\ Held' /\ Ends'
    BY <1>30, <2>0, <2>1, QuietCore DEF CloseAllConnections, sessions, registry, shutdown, bounds
  <2>3. Locked' /\ Stages' /\ NoAuditAfterSink'
    BY <1>30 DEF CloseAllConnections, SessionInv, Locked, Stages, NoAuditAfterSink, Auditing, At, sessions,
       registry, shutdown, bounds
  <2> QED BY <2>2, <2>3 DEF SessionInv
<1>31. ASSUME CloseDispatched, History PROVE SessionInv'
  <2>0. plan' = plan /\ Gone /\ RequestsTyped
    BY <1>31, HistoryKeeps DEF Typed
  <2>1. /\ \A q \in Requests : Keeps(q) \/ (Passes(q) /\ req'[q].pc # "destroying")
        /\ \A q \in Requests : req'[q].pc \in Seen => Keeps(q) \/ req'[q].tok \in DOMAIN store \cup dead
    BY <1>31 DEF CloseDispatched, Keeps
  <2> QED BY <1>31, <2>0, <2>1, QuietSessions DEF CloseDispatched, sessions, registry, shutdown, bounds
<1>32. ASSUME Drained, History PROVE SessionInv'
  <2>0. plan' = plan /\ Gone /\ RequestsTyped
    BY <1>32, HistoryKeeps DEF Typed
  <2>1. \A q \in Requests : Keeps(q)
    BY <1>32 DEF Drained, Keeps
  <2>2. TimersMatch' /\ NeverResurrected' /\ Fresh' /\ FromStore' /\ Held' /\ Ends'
    BY <1>32, <2>0, <2>1, QuietCore DEF Drained, sessions, registry, shutdown, bounds
  <2>3. Locked' /\ Stages' /\ NoAuditAfterSink'
    BY <1>32 DEF Drained, SessionInv, Locked, Stages, NoAuditAfterSink, Auditing, At, sessions, registry,
       shutdown, bounds
  <2> QED BY <2>2, <2>3 DEF SessionInv
<1>33. ASSUME Close, History PROVE SessionInv'
  <2>0. plan' = plan /\ Gone /\ RequestsTyped
    BY <1>33, HistoryKeeps DEF Typed
  <2>1. dead' = dead
    BY <1>33, <2>0 DEF Close, Gone
  <2>2. closed' = TRUE /\ stage' = "closed" /\ UNCHANGED <<store, lock, req, closing, nextTok>>
    BY <1>33 DEF Close, registry, bounds
  <2>3. Locked' /\ NeverResurrected' /\ Fresh' /\ FromStore'
    BY <2>1, <2>2 DEF SessionInv, Locked, NeverResurrected, Fresh, FromStore, At
  <2>4. closing
    BY SMTT(30), <1>33 DEF Close, SessionInv, Stages
  <2>5. Stages' /\ NoAuditAfterSink'
    BY SMTT(30), <2>2, <2>4 DEF Stages, NoAuditAfterSink
  <2>6. TimersMatch' /\ Held' /\ Ends'
    BY <2>2 DEF TimersMatch, Held, Ends
  <2> QED BY <2>3, <2>5, <2>6 DEF SessionInv
<1>34. ASSUME CloseAuditSink, History PROVE SessionInv'
  <2>0. plan' = plan /\ Gone /\ RequestsTyped
    BY <1>34, HistoryKeeps DEF Typed
  <2>1. \A q \in Requests : Keeps(q)
    BY <1>34 DEF CloseAuditSink, Keeps
  <2>2. TimersMatch' /\ NeverResurrected' /\ Fresh' /\ FromStore' /\ Held' /\ Ends'
    BY <1>34, <2>0, <2>1, QuietCore DEF CloseAuditSink, sessions, registry, shutdown, bounds
  <2>3. Locked' /\ Stages' /\ NoAuditAfterSink'
    BY <1>34 DEF CloseAuditSink, SessionInv, Locked, Stages, NoAuditAfterSink, Auditing, At, sessions, registry,
       shutdown, bounds
  <2> QED BY <2>2, <2>3 DEF SessionInv
<1> QED BY <1>1, <1>2, <1>3, <1>4, <1>5, <1>6, <1>7, <1>8, <1>9, <1>10, <1>11, <1>12, <1>13, <1>14, <1>15,
           <1>16, <1>17, <1>18, <1>19, <1>20, <1>21, <1>22, <1>23, <1>24, <1>25, <1>26, <1>27, <1>28, <1>29,
           <1>30, <1>31, <1>32, <1>33, <1>34 DEF Next, Step, Arrive, Proceed
=============================================================================
