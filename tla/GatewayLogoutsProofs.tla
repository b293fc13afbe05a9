------------------------ MODULE GatewayLogoutsProofs ------------------------
(***************************************************************************)
(* RDP tokens and logout everywhere: every step of GatewaySessions keeps   *)
(* TokenInv and LogoutInv.                                                 *)
(***************************************************************************)
EXTENDS GatewaySessionsProofs

\* The default prover is Zenon; SMT is cited where a leaf needs arithmetic or
\* the fields of a record.
USE ZenonT(40)

-----------------------------------------------------------------------------
(* TokenInv: an RDP token is of one VM in one session, a token that is     *)
(* being granted is not known to anyone, and a token that left its session *)
(* never returns. UseConsumes derives that a connection made with a token  *)
(* takes the token out of its session in the same step.                    *)

\* A token is granted where it is in a session.
LEMMA GrantedIds ==
  ASSUME NEW st
  PROVE  \A g : g \in Granted(st) <=> \E t \in DOMAIN st : g \in Ids(st[t])
BY DEF Granted, Ids

GoneTokens == gone' = gone \cup (Granted(store) \ Granted(store'))

\* What the history records of the tokens that leave their session.
LEMMA HistoryGone == History => GoneTokens
BY DEF History, GoneTokens

\* A request keeps the token it has, or lets it go.
KeepsToken(q) ==
  \/ Keeps(q) /\ req'[q].grant = req[q].grant
  \/ req'[q].pc \notin {"save", "grant", "granting", "consuming", "rdp", "consume"}
  \/ req[q].pc = "rdp" /\ req'[q].pc = "consume" /\ req'[q].grant = req[q].grant
  \/ req'[q].pc = "save" /\ DOMAIN req'[q].data.grants = {}

\* Tokens leave the store only with their session, and nobody gets a new one.
LEMMA LoseTokens ==
  ASSUME Typed, TokenInv, Held', GoneTokens, NEW S, Loses(S),
         DOMAIN index' \subseteq DOMAIN index, nextGrant' = nextGrant,
         closed => closed', \A d \in Int : now' < d => now < d, \A q \in Requests : KeepsToken(q)
  PROVE  TokenInv'
<1> USE DEF TokenInv, At
<1>1. Unique'
  BY DEF Unique, Loses
<1>2. \A g : g \in Granted(store') => g \in Granted(store)
  BY GrantedIds DEF Loses
<1>3. \A g : g \in Granted(store) => g \in 1 .. nextGrant - 1
  BY GrantedIds DEF Unique
<1>4. gone' \subseteq 1 .. nextGrant' - 1 /\ gone' \cap Granted(store') = {}
  BY <1>2, <1>3 DEF GoneTokens
<1>5. NewToken'
  BY SMTT(30), <1>2 DEF NewToken, GoneTokens, KeepsToken, Keeps, Granting
<1>6. Saves'
  <2>1. SUFFICES ASSUME NEW r \in Requests, req'[r].pc \in {"granting", "consuming"}, ~closed', now' < req'[r].data.deadline
                 PROVE  /\ OneIdEach(req'[r].data)
                        /\ req'[r].pc = "granting" => Ids(req'[r].data) \subseteq Ids(store'[req'[r].tok]) \cup {req'[r].grant}
                        /\ req'[r].pc = "consuming" =>
                             /\ Ids(req'[r].data) \subseteq Ids(store'[req'[r].tok]) \ {req'[r].grant}
                             /\ req'[r].grant \in Ids(store'[req'[r].tok])
    BY DEF Saves, OneIdEach, Ids
  <2>2. Keeps(r) /\ req'[r].grant = req[r].grant
    BY <2>1 DEF KeepsToken
  <2>3. req[r].data.deadline \in Int
    BY <2>1, <2>2 DEF Typed, RequestsTyped, IsRequest, IsSession, Keeps
  <2>4. store'[req[r].tok] = store[req[r].tok]
    BY <2>1, <2>2 DEF Held, Loses, Keeps
  <2> QED BY <2>1, <2>2, <2>3, <2>4 DEF Saves, Keeps
<1>7. NewSession'
  BY DEF NewSession, KeepsToken, Keeps
<1> QED BY <1>1, <1>4, <1>5, <1>6, <1>7

\* A session is saved with its tokens, and with one more at most, which is new.
LEMMA PutTokens ==
  ASSUME Typed, Held, TokenInv, GoneTokens, NEW r \in Requests, Puts(req[r].tok, req[r].data),
         OneIdEach(req[r].data),
         NEW new, new \subseteq 1 .. nextGrant - 1, new \cap (gone \cup Granted(store)) = {},
         \A q \in Requests \ {r} : req[q].pc \in Granting => req[q].grant \notin new,
         \A g \in Ids(req[r].data) : g \in new \/ (req[r].tok \in DOMAIN store /\ g \in Ids(store[req[r].tok])),
         \A g \in DOMAIN index' : g \in DOMAIN index \cup new,
         UNCHANGED <<nextGrant, now, closed>>, Finishes(r) \/ Moves(r, "setup"),
         \A q \in Requests \ {r} : req[q].pc \in {"granting", "consuming"} /\ ~closed => req[q].tok # req[r].tok
  PROVE  TokenInv'
<1> USE DEF TokenInv, At
<1> DEFINE t0 == req[r].tok
<1>0. req'[r].pc \in {"idle", "setup"} /\ \A q \in Requests \ {r} : req'[q] = req[q]
  BY SMTT(30) DEF Finishes, Moves, Others, Idle
<1>1. \A t \in DOMAIN store' : t # t0 => t \in DOMAIN store /\ store'[t] = store[t]
  BY DEF Puts
<1>2. t0 \in DOMAIN store' /\ store'[t0] = req[r].data
  BY DEF Puts
<1>3. \A g : g \in Granted(store) => g \in 1 .. nextGrant - 1
  BY GrantedIds DEF Unique
<1>4. \A g : g \in Granted(store') => g \in Granted(store) \/ g \in new
  BY SMTT(30), <1>1, <1>2, GrantedIds
<1>5. Unique'
  <2>1. \A t \in DOMAIN store' : OneIdEach(store'[t])
    BY <1>1, <1>2 DEF Unique
  <2>2. \A t \in DOMAIN store' : Ids(store'[t]) \subseteq 1 .. nextGrant' - 1
    BY <1>1, <1>2 DEF Unique
  <2>3. ASSUME NEW t \in DOMAIN store', NEW u \in DOMAIN store', t # u,
               NEW g, g \in Ids(store'[t]), g \in Ids(store'[u])
        PROVE  FALSE
    <3>1. \A x \in DOMAIN store : g \in Ids(store[x]) => g \notin new
      BY GrantedIds
    <3> QED BY <1>1, <1>2, <2>3, <3>1 DEF Unique
  <2>4. \A t, u \in DOMAIN store' : t # u => Ids(store'[t]) \cap Ids(store'[u]) = {}
    BY <2>3
  <2> QED BY <2>1, <2>2, <2>4 DEF Unique, OneIdEach, Ids
<1>6. gone' \subseteq 1 .. nextGrant' - 1 /\ gone' \cap Granted(store') = {}
  BY <1>3, <1>4 DEF GoneTokens
<1>7. NewToken'
  BY <1>0, <1>4 DEF NewToken, GoneTokens, Granting
<1>8. Saves'
  <2>1. \A q \in Requests \ {r} : req[q].pc \in {"granting", "consuming"} /\ ~closed /\ now < req[q].data.deadline =>
          store'[req[q].tok] = store[req[q].tok]
    BY DEF Held, Puts
  <2> QED BY SMTT(30), <1>0, <2>1 DEF Saves
<1>9. NewSession'
  BY <1>0 DEF NewSession
<1> QED BY <1>5, <1>6, <1>7, <1>8, <1>9

\* A request arrives with a token: a new one to grant, or one of the index.
LEMMA ArriveTokens ==
  ASSUME Typed, TokenInv, GoneTokens, NEW r \in Requests, NEW rec, Arrives(r, rec), At(r, "idle"),
         UNCHANGED <<store, now, closed>>, DOMAIN index' \subseteq DOMAIN index,
         \/ rec.pc = "grant" /\ rec.grant = nextGrant /\ nextGrant' = nextGrant + 1
         \/ rec.pc = "rdp" /\ rec.grant \in DOMAIN index /\ nextGrant' = nextGrant
  PROVE  TokenInv'
<1> USE DEF TokenInv, At
<1>0. /\ req'[r].pc = rec.pc /\ req'[r].grant = rec.grant
      /\ \A q \in Requests \ {r} : Keeps(q) /\ req'[q].grant = req[q].grant
  BY DEF Arrives, Keeps
<1>1. gone' = gone
  BY DEF GoneTokens
<1>2. nextGrant \in Nat \ {0} /\ 1 .. nextGrant - 1 \subseteq 1 .. nextGrant' - 1
  BY SMTT(30) DEF Typed, Bounded
<1>3. Unique'
  BY <1>2 DEF Unique
<1>4. NewToken'
  <2>1. \A g : g \in Granted(store) => g \in 1 .. nextGrant - 1
    BY GrantedIds DEF Unique
  <2>2. \A q \in Requests : req[q].pc \in Granting \cup {"rdp", "consume", "consuming"} => req[q].grant # nextGrant
    BY SMTT(30), <1>2 DEF NewToken
  <2>3. /\ nextGrant \in 1 .. nextGrant' - 1 \/ nextGrant' = nextGrant
        /\ \A g \in DOMAIN index : g \in 1 .. nextGrant - 1
    BY SMTT(30), <1>2 DEF Typed, IndexTyped
  <2>4. rec.grant \in 1 .. nextGrant' - 1
    BY SMTT(30), <1>2, <2>3
  <2>5. \A q \in Requests : req'[q].pc \in Granting \cup {"rdp", "consume", "consuming"} => req'[q].grant \in 1 .. nextGrant' - 1
    BY <1>0, <1>2, <2>4 DEF NewToken, Keeps
  <2>6. \A g : g \in DOMAIN index \cup gone \cup Granted(store) => g \in 1 .. nextGrant - 1
    BY <2>1, <2>3
  <2>7. nextGrant \notin DOMAIN index \cup gone \cup Granted(store)
    BY SMTT(30), <1>2, <2>6
  <2>8. ASSUME NEW q \in Requests, req'[q].pc \in Granting
        PROVE  /\ req'[q].grant \notin DOMAIN index' \cup gone' \cup Granted(store')
               /\ \A x \in Requests :
                    req'[x].pc \in Granting \cup {"rdp", "consume", "consuming"} /\ req'[x].grant = req'[q].grant => x = q
    <3>1. CASE q = r
      BY <1>0, <1>1, <2>2, <2>7, <2>8, <3>1 DEF Keeps, Granting
    <3>2. CASE q # r
      BY SMTT(30), <1>0, <1>1, <2>2, <2>8, <3>2 DEF NewToken, Keeps, Granting
    <3> QED BY <3>1, <3>2
  <2> QED BY <2>5, <2>8 DEF NewToken
<1>5. Saves' /\ NewSession'
  BY <1>0 DEF Saves, NewSession, Keeps
<1> QED BY <1>1, <1>2, <1>3, <1>4, <1>5

\* A request that goes on or ends keeps its token or lets it go ...
LEMMA MovesToken ==
  ASSUME NEW r \in Requests, NEW p, p \notin {"save", "grant", "granting", "consuming", "rdp"},
         p = "consume" => req[r].pc = "rdp", Finishes(r) \/ Moves(r, p)
  PROVE  \A q \in Requests : KeepsToken(q)
BY SMTT(30) DEF KeepsToken, Keeps, Moves, Finishes, Others, Idle

\* ... and one that arrives without a token takes none.
LEMMA ArrivesToken ==
  ASSUME NEW r \in Requests, NEW rec,
         Arrives(r, rec), rec.pc \notin {"grant", "granting", "consuming", "rdp", "consume"},
         rec.pc = "save" => DOMAIN rec.data.grants = {}
  PROVE  \A q \in Requests : KeepsToken(q)
BY DEF KeepsToken, Keeps, Arrives

\* A token is granted, or consumed, under the lock.
LEMMA LoadTokens ==
  ASSUME Typed, SessionInv, TokenInv, GoneTokens, Free, NEW r \in Requests,
         UNCHANGED <<store, now, closed, nextGrant>>,
         DOMAIN index' \subseteq DOMAIN index, req[r].pc \in {"grant", "consume"},
         req[r].pc = "grant" => Moves(r, "granting") /\ WithToken(req'[r].data, store[req'[r].tok], req[r].vm, req[r].grant),
         req[r].pc = "consume" =>
           \E v \in DOMAIN store[req'[r].tok].grants :
             /\ Moves(r, "consuming") /\ WithoutToken(req'[r].data, store[req'[r].tok], v)
             /\ store[req'[r].tok].grants[v].id = req[r].grant,
         req'[r].tok \in DOMAIN store
  PROVE  TokenInv'
<1> USE DEF TokenInv, At
<1> DEFINE s == store[req'[r].tok]
           d == req'[r].data
           g == req[r].grant
<1>0. /\ \A q \in Requests \ {r} : req'[q] = req[q]
      /\ req'[r].pc = IF req[r].pc = "grant" THEN "granting" ELSE "consuming"
      /\ req'[r].grant = g
  BY DEF Moves, Others
<1>1. gone' = gone
  BY DEF GoneTokens
<1>2. OneIdEach(s)
  BY DEF Unique
<1>3. \A q \in Requests \ {r} : req[q].pc \notin {"granting", "consuming"}
  BY SMTT(30) DEF SessionInv, Locked, Holding, Free, Requests
<1>4. CASE req[r].pc = "grant"
  <2>1. g \notin Ids(s)
    BY <1>4, GrantedIds DEF NewToken, Granting
  <2>2. OneIdEach(d)
    <3>1. \A v \in DOMAIN d.grants \ {req[r].vm} : v \in DOMAIN s.grants /\ d.grants[v] = s.grants[v] /\ d.grants[v].id # g
      BY <1>4, <2>1 DEF WithToken, Ids
    <3>2. d.grants[req[r].vm].id = g
      BY <1>4 DEF WithToken
    <3> HIDE DEF d, s, g
    <3> QED BY <1>2, <3>1, <3>2 DEF OneIdEach
  <2>3. \A x \in Ids(d) : x \in Ids(s) \cup {g}
    BY <1>4 DEF WithToken, Ids
  <2>4. Saves'
    BY <1>0, <1>3, <1>4, <2>2, <2>3 DEF Saves
  <2>5. NewToken'
    BY SMTT(30), <1>0, <1>1, <1>4 DEF NewToken, Granting
  <2> QED BY <1>0, <1>1, <2>4, <2>5 DEF Unique, NewSession
<1>5. CASE req[r].pc = "consume"
  <2>1. PICK v \in DOMAIN s.grants : WithoutToken(d, s, v) /\ s.grants[v].id = g
    BY <1>5
  <2>2. OneIdEach(d)
    BY <1>2, <2>1 DEF WithoutToken, OneIdEach
  <2>3. \A x \in Ids(d) : x \in Ids(s) \ {g}
    <3>1. \A w \in DOMAIN d.grants : w \in DOMAIN s.grants /\ w # v /\ d.grants[w] = s.grants[w]
      BY <2>1 DEF WithoutToken
    <3> HIDE DEF d, s, g
    <3>2. \A w \in DOMAIN d.grants : d.grants[w].id # g
      BY <1>2, <2>1, <3>1 DEF OneIdEach
    <3> QED BY <3>1, <3>2 DEF Ids
  <2>4. g \in Ids(s)
    BY <2>1 DEF Ids
  <2>5. Saves'
    BY <1>0, <1>3, <1>5, <2>2, <2>3, <2>4 DEF Saves
  <2>6. NewToken'
    BY SMTT(30), <1>0, <1>1, <1>5 DEF NewToken, Granting
  <2> QED BY <1>0, <1>1, <2>5, <2>6 DEF Unique, NewSession
<1> QED BY <1>4, <1>5

\* No step makes an RDP token that was spent, replaced or revoked come back.
LEMMA KeepsTokens ==
  ASSUME Typed, SessionInv, SessionInv', TokenInv, Next
  PROVE  TokenInv'
<1>0. RequestsTyped /\ StoreTyped /\ Held' /\ now \in Nat
  BY DEF Typed, SessionInv, Bounded
<1>1. ASSUME NEW r \in Requests, NEW u \in plan.users, NEW old \in 0 .. nextTok - 1, CreateSession(r, u, old),
             UNCHANGED now, History
      PROVE  TokenInv'
  <2>1. \A q \in Requests : KeepsToken(q)
    <3> DEFINE rec == [Idle EXCEPT !.pc = "save", !.user = u, !.tok = nextTok,
                           !.data = [user |-> u, deadline |-> now + TTL, grants |-> <<>>]]
    <3>1. rec.pc = "save" /\ DOMAIN rec.data.grants = {}
      BY SMTT(30) DEF Idle
    <3>2. Arrives(r, rec)
      BY <1>0, <1>1, BeginArrives DEF CreateSession
    <3> HIDE DEF rec
    <3> QED BY <1>1, <3>1, <3>2, ArrivesToken
  <2>2. closed' = closed /\ DOMAIN index' \subseteq DOMAIN index /\ \E S : Loses(S)
    BY <1>1, DeleteLoses DEF CreateSession, Drops
  <2> QED BY <1>0, <1>1, <2>1, <2>2, HistoryGone, LoseTokens DEF CreateSession, bounds
<1>2. ASSUME NEW r \in Requests, NEW t \in DOMAIN store, NEW kind \in {"logout", "roam", "console"},
             BeginWith(r, kind, t), UNCHANGED now, History
      PROVE  TokenInv'
  <2>1. \A q \in Requests : KeepsToken(q)
    <3> DEFINE rec == [Idle EXCEPT !.pc = kind, !.tok = t, !.user = store[t].user]
    <3>1. rec.pc = kind
      BY DEF Idle
    <3>2. Arrives(r, rec)
      BY <1>0, <1>2, BeginArrives DEF BeginWith
    <3> HIDE DEF rec
    <3> QED BY <1>2, <3>1, <3>2, ArrivesToken
  <2>2. Loses({}) /\ DOMAIN index' \subseteq DOMAIN index
    BY <1>2, Unchanged DEF BeginWith, sessions
  <2> QED BY <1>0, <1>2, <2>1, <2>2, HistoryGone, LoseTokens DEF BeginWith, sessions, registry, shutdown,
             bounds, Begin
<1>3. ASSUME NEW r \in Requests, NEW t \in DOMAIN store, NEW vm \in VMs, GrantRDPConnect(r, t, vm),
             UNCHANGED now, History
      PROVE  TokenInv'
  <2> DEFINE rec == [Idle EXCEPT !.pc = "grant", !.tok = t, !.user = store[t].user, !.vm = vm, !.grant = nextGrant]
  <2>1. rec.pc = "grant" /\ rec.grant = nextGrant
    BY DEF Idle
  <2>2. Arrives(r, rec) /\ At(r, "idle")
    BY <1>0, <1>3, BeginArrives DEF GrantRDPConnect
  <2> HIDE DEF rec
  <2> QED BY <1>3, <2>1, <2>2, HistoryGone, ArriveTokens DEF GrantRDPConnect, sessions
<1>4. ASSUME NEW r \in Requests, NEW g \in Grants, NEW owner \in Users, RDPConnectTarget(r, g, owner),
             UNCHANGED now, History
      PROVE  TokenInv'
  <2> DEFINE rec == IF Valid(g) THEN [Idle EXCEPT !.pc = "rdp", !.grant = g, !.user = owner] ELSE Idle
  <2>1. CASE Valid(g)
    <3>1. rec.pc = "rdp" /\ rec.grant = g /\ g \in DOMAIN index
      BY <2>1 DEF Idle, Valid
    <3>2. Arrives(r, rec) /\ At(r, "idle") /\ DOMAIN index' \subseteq DOMAIN index
      BY <1>0, <1>4, BeginArrives, WithoutDrops DEF RDPConnectTarget, Drops
    <3> HIDE DEF rec
    <3> QED BY <1>4, <3>1, <3>2, HistoryGone, ArriveTokens DEF RDPConnectTarget, sessions
  <2>2. CASE ~Valid(g)
    <3>1. Arrives(r, Idle)
      BY <1>0, <1>4, <2>2, BeginArrives DEF RDPConnectTarget
    <3>2. \A q \in Requests : KeepsToken(q)
      BY <3>1, ArrivesToken DEF Idle
    <3>3. Loses({}) /\ DOMAIN index' \subseteq DOMAIN index
      BY <1>4, Unchanged, WithoutDrops DEF RDPConnectTarget, sessions, Drops
    <3> QED BY <1>0, <1>4, <3>2, <3>3, HistoryGone, LoseTokens DEF RDPConnectTarget, sessions, registry,
               shutdown, bounds
  <2> QED BY <2>1, <2>2
<1>5. ASSUME NEW r \in Requests, SaveSession(r), UNCHANGED now, History PROVE TokenInv'
  <2>1. CASE Committed(req[r].tok, req[r].data) /\ ~CommitFails(r)
    <3>1. /\ Puts(req[r].tok, req[r].data) /\ ~closed /\ now < req[r].data.deadline
          /\ UNCHANGED closed
      BY <2>1, CommittedPuts
    <3>2. Finishes(r) \/ Moves(r, "setup")
      BY <1>0, <1>5, <2>1, EndEnds DEF SaveSession
    <3>3. OneIdEach(req[r].data) /\ Ids(req[r].data) = {}
      BY <1>5 DEF SaveSession, TokenInv, NewSession, OneIdEach, Ids
    <3>4. \A q \in Requests \ {r} : req[q].pc \in {"granting", "consuming"} => req[q].tok # req[r].tok
      BY <1>5 DEF SaveSession, SessionInv, Fresh, FromStore, Seen, At
    <3>5. PICK new : new = {}
      OBVIOUS
    <3> QED BY <1>0, <1>5, <2>1, <3>1, <3>2, <3>3, <3>4, <3>5, HistoryGone, PutTokens DEF SaveSession,
               SessionInv, bounds
  <2>2. CASE CommitFails(r)
    <3>0. Finishes(r) \/ Moves(r, "expired")
      BY <1>0, <2>2, FailsLoses
    <3>1. \A q \in Requests : KeepsToken(q)
      BY <3>0, MovesToken
    <3>2. (Loses({}) \/ Loses({req[r].tok})) /\ index' = index /\ closed' = closed
      BY <1>0, <2>2, FailsLoses, Unchanged
    <3> QED BY <1>0, <1>5, <3>1, <3>2, HistoryGone, LoseTokens DEF SaveSession, bounds
  <2> QED BY <1>5, <2>1, <2>2 DEF SaveSession
<1>6. ASSUME NEW r \in Requests, AuditExpired(r), UNCHANGED now, History PROVE TokenInv'
  <2>1. \A q \in Requests : KeepsToken(q)
    BY <1>0, <1>6, EndEnds, MovesToken DEF AuditExpired, At
  <2>2. Loses({}) /\ DOMAIN index' \subseteq DOMAIN index
    BY <1>6, Unchanged DEF AuditExpired, sessions
  <2> QED BY <1>0, <1>6, <2>1, <2>2, HistoryGone, LoseTokens DEF AuditExpired, sessions, registry, shutdown,
             bounds
<1>7. ASSUME NEW r \in Requests, DestroyAll(r), UNCHANGED now, History PROVE TokenInv'
  <2>1. \A q \in Requests : KeepsToken(q)
    BY <1>0, <1>7, DestroyAllMoves, MovesToken DEF DestroyAll, At
  <2>2. Loses({}) /\ DOMAIN index' \subseteq DOMAIN index
    BY <1>7, Unchanged DEF DestroyAll, sessions
  <2> QED BY <1>0, <1>7, <2>1, <2>2, HistoryGone, LoseTokens DEF DestroyAll, sessions, registry, shutdown,
             bounds
<1>8. ASSUME NEW r \in Requests, DestroyOne(r), UNCHANGED now, History PROVE TokenInv'
  <2>1. \A q \in Requests : KeepsToken(q)
    BY <1>0, <1>8, OneMoves, MovesToken DEF DestroyOne
  <2>2. closed' = closed /\ DOMAIN index' \subseteq DOMAIN index /\ \E S : Loses(S)
    BY <1>8, DeleteLoses DEF DestroyOne, Drops
  <2> QED BY <1>0, <1>8, <2>1, <2>2, HistoryGone, LoseTokens DEF DestroyOne, bounds
<1>9. ASSUME NEW r \in Requests, DestroyDone(r), UNCHANGED now, History PROVE TokenInv'
  <2>1. \A q \in Requests : KeepsToken(q)
    BY <1>0, <1>9, GotoMoves, MovesToken DEF DestroyDone, At
  <2>2. Loses({}) /\ DOMAIN index' \subseteq DOMAIN index
    BY <1>9, Unchanged DEF DestroyDone, sessions
  <2> QED BY <1>0, <1>9, <2>1, <2>2, HistoryGone, LoseTokens DEF DestroyDone, sessions, registry, shutdown,
             bounds
<1>10. ASSUME NEW r \in Requests, DestroySession(r), UNCHANGED now, History PROVE TokenInv'
  <2>1. \A q \in Requests : KeepsToken(q)
    BY <1>0, <1>10, GotoMoves, MovesToken DEF DestroySession, At
  <2>2. closed' = closed /\ DOMAIN index' \subseteq DOMAIN index /\ \E S : Loses(S)
    BY <1>10, DeleteLoses DEF DestroySession, Drops
  <2> QED BY <1>0, <1>10, <2>1, <2>2, HistoryGone, LoseTokens DEF DestroySession, bounds
<1>11. ASSUME NEW r \in Requests, CloseUserConnections(r), UNCHANGED now, History PROVE TokenInv'
  <2>1. \A q \in Requests : KeepsToken(q)
    BY <1>0, <1>11, CloseMoves, MovesToken DEF CloseUserConnections, At
  <2>2. Loses({}) /\ DOMAIN index' \subseteq DOMAIN index
    BY <1>11, Unchanged DEF CloseUserConnections, sessions
  <2> QED BY <1>0, <1>11, <2>1, <2>2, HistoryGone, LoseTokens DEF CloseUserConnections, sessions, registry,
             shutdown, bounds
<1>12. ASSUME NEW r \in Requests, CloseOne(r), UNCHANGED now, History PROVE TokenInv'
  <2>1. \A q \in Requests : KeepsToken(q)
    BY <1>0, <1>12, OneMoves, MovesToken DEF CloseOne
  <2>2. Loses({}) /\ DOMAIN index' \subseteq DOMAIN index
    BY <1>12, Unchanged DEF CloseOne, sessions
  <2> QED BY <1>0, <1>12, <2>1, <2>2, HistoryGone, LoseTokens DEF CloseOne, sessions, registry, shutdown, bounds
<1>13. ASSUME NEW r \in Requests, LogoutDone(r), UNCHANGED now, History PROVE TokenInv'
  <2>1. \A q \in Requests : KeepsToken(q)
    BY <1>0, <1>13, EndEnds, MovesToken DEF LogoutDone, At
  <2>2. Loses({}) /\ DOMAIN index' \subseteq DOMAIN index
    BY <1>13, Unchanged DEF LogoutDone, sessions
  <2> QED BY <1>0, <1>13, <2>1, <2>2, HistoryGone, LoseTokens DEF LogoutDone, sessions, registry, shutdown,
             bounds
<1>14. ASSUME NEW r \in Requests, Claim(r), UNCHANGED now, History PROVE TokenInv'
  <2>1. \A q \in Requests : KeepsToken(q)
    BY <1>0, <1>14, GotoMoves, MovesToken DEF Claim, At
  <2>2. Loses({}) /\ DOMAIN index' \subseteq DOMAIN index
    BY <1>14, Unchanged DEF Claim, sessions
  <2> QED BY <1>0, <1>14, <2>1, <2>2, HistoryGone, LoseTokens DEF Claim, sessions, registry, shutdown, bounds
<1>15. ASSUME NEW r \in Requests, Invalidate(r), UNCHANGED now, History PROVE TokenInv'
  <2>1. \A q \in Requests : KeepsToken(q)
    BY <1>0, <1>15, GotoMoves, EndEnds, MovesToken DEF Invalidate, At
  <2>2. closed' = closed /\ DOMAIN index' \subseteq DOMAIN index /\ \E S : Loses(S)
    BY <1>15, DeleteLoses DEF Invalidate, Drops
  <2> QED BY <1>0, <1>15, <2>1, <2>2, HistoryGone, LoseTokens DEF Invalidate, bounds
<1>16. ASSUME NEW r \in Requests, AuditRoamed(r), UNCHANGED now, History PROVE TokenInv'
  <2>1. \A q \in Requests : KeepsToken(q)
    BY <1>0, <1>16, EndEnds, MovesToken DEF AuditRoamed, At
  <2>2. Loses({}) /\ DOMAIN index' \subseteq DOMAIN index
    BY <1>16, Unchanged DEF AuditRoamed, sessions
  <2> QED BY <1>0, <1>16, <2>1, <2>2, HistoryGone, LoseTokens DEF AuditRoamed, sessions, registry, shutdown,
             bounds
<1>17. ASSUME NEW r \in Requests, GrantLoad(r), UNCHANGED now, History PROVE TokenInv'
  <2>0. DOMAIN index' \subseteq DOMAIN index
    BY <1>17 DEF GrantLoad
  <2>1. CASE Finishes(r)
    <3>1. \A q \in Requests : KeepsToken(q)
      BY SMTT(30), <2>1, MovesToken
    <3> QED BY <1>0, <1>17, <2>0, <3>1, Unchanged, HistoryGone, LoseTokens DEF GrantLoad, sessions, registry,
               shutdown, bounds
  <2>2. CASE ~Finishes(r)
    <3>1. /\ /\ Moves(r, "granting") /\ req'[r].tok = req[r].tok /\ req[r].tok \in DOMAIN store
          /\ req[r].pc = "grant"
          /\ WithToken(req'[r].data, store[req[r].tok], req[r].vm, req[r].grant)
      BY <1>0, <1>17, <2>2, GrantLoadMoves DEF GrantLoad, Moves, Live, At
    <3> QED BY <1>17, <2>0, <3>1, HistoryGone, LoadTokens DEF GrantLoad, sessions, registry, shutdown, bounds
  <2> QED BY <2>1, <2>2
<1>18. ASSUME NEW r \in Requests, GrantCommit(r), UNCHANGED now, History PROVE TokenInv'
  <2>1. CASE Committed(req[r].tok, req[r].data) /\ ~CommitFails(r)
    <3>1. /\ Puts(req[r].tok, req[r].data) /\ ~closed /\ now < req[r].data.deadline
          /\ UNCHANGED closed
      BY <2>1, CommittedPuts
    <3>2. Finishes(r) \/ Moves(r, "setup")
      BY <1>0, <1>18, <2>1, EndEnds DEF GrantCommit
    <3>3. /\ OneIdEach(req[r].data) /\ req[r].tok \in DOMAIN store
          /\ Ids(req[r].data) \subseteq Ids(store[req[r].tok]) \cup {req[r].grant}
      BY <1>18, <3>1 DEF GrantCommit, TokenInv, Saves, SessionInv, Held, At
    <3>4. \A q \in Requests \ {r} : req[q].pc \notin {"granting", "consuming"}
      BY <1>18 DEF GrantCommit, SessionInv, Locked, Holding, At
    <3>5. /\ {req[r].grant} \subseteq 1 .. nextGrant - 1 /\ {req[r].grant} \cap (gone \cup Granted(store)) = {}
          /\ \A q \in Requests \ {r} : req[q].pc \in Granting => req[q].grant \notin {req[r].grant}
      BY <1>18 DEF GrantCommit, TokenInv, NewToken, Granting, At
    <3>6. \A g \in DOMAIN index' : g \in DOMAIN index \cup {req[r].grant}
      BY <1>18, <2>1 DEF GrantCommit, Indexed, With, Without, Restrict
    <3> QED BY <1>0, <1>18, <2>1, <3>1, <3>2, <3>3, <3>4, <3>5, <3>6, HistoryGone, PutTokens DEF GrantCommit,
               SessionInv, bounds
  <2>2. CASE CommitFails(r)
    <3>0. Finishes(r) \/ Moves(r, "expired")
      BY <1>0, <2>2, FailsLoses
    <3>1. \A q \in Requests : KeepsToken(q)
      BY <3>0, MovesToken
    <3>2. (Loses({}) \/ Loses({req[r].tok})) /\ index' = index /\ closed' = closed
      BY <1>0, <2>2, FailsLoses, Unchanged
    <3> QED BY <1>0, <1>18, <3>1, <3>2, HistoryGone, LoseTokens DEF GrantCommit, bounds
  <2> QED BY <1>18, <2>1, <2>2 DEF GrantCommit
<1>19. ASSUME NEW r \in Requests, ConsumeLoad(r), UNCHANGED now, History PROVE TokenInv'
  <2>0. DOMAIN index' \subseteq DOMAIN index
    BY <1>19, WithoutDrops DEF ConsumeLoad, Drops
  <2>1. CASE Finishes(r)
    <3>1. \A q \in Requests : KeepsToken(q)
      BY SMTT(30), <2>1, MovesToken
    <3> QED BY <1>0, <1>19, <2>0, <3>1, Unchanged, HistoryGone, LoseTokens DEF ConsumeLoad, sessions, registry,
               shutdown, bounds
  <2>2. CASE ~Finishes(r)
    <3>1. /\ req'[r].tok \in DOMAIN store /\ req[r].pc = "consume"
          /\ \E v \in DOMAIN store[req'[r].tok].grants :
               /\ Moves(r, "consuming") /\ WithoutToken(req'[r].data, store[req'[r].tok], v)
               /\ store[req'[r].tok].grants[v].id = req[r].grant
      BY <1>0, <1>19, <2>2, ConsumeLoadMoves DEF ConsumeLoad, Valid, Live, At
    <3> QED BY <1>19, <2>0, <3>1, HistoryGone, LoadTokens DEF ConsumeLoad, sessions, registry, shutdown, bounds
  <2> QED BY <2>1, <2>2
<1>20. ASSUME NEW r \in Requests, ConsumeCommit(r), UNCHANGED now, History PROVE TokenInv'
  <2>1. CASE Committed(req[r].tok, req[r].data) /\ ~CommitFails(r)
    <3>1. /\ Puts(req[r].tok, req[r].data) /\ ~closed /\ now < req[r].data.deadline
          /\ UNCHANGED closed
      BY <2>1, CommittedPuts
    <3>2. Finishes(r) \/ Moves(r, "setup")
      BY <1>0, <1>20, <2>1, GotoMoves DEF ConsumeCommit
    <3>3. /\ OneIdEach(req[r].data) /\ req[r].tok \in DOMAIN store
          /\ Ids(req[r].data) \subseteq Ids(store[req[r].tok])
      BY <1>20, <3>1 DEF ConsumeCommit, TokenInv, Saves, SessionInv, Held, At
    <3>4. \A q \in Requests \ {r} : req[q].pc \notin {"granting", "consuming"}
      BY <1>20 DEF ConsumeCommit, SessionInv, Locked, Holding, At
    <3>5. PICK new : new = {}
      OBVIOUS
    <3>6. DOMAIN index' \subseteq DOMAIN index
      BY <1>20, <2>1, WithoutDrops DEF ConsumeCommit, Drops
    <3>7. UNCHANGED <<nextGrant, now, closed>> /\ Held
      BY <1>20, <3>1 DEF ConsumeCommit, SessionInv, bounds
    <3>8. GoneTokens /\ new \subseteq 1 .. nextGrant - 1 /\ new \cap (gone \cup Granted(store)) = {}
      BY <1>20, <3>5, HistoryGone
    <3>9. /\ \A q \in Requests \ {r} : req[q].pc \in Granting => req[q].grant \notin new
          /\ \A g \in Ids(req[r].data) : g \in new \/ (req[r].tok \in DOMAIN store /\ g \in Ids(store[req[r].tok]))
          /\ \A g \in DOMAIN index' : g \in DOMAIN index \cup new
          /\ \A q \in Requests \ {r} : req[q].pc \in {"granting", "consuming"} /\ ~closed => req[q].tok # req[r].tok
      BY <3>3, <3>4, <3>5, <3>6
    <3> QED BY <1>20, <3>1, <3>2, <3>3, <3>7, <3>8, <3>9, PutTokens
  <2>2. CASE CommitFails(r)
    <3>0. Finishes(r) \/ Moves(r, "expired")
      BY <1>0, <2>2, FailsLoses
    <3>1. \A q \in Requests : KeepsToken(q)
      BY <3>0, MovesToken
    <3>2. (Loses({}) \/ Loses({req[r].tok})) /\ index' = index /\ closed' = closed
      BY <1>0, <2>2, FailsLoses, Unchanged
    <3> QED BY <1>0, <1>20, <3>1, <3>2, HistoryGone, LoseTokens DEF ConsumeCommit, bounds
  <2> QED BY <1>20, <2>1, <2>2 DEF ConsumeCommit
<1>21. ASSUME NEW r \in Requests, Capture(r), UNCHANGED now, History PROVE TokenInv'
  <2>1. \A q \in Requests : KeepsToken(q)
    BY <1>0, <1>21, CaptureMoves, MovesToken DEF Capture, At
  <2>2. Loses({}) /\ DOMAIN index' \subseteq DOMAIN index
    BY <1>21, Unchanged DEF Capture, sessions
  <2> QED BY <1>0, <1>21, <2>1, <2>2, HistoryGone, LoseTokens DEF Capture, sessions, registry, shutdown, bounds
<1>22. ASSUME NEW r \in Requests, Validate(r), UNCHANGED now, History PROVE TokenInv'
  <2>1. \A q \in Requests : KeepsToken(q)
    BY <1>0, <1>22, ValidateMoves, MovesToken DEF Validate, At
  <2>2. Loses({}) /\ DOMAIN index' \subseteq DOMAIN index
    BY <1>22, Unchanged DEF Validate, sessions
  <2> QED BY <1>0, <1>22, <2>1, <2>2, HistoryGone, LoseTokens DEF Validate, sessions, registry, shutdown, bounds
<1>23. ASSUME NEW r \in Requests, Register(r), UNCHANGED now, History PROVE TokenInv'
  <2>1. \A q \in Requests : KeepsToken(q)
    <3>1. Finishes(r) \/ Moves(r, "live")
      BY <1>0, <1>23, GotoMoves, EndEnds DEF Register
    <3> QED BY <1>23, <3>1, MovesToken
  <2>2. Loses({}) /\ DOMAIN index' \subseteq DOMAIN index
    BY <1>23, Unchanged DEF Register, sessions
  <2> QED BY <1>0, <1>23, <2>1, <2>2, HistoryGone, LoseTokens DEF Register, sessions, registry, shutdown, bounds
<1>24. ASSUME NEW r \in Requests, Unregister(r), UNCHANGED now, History PROVE TokenInv'
  <2>1. \A q \in Requests : KeepsToken(q)
    BY <1>0, <1>24, EndEnds, MovesToken DEF Unregister, At
  <2>2. Loses({}) /\ DOMAIN index' \subseteq DOMAIN index
    BY <1>24, Unchanged DEF Unregister, sessions
  <2> QED BY <1>0, <1>24, <2>1, <2>2, HistoryGone, LoseTokens DEF Unregister, sessions, registry, shutdown,
             bounds
<1>25. ASSUME NEW r \in Requests, SetupFails(r), UNCHANGED now, History PROVE TokenInv'
  <2>1. \A q \in Requests : KeepsToken(q)
    BY <1>0, <1>25, EndEnds, MovesToken DEF SetupFails, At
  <2>2. Loses({}) /\ DOMAIN index' \subseteq DOMAIN index
    BY <1>25, Unchanged DEF SetupFails, sessions
  <2> QED BY <1>0, <1>25, <2>1, <2>2, HistoryGone, LoseTokens DEF SetupFails, sessions, registry, shutdown,
             bounds
<1>26. ASSUME NEW r \in Requests, PeerLeaves(r), UNCHANGED now, History PROVE TokenInv'
  <2>1. \A q \in Requests : KeepsToken(q)
    BY <1>26 DEF PeerLeaves, KeepsToken, Keeps
  <2>2. Loses({}) /\ DOMAIN index' \subseteq DOMAIN index
    BY <1>26, Unchanged DEF PeerLeaves, sessions
  <2> QED BY <1>0, <1>26, <2>1, <2>2, HistoryGone, LoseTokens DEF PeerLeaves, sessions, registry, shutdown,
             bounds
<1>27. ASSUME Tick, History PROVE TokenInv'
  <2>1. \A q \in Requests : KeepsToken(q)
    BY <1>27 DEF Tick, KeepsToken, Keeps
  <2>2. Loses({}) /\ DOMAIN index' \subseteq DOMAIN index
    BY <1>27, Unchanged DEF Tick, sessions
  <2> QED
    BY SMTT(30), <1>0, <1>27, <2>1, <2>2, HistoryGone, LoseTokens DEF Tick, sessions, registry, shutdown, bounds
<1>28. ASSUME NEW t \in Tokens, Expire(t), History PROVE TokenInv'
  <2>1. \A q \in Requests : KeepsToken(q)
    BY <1>28 DEF Expire, KeepsToken, Keeps
  <2>2. Loses({t}) /\ DOMAIN index' \subseteq DOMAIN index
    BY <1>28 DEF Expire, Loses, Without, Restrict
  <2> QED BY <1>0, <1>28, <2>1, <2>2, HistoryGone, LoseTokens DEF Expire, sessions, registry, shutdown, bounds
<1>29. ASSUME NEW t \in Tokens, AuditTimeout(t), History PROVE TokenInv'
  <2>1. \A q \in Requests : KeepsToken(q)
    BY <1>29 DEF AuditTimeout, KeepsToken, Keeps
  <2>2. Loses({}) /\ DOMAIN index' \subseteq DOMAIN index
    BY <1>29, Unchanged DEF AuditTimeout, sessions
  <2> QED BY <1>0, <1>29, <2>1, <2>2, HistoryGone, LoseTokens DEF AuditTimeout, sessions, registry, shutdown,
             bounds
<1>30. ASSUME CloseAllConnections, History PROVE TokenInv'
  <2>1. \A q \in Requests : KeepsToken(q)
    BY <1>30 DEF CloseAllConnections, KeepsToken, Keeps
  <2>2. Loses({}) /\ DOMAIN index' \subseteq DOMAIN index
    BY <1>30, Unchanged DEF CloseAllConnections, sessions
  <2> QED BY <1>0, <1>30, <2>1, <2>2, HistoryGone, LoseTokens DEF CloseAllConnections, sessions, registry,
             shutdown, bounds
<1>31. ASSUME CloseDispatched, History PROVE TokenInv'
  <2>1. \A q \in Requests : KeepsToken(q)
    BY <1>31 DEF CloseDispatched, KeepsToken, Keeps
  <2>2. Loses({}) /\ DOMAIN index' \subseteq DOMAIN index
    BY <1>31, Unchanged DEF CloseDispatched, sessions
  <2> QED BY <1>0, <1>31, <2>1, <2>2, HistoryGone, LoseTokens DEF CloseDispatched, sessions, registry, shutdown,
             bounds
<1>32. ASSUME Drained, History PROVE TokenInv'
  <2>1. \A q \in Requests : KeepsToken(q)
    BY <1>32 DEF Drained, KeepsToken, Keeps
  <2>2. Loses({}) /\ DOMAIN index' \subseteq DOMAIN index
    BY <1>32, Unchanged DEF Drained, sessions
  <2> QED BY <1>0, <1>32, <2>1, <2>2, HistoryGone, LoseTokens DEF Drained, sessions, registry, shutdown, bounds
<1>33. ASSUME Close, History PROVE TokenInv'
  <2>1. \A q \in Requests : KeepsToken(q)
    BY <1>33 DEF Close, KeepsToken, Keeps
  <2>2. Loses({}) /\ DOMAIN index' \subseteq DOMAIN index
    BY <1>33, Unchanged DEF Close, sessions
  <2> QED BY <1>0, <1>33, <2>1, <2>2, HistoryGone, LoseTokens DEF Close, sessions, registry, shutdown, bounds
<1>34. ASSUME CloseAuditSink, History PROVE TokenInv'
  <2>1. \A q \in Requests : KeepsToken(q)
    BY <1>34 DEF CloseAuditSink, KeepsToken, Keeps
  <2>2. Loses({}) /\ DOMAIN index' \subseteq DOMAIN index
    BY <1>34, Unchanged DEF CloseAuditSink, sessions
  <2> QED BY <1>0, <1>34, <2>1, <2>2, HistoryGone, LoseTokens DEF CloseAuditSink, sessions, registry, shutdown,
             bounds
<1> QED BY <1>1, <1>2, <1>3, <1>4, <1>5, <1>6, <1>7, <1>8, <1>9, <1>10, <1>11, <1>12, <1>13, <1>14, <1>15,
           <1>16, <1>17, <1>18, <1>19, <1>20, <1>21, <1>22, <1>23, <1>24, <1>25, <1>26, <1>27, <1>28, <1>29,
           <1>30, <1>31, <1>32, <1>33, <1>34 DEF Next, Step, Arrive, Proceed

-----------------------------------------------------------------------------

\* uses changes in one step only: the commit that takes the token out of its
\* session.
LEMMA UseConsumes ==
  ASSUME Typed, SessionInv, TokenInv, Next, NEW g \in Grants, uses'[g] # uses[g]
  PROVE  g \in Granted(store) \ Granted(store')
<1>1. PICK r \in Requests : ConsumeCommit(r) /\ UNCHANGED now /\ ~CommitFails(r)
  <2>1. \A r \in Requests : CommitFails(r) => uses' = uses
    BY DEF CommitFails
  <2>2. \A r \in Requests : Arrive(r) \/ SetupFails(r) \/ PeerLeaves(r) => uses' = uses
    BY DEF Arrive, CreateSession, BeginWith, GrantRDPConnect, RDPConnectTarget, SetupFails, PeerLeaves
  <2>3. \A r \in Requests : SaveSession(r) \/ GrantCommit(r) => uses' = uses
    BY <2>1 DEF SaveSession, GrantCommit
  <2>4. \A r \in Requests : AuditExpired(r) \/ DestroyAll(r) \/ DestroyOne(r) \/ DestroyDone(r) \/ DestroySession(r)
                            \/ CloseUserConnections(r) \/ CloseOne(r) \/ LogoutDone(r) => uses' = uses
    BY DEF AuditExpired, DestroyAll, DestroyOne, DestroyDone, DestroySession, CloseUserConnections, CloseOne,
       LogoutDone
  <2>5. \A r \in Requests : Claim(r) \/ Invalidate(r) \/ AuditRoamed(r) \/ GrantLoad(r) \/ ConsumeLoad(r)
                            \/ Capture(r) \/ Validate(r) \/ Register(r) \/ Unregister(r) => uses' = uses
    BY DEF Claim, Invalidate, AuditRoamed, GrantLoad, ConsumeLoad, Capture, Validate, Register, Unregister
  <2>6. Tick \/ CloseAllConnections \/ CloseDispatched \/ Drained \/ Close \/ CloseAuditSink
          \/ (\E t \in Tokens : Expire(t) \/ AuditTimeout(t)) => uses' = uses
    BY DEF Tick, Expire, AuditTimeout, CloseAllConnections, CloseDispatched, Drained, Close, CloseAuditSink
  <2> QED BY <2>1, <2>2, <2>3, <2>4, <2>5, <2>6 DEF Next, Step, Proceed
<1> DEFINE t0 == req[r].tok
<1>2. /\ At(r, "consuming") /\ uses' = [uses EXCEPT ![req[r].grant] = @ + 1]
      /\ Puts(t0, req[r].data) /\ ~closed /\ now < req[r].data.deadline
  BY <1>1, CommittedPuts DEF ConsumeCommit
<1>3. g = req[r].grant
  BY <1>2 DEF Typed, Bounded
<1>4. /\ t0 \in DOMAIN store /\ g \in Ids(store[t0]) /\ g \notin Ids(req[r].data)
  BY <1>2, <1>3 DEF SessionInv, Held, TokenInv, Saves, At
<1>5. \A t \in DOMAIN store \ {t0} : g \notin Ids(store[t])
  BY <1>4 DEF TokenInv, Unique
<1>6. \A t \in DOMAIN store' : g \notin Ids(store'[t])
  BY <1>2, <1>4, <1>5 DEF Puts
<1> QED BY <1>4, <1>6, GrantedIds

-----------------------------------------------------------------------------
(* LogoutInv: once DestroyAllSessionsForUser and CloseUserConnections are  *)
(* through, none of the connection requests that are older than the logout *)
(* can become live. LogoutInv says what such a request still lacks at each *)
(* point of its way.                                                       *)

\* The user of a session does not change, on any way it is referred to.
Named == Seen \ {"consuming", "expired"}
Owned(r) ==
  /\ req[r].pc \in Named /\ req[r].tok \in DOMAIN store => store[req[r].tok].user = req[r].user
  /\ req[r].pc \in {"granting", "consuming"} /\ req[r].tok \in DOMAIN store => req[r].data.user = store[req[r].tok].user
  /\ req[r].pc = "granting" => req[r].data.user = req[r].user
OwnedEntry(g) ==
  /\ index[g].tok \in DOMAIN store \cup dead
  /\ index[g].tok \in DOMAIN store => store[index[g].tok].user = index[g].user
Owners == (\A r \in Requests : Owned(r)) /\ \A g \in DOMAIN index : OwnedEntry(g)

\* The sessions behind a connection request that could still authorize it.
Behind(q) ==
  {t \in DOMAIN store :
     /\ Live(t)
     /\ \/ req[q].pc \in {"console", "validate"} /\ t = req[q].tok
        \/ /\ req[q].pc \in {"rdp", "consume"} /\ req[q].grant \in DOMAIN index
           /\ t = index[req[q].grant].tok /\ index[req[q].grant].user = req[q].user}

\* While logout r is under way, the sessions behind an older request q of its
\* user are ended or on its list.
LoggingOut == {"destroying", "destroy", "close", "closing"}
Remaining(r) == IF At(r, "destroying") THEN req[r].todo ELSE {}
Revokes(r, q) ==
  \/ At(q, "idle")
  \/ /\ IsConnection(q) /\ ~At(q, "consuming") /\ req[q].user = req[r].user
     /\ Behind(q) \subseteq Remaining(r)
Revoking == \A r \in Requests : req[r].pc \in LoggingOut => \A q \in req[r].before : Revokes(r, q)

\* A request older than a logout that is past the registry can no longer
\* register, nor is it in the table.
Revoked(q) ==
  /\ IsConnection(q) /\ ~At(q, "consuming") /\ Behind(q) = {}
  /\ At(q, "setup") => req[q].gen < generation[req[q].user]
  /\ q \notin conns[req[q].user]

\* A request captures the generation of the registry, which only grows.
Generations == \A q \in Requests : IsConnection(q) => req[q].gen <= generation[req[q].user]

LogoutInv ==
  /\ Owners /\ Generations /\ Revoking
  /\ \A r \in Requests : At(r, "closing") => \A q \in req[r].before : At(q, "idle") \/ Revoked(q)
  /\ \A q \in outdated : Revoked(q)
-----------------------------------------------------------------------------
(* What a step may do to the requests that a logout has seen.              *)

Fades(q) ==
  \/ req'[q].pc = "idle"
  \/ Behind(q) # {} /\ lock = 0
  \/ /\ IsConnection(q)' /\ req'[q].pc # "consuming" /\ req'[q].user = req[q].user
     /\ Behind(q)' \subseteq Behind(q)
     /\ req'[q].pc = "setup" => req[q].pc = "setup" /\ req'[q].gen = req[q].gen
     /\ q \in conns'[req[q].user] =>
          q \in conns[req[q].user] \/ (req[q].pc = "setup" /\ req[q].gen = generation[req[q].user])

Proceeds(r) ==
  req'[r].pc \in LoggingOut =>
    \/ /\ req[r].pc \in LoggingOut /\ req'[r].user = req[r].user /\ req'[r].before \subseteq req[r].before
       /\ \A t \in Remaining(r) : Live(t)' => t \in Remaining(r)'
       /\ req'[r].pc = "closing" => req[r].pc = "closing" \/ \A q \in req'[r].before : req'[q].pc = "idle" \/ Revoked(q)'
    \/ req'[r].pc # "closing" /\ \A q \in req'[r].before : Revokes(r, q)'

\* A slot that takes a request leaves the lists of the logouts.
Vacant(q) ==
  req[q].pc = "idle" =>
    req'[q].pc = "idle" \/ \A r \in Requests : q \notin req'[r].before /\ (req[r].pc = "closing" => req'[r].pc = "closing")

Dated(q) ==
  IsConnection(q)' =>
    \/ req'[q].gen = 0
    \/ /\ IsConnection(q) /\ req'[q].user = req[q].user
       /\ req'[q].gen = req[q].gen \/ req'[q].gen = generation[req[q].user]

Later == \A u \in Users : generation[u] <= generation'[u]

\* A request that a logout has revoked stays revoked until it ends.
LEMMA RevokedFades ==
  ASSUME Typed, NEW q \in Requests, Revoked(q), Fades(q), Later, generation' \in [Users -> Nat]
  PROVE  req'[q].pc = "idle" \/ Revoked(q)'
<1>1. /\ req[q].user \in Users /\ req[q].gen \in Nat
      /\ generation[req[q].user] \in Nat /\ generation'[req[q].user] \in Nat
      /\ generation[req[q].user] <= generation'[req[q].user]
  BY DEF Typed, RequestsTyped, IsRequest, RegistryTyped, Revoked, IsConnection, Later
<1>2. CASE req'[q].pc # "idle"
  <2>1. /\ IsConnection(q)' /\ req'[q].pc # "consuming" /\ req'[q].user = req[q].user
        /\ Behind(q)' \subseteq Behind(q)
        /\ req'[q].pc = "setup" => req[q].pc = "setup" /\ req'[q].gen = req[q].gen
        /\ q \in conns'[req[q].user] =>
             q \in conns[req[q].user] \/ (req[q].pc = "setup" /\ req[q].gen = generation[req[q].user])
    BY <1>2 DEF Fades, Revoked
  <2>2. Behind(q)' = {}
    BY <2>1 DEF Revoked
  <2>3. req'[q].pc = "setup" => req'[q].gen < generation'[req'[q].user]
    BY SMTT(30), <1>1, <2>1 DEF Revoked, At
  <2>4. q \notin conns'[req'[q].user]
    BY SMTT(30), <1>1, <2>1 DEF Revoked, At
  <2> QED BY <2>1, <2>2, <2>3, <2>4 DEF Revoked, At
<1> QED BY <1>2

\* LogoutInv is kept by a step that does no more than this to the requests.
LEMMA LogoutsFade ==
  ASSUME Typed, Locked, LogoutInv, Owners', History, Later, generation' \in [Users -> Nat],
         \A q \in Requests : IsConnection(q) /\ req[q].pc # "consuming" => Fades(q),
         \A q \in Requests : Vacant(q), \A r \in Requests : Proceeds(r), \A q \in Requests : Dated(q),
         RequestsTyped'
  PROVE  LogoutInv'
<1>0. /\ \A r \in Requests : req[r].before \subseteq Requests
      /\ outdated \subseteq Requests
  BY DEF Typed, RequestsTyped, IsRequest, RegistryTyped
<1>1. ASSUME NEW r \in Requests, req'[r].pc \in LoggingOut, NEW q \in req'[r].before PROVE Revokes(r, q)'
  <2>1. CASE req'[r].pc # "closing" /\ \A x \in req'[r].before : Revokes(r, x)'
    BY <1>1, <2>1
  <2>2. CASE /\ req[r].pc \in LoggingOut /\ req'[r].user = req[r].user /\ req'[r].before \subseteq req[r].before
             /\ \A t \in Remaining(r) : Live(t)' => t \in Remaining(r)'
    <3>1. q \in Requests /\ Revokes(r, q)
      BY <1>0, <1>1, <2>2 DEF LogoutInv, Revoking
    <3>2. CASE req[q].pc = "idle"
      <4>1. req'[q].pc = "idle"
        BY <1>1, <3>1, <3>2 DEF Vacant
      <4> QED BY <4>1 DEF Revokes, At
    <3>3. CASE req[q].pc # "idle"
      <4>1. /\ IsConnection(q) /\ req[q].pc # "consuming" /\ req[q].user = req[r].user
            /\ Behind(q) \subseteq Remaining(r)
        BY <3>1, <3>3 DEF Revokes, At
      <4>2. Behind(q) # {} => lock = r /\ r # 0
        BY SMTT(30), <4>1 DEF Remaining, Locked, Holding, At, Requests
      <4>3. CASE req'[q].pc = "idle"
        BY <4>3 DEF Revokes, At
      <4>4. CASE req'[q].pc # "idle"
        <5>1. /\ IsConnection(q)' /\ req'[q].pc # "consuming" /\ req'[q].user = req[q].user
              /\ Behind(q)' \subseteq Behind(q)
          BY <3>1, <4>1, <4>2, <4>4 DEF Fades
        <5>2. \A t \in Behind(q)' : Live(t)'
          BY DEF Behind
        <5>3. Behind(q)' \subseteq Remaining(r)'
          BY <2>2, <4>1, <5>1, <5>2
        <5> QED BY <2>2, <4>1, <5>1, <5>3 DEF Revokes, At
      <4> QED BY <4>3, <4>4
    <3> QED BY <3>2, <3>3
  <2> QED BY <1>1, <2>1, <2>2 DEF Proceeds
<1>2. Revoking'
  BY <1>1 DEF Revoking
<1>3. ASSUME NEW q \in Requests, Revoked(q) PROVE req'[q].pc = "idle" \/ Revoked(q)'
  <2>1. Fades(q)
    BY <1>3 DEF Revoked, At
  <2> QED BY <1>3, <2>1, RevokedFades
<1>4. ASSUME NEW r \in Requests, req'[r].pc = "closing", NEW q \in req'[r].before
      PROVE  req'[q].pc = "idle" \/ Revoked(q)'
  <2>1. CASE req[r].pc = "closing" /\ q \in req[r].before
    <3>1. q \in Requests /\ (req[q].pc = "idle" \/ Revoked(q))
      BY <1>0, <2>1 DEF LogoutInv, At
    <3>2. req[q].pc = "idle" => req'[q].pc = "idle"
      BY <1>4, <3>1 DEF Vacant
    <3> QED BY <1>3, <3>1, <3>2
  <2> QED BY <1>4, <2>1 DEF Proceeds, LoggingOut
<1>5. ASSUME NEW q \in outdated' PROVE Revoked(q)'
  <2>1. req'[q].pc # "idle"
    BY <1>0, <1>5 DEF History
  <2>2. q \in outdated \/ \E x \in Requests : req[x].pc = "closing" /\ req'[x].pc = "idle" /\ q \in req[x].before
    BY <1>5 DEF History, At
  <2>3. CASE q \in outdated
    BY <1>0, <1>3, <2>1, <2>3 DEF LogoutInv
  <2>4. CASE \E x \in Requests : req[x].pc = "closing" /\ req'[x].pc = "idle" /\ q \in req[x].before
    <3>1. PICK x \in Requests : req[x].pc = "closing" /\ req'[x].pc = "idle" /\ q \in req[x].before
      BY <2>4
    <3>2. q \in Requests /\ (req[q].pc = "idle" \/ Revoked(q))
      BY <1>0, <3>1 DEF LogoutInv, At
    <3>3. req[q].pc # "idle"
      BY <2>1, <3>1, <3>2 DEF Vacant
    <3> QED BY <1>3, <2>1, <3>2, <3>3
  <2> QED BY <2>2, <2>3, <2>4
<1>6. ASSUME NEW q \in Requests, IsConnection(q)' PROVE req'[q].gen <= generation'[req'[q].user]
  <2>1. req'[q].user \in Users /\ generation'[req'[q].user] \in Nat /\ req'[q].gen \in Nat
    BY <1>6 DEF RequestsTyped, IsRequest, IsConnection
  <2>2. CASE req'[q].gen = 0
    BY SMTT(30), <2>1, <2>2
  <2>3. CASE /\ IsConnection(q) /\ req'[q].user = req[q].user
             /\ req'[q].gen = req[q].gen \/ req'[q].gen = generation[req[q].user]
    <3>1. generation[req[q].user] \in Nat /\ generation[req[q].user] <= generation'[req[q].user]
      BY <2>1, <2>3 DEF Typed, RegistryTyped, Later
    <3>2. req[q].gen <= generation[req[q].user]
      BY <2>3 DEF LogoutInv, Generations
    <3> QED BY SMTT(30), <2>1, <2>3, <3>1, <3>2
  <2> QED BY <1>6, <2>2, <2>3 DEF Dated
<1> QED BY <1>2, <1>4, <1>5, <1>6 DEF LogoutInv, Generations, At
-----------------------------------------------------------------------------
(* Sessions keep their user and their deadline, and never come back.       *)

SameSessions ==
  /\ \A t \in DOMAIN store \cup dead : t \in DOMAIN store' =>
       t \in DOMAIN store /\ store'[t].user = store[t].user /\ store'[t].deadline = store[t].deadline
  /\ DOMAIN store \cup dead \subseteq DOMAIN store' \cup dead'

\* ... where the store loses sessions ...
LEMMA LoseSame ==
  ASSUME NEW S, Loses(S), Gone
  PROVE  SameSessions
BY DEF Loses, Gone, SameSessions

\* ... and where one is saved: a login's is new, a token's is in the store.
LEMMA PutSame ==
  ASSUME SessionInv, Owners, Gone, NEW r \in Requests, Puts(req[r].tok, req[r].data),
         ~closed, now < req[r].data.deadline,
         req[r].pc \in {"save", "granting", "consuming"}
  PROVE  SameSessions
<1>1. CASE req[r].pc = "save"
  BY <1>1 DEF SessionInv, Fresh, At, Puts, Gone, SameSessions
<1>2. CASE req[r].pc \in {"granting", "consuming"}
  <2>1. /\ req[r].tok \in DOMAIN store /\ store[req[r].tok].deadline = req[r].data.deadline
        /\ store[req[r].tok].user = req[r].data.user
    BY <1>2 DEF SessionInv, Held, Owners, Owned
  <2> QED BY <2>1 DEF SessionInv, NeverResurrected, Puts, Gone, SameSessions
<1> QED BY <1>1, <1>2

KeepsOwner(q) ==
  /\ req'[q].pc \in Named => req[q].pc \in Named /\ req'[q].tok = req[q].tok /\ req'[q].user = req[q].user
  /\ req'[q].pc \in {"granting", "consuming"} => Keeps(q) /\ req'[q].user = req[q].user

\* The users stay the same on every way a session is referred to.
LEMMA OwnersKept ==
  ASSUME SessionInv, Owners, SameSessions, \A q \in Requests : KeepsOwner(q) \/ Owned(q)',
         \A g \in DOMAIN index' : (g \in DOMAIN index /\ index'[g] = index[g]) \/ OwnedEntry(g)'
  PROVE  Owners'
<1>1. ASSUME NEW q \in Requests, KeepsOwner(q) PROVE Owned(q)'
  <2>1. req[q].pc \in Seen => req[q].tok \in DOMAIN store \cup dead
    BY DEF SessionInv, FromStore
  <2>2. Owned(q)
    BY DEF Owners
  <2>3. req'[q].pc \in Named /\ req'[q].tok \in DOMAIN store' => store'[req'[q].tok].user = req'[q].user
    BY <1>1, <2>1, <2>2 DEF KeepsOwner, Owned, SameSessions, Named
  <2>4. req'[q].pc \in {"granting", "consuming"} =>
          /\ req'[q].tok \in DOMAIN store' => req'[q].data.user = store'[req'[q].tok].user
          /\ req'[q].pc = "granting" => req'[q].data.user = req'[q].user
    BY <1>1, <2>1, <2>2 DEF KeepsOwner, Keeps, Owned, SameSessions, Seen
  <2> QED BY <2>3, <2>4 DEF Owned
<1>2. ASSUME NEW g \in DOMAIN index', g \in DOMAIN index, index'[g] = index[g] PROVE OwnedEntry(g)'
  BY SMTT(30), <1>2 DEF Owners, OwnedEntry, SameSessions
<1> QED BY <1>1, <1>2 DEF Owners

\* An entry of the index that a request may still ask for.
Entry(q) ==
  req[q].pc \in {"rdp", "consume"} /\ req[q].grant \in DOMAIN index' =>
    req[q].grant \in DOMAIN index /\ index'[req[q].grant] = index[req[q].grant]

\* No session comes to be behind a request that was not behind it.
LEMMA BehindShrinks ==
  ASSUME Typed, SessionInv, Owners, SameSessions, now' \in Nat, now <= now', NEW q \in Requests, Entry(q),
         req'[q].pc \in {"console", "validate"} => req[q].pc \in {"console", "validate"},
         req'[q].pc \in {"rdp", "consume"} => req[q].pc \in {"rdp", "consume"},
         req'[q].tok = req[q].tok, req'[q].grant = req[q].grant, req'[q].user = req[q].user
  PROVE  Behind(q)' \subseteq Behind(q)
<1>1. ASSUME NEW t \in DOMAIN store \cup dead, Live(t)' PROVE t \in DOMAIN store /\ Live(t)
  <2>1. t \in DOMAIN store /\ store'[t].deadline = store[t].deadline /\ now' < store'[t].deadline
    BY <1>1 DEF SameSessions, Live
  <2>2. store[t].deadline \in Int /\ now \in Nat
    BY <2>1 DEF Typed, StoreTyped, IsSession, Bounded
  <2> QED BY SMTT(30), <2>1, <2>2 DEF Live
<1>2. req[q].pc \in {"console", "validate"} => req[q].tok \in DOMAIN store \cup dead
  BY DEF SessionInv, FromStore, Seen
<1>3. \A g \in DOMAIN index : index[g].tok \in DOMAIN store \cup dead
  BY DEF Owners, OwnedEntry
<1>4. ASSUME NEW t \in Behind(q)' PROVE t \in Behind(q)
  <2>1. Live(t)' /\ t \in DOMAIN store'
    BY <1>4 DEF Behind
  <2>2. CASE req'[q].pc \in {"console", "validate"}
    <3>1. t = req[q].tok
      BY <1>4, <2>2 DEF Behind
    <3> QED BY <1>1, <1>2, <2>1, <2>2, <3>1 DEF Behind
  <2>3. CASE req'[q].pc \in {"rdp", "consume"}
    <3>1. /\ req[q].grant \in DOMAIN index' /\ t = index'[req[q].grant].tok
          /\ index'[req[q].grant].user = req[q].user
      BY <1>4, <2>3 DEF Behind
    <3>2. req[q].grant \in DOMAIN index /\ t = index[req[q].grant].tok /\ index[req[q].grant].user = req[q].user
      BY <2>3, <3>1 DEF Entry
    <3> QED BY <1>1, <1>3, <2>1, <2>3, <3>2 DEF Behind
  <2> QED BY <1>4, <2>2, <2>3 DEF Behind
<1> QED BY <1>4

Still(q) ==
  /\ req'[q].pc = req[q].pc /\ req'[q].user = req[q].user /\ req'[q].tok = req[q].tok
  /\ req'[q].gen = req[q].gen
  /\ req'[q].grant = req[q].grant /\ req'[q].data = req[q].data /\ req'[q].todo = req[q].todo
  /\ req'[q].before \subseteq req[q].before

\* Only request r is not where it was.
LEMMA QuietLogouts ==
  ASSUME Typed, SessionInv, LogoutInv, Owners', History, SameSessions, now' \in Nat, now <= now',
         Later, generation' \in [Users -> Nat], RequestsTyped', NEW r,
         \A q \in Requests \ {r} : Still(q) /\ Entry(q),
         \A q \in Requests \ {r} : \A u \in Users : q \in conns'[u] => q \in conns[u],
         r \in Requests => Vacant(r) /\ Proceeds(r) /\ Dated(r) /\ (IsConnection(r) /\ req[r].pc # "consuming" => Fades(r))
  PROVE  LogoutInv'
<1>1. ASSUME NEW q \in Requests \ {r}, IsConnection(q), req[q].pc # "consuming" PROVE Fades(q)
  <2>1. Still(q) /\ Entry(q)
    OBVIOUS
  <2>2. req[q].user \in Users
    BY <1>1 DEF Typed, RequestsTyped, IsRequest, IsConnection
  <2>3. Behind(q)' \subseteq Behind(q)
    BY <2>1, BehindShrinks DEF Still, LogoutInv
  <2>4. IsConnection(q)'
    BY <1>1, <2>1 DEF IsConnection, Still
  <2> QED BY <1>1, <2>1, <2>2, <2>3, <2>4 DEF Fades, Still
<1>2. ASSUME NEW q \in Requests \ {r} PROVE Vacant(q) /\ Proceeds(q) /\ Dated(q)
  <2>1. Still(q)
    OBVIOUS
  <2> QED BY <2>1 DEF Vacant, Proceeds, Dated, Still, Remaining, At, IsConnection
<1>3. \A q \in Requests : Vacant(q) /\ Proceeds(q) /\ Dated(q) /\ (IsConnection(q) /\ req[q].pc # "consuming" => Fades(q))
  BY <1>1, <1>2
<1> QED BY <1>3, LogoutsFade DEF SessionInv

\* Nothing but the sessions, the index, the clock or the registry changes.
LEMMA StayLogouts ==
  ASSUME Typed, RequestsTyped', SessionInv, LogoutInv, History,
         SameSessions, now' \in Nat, now <= now', req' = req, generation' = generation,
         \A u \in Users : conns'[u] \subseteq conns[u], index' = index
  PROVE  LogoutInv'
<1>1. \A q \in Requests : Still(q) /\ Entry(q) /\ KeepsOwner(q)
  BY DEF Still, Entry, KeepsOwner, Keeps
<1>2. Owners'
  BY <1>1, OwnersKept DEF LogoutInv
<1>3. Later /\ generation' \in [Users -> Nat]
  BY SMTT(30) DEF Typed, RegistryTyped, Later
<1>4. 0 \notin Requests
  BY SMTT(30) DEF Requests
<1> QED BY <1>1, <1>2, <1>3, <1>4, QuietLogouts

Connecting == {"console", "validate", "rdp", "consume", "consuming", "setup", "live"}

\* A request that is no logout goes on or ends.
LEMMA MoveLogouts ==
  ASSUME Typed, RequestsTyped', SessionInv, LogoutInv, History, SameSessions, UNCHANGED <<now, generation>>,
         NEW r \in Requests, NEW p,
         req[r].pc \notin LoggingOut \cup {"idle"}, p \notin LoggingOut,
         Finishes(r) \/ (Moves(r, p) /\ (p \in Named => req[r].pc \in Named) /\ (p \in {"granting", "consuming"} => Owned(r)')),
         \A q \in Requests \ {r} : \A u \in Users : q \in conns'[u] => q \in conns[u],
         \A g \in DOMAIN index' :
           \/ g \in DOMAIN index /\ index'[g] = index[g]
           \/ OwnedEntry(g)' /\ \A q \in Requests \ {r} : req[q].pc \in {"rdp", "consume"} => req[q].grant # g,
         p \in Connecting => IsConnection(r), p \in {"validate", "consume"} => req'[r].gen = generation[req[r].user],
         IsConnection(r) /\ req[r].pc # "consuming" => Fades(r)
  PROVE  LogoutInv'
<1>1. \A q \in Requests \ {r} : req'[q] = req[q]
  BY DEF Finishes, Moves, Others
<1>2. \A q \in Requests \ {r} : Still(q) /\ Entry(q) /\ KeepsOwner(q)
  BY <1>1 DEF Still, Entry, KeepsOwner, Keeps
<1>3. KeepsOwner(r) \/ Owned(r)'
  BY SMTT(30) DEF Finishes, Moves, KeepsOwner, Idle, Named, Seen
<1>4. Owners'
  BY <1>2, <1>3, OwnersKept DEF LogoutInv
<1>5. Later /\ generation' \in [Users -> Nat] /\ now \in Nat
  BY SMTT(30) DEF Typed, RegistryTyped, Bounded, Later
<1>6. Dated(r)
  BY SMTT(30) DEF Dated, Finishes, Moves, Idle, IsConnection, Connecting
<1>7. Vacant(r) /\ Proceeds(r)
  BY SMTT(30) DEF Vacant, Proceeds, Finishes, Moves, Idle, LoggingOut
<1> QED BY SMTT(30), <1>2, <1>4, <1>5, <1>6, <1>7, QuietLogouts

\* A request arrives; no logout has seen it.
LEMMA ArriveLogouts ==
  ASSUME Typed, RequestsTyped', SessionInv, LogoutInv, History, SameSessions,
         UNCHANGED <<now, generation, conns>>, NEW r \in Requests, NEW rec,
         Arrives(r, rec),
         At(r, "idle"), rec.pc \notin LoggingOut \cup {"granting", "consuming"}, rec.before = {}, rec.gen = 0,
         rec.pc \in Named => rec.tok \in DOMAIN store' /\ store'[rec.tok].user = rec.user,
         NEW S, Drops(S)
  PROVE  LogoutInv'
<1>1. \A q \in Requests \ {r} : Still(q) /\ Entry(q) /\ KeepsOwner(q)
  BY DEF Arrives, Still, Entry, Drops, KeepsOwner, Keeps
<1>2. Owned(r)'
  BY DEF Arrives, Owned
<1>3. Owners'
  BY <1>1, <1>2, OwnersKept DEF LogoutInv, Drops
<1>4. Later /\ generation' \in [Users -> Nat] /\ now \in Nat
  BY SMTT(30) DEF Typed, RegistryTyped, Bounded, Later
<1>5. Vacant(r) /\ Proceeds(r) /\ Dated(r) /\ ~IsConnection(r)
  BY DEF Dated, Vacant, Proceeds, Arrives, At, IsConnection
<1> QED BY SMTT(30), <1>1, <1>3, <1>4, <1>5, QuietLogouts

\* A logout goes on.
LEMMA LogoutGoesOn ==
  ASSUME Typed, RequestsTyped', SessionInv, LogoutInv, History, SameSessions, UNCHANGED now,
         Later, generation' \in [Users -> Nat],
         \A u \in Users : conns'[u] \subseteq conns[u],
         NEW r \in Requests, NEW p,
         Finishes(r) \/ Moves(r, p), req[r].pc \in Named \ {"console", "validate"}, p \in LoggingOut,
         Proceeds(r), NEW S, Drops(S)
  PROVE  LogoutInv'
<1>1. \A q \in Requests \ {r} : req'[q] = req[q]
  BY DEF Finishes, Moves, Others
<1>2. \A q \in Requests \ {r} : Still(q) /\ Entry(q) /\ KeepsOwner(q)
  BY <1>1 DEF Still, Entry, Drops, KeepsOwner, Keeps
<1>3. KeepsOwner(r)
  BY SMTT(30) DEF Finishes, Moves, KeepsOwner, Idle, Named, Seen, LoggingOut
<1>4. Owners'
  BY <1>2, <1>3, OwnersKept DEF LogoutInv, Drops
<1>5. now \in Nat
  BY DEF Typed, Bounded
<1>6. Vacant(r) /\ Dated(r) /\ ~IsConnection(r)
  BY SMTT(30) DEF Vacant, Dated, Finishes, Moves, Idle, LoggingOut, IsConnection, Named, Seen
<1> QED BY SMTT(30), <1>2, <1>4, <1>5, <1>6, QuietLogouts

\* Every step of a handler, of the timers and of the shutdown keeps LogoutInv.
LEMMA KeepsLogouts ==
  ASSUME Typed, Typed', SessionInv, TokenInv, LogoutInv, Next
  PROVE  LogoutInv'
<1>0. RequestsTyped /\ RequestsTyped' /\ StoreTyped /\ Gone /\ generation \in [Users -> Nat]
  BY DEF Typed, RegistryTyped, Next, History, Gone
<1>1. ASSUME NEW r \in Requests, NEW u \in plan.users, NEW old \in 0 .. nextTok - 1, CreateSession(r, u, old),
             UNCHANGED now, History
      PROVE  LogoutInv'
  <2> DEFINE rec == [Idle EXCEPT !.pc = "save", !.user = u, !.tok = nextTok,
                           !.data = [user |-> u, deadline |-> now + TTL, grants |-> <<>>]]
  <2>1. SameSessions
    BY <1>0, <1>1, DeleteLoses, LoseSame DEF CreateSession
  <2>2. Drops({g \in DOMAIN index : index[g].tok \in {old}})
    BY <1>1, DeleteLoses DEF CreateSession
  <2>3. /\ rec.pc \notin LoggingOut \cup {"granting", "consuming"} /\ rec.before = {} /\ rec.gen = 0
        /\ rec.pc \in Named => rec.tok \in DOMAIN store' /\ store'[rec.tok].user = rec.user
    <3>1. rec.pc \notin LoggingOut \cup {"granting", "consuming"} /\ rec.before = {} /\ rec.gen = 0
      BY <1>1 DEF Idle, LoggingOut
    <3>2. rec.pc \in Named => rec.tok \in DOMAIN store' /\ store'[rec.tok].user = rec.user
      BY <1>1 DEF Idle, Named, Seen
    <3> QED BY <3>1, <3>2
  <2>4. Arrives(r, rec) /\ At(r, "idle")
    BY <1>0, <1>1, BeginArrives DEF CreateSession
  <2>5. UNCHANGED <<now, generation, conns>>
    BY <1>1 DEF CreateSession, registry
  <2> HIDE DEF rec
  <2> QED BY <1>0, <1>1, <2>1, <2>2, <2>3, <2>4, <2>5, ArriveLogouts
<1>2. ASSUME NEW r \in Requests, NEW t \in DOMAIN store, NEW kind \in {"logout", "roam", "console"},
             BeginWith(r, kind, t), UNCHANGED now, History
      PROVE  LogoutInv'
  <2> DEFINE rec == [Idle EXCEPT !.pc = kind, !.tok = t, !.user = store[t].user]
  <2>1. SameSessions
    BY <1>0, <1>2, Unchanged, LoseSame DEF BeginWith, sessions
  <2>2. Drops({})
    BY <1>2, Unchanged DEF BeginWith
  <2>3. /\ rec.pc \notin LoggingOut \cup {"granting", "consuming"} /\ rec.before = {} /\ rec.gen = 0
        /\ rec.pc \in Named => rec.tok \in DOMAIN store' /\ store'[rec.tok].user = rec.user
    <3>1. rec.pc \notin LoggingOut \cup {"granting", "consuming"} /\ rec.before = {} /\ rec.gen = 0
      BY <1>2 DEF Idle, LoggingOut
    <3>2. rec.pc \in Named => rec.tok \in DOMAIN store' /\ store'[rec.tok].user = rec.user
      BY <1>2 DEF BeginWith, sessions, Idle
    <3> QED BY <3>1, <3>2
  <2>4. Arrives(r, rec) /\ At(r, "idle")
    BY <1>0, <1>2, BeginArrives DEF BeginWith
  <2>5. UNCHANGED <<now, generation, conns>>
    BY <1>2 DEF BeginWith, registry
  <2> HIDE DEF rec
  <2> QED BY <1>0, <1>2, <2>1, <2>2, <2>3, <2>4, <2>5, ArriveLogouts
<1>3. ASSUME NEW r \in Requests, NEW t \in DOMAIN store, NEW vm \in VMs, GrantRDPConnect(r, t, vm),
             UNCHANGED now, History
      PROVE  LogoutInv'
  <2> DEFINE rec == [Idle EXCEPT !.pc = "grant", !.tok = t, !.user = store[t].user, !.vm = vm, !.grant = nextGrant]
  <2>1. SameSessions
    BY <1>0, <1>3, Unchanged, LoseSame DEF GrantRDPConnect, sessions
  <2>2. Drops({})
    BY <1>3, Unchanged DEF GrantRDPConnect
  <2>3. /\ rec.pc \notin LoggingOut \cup {"granting", "consuming"} /\ rec.before = {} /\ rec.gen = 0
        /\ rec.pc \in Named => rec.tok \in DOMAIN store' /\ store'[rec.tok].user = rec.user
    <3>1. rec.pc \notin LoggingOut \cup {"granting", "consuming"} /\ rec.before = {} /\ rec.gen = 0
      BY <1>3 DEF Idle, LoggingOut
    <3>2. rec.pc \in Named => rec.tok \in DOMAIN store' /\ store'[rec.tok].user = rec.user
      BY <1>3 DEF GrantRDPConnect, sessions, Idle
    <3> QED BY <3>1, <3>2
  <2>4. Arrives(r, rec) /\ At(r, "idle")
    BY <1>0, <1>3, BeginArrives DEF GrantRDPConnect
  <2>5. UNCHANGED <<now, generation, conns>>
    BY <1>3 DEF GrantRDPConnect, registry
  <2> HIDE DEF rec
  <2> QED BY <1>0, <1>3, <2>1, <2>2, <2>3, <2>4, <2>5, ArriveLogouts
<1>4. ASSUME NEW r \in Requests, NEW g \in Grants, NEW owner \in Users, RDPConnectTarget(r, g, owner),
             UNCHANGED now, History
      PROVE  LogoutInv'
  <2> DEFINE rec == IF Valid(g) THEN [Idle EXCEPT !.pc = "rdp", !.grant = g, !.user = owner] ELSE Idle
  <2>1. SameSessions
    BY <1>0, <1>4, Unchanged, LoseSame DEF RDPConnectTarget, sessions
  <2>2. Drops(Dropped(g))
    BY <1>4, WithoutDrops DEF RDPConnectTarget
  <2>3. /\ rec.pc \notin LoggingOut \cup {"granting", "consuming"} /\ rec.before = {} /\ rec.gen = 0
        /\ rec.pc \in Named => rec.tok \in DOMAIN store' /\ store'[rec.tok].user = rec.user
    <3>1. rec.pc \notin LoggingOut \cup {"granting", "consuming"} /\ rec.before = {} /\ rec.gen = 0
      BY <1>4 DEF Idle, LoggingOut
    <3>2. rec.pc \in Named => rec.tok \in DOMAIN store' /\ store'[rec.tok].user = rec.user
      BY <1>4 DEF Idle, Named, Seen
    <3> QED BY <3>1, <3>2
  <2>4. Arrives(r, rec) /\ At(r, "idle")
    BY <1>0, <1>4, BeginArrives DEF RDPConnectTarget
  <2>5. UNCHANGED <<now, generation, conns>>
    BY <1>4 DEF RDPConnectTarget, registry
  <2> HIDE DEF rec
  <2> QED BY <1>0, <1>4, <2>1, <2>2, <2>3, <2>4, <2>5, ArriveLogouts
<1>5. ASSUME NEW r \in Requests, SaveSession(r), UNCHANGED now, History PROVE LogoutInv'
  <2>1. req[r].pc = "save"
    BY <1>5 DEF SaveSession, At
  <2>2. req[r].pc \notin LoggingOut \cup {"idle"} /\ (IsConnection(r) <=> req[r].pc = "consuming")
    BY <2>1 DEF LoggingOut, IsConnection
  <2>3. /\ UNCHANGED <<now, generation, conns>>
        /\ {"expired", "setup"} \cap (LoggingOut \cup Named \cup {"granting", "consuming"}) = {}
        /\ "expired" \notin Connecting
    BY <1>5 DEF SaveSession, registry, LoggingOut, Named, Seen, Connecting
  <2>4. CASE CommitFails(r)
    <3>1. (Finishes(r) \/ Moves(r, "expired")) /\ index' = index /\ (store' = store \/ Loses({req[r].tok}))
      BY <1>0, <2>4, FailsLoses
    <3>2. SameSessions
      BY <1>0, <1>5, <3>1, Unchanged, LoseSame
    <3> QED BY <1>0, <1>5, <2>1, <2>2, <2>3, <3>1, <3>2, MoveLogouts
  <2>5. CASE ~CommitFails(r)
    <3>1. /\ Puts(req[r].tok, req[r].data) /\ ~closed /\ now < req[r].data.deadline /\ Finishes(r)
          /\ index' = index
      BY <1>0, <1>5, <2>5, CommittedPuts, EndEnds DEF SaveSession
    <3>2. SameSessions
      BY <1>0, <1>5, <2>1, <3>1, PutSame DEF LogoutInv
    <3> QED BY <1>0, <1>5, <2>1, <2>2, <2>3, <3>1, <3>2, MoveLogouts
  <2> QED BY <2>4, <2>5
<1>6. ASSUME NEW r \in Requests, AuditExpired(r), UNCHANGED now, History PROVE LogoutInv'
  <2>1. SameSessions
    BY <1>0, <1>6, Unchanged, LoseSame DEF AuditExpired, sessions
  <2>2. Finishes(r) /\ req[r].pc \notin LoggingOut \cup {"idle"} /\ ~IsConnection(r)
    BY <1>0, <1>6, EndEnds DEF AuditExpired, At, LoggingOut, IsConnection
  <2>3. UNCHANGED <<now, generation, conns>> /\ index' = index
    BY <1>6 DEF AuditExpired, registry
  <2>4. "idle" \notin LoggingOut \cup Connecting
    BY DEF LoggingOut, Connecting
  <2> QED BY <1>0, <1>6, <2>1, <2>2, <2>3, <2>4, MoveLogouts
<1>7. ASSUME NEW r \in Requests, DestroyAll(r), UNCHANGED now, History PROVE LogoutInv'
  <2>1. req[r].pc = "logout" /\ now' = now
    BY <1>7 DEF DestroyAll, At
  <2>2. req[r].pc \in Named \ {"console", "validate"} /\ "destroying" \in LoggingOut
    BY <2>1 DEF Named, Seen, LoggingOut
  <2>4. SameSessions /\ Drops({})
    BY <1>0, <1>7, Unchanged, LoseSame DEF DestroyAll, sessions
  <2>5. /\ Moves(r, "destroying")
        /\ req'[r].todo = {t \in DOMAIN store : Live(t) /\ store[t].user = req[r].user}
        /\ req'[r].before = {q \in Requests : IsConnection(q) /\ req[q].user = req[r].user}
    BY <1>0, <1>7, DestroyAllMoves
  <2>6. Proceeds(r)
    <3>1. ASSUME NEW q \in Requests, IsConnection(q), req[q].user = req[r].user PROVE Revokes(r, q)'
      <4>1. q # r /\ req'[q] = req[q] /\ req[q].pc # "consuming"
        <5>1. q # r
          BY <2>1, <3>1 DEF IsConnection
        <5>2. lock = 0
          BY <1>7 DEF DestroyAll, Free
        <5>3. req[q].pc # "consuming"
          BY SMTT(30), <5>2 DEF SessionInv, Locked, Holding, Requests
        <5> QED BY <2>5, <5>1, <5>3 DEF Moves, Others
      <4>2. UNCHANGED <<store, index, now, generation>>
        BY <1>7 DEF DestroyAll, sessions, registry
      <4>3. Behind(q)' \subseteq req'[r].todo
        <5>1. ASSUME NEW t \in Behind(q)' PROVE t \in DOMAIN store /\ Live(t) /\ store[t].user = req[r].user
          BY SMTT(30), <3>1, <4>1, <4>2, <5>1
             DEF Behind, Live, LogoutInv, Owners, Owned, OwnedEntry, Named, Seen
        <5> QED BY <2>5, <5>1
      <4> QED BY <2>5, <3>1, <4>1, <4>2, <4>3 DEF Revokes, Moves, IsConnection, Remaining, At
    <3> QED BY <2>5, <3>1 DEF Proceeds, Moves
  <2>7. generation' = generation /\ conns' = conns
    BY <1>7 DEF DestroyAll, registry
  <2>8. Later /\ generation' \in [Users -> Nat]
    BY SMTT(30), <1>0, <2>7 DEF Later
  <2> QED BY <1>0, <1>7, <2>1, <2>2, <2>4, <2>5, <2>6, <2>7, <2>8, LogoutGoesOn
<1>8. ASSUME NEW r \in Requests, DestroyOne(r), UNCHANGED now, History PROVE LogoutInv'
  <2>1. req[r].pc = "destroying" /\ now' = now
    BY <1>8 DEF DestroyOne, At
  <2>2. req[r].pc \in Named \ {"console", "validate"} /\ "destroying" \in LoggingOut
    BY <2>1 DEF Named, Seen, LoggingOut
  <2>3. PICK t \in req[r].todo : Delete({t}) /\ req' = [req EXCEPT ![r].todo = @ \ {t}]
    BY <1>8 DEF DestroyOne
  <2>4. SameSessions /\ Drops({g \in DOMAIN index : index[g].tok \in {t}}) /\ Loses({t})
    BY <1>0, <2>3, DeleteLoses, LoseSame
  <2>5. Moves(r, "destroying") /\ req'[r].todo = req[r].todo \ {t} /\ req'[r].before = req[r].before
    BY <1>0, <2>1, <2>3, OneMoves DEF At
  <2>6. Proceeds(r)
    BY <2>1, <2>2, <2>4, <2>5 DEF Proceeds, Moves, Remaining, Live, Loses, At
  <2>7. generation' = generation /\ conns' = conns
    BY <1>8 DEF DestroyOne, registry
  <2>8. Later /\ generation' \in [Users -> Nat]
    BY SMTT(30), <1>0, <2>7 DEF Later
  <2> QED BY <1>0, <1>8, <2>1, <2>2, <2>4, <2>5, <2>6, <2>7, <2>8, LogoutGoesOn
<1>9. ASSUME NEW r \in Requests, DestroyDone(r), UNCHANGED now, History PROVE LogoutInv'
  <2>1. req[r].pc = "destroying" /\ now' = now
    BY <1>9 DEF DestroyDone, At
  <2>2. req[r].pc \in Named \ {"console", "validate"} /\ "destroy" \in LoggingOut
    BY <2>1 DEF Named, Seen, LoggingOut
  <2>4. SameSessions /\ Drops({})
    BY <1>0, <1>9, Unchanged, LoseSame DEF DestroyDone, sessions
  <2>5. Moves(r, "destroy") /\ req'[r].before = req[r].before /\ req[r].todo = {}
    BY <1>0, <1>9, GotoMoves DEF DestroyDone
  <2>6. Proceeds(r)
    BY <2>1, <2>5 DEF Proceeds, Moves, Remaining, At, LoggingOut
  <2>7. generation' = generation /\ conns' = conns
    BY <1>9 DEF DestroyDone, registry
  <2>8. Later /\ generation' \in [Users -> Nat]
    BY SMTT(30), <1>0, <2>7 DEF Later
  <2> QED BY <1>0, <1>9, <2>1, <2>2, <2>4, <2>5, <2>6, <2>7, <2>8, LogoutGoesOn
<1>10. ASSUME NEW r \in Requests, DestroySession(r), UNCHANGED now, History PROVE LogoutInv'
  <2>1. req[r].pc = "destroy" /\ now' = now
    BY <1>10 DEF DestroySession, At
  <2>2. req[r].pc \in Named \ {"console", "validate"} /\ "close" \in LoggingOut
    BY <2>1 DEF Named, Seen, LoggingOut
  <2>4. SameSessions /\ Drops({g \in DOMAIN index : index[g].tok \in {req[r].tok}})
    BY <1>0, <1>10, DeleteLoses, LoseSame DEF DestroySession
  <2>5. Moves(r, "close") /\ req'[r].before = req[r].before
    BY <1>0, <1>10, GotoMoves DEF DestroySession
  <2>6. Proceeds(r)
    BY <2>1, <2>5 DEF Proceeds, Moves, Remaining, At, LoggingOut
  <2>7. generation' = generation /\ conns' = conns
    BY <1>10 DEF DestroySession, registry
  <2>8. Later /\ generation' \in [Users -> Nat]
    BY SMTT(30), <1>0, <2>7 DEF Later
  <2> QED BY <1>0, <1>10, <2>1, <2>2, <2>4, <2>5, <2>6, <2>7, <2>8, LogoutGoesOn
<1>11. ASSUME NEW r \in Requests, CloseUserConnections(r), UNCHANGED now, History PROVE LogoutInv'
  <2>1. req[r].pc = "close" /\ now' = now
    BY <1>11 DEF CloseUserConnections, At
  <2>2. req[r].pc \in Named \ {"console", "validate"} /\ "closing" \in LoggingOut
    BY <2>1 DEF Named, Seen, LoggingOut
  <2>4. SameSessions /\ Drops({})
    BY <1>0, <1>11, Unchanged, LoseSame DEF CloseUserConnections, sessions
  <2>5. Moves(r, "closing")
    BY <1>0, <1>11, CloseMoves
  <2> DEFINE u == req[r].user
  <2>6. u \in Users /\ generation \in [Users -> Nat] /\ conns \in [Users -> SUBSET Requests]
    BY <2>1 DEF Typed, RequestsTyped, IsRequest, RegistryTyped
  <2>7. /\ \A w \in Users : conns'[w] \subseteq conns[w] /\ generation[w] <= generation'[w]
        /\ conns'[u] = {} /\ generation'[u] = generation[u] + 1
    BY SMTT(30), <1>11, <2>6 DEF CloseUserConnections
  <2>8. ASSUME NEW q \in req[r].before PROVE req'[q].pc = "idle" \/ Revoked(q)'
    <3>1. q \in Requests /\ Revokes(r, q)
      BY <2>1 DEF LogoutInv, Revoking, LoggingOut, Typed, RequestsTyped, IsRequest
    <3>2. q # r => req'[q] = req[q]
      BY <2>5, <3>1 DEF Moves, Others
    <3>3. CASE req[q].pc = "idle"
      BY <2>1, <3>2, <3>3
    <3>4. CASE req[q].pc # "idle"
      <4>1. /\ IsConnection(q) /\ req[q].pc # "consuming" /\ req[q].user = u /\ Behind(q) = {}
            /\ req[q].gen <= generation[u] /\ q # r
        BY <2>1, <3>1, <3>4 DEF Revokes, Remaining, At, IsConnection, LogoutInv, Generations
      <4>2. Behind(q)' = {}
        <5>1. UNCHANGED <<store, index, now>> /\ req'[q] = req[q]
          BY <1>11, <3>2, <4>1 DEF CloseUserConnections, sessions
        <5> QED BY <4>1, <5>1 DEF Behind, Live
      <4>3. req[q].gen < generation'[u]
        BY SMTT(30), <2>6, <2>7, <3>1, <4>1 DEF Typed, RequestsTyped, IsRequest
      <4> QED BY <2>7, <3>2, <4>1, <4>2, <4>3 DEF Revoked, IsConnection, At
    <3> QED BY <3>3, <3>4
  <2>9. Proceeds(r)
    BY <2>1, <2>5, <2>8 DEF Proceeds, Moves, Remaining, At, LoggingOut
  <2>10. Later /\ generation' \in [Users -> Nat]
    BY <2>7 DEF Later, Typed, RegistryTyped
  <2> QED BY <1>0, <1>11, <2>1, <2>2, <2>4, <2>5, <2>7, <2>9, <2>10, LogoutGoesOn
<1>12. ASSUME NEW r \in Requests, CloseOne(r), UNCHANGED now, History PROVE LogoutInv'
  <2>1. req[r].pc = "closing" /\ now' = now
    BY <1>12 DEF CloseOne, At
  <2>2. req[r].pc \in Named \ {"console", "validate"} /\ "closing" \in LoggingOut
    BY <2>1 DEF Named, Seen, LoggingOut
  <2>4. SameSessions /\ Drops({})
    BY <1>0, <1>12, Unchanged, LoseSame DEF CloseOne, sessions
  <2>5. Moves(r, "closing") /\ req'[r].before = req[r].before
    BY <1>0, <1>12, <2>1, OneMoves DEF CloseOne, At
  <2>6. Proceeds(r)
    BY <2>1, <2>5 DEF Proceeds, Moves, Remaining, At, LoggingOut
  <2>7. generation' = generation /\ conns' = conns
    BY <1>12 DEF CloseOne, registry
  <2>8. Later /\ generation' \in [Users -> Nat]
    BY SMTT(30), <1>0, <2>7 DEF Later
  <2> QED BY <1>0, <1>12, <2>1, <2>2, <2>4, <2>5, <2>6, <2>7, <2>8, LogoutGoesOn
<1>13. ASSUME NEW r \in Requests, LogoutDone(r), UNCHANGED now, History PROVE LogoutInv'
  <2>1. req[r].pc = "closing" /\ now' = now
    BY <1>13 DEF LogoutDone, At
  <2>2. req[r].pc \in Named \ {"console", "validate"} /\ "closing" \in LoggingOut
    BY <2>1 DEF Named, Seen, LoggingOut
  <2>4. SameSessions /\ Drops({})
    BY <1>0, <1>13, Unchanged, LoseSame DEF LogoutDone, sessions
  <2>5. Finishes(r)
    BY <1>0, <1>13, EndEnds DEF LogoutDone
  <2>6. Proceeds(r)
    <3>1. req'[r].pc = "idle"
      BY SMTT(30), <2>5 DEF Finishes, Idle
    <3> QED BY <3>1 DEF Proceeds, LoggingOut
  <2>7. generation' = generation /\ conns' = conns
    BY <1>13 DEF LogoutDone, registry
  <2>8. Later /\ generation' \in [Users -> Nat]
    BY SMTT(30), <1>0, <2>7 DEF Later
  <2> QED BY <1>0, <1>13, <2>1, <2>2, <2>4, <2>5, <2>6, <2>7, <2>8, LogoutGoesOn
<1>14. ASSUME NEW r \in Requests, Claim(r), UNCHANGED now, History PROVE LogoutInv'
  <2> DEFINE p == IF req[r].tok \in DOMAIN tracked THEN "claimed" ELSE "unclaimed"
  <2>1. SameSessions
    BY <1>0, <1>14, Unchanged, LoseSame DEF Claim
  <2>2. Moves(r, p) /\ req[r].pc \notin LoggingOut \cup {"idle"} /\ ~IsConnection(r) /\ req[r].pc \in Named
    BY <1>0, <1>14, GotoMoves DEF Claim, At, LoggingOut, IsConnection, Named, Seen
  <2>3. UNCHANGED <<now, generation, conns>> /\ index' = index
    BY <1>14 DEF Claim, registry
  <2>4. p \notin LoggingOut \cup Connecting \cup {"granting", "consuming", "validate", "consume"}
    BY DEF LoggingOut, Connecting
  <2> HIDE DEF p
  <2> QED BY <1>0, <1>14, <2>1, <2>2, <2>3, <2>4, MoveLogouts
<1>15. ASSUME NEW r \in Requests, Invalidate(r), UNCHANGED now, History PROVE LogoutInv'
  <2>1. SameSessions
    BY <1>0, <1>15, DeleteLoses, LoseSame DEF Invalidate
  <2>2. /\ (Finishes(r) \/ Moves(r, "roamed")) /\ req[r].pc \notin LoggingOut \cup {"idle"}
        /\ ~IsConnection(r) /\ req[r].pc \in Named
    BY <1>0, <1>15, GotoMoves, EndEnds DEF Invalidate, At, LoggingOut, IsConnection, Named, Seen
  <2>3. UNCHANGED <<now, generation, conns>> /\ Drops({g \in DOMAIN index : index[g].tok \in {req[r].tok}})
    BY <1>15, DeleteLoses DEF Invalidate, registry
  <2>4. "roamed" \notin LoggingOut \cup Connecting
    BY DEF LoggingOut, Connecting
  <2> QED BY <1>0, <1>15, <2>1, <2>2, <2>3, <2>4, MoveLogouts DEF Drops
<1>16. ASSUME NEW r \in Requests, AuditRoamed(r), UNCHANGED now, History PROVE LogoutInv'
  <2>1. SameSessions
    BY <1>0, <1>16, Unchanged, LoseSame DEF AuditRoamed, sessions
  <2>2. Finishes(r) /\ req[r].pc \notin LoggingOut \cup {"idle"} /\ ~IsConnection(r)
    BY <1>0, <1>16, EndEnds DEF AuditRoamed, At, LoggingOut, IsConnection
  <2>3. UNCHANGED <<now, generation, conns>> /\ index' = index
    BY <1>16 DEF AuditRoamed, registry
  <2>4. "idle" \notin LoggingOut \cup Connecting
    BY DEF LoggingOut, Connecting
  <2> QED BY <1>0, <1>16, <2>1, <2>2, <2>3, <2>4, MoveLogouts
<1>17. ASSUME NEW r \in Requests, GrantLoad(r), UNCHANGED now, History PROVE LogoutInv'
  <2>1. SameSessions
    BY <1>0, <1>17, Unchanged, LoseSame DEF GrantLoad, sessions
  <2>2. req[r].pc = "grant"
    BY <1>17 DEF GrantLoad, At
  <2>3. UNCHANGED <<now, generation, conns>> /\ index' = index /\ store' = store
    BY <1>17 DEF GrantLoad, registry, sessions
  <2>4. Finishes(r) \/ (Moves(r, "granting") /\ Owned(r)')
    <3>1. CASE /\ Moves(r, "granting") /\ Live(req[r].tok)
               /\ WithToken(req'[r].data, store[req[r].tok], req[r].vm, req[r].grant)
      <4>1. store[req[r].tok].user = req[r].user /\ req[r].tok \in DOMAIN store
        BY <2>2, <3>1 DEF LogoutInv, Owners, Owned, Live, Named, Seen
      <4> QED BY <2>3, <3>1, <4>1 DEF Owned, Moves, WithToken
    <3> QED BY <1>0, <1>17, <3>1, GrantLoadMoves
  <2>5. /\ req[r].pc \notin LoggingOut \cup {"idle"} /\ ~IsConnection(r)
        /\ "granting" \notin LoggingOut \cup Connecting /\ req[r].pc \in Named
    BY <2>2 DEF LoggingOut, Connecting, IsConnection, Named, Seen
  <2> QED BY <1>0, <1>17, <2>1, <2>3, <2>4, <2>5, MoveLogouts
<1>18. ASSUME NEW r \in Requests, GrantCommit(r), UNCHANGED now, History PROVE LogoutInv'
  <2>1. req[r].pc = "granting"
    BY <1>18 DEF GrantCommit, At
  <2>2. req[r].pc \notin LoggingOut \cup {"idle"} /\ (IsConnection(r) <=> req[r].pc = "consuming")
    BY <2>1 DEF LoggingOut, IsConnection
  <2>3. /\ UNCHANGED <<now, generation, conns>>
        /\ {"expired", "setup"} \cap (LoggingOut \cup Named \cup {"granting", "consuming"}) = {}
        /\ "expired" \notin Connecting
    BY <1>18 DEF GrantCommit, registry, LoggingOut, Named, Seen, Connecting
  <2>4. CASE CommitFails(r)
    <3>1. (Finishes(r) \/ Moves(r, "expired")) /\ index' = index /\ (store' = store \/ Loses({req[r].tok}))
      BY <1>0, <2>4, FailsLoses
    <3>2. SameSessions
      BY <1>0, <1>18, <3>1, Unchanged, LoseSame
    <3> QED BY <1>0, <1>18, <2>1, <2>2, <2>3, <3>1, <3>2, MoveLogouts
  <2>5. CASE ~CommitFails(r)
    <3>1. /\ Puts(req[r].tok, req[r].data) /\ ~closed /\ now < req[r].data.deadline /\ Finishes(r)
          /\ index' = Indexed(r)
      BY <1>0, <1>18, <2>5, CommittedPuts, EndEnds DEF GrantCommit
    <3>2. SameSessions
      BY <1>0, <1>18, <2>1, <3>1, PutSame DEF LogoutInv
    <3>3. \A g \in DOMAIN index' : (g \in DOMAIN index /\ index'[g] = index[g]) \/ g = req[r].grant
      BY <3>1 DEF Indexed, With, Without, Restrict
    <3>4. ASSUME NEW g, g = req[r].grant PROVE OwnedEntry(g)'
      <4>1. index'[g].tok = req[r].tok /\ index'[g].user = req[r].user
        BY <3>1, <3>4 DEF Indexed, With
      <4>2. req[r].data.user = req[r].user
        BY <2>1 DEF LogoutInv, Owners, Owned
      <4>3. req[r].tok \in DOMAIN store' /\ store'[req[r].tok] = req[r].data
        BY <3>1 DEF Puts
      <4> QED BY <4>1, <4>2, <4>3 DEF OwnedEntry
    <3>5. \A q \in Requests \ {r} : req[q].pc \in {"rdp", "consume"} => req[q].grant # req[r].grant
      BY <2>1 DEF TokenInv, NewToken, Granting
    <3>6. \A g \in DOMAIN index' :
            \/ g \in DOMAIN index /\ index'[g] = index[g]
            \/ OwnedEntry(g)' /\ \A q \in Requests \ {r} : req[q].pc \in {"rdp", "consume"} => req[q].grant # g
      BY <3>3, <3>4, <3>5
    <3> QED BY <1>0, <1>18, <2>1, <2>2, <2>3, <3>1, <3>2, <3>6, MoveLogouts
  <2> QED BY <2>4, <2>5
<1>19. ASSUME NEW r \in Requests, ConsumeLoad(r), UNCHANGED now, History PROVE LogoutInv'
  <2>1. SameSessions
    BY <1>0, <1>19, Unchanged, LoseSame DEF ConsumeLoad, sessions
  <2>2. req[r].pc \in {"consume"} /\ UNCHANGED <<now, generation>>
    BY <1>19 DEF ConsumeLoad, At, registry
  <2>3. req[r].pc \notin LoggingOut \cup {"idle"}
    BY <2>2 DEF LoggingOut
  <2>4. \A g \in DOMAIN index' : g \in DOMAIN index /\ index'[g] = index[g]
    BY <1>19, WithoutDrops DEF ConsumeLoad, Drops
  <2>5. conns' = conns
    BY <1>19 DEF ConsumeLoad, registry
  <2> DEFINE g0 == req[r].grant
  <2>6. \/ Finishes(r)
        \/ /\ Moves(r, "consuming") /\ Valid(g0) /\ index[g0].user = req[r].user /\ req'[r].tok = index[g0].tok
           /\ WithoutToken(req'[r].data, store[index[g0].tok], index[g0].vm)
    BY <1>0, <1>19, ConsumeLoadMoves
  <2>7. Fades(r)
    <3>1. Valid(g0) /\ index[g0].user = req[r].user => index[g0].tok \in Behind(r)
      BY <2>2 DEF Behind, Live, Valid
    <3>2. Finishes(r) => req'[r].pc = "idle"
      BY SMTT(30) DEF Finishes, Idle
    <3>3. lock = 0
      BY <1>19 DEF ConsumeLoad, Free
    <3> QED BY <2>6, <3>1, <3>2, <3>3 DEF Fades
  <2>8. Finishes(r) \/ (Moves(r, "consuming") /\ Owned(r)')
    <3>1. store' = store
      BY <1>19 DEF ConsumeLoad, sessions
    <3> QED BY <2>6, <3>1 DEF Owned, Moves, WithoutToken, Named
  <2>9. "consuming" \notin LoggingOut \cup Named /\ IsConnection(r)
    BY <2>2 DEF LoggingOut, Named, IsConnection
  <2> QED BY <1>0, <1>19, <2>1, <2>2, <2>3, <2>4, <2>5, <2>7, <2>8, <2>9, MoveLogouts
<1>20. ASSUME NEW r \in Requests, ConsumeCommit(r), UNCHANGED now, History PROVE LogoutInv'
  <2>1. req[r].pc = "consuming"
    BY <1>20 DEF ConsumeCommit, At
  <2>2. req[r].pc \notin LoggingOut \cup {"idle"} /\ (IsConnection(r) <=> req[r].pc = "consuming")
    BY <2>1 DEF LoggingOut, IsConnection
  <2>3. /\ UNCHANGED <<now, generation, conns>>
        /\ {"expired", "setup"} \cap (LoggingOut \cup Named \cup {"granting", "consuming"}) = {}
        /\ "expired" \notin Connecting
    BY <1>20 DEF ConsumeCommit, registry, LoggingOut, Named, Seen, Connecting
  <2>4. CASE CommitFails(r)
    <3>1. (Finishes(r) \/ Moves(r, "expired")) /\ index' = index /\ (store' = store \/ Loses({req[r].tok}))
      BY <1>0, <2>4, FailsLoses
    <3>2. SameSessions
      BY <1>0, <1>20, <3>1, Unchanged, LoseSame
    <3> QED BY <1>0, <1>20, <2>1, <2>2, <2>3, <3>1, <3>2, MoveLogouts
  <2>5. CASE ~CommitFails(r)
    <3>1. /\ Puts(req[r].tok, req[r].data) /\ ~closed /\ now < req[r].data.deadline
          /\ Moves(r, "setup") /\ Drops({req[r].grant})
      BY <1>0, <1>20, <2>5, CommittedPuts, GotoMoves, WithoutDrops DEF ConsumeCommit
    <3>2. SameSessions
      BY <1>0, <1>20, <2>1, <3>1, PutSame DEF LogoutInv
    <3> QED BY <1>0, <1>20, <2>1, <2>2, <2>3, <3>1, <3>2, MoveLogouts DEF Drops
  <2> QED BY <2>4, <2>5
<1>21. ASSUME NEW r \in Requests, Capture(r), UNCHANGED now, History PROVE LogoutInv'
  <2>1. SameSessions
    BY <1>0, <1>21, Unchanged, LoseSame DEF Capture, sessions
  <2>2. req[r].pc \in {"console", "rdp"} /\ UNCHANGED <<now, generation>>
    BY <1>21 DEF Capture, At, registry
  <2>3. req[r].pc \notin LoggingOut \cup {"idle"}
    BY <2>2 DEF LoggingOut
  <2>4. \A g \in DOMAIN index' : g \in DOMAIN index /\ index'[g] = index[g]
    BY <1>21 DEF Capture
  <2>5. conns' = conns
    BY <1>21 DEF Capture, registry
  <2> DEFINE p == IF req[r].pc = "rdp" THEN "consume" ELSE "validate"
  <2>6. Moves(r, p) /\ req'[r].gen = generation[req[r].user]
    BY <1>0, <1>21, CaptureMoves DEF At
  <2>7. /\ p \notin LoggingOut \cup {"granting", "consuming"} /\ (p \in Named => req[r].pc \in Named)
        /\ IsConnection(r)
    BY <2>2 DEF LoggingOut, Named, Seen, IsConnection
  <2>8. Fades(r)
    <3>1. Behind(r)' \subseteq Behind(r)
      <4>1. now \in Nat /\ Entry(r)
        BY <2>4 DEF Typed, Bounded, Entry
      <4> QED BY SMTT(30), <2>1, <2>2, <2>6, <4>1, BehindShrinks DEF Moves, LogoutInv
    <3> QED BY <2>2, <2>5, <2>6, <3>1 DEF Fades, Moves, IsConnection
  <2> HIDE DEF p
  <2> QED BY <1>0, <1>21, <2>1, <2>2, <2>3, <2>4, <2>5, <2>6, <2>7, <2>8, MoveLogouts
<1>22. ASSUME NEW r \in Requests, Validate(r), UNCHANGED now, History PROVE LogoutInv'
  <2>1. SameSessions
    BY <1>0, <1>22, Unchanged, LoseSame DEF Validate, sessions
  <2>2. req[r].pc \in {"validate"} /\ UNCHANGED <<now, generation>>
    BY <1>22 DEF Validate, At, registry
  <2>3. req[r].pc \notin LoggingOut \cup {"idle"}
    BY <2>2 DEF LoggingOut
  <2>4. \A g \in DOMAIN index' : g \in DOMAIN index /\ index'[g] = index[g]
    BY <1>22 DEF Validate
  <2>5. conns' = conns
    BY <1>22 DEF Validate, registry
  <2>6. Finishes(r) \/ (Moves(r, "setup") /\ Live(req[r].tok))
    BY <1>0, <1>22, ValidateMoves
  <2>7. Fades(r)
    <3>1. Live(req[r].tok) => req[r].tok \in Behind(r)
      BY <2>2 DEF Behind, Live
    <3> QED BY SMTT(30), <1>22, <2>6, <3>1 DEF Fades, Finishes, Idle, Validate, Free
  <2>8. "setup" \notin LoggingOut \cup Named \cup {"granting", "consuming"} /\ IsConnection(r)
    BY <2>2 DEF LoggingOut, Named, Seen, IsConnection
  <2> QED BY <1>0, <1>22, <2>1, <2>2, <2>3, <2>4, <2>5, <2>6, <2>7, <2>8, MoveLogouts
<1>23. ASSUME NEW r \in Requests, Register(r), UNCHANGED now, History PROVE LogoutInv'
  <2>1. SameSessions
    BY <1>0, <1>23, Unchanged, LoseSame DEF Register, sessions
  <2>2. req[r].pc \in {"setup"} /\ UNCHANGED <<now, generation>>
    BY <1>23 DEF Register, At, registry
  <2>3. req[r].pc \notin LoggingOut \cup {"idle"}
    BY <2>2 DEF LoggingOut
  <2>4. \A g \in DOMAIN index' : g \in DOMAIN index /\ index'[g] = index[g]
    BY <1>23 DEF Register
  <2>5. \A q \in Requests \ {r} : \A u \in Users : q \in conns'[u] => q \in conns[u]
    BY <1>23 DEF Register, Typed, RegistryTyped
  <2>6. Finishes(r) \/ (Moves(r, "live") /\ req[r].gen = generation[req[r].user])
    BY <1>0, <1>23, GotoMoves, EndEnds DEF Register, Admissible
  <2>7. Fades(r)
    <3>1. CASE Moves(r, "live") /\ req[r].gen = generation[req[r].user]
      BY <2>2, <3>1 DEF Fades, Moves, IsConnection, Behind
    <3>2. Finishes(r) => req'[r].pc = "idle"
      BY SMTT(30) DEF Finishes, Idle
    <3> QED BY <2>6, <3>1, <3>2 DEF Fades
  <2>8. "live" \notin LoggingOut \cup Named \cup {"granting", "consuming"} /\ IsConnection(r)
    BY <2>2 DEF LoggingOut, Named, Seen, IsConnection
  <2> QED BY <1>0, <1>23, <2>1, <2>2, <2>3, <2>4, <2>5, <2>6, <2>7, <2>8, MoveLogouts
<1>24. ASSUME NEW r \in Requests, Unregister(r), UNCHANGED now, History PROVE LogoutInv'
  <2>1. SameSessions
    BY <1>0, <1>24, Unchanged, LoseSame DEF Unregister, sessions
  <2>2. req[r].pc \in {"live"} /\ UNCHANGED <<now, generation>>
    BY <1>24 DEF Unregister, At, registry
  <2>3. req[r].pc \notin LoggingOut \cup {"idle"}
    BY <2>2 DEF LoggingOut
  <2>4. \A g \in DOMAIN index' : g \in DOMAIN index /\ index'[g] = index[g]
    BY <1>24 DEF Unregister
  <2>5. \A q \in Requests \ {r} : \A u \in Users : q \in conns'[u] => q \in conns[u]
    BY <1>24 DEF Unregister, Typed, RegistryTyped
  <2>6. Finishes(r) /\ Fades(r) /\ "setup" \notin LoggingOut /\ IsConnection(r)
    <3>1. Finishes(r)
      BY <1>0, <1>24, EndEnds DEF Unregister
    <3>2. req'[r].pc = "idle"
      BY SMTT(30), <3>1 DEF Finishes, Idle
    <3> QED BY <2>2, <3>1, <3>2 DEF Fades, LoggingOut, IsConnection
  <2> QED BY <1>0, <1>24, <2>1, <2>2, <2>3, <2>4, <2>5, <2>6, MoveLogouts
<1>25. ASSUME NEW r \in Requests, SetupFails(r), UNCHANGED now, History PROVE LogoutInv'
  <2>1. SameSessions
    BY <1>0, <1>25, Unchanged, LoseSame DEF SetupFails, sessions
  <2>2. req[r].pc \in {"setup"} /\ UNCHANGED <<now, generation>>
    BY <1>25 DEF SetupFails, At, registry
  <2>3. req[r].pc \notin LoggingOut \cup {"idle"}
    BY <2>2 DEF LoggingOut
  <2>4. \A g \in DOMAIN index' : g \in DOMAIN index /\ index'[g] = index[g]
    BY <1>25 DEF SetupFails
  <2>5. conns' = conns
    BY <1>25 DEF SetupFails, registry
  <2>6. Finishes(r) /\ Fades(r) /\ "setup" \notin LoggingOut /\ IsConnection(r)
    <3>1. Finishes(r)
      BY <1>0, <1>25, EndEnds DEF SetupFails
    <3>2. req'[r].pc = "idle"
      BY SMTT(30), <3>1 DEF Finishes, Idle
    <3> QED BY <2>2, <3>1, <3>2 DEF Fades, LoggingOut, IsConnection
  <2> QED BY <1>0, <1>25, <2>1, <2>2, <2>3, <2>4, <2>5, <2>6, MoveLogouts
<1>26. ASSUME NEW r \in Requests, PeerLeaves(r), UNCHANGED now, History PROVE LogoutInv'
  <2>1. SameSessions
    BY <1>0, <1>26, Unchanged, LoseSame DEF PeerLeaves, sessions
  <2>2. now' \in Nat /\ now <= now'
    BY SMTT(30), <1>26 DEF PeerLeaves, Typed, Bounded
  <2>3. /\ UNCHANGED <<req, generation, index>>
        /\ \A u \in Users : conns'[u] \subseteq conns[u]
    BY <1>26 DEF PeerLeaves, registry
  <2> QED BY <1>0, <1>26, <2>1, <2>2, <2>3, StayLogouts
<1>27. ASSUME Tick, History PROVE LogoutInv'
  <2>1. SameSessions
    BY <1>0, <1>27, Unchanged, LoseSame DEF Tick, sessions
  <2>2. now' \in Nat /\ now <= now'
    BY SMTT(30), <1>27 DEF Tick, Typed, Bounded
  <2>3. /\ UNCHANGED <<req, generation, index>>
        /\ \A u \in Users : conns'[u] \subseteq conns[u]
    BY <1>27 DEF Tick, registry
  <2> QED BY <1>0, <1>27, <2>1, <2>2, <2>3, StayLogouts
<1>28. ASSUME NEW t \in Tokens, Expire(t), History PROVE LogoutInv'
  <2>1. Loses({t})
    BY <1>28 DEF Expire, Loses, Without, Restrict
  <2>2. SameSessions /\ now' \in Nat /\ now <= now'
    BY SMTT(30), <1>0, <1>28, <2>1, LoseSame DEF Expire, Typed, Bounded
  <2> QED BY <1>0, <1>28, <2>2, StayLogouts DEF Expire, registry
<1>29. ASSUME NEW t \in Tokens, AuditTimeout(t), History PROVE LogoutInv'
  <2>1. SameSessions
    BY <1>0, <1>29, Unchanged, LoseSame DEF AuditTimeout, sessions
  <2>2. now' \in Nat /\ now <= now'
    BY SMTT(30), <1>29 DEF AuditTimeout, Typed, Bounded
  <2>3. /\ UNCHANGED <<req, generation, index>>
        /\ \A u \in Users : conns'[u] \subseteq conns[u]
    BY <1>29 DEF AuditTimeout, registry
  <2> QED BY <1>0, <1>29, <2>1, <2>2, <2>3, StayLogouts
<1>30. ASSUME CloseAllConnections, History PROVE LogoutInv'
  <2>1. SameSessions
    BY <1>0, <1>30, Unchanged, LoseSame DEF CloseAllConnections, sessions
  <2>2. now' \in Nat /\ now <= now'
    BY SMTT(30), <1>30 DEF CloseAllConnections, Typed, Bounded
  <2>3. /\ UNCHANGED <<req, generation, index>>
        /\ \A u \in Users : conns'[u] \subseteq conns[u]
    BY <1>30 DEF CloseAllConnections, registry
  <2> QED BY <1>0, <1>30, <2>1, <2>2, <2>3, StayLogouts
<1>31. ASSUME CloseDispatched, History PROVE LogoutInv'
  <2>1. SameSessions
    BY <1>0, <1>31, Unchanged, LoseSame DEF CloseDispatched, sessions
  <2>2. now' \in Nat /\ now <= now'
    BY SMTT(30), <1>31 DEF CloseDispatched, Typed, Bounded
  <2>3. /\ UNCHANGED <<req, generation, index>>
        /\ \A u \in Users : conns'[u] \subseteq conns[u]
    BY <1>31 DEF CloseDispatched, registry
  <2> QED BY <1>0, <1>31, <2>1, <2>2, <2>3, StayLogouts
<1>32. ASSUME Drained, History PROVE LogoutInv'
  <2>1. SameSessions
    BY <1>0, <1>32, Unchanged, LoseSame DEF Drained, sessions
  <2>2. now' \in Nat /\ now <= now'
    BY SMTT(30), <1>32 DEF Drained, Typed, Bounded
  <2>3. /\ UNCHANGED <<req, generation, index>>
        /\ \A u \in Users : conns'[u] \subseteq conns[u]
    BY <1>32 DEF Drained, registry
  <2> QED BY <1>0, <1>32, <2>1, <2>2, <2>3, StayLogouts
<1>33. ASSUME Close, History PROVE LogoutInv'
  <2>1. SameSessions
    BY <1>0, <1>33, Unchanged, LoseSame DEF Close, sessions
  <2>2. now' \in Nat /\ now <= now'
    BY SMTT(30), <1>33 DEF Close, Typed, Bounded
  <2>3. /\ UNCHANGED <<req, generation, index>>
        /\ \A u \in Users : conns'[u] \subseteq conns[u]
    BY <1>33 DEF Close, registry
  <2> QED BY <1>0, <1>33, <2>1, <2>2, <2>3, StayLogouts
<1>34. ASSUME CloseAuditSink, History PROVE LogoutInv'
  <2>1. SameSessions
    BY <1>0, <1>34, Unchanged, LoseSame DEF CloseAuditSink, sessions
  <2>2. now' \in Nat /\ now <= now'
    BY SMTT(30), <1>34 DEF CloseAuditSink, Typed, Bounded
  <2>3. /\ UNCHANGED <<req, generation, index>>
        /\ \A u \in Users : conns'[u] \subseteq conns[u]
    BY <1>34 DEF CloseAuditSink, registry
  <2> QED BY <1>0, <1>34, <2>1, <2>2, <2>3, StayLogouts
<1> QED BY <1>1, <1>2, <1>3, <1>4, <1>5, <1>6, <1>7, <1>8, <1>9, <1>10, <1>11, <1>12, <1>13, <1>14, <1>15,
           <1>16, <1>17, <1>18, <1>19, <1>20, <1>21, <1>22, <1>23, <1>24, <1>25, <1>26, <1>27, <1>28, <1>29,
           <1>30, <1>31, <1>32, <1>33, <1>34 DEF Next, Step, Arrive, Proceed
=============================================================================
