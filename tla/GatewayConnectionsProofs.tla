---------------------- MODULE GatewayConnectionsProofs ----------------------
(***************************************************************************)
(* Every step keeps RegistryInv: the table of live connections has exactly *)
(* those that were registered and not yet released, the total is their     *)
(* number, no user is over the limit, and a transport that is open is in   *)
(* the table or about to be closed. The cardinalities of finite sets are   *)
(* reasoned about here and nowhere else.                                   *)
(*                                                                         *)
(* At the end, the theorems about GatewaySessions. GatewayInv, the         *)
(* conjunction of the parts whose preservation this module and the modules *)
(* extended here prove, is an invariant; what the checked runs state of    *)
(* the tokens, of the live connections and of the ends of sessions follows *)
(* from it for every value of the constants.                               *)
(***************************************************************************)
EXTENDS GatewayLogoutsProofs, FiniteSetTheorems

\* The default prover, as in GatewaySessionsProofs.
USE ZenonT(40)

LiveOnes == {r \in Requests : At(r, "live")}

\* The requests under way are finitely many.
LEMMA RequestsFinite == IsFiniteSet(Requests) /\ \A S \in SUBSET Requests : IsFiniteSet(S)
<1>1. IsFiniteSet(Requests)
  BY SMTT(30), FS_Interval, LimitsAssumption DEF Requests
<1> QED BY <1>1, FS_Subset

\* An empty table is within userConnectionLimit.
LEMMA LimitHolds == Limit \in Nat /\ Cardinality({}) <= Limit
BY SMTT(30), LimitsAssumption, FS_EmptySet

\* Who records the end of session t: recorded once or in one hand is the sum of
\* the three counters being one.
LEMMA EndCounted ==
  ASSUME Typed, Ends, ~closed, NEW t \in dead
  PROVE  recorded[t] + Cardinality(auditing \cap {t})
           + Cardinality({r \in Requests : req[r].pc \in {"expired", "roamed"} /\ req[r].tok = t})
           = IF t \in explicit THEN 0 ELSE 1
<1> DEFINE A == auditing \cap {t}
           R == {r \in Requests : req[r].pc \in {"expired", "roamed"} /\ req[r].tok = t}
<1>1. t \in Tokens
  <2>1. t \in 1 .. nextTok - 1
    BY DEF Typed, StoreTyped
  <2>2. plan.sessions \in Nat /\ nextTok \in Nat /\ nextTok <= plan.sessions + 1
    BY PlansAssumption DEF Typed, Bounded
  <2> QED BY SMTT(30), <2>1, <2>2 DEF Tokens
<1>2. Cardinality({}) = 0
  BY FS_EmptySet
<1>3. (t \notin auditing => A = {}) /\ (t \in auditing => A = {t})
  OBVIOUS
<1>4. \A r \in Requests : r \in R <=> Records(r, t)
  BY DEF Records
<1>5. (\A r \in Requests : ~Records(r, t)) => R = {}
  BY <1>4
<1> HIDE DEF A, R
<1>6. recorded[t] + Cardinality(A) + Cardinality(R) = IF t \in explicit THEN 0 ELSE 1
  <2>1. CASE t \in explicit
    <3>1. Unrecorded(t)
      BY <1>1, <2>1 DEF Ends
    <3>2. recorded[t] = 0 /\ A = {} /\ R = {}
      BY <1>3, <1>5, <3>1 DEF Unrecorded
    <3> QED BY SMTT(30), <1>2, <2>1, <3>2
  <2>2. CASE t \notin explicit
    <3>1. RecordedOnce(t)
      BY <1>1, <2>2 DEF Ends
    <3>2. CASE recorded[t] = 1 /\ t \notin auditing /\ \A r \in Requests : ~Records(r, t)
      <4>1. A = {} /\ R = {}
        BY <1>3, <1>5, <3>2
      <4> QED BY SMTT(30), <1>2, <2>2, <3>2, <4>1
    <3>3. CASE recorded[t] = 0 /\ t \in auditing /\ \A r \in Requests : ~Records(r, t)
      <4>1. A = {t} /\ R = {}
        BY <1>3, <1>5, <3>3
      <4>2. Cardinality({t}) = 1
        BY FS_Singleton
      <4> QED BY SMTT(30), <1>2, <2>2, <3>3, <4>1, <4>2
    <3>4. CASE recorded[t] = 0 /\ t \notin auditing /\ \E r \in Requests : \A q \in Requests : Records(q, t) <=> q = r
      <4>1. PICK r \in Requests : \A q \in Requests : Records(q, t) <=> q = r
        BY <3>4
      <4>2. A = {} /\ R = {r}
        BY <1>3, <1>4, <3>4, <4>1 DEF R
      <4>3. Cardinality({r}) = 1
        BY FS_Singleton
      <4> QED BY SMTT(30), <1>2, <2>2, <3>4, <4>2, <4>3
    <3> QED BY <3>1, <3>2, <3>3, <3>4 DEF RecordedOnce
  <2> QED BY <2>1, <2>2
<1> QED BY <1>6 DEF A, R

\* Nobody registers, leaves or takes over the closing of a transport.
Stays(q) ==
  /\ req'[q].pc = "live" <=> req[q].pc = "live"
  /\ req[q].pc = "live" => req'[q].user = req[q].user
  /\ req[q].pc = "closing" =>
       req[q].todo \cap open' = {} \/ (req'[q].pc = "closing" /\ req[q].todo \cap open' \subseteq req'[q].todo)

\* RegistryInv is kept where nobody registers or leaves and at most transports
\* are closed.
LEMMA QuietRegistry ==
  ASSUME RegistryInv, UNCHANGED <<conns, active>>, stage' = stage \/ stage' \notin {"up", "drained"},
         open' \subseteq open, closeFns \cap open' \subseteq closeFns',
         closeFns' \subseteq closeFns, \A q \in Requests : Stays(q)
  PROVE  RegistryInv'
<1> USE DEF RegistryInv, At
<1>1. RegistryExact'
  <2>1. {q \in Requests : req'[q].pc = "live"} = {q \in Requests : req[q].pc = "live"}
    BY DEF Stays
  <2> QED BY <2>1 DEF RegistryExact, Stays
<1>2. OpenIsHeld'
  BY SMTT(30) DEF OpenIsHeld, InHand, Stays, RegistryExact
<1>3. DrainComplete' /\ (stage' = "up" => closeFns' = {})
  BY DEF DrainComplete, Stays
<1> QED BY <1>1, <1>2, <1>3

\* A request that is not live and no logout goes on or ends ...
LEMMA MovesStays ==
  ASSUME RequestsTyped, NEW r \in Requests, NEW p, p # "live", req[r].pc \notin {"live", "closing"},
         Finishes(r) \/ Moves(r, p), open' = open
  PROVE  \A q \in Requests : Stays(q)
BY SMTT(30) DEF Stays, Moves, Finishes, Others, Idle

\* ... or arrives.
LEMMA ArrivesStays ==
  ASSUME NEW r \in Requests, NEW rec, Arrives(r, rec), rec.pc # "live", At(r, "idle"), open' = open
  PROVE  \A q \in Requests : Stays(q)
BY DEF Stays, Arrives, At

\* CloseUserConnections empties the table of its user and takes its transports
\* over.
LEMMA CloseUserRegistry ==
  ASSUME Typed, RegistryInv, NEW r \in Requests, CloseUserConnections(r)
  PROVE  RegistryInv'
<1> USE DEF RegistryInv, At
<1>0. /\ \A q \in Requests \ {r} : req'[q] = req[q]
      /\ req[r].pc = "close" /\ req'[r].pc = "closing" /\ req'[r].user = req[r].user
      /\ req'[r].todo = conns[req[r].user]
      /\ UNCHANGED <<active, open, closeFns, stage>>
      /\ conns' = [conns EXCEPT ![req[r].user] = {}]
  BY CloseMoves DEF CloseUserConnections, Moves, Others, Typed, shutdown
<1>1. conns \in [Users -> SUBSET Requests] /\ req[r].user \in Users
  BY <1>0 DEF Typed, RegistryTyped, RequestsTyped, IsRequest
<1>2. conns'[req[r].user] = {} /\ \A u \in Users \ {req[r].user} : conns'[u] = conns[u]
  BY <1>0, <1>1
<1>3. RegistryExact'
  <2>1. {q \in Requests : req'[q].pc = "live"} = {q \in Requests : req[q].pc = "live"}
    BY <1>0
  <2>2. \A u \in Users : Limit > 0 => Cardinality(conns'[u]) <= Limit
    BY <1>2, LimitHolds DEF RegistryExact
  <2>3. \A u \in Users : \A q \in conns'[u] : q \in Requests /\ req'[q].pc = "live" /\ req'[q].user = u
    BY SMTT(30), <1>0, <1>2 DEF RegistryExact
  <2>4. /\ active' = Cardinality({q \in Requests : req'[q].pc = "live"})
        /\ open' \subseteq {q \in Requests : req'[q].pc = "live"}
    BY <1>0, <2>1 DEF RegistryExact
  <2> QED BY <2>2, <2>3, <2>4 DEF RegistryExact
<1>4. OpenIsHeld'
  <2>1. ASSUME NEW q \in open PROVE q \in conns'[req'[q].user] \/ InHand(q)'
    <3>1. req[q].pc = "live" /\ q \in Requests /\ req[q].user \in Users /\ req'[q] = req[q]
      BY <1>0, <2>1 DEF RegistryExact, Typed, RequestsTyped, IsRequest
    <3>2. CASE InHand(q)
      BY <1>0, <3>2 DEF InHand
    <3>3. CASE q \in conns[req[q].user]
      BY <1>0, <1>2, <3>1, <3>3 DEF InHand
    <3> QED BY <3>2, <3>3, <2>1 DEF OpenIsHeld
  <2> QED BY <1>0, <2>1 DEF OpenIsHeld
<1>5. DrainComplete' /\ (stage' = "up" => closeFns' = {})
  BY <1>0 DEF DrainComplete
<1> QED BY <1>3, <1>4, <1>5

\* RegisterUserConnection, accepted within the limit or refused.
LEMMA RegisterRegistry ==
  ASSUME Typed, SessionInv, RegistryInv, NEW r \in Requests, Register(r)
  PROVE  RegistryInv'
<1> USE DEF RegistryInv, At
<1> DEFINE u == req[r].user
<1>0. req[r].pc = "setup" /\ UNCHANGED <<closeFns, stage>> /\ u \in Users
  BY DEF Register, shutdown, Typed, RequestsTyped, IsRequest
<1>1. CASE ~Admissible(r)
  <2>1. Finishes(r) /\ UNCHANGED <<conns, active, open>>
    BY <1>1, EndEnds DEF Register, Typed
  <2> QED BY <1>0, <2>1, MovesStays, QuietRegistry DEF Typed
<1>2. CASE Admissible(r)
  <2>1. /\ \A q \in Requests \ {r} : req'[q] = req[q]
        /\ req'[r].pc = "live" /\ req'[r].user = u
        /\ conns' = [conns EXCEPT ![u] = @ \cup {r}] /\ active' = active + 1 /\ open' = open \cup {r}
    BY <1>2, GotoMoves DEF Register, Moves, Others, Typed
  <2>2. conns \in [Users -> SUBSET Requests] /\ active \in Int
    BY DEF Typed, RegistryTyped
  <2>3. conns'[u] = conns[u] \cup {r} /\ \A w \in Users \ {u} : conns'[w] = conns[w]
    BY <1>0, <2>1, <2>2
  <2>4. stage = "up"
    BY <1>2 DEF Admissible, SessionInv, Stages
  <2>5. active' = Cardinality({q \in Requests : req'[q].pc = "live"})
    <3>1. /\ {q \in Requests : req'[q].pc = "live"} = LiveOnes \cup {r} /\ r \notin LiveOnes
          /\ LiveOnes \subseteq Requests
      BY <1>0, <2>1 DEF LiveOnes
    <3>2. Cardinality(LiveOnes \cup {r}) = Cardinality(LiveOnes) + 1
      BY <3>1, RequestsFinite, FS_AddElement
    <3> QED BY <2>1, <3>1, <3>2 DEF RegistryExact, LiveOnes
  <2>6. Limit > 0 => Cardinality(conns'[u]) <= Limit
    <3>1. IsFiniteSet(conns[u]) /\ (Limit > 0 => Cardinality(conns[u]) < Limit) /\ r \notin conns[u]
      BY <1>0, <1>2, <2>2, RequestsFinite DEF Admissible, RegistryExact
    <3>2. Cardinality(conns[u] \cup {r}) = Cardinality(conns[u]) + 1 /\ Cardinality(conns[u]) \in Nat
      BY <3>1, FS_AddElement, FS_CardinalityType
    <3> QED BY SMTT(30), <2>3, <3>1, <3>2, LimitHolds
  <2>7. RegistryExact'
    <3>1. \A w \in Users : \A q \in conns'[w] : q \in Requests /\ req'[q].pc = "live" /\ req'[q].user = w
      BY SMTT(30), <1>0, <2>1, <2>3 DEF RegistryExact
    <3>2. \A w \in Users : Limit > 0 => Cardinality(conns'[w]) <= Limit
      BY <2>3, <2>6 DEF RegistryExact
    <3>3. open' \subseteq {q \in Requests : req'[q].pc = "live"}
      BY SMTT(30), <1>0, <2>1 DEF RegistryExact
    <3> QED BY <2>5, <3>1, <3>2, <3>3 DEF RegistryExact
  <2>8. OpenIsHeld'
    <3>1. ASSUME NEW q \in open' PROVE q \in conns'[req'[q].user] \/ InHand(q)'
      <4>1. CASE q = r
        BY <2>1, <2>3, <4>1
      <4>2. CASE q # r
        <5>1. q \in open /\ req'[q] = req[q] /\ req[q].user \in Users
          BY <2>1, <3>1, <4>2 DEF RegistryExact, Typed, RequestsTyped, IsRequest
        <5>2. InHand(q) => InHand(q)'
          BY <1>0, <2>1 DEF InHand
        <5> QED BY <2>3, <5>1, <5>2 DEF OpenIsHeld
      <4> QED BY <4>1, <4>2
    <3> QED BY <3>1 DEF OpenIsHeld
  <2>9. DrainComplete' /\ (stage' = "up" => closeFns' = {})
    BY <1>0, <2>4 DEF DrainComplete
  <2> QED BY <2>7, <2>8, <2>9
<1> QED BY <1>1, <1>2

\* The handler of a closed transport leaves the table and the count.
LEMMA UnregisterRegistry ==
  ASSUME Typed, RegistryInv, NEW r \in Requests, Unregister(r)
  PROVE  RegistryInv'
<1> USE DEF RegistryInv, At
<1> DEFINE u == req[r].user
<1>0. /\ req[r].pc = "live" /\ r \notin open /\ UNCHANGED <<closeFns, stage, open>> /\ u \in Users
      /\ conns' = [conns EXCEPT ![u] = @ \ {r}] /\ active' = active - 1
  BY DEF Unregister, shutdown, Typed, RequestsTyped, IsRequest
<1>1. req'[r].pc = "idle" /\ \A q \in Requests \ {r} : req'[q] = req[q]
  BY SMTT(30), EndEnds DEF Unregister, Finishes, Others, Idle, Typed
<1>2. conns \in [Users -> SUBSET Requests]
  BY DEF Typed, RegistryTyped
<1>3. conns'[u] = conns[u] \ {r} /\ \A w \in Users \ {u} : conns'[w] = conns[w]
  BY <1>0, <1>2
<1>4. active' = Cardinality({q \in Requests : req'[q].pc = "live"})
  <2>1. {q \in Requests : req'[q].pc = "live"} = LiveOnes \ {r} /\ r \in LiveOnes /\ LiveOnes \subseteq Requests
    BY <1>0, <1>1 DEF LiveOnes
  <2>2. Cardinality(LiveOnes \ {r}) = Cardinality(LiveOnes) - 1
    BY <2>1, RequestsFinite, FS_RemoveElement
  <2> QED BY <1>0, <2>1, <2>2 DEF RegistryExact, LiveOnes
<1>5. \A w \in Users : Limit > 0 => Cardinality(conns'[w]) <= Limit
  <2>1. IsFiniteSet(conns[u]) /\ (Limit > 0 => Cardinality(conns[u]) <= Limit)
    BY <1>0, <1>2, RequestsFinite DEF RegistryExact
  <2>2. Limit > 0 => Cardinality(conns[u] \ {r}) <= Limit
    <3>1. CASE r \notin conns[u]
      <4>1. conns[u] \ {r} = conns[u]
        BY <3>1
      <4> QED BY <2>1, <4>1
    <3>2. CASE r \in conns[u]
      <4>1. Cardinality(conns[u] \ {r}) = Cardinality(conns[u]) - 1 /\ Cardinality(conns[u]) \in Nat
        BY <2>1, <3>2, FS_RemoveElement, FS_CardinalityType
      <4> QED BY SMTT(30), <2>1, <4>1, LimitHolds
    <3> QED BY <3>1, <3>2
  <2> QED BY <1>3, <2>2 DEF RegistryExact
<1>6. RegistryExact'
  <2>1. \A w \in Users : \A q \in conns'[w] : q \in Requests /\ req'[q].pc = "live" /\ req'[q].user = w
    BY SMTT(30), <1>0, <1>1, <1>3 DEF RegistryExact
  <2>2. open' \subseteq {q \in Requests : req'[q].pc = "live"}
    BY SMTT(30), <1>0, <1>1 DEF RegistryExact
  <2> QED BY <1>4, <1>5, <2>1, <2>2 DEF RegistryExact
<1>7. OpenIsHeld'
  <2>1. ASSUME NEW q \in open PROVE q \in conns'[req'[q].user] \/ InHand(q)'
    <3>1. q # r /\ req'[q] = req[q] /\ req[q].user \in Users
      BY <1>0, <1>1, <2>1 DEF RegistryExact, Typed, RequestsTyped, IsRequest
    <3>2. InHand(q) => InHand(q)'
      BY <1>0, <1>1 DEF InHand
    <3> QED BY <1>3, <2>1, <3>1, <3>2 DEF OpenIsHeld
  <2> QED BY <1>0, <2>1 DEF OpenIsHeld
<1>8. DrainComplete' /\ (stage' = "up" => closeFns' = {})
  BY <1>0, <1>1 DEF DrainComplete
<1> QED BY <1>6, <1>7, <1>8

\* CloseAllConnections takes all tables over, and reports a drain only at a
\* count of zero.
LEMMA ShutdownRegistry ==
  ASSUME Typed, RegistryInv, CloseAllConnections \/ Drained
  PROVE  RegistryInv'
<1> USE DEF RegistryInv, At
<1>0. UNCHANGED <<req, open, active>>
  BY DEF CloseAllConnections, Drained, registry
<1>1. CASE CloseAllConnections
  <2>1. conns \in [Users -> SUBSET Requests] /\ \A u \in Users : conns'[u] = {}
    BY <1>1 DEF CloseAllConnections, Typed, RegistryTyped
  <2>2. \A u \in Users : conns[u] \subseteq closeFns'
    BY <1>1, <2>1 DEF CloseAllConnections, Range
  <2>3. RegistryExact'
    BY <1>0, <2>1, LimitHolds DEF RegistryExact
  <2>4. OpenIsHeld'
    <3>1. ASSUME NEW q \in open PROVE InHand(q)'
      <4>1. req[q].user \in Users /\ closeFns = {}
        BY <1>1, <3>1 DEF CloseAllConnections, RegistryExact, Typed, RequestsTyped, IsRequest
      <4> QED BY <1>0, <2>2, <3>1, <4>1 DEF OpenIsHeld, InHand
    <3> QED BY <1>0, <3>1 DEF OpenIsHeld
  <2> QED BY <1>1, <2>3, <2>4 DEF CloseAllConnections, DrainComplete
<1>2. CASE Drained
  <2>1. UNCHANGED <<conns, closeFns>> /\ stage' # "up"
    BY <1>2 DEF Drained, registry
  <2>2. active = 0 => \A r \in Requests : req[r].pc # "live"
    <3>1. IsFiniteSet(LiveOnes) /\ active = Cardinality(LiveOnes)
      BY RequestsFinite DEF LiveOnes, RegistryExact
    <3>2. active = 0 => LiveOnes = {}
      BY <3>1, FS_EmptySet
    <3> QED BY <3>2 DEF LiveOnes
  <2> QED BY SMTT(30), <1>0, <1>2, <2>1, <2>2 DEF Drained, RegistryExact, OpenIsHeld, InHand, DrainComplete
<1> QED BY <1>1, <1>2

\* No step of a handler, and none of the shutdown, makes the registry inexact.
LEMMA KeepsRegistry ==
  ASSUME Typed, SessionInv, RegistryInv, Next
  PROVE  RegistryInv'
<1>0. RequestsTyped /\ StoreTyped
  BY DEF Typed
<1>1. ASSUME NEW r \in Requests, NEW u \in plan.users, NEW old \in 0 .. nextTok - 1, CreateSession(r, u, old),
             UNCHANGED now
      PROVE  RegistryInv'
  <2>1. \A q \in Requests : Stays(q)
    <3> DEFINE rec == [Idle EXCEPT !.pc = "save", !.user = u, !.tok = nextTok,
                           !.data = [user |-> u, deadline |-> now + TTL, grants |-> <<>>]]
    <3>1. rec.pc # "live"
      BY <1>1 DEF Idle
    <3>2. Arrives(r, rec) /\ At(r, "idle")
      BY <1>1, <1>0, BeginArrives DEF CreateSession
    <3> HIDE DEF rec
    <3> QED BY <1>1, <3>1, <3>2, ArrivesStays DEF CreateSession, registry
  <2> QED BY <1>1, <2>1, QuietRegistry DEF CreateSession, sessions, registry, shutdown, bounds
<1>2. ASSUME NEW r \in Requests, NEW t \in DOMAIN store, NEW kind \in {"logout", "roam", "console"},
             BeginWith(r, kind, t), UNCHANGED now
      PROVE  RegistryInv'
  <2>1. \A q \in Requests : Stays(q)
    <3> DEFINE rec == [Idle EXCEPT !.pc = kind, !.tok = t, !.user = store[t].user]
    <3>1. rec.pc # "live"
      BY <1>2 DEF Idle
    <3>2. Arrives(r, rec) /\ At(r, "idle")
      BY <1>2, <1>0, BeginArrives DEF BeginWith
    <3> HIDE DEF rec
    <3> QED BY <1>2, <3>1, <3>2, ArrivesStays DEF BeginWith, registry
  <2> QED BY <1>2, <2>1, QuietRegistry DEF BeginWith, sessions, registry, shutdown, bounds
<1>3. ASSUME NEW r \in Requests, NEW t \in DOMAIN store, NEW vm \in VMs, GrantRDPConnect(r, t, vm),
             UNCHANGED now
      PROVE  RegistryInv'
  <2>1. \A q \in Requests : Stays(q)
    <3> DEFINE rec == [Idle EXCEPT !.pc = "grant", !.tok = t, !.user = store[t].user, !.vm = vm, !.grant = nextGrant]
    <3>1. rec.pc # "live"
      BY <1>3 DEF Idle
    <3>2. Arrives(r, rec) /\ At(r, "idle")
      BY <1>3, <1>0, BeginArrives DEF GrantRDPConnect
    <3> HIDE DEF rec
    <3> QED BY <1>3, <3>1, <3>2, ArrivesStays DEF GrantRDPConnect, registry
  <2> QED BY <1>3, <2>1, QuietRegistry DEF GrantRDPConnect, sessions, registry, shutdown, bounds
<1>4. ASSUME NEW r \in Requests, NEW g \in Grants, NEW owner \in Users, RDPConnectTarget(r, g, owner),
             UNCHANGED now
      PROVE  RegistryInv'
  <2>1. \A q \in Requests : Stays(q)
    <3> DEFINE rec == IF Valid(g) THEN [Idle EXCEPT !.pc = "rdp", !.grant = g, !.user = owner] ELSE Idle
    <3>1. rec.pc # "live"
      BY <1>4 DEF Idle
    <3>2. Arrives(r, rec) /\ At(r, "idle")
      BY <1>4, <1>0, BeginArrives DEF RDPConnectTarget
    <3> HIDE DEF rec
    <3> QED BY <1>4, <3>1, <3>2, ArrivesStays DEF RDPConnectTarget, registry
  <2> QED BY <1>4, <2>1, QuietRegistry DEF RDPConnectTarget, sessions, registry, shutdown, bounds
<1>5. ASSUME NEW r \in Requests, SaveSession(r), UNCHANGED now PROVE RegistryInv'
  <2>1. \A q \in Requests : Stays(q)
    BY <1>0, <1>5, EndEnds, FailsLoses, MovesStays DEF SaveSession, At, registry
  <2> QED BY <1>5, <2>1, QuietRegistry DEF SaveSession, sessions, registry, shutdown, bounds
<1>6. ASSUME NEW r \in Requests, AuditExpired(r), UNCHANGED now PROVE RegistryInv'
  <2>1. \A q \in Requests : Stays(q)
    BY <1>0, <1>6, EndEnds, MovesStays DEF AuditExpired, At, registry
  <2> QED BY <1>6, <2>1, QuietRegistry DEF AuditExpired, sessions, registry, shutdown, bounds
<1>7. ASSUME NEW r \in Requests, DestroyAll(r), UNCHANGED now PROVE RegistryInv'
  <2>1. \A q \in Requests : Stays(q)
    BY <1>0, <1>7, DestroyAllMoves, MovesStays DEF DestroyAll, At, registry
  <2> QED BY <1>7, <2>1, QuietRegistry DEF DestroyAll, sessions, registry, shutdown, bounds
<1>8. ASSUME NEW r \in Requests, DestroyOne(r), UNCHANGED now PROVE RegistryInv'
  <2>1. \A q \in Requests : Stays(q)
    BY <1>0, <1>8, OneMoves, MovesStays DEF DestroyOne, At, registry
  <2> QED BY <1>8, <2>1, QuietRegistry DEF DestroyOne, sessions, registry, shutdown, bounds
<1>9. ASSUME NEW r \in Requests, DestroyDone(r), UNCHANGED now PROVE RegistryInv'
  <2>1. \A q \in Requests : Stays(q)
    BY <1>0, <1>9, GotoMoves, MovesStays DEF DestroyDone, At, registry
  <2> QED BY <1>9, <2>1, QuietRegistry DEF DestroyDone, sessions, registry, shutdown, bounds
<1>10. ASSUME NEW r \in Requests, DestroySession(r), UNCHANGED now PROVE RegistryInv'
  <2>1. \A q \in Requests : Stays(q)
    BY <1>0, <1>10, GotoMoves, MovesStays DEF DestroySession, At, registry
  <2> QED BY <1>10, <2>1, QuietRegistry DEF DestroySession, sessions, registry, shutdown, bounds
<1>11. ASSUME NEW r \in Requests, CloseUserConnections(r), UNCHANGED now PROVE RegistryInv'
  BY <1>0, <1>11, CloseUserRegistry
<1>12. ASSUME NEW r \in Requests, CloseOne(r), UNCHANGED now PROVE RegistryInv'
  <2>1. \A q \in Requests : Stays(q)
    <3>1. PICK x \in req[r].todo : open' = open \ {x} /\ req' = [req EXCEPT ![r].todo = @ \ {x}]
      BY <1>12 DEF CloseOne
    <3>2. Moves(r, "closing") /\ req'[r].todo = req[r].todo \ {x} /\ req[r].pc = "closing"
      BY <1>0, <1>12, <3>1, OneMoves DEF CloseOne, At
    <3> QED BY <3>1, <3>2 DEF Stays, Moves, Others
  <2> QED BY <1>12, <2>1, QuietRegistry DEF CloseOne, sessions, registry, shutdown, bounds
<1>13. ASSUME NEW r \in Requests, LogoutDone(r), UNCHANGED now PROVE RegistryInv'
  <2>1. \A q \in Requests : Stays(q)
    BY SMTT(30), <1>0, <1>13, EndEnds DEF LogoutDone, Finishes, Others, Stays, Idle, At, registry
  <2> QED BY <1>13, <2>1, QuietRegistry DEF LogoutDone, sessions, registry, shutdown, bounds
<1>14. ASSUME NEW r \in Requests, Claim(r), UNCHANGED now PROVE RegistryInv'
  <2>1. \A q \in Requests : Stays(q)
    BY <1>0, <1>14, GotoMoves, MovesStays DEF Claim, At, registry
  <2> QED BY <1>14, <2>1, QuietRegistry DEF Claim, sessions, registry, shutdown, bounds
<1>15. ASSUME NEW r \in Requests, Invalidate(r), UNCHANGED now PROVE RegistryInv'
  <2>1. \A q \in Requests : Stays(q)
    BY <1>0, <1>15, GotoMoves, EndEnds, MovesStays DEF Invalidate, At, registry
  <2> QED BY <1>15, <2>1, QuietRegistry DEF Invalidate, sessions, registry, shutdown, bounds
<1>16. ASSUME NEW r \in Requests, AuditRoamed(r), UNCHANGED now PROVE RegistryInv'
  <2>1. \A q \in Requests : Stays(q)
    BY <1>0, <1>16, EndEnds, MovesStays DEF AuditRoamed, At, registry
  <2> QED BY <1>16, <2>1, QuietRegistry DEF AuditRoamed, sessions, registry, shutdown, bounds
<1>17. ASSUME NEW r \in Requests, GrantLoad(r), UNCHANGED now PROVE RegistryInv'
  <2>1. \A q \in Requests : Stays(q)
    BY <1>0, <1>17, GrantLoadMoves, MovesStays DEF GrantLoad, At, registry
  <2> QED BY <1>17, <2>1, QuietRegistry DEF GrantLoad, sessions, registry, shutdown, bounds
<1>18. ASSUME NEW r \in Requests, GrantCommit(r), UNCHANGED now PROVE RegistryInv'
  <2>1. \A q \in Requests : Stays(q)
    BY <1>0, <1>18, EndEnds, FailsLoses, MovesStays DEF GrantCommit, At, registry
  <2> QED BY <1>18, <2>1, QuietRegistry DEF GrantCommit, sessions, registry, shutdown, bounds
<1>19. ASSUME NEW r \in Requests, ConsumeLoad(r), UNCHANGED now PROVE RegistryInv'
  <2>1. \A q \in Requests : Stays(q)
    BY <1>0, <1>19, ConsumeLoadMoves, MovesStays DEF ConsumeLoad, At, registry
  <2> QED BY <1>19, <2>1, QuietRegistry DEF ConsumeLoad, sessions, registry, shutdown, bounds
<1>20. ASSUME NEW r \in Requests, ConsumeCommit(r), UNCHANGED now PROVE RegistryInv'
  <2>1. \A q \in Requests : Stays(q)
    BY <1>0, <1>20, GotoMoves, FailsLoses, MovesStays DEF ConsumeCommit, At, registry
  <2> QED BY <1>20, <2>1, QuietRegistry DEF ConsumeCommit, sessions, registry, shutdown, bounds
<1>21. ASSUME NEW r \in Requests, Capture(r), UNCHANGED now PROVE RegistryInv'
  <2>1. \A q \in Requests : Stays(q)
    BY <1>0, <1>21, CaptureMoves, MovesStays DEF Capture, At, registry
  <2> QED BY <1>21, <2>1, QuietRegistry DEF Capture, sessions, registry, shutdown, bounds
<1>22. ASSUME NEW r \in Requests, Validate(r), UNCHANGED now PROVE RegistryInv'
  <2>1. \A q \in Requests : Stays(q)
    BY <1>0, <1>22, ValidateMoves, MovesStays DEF Validate, At, registry
  <2> QED BY <1>22, <2>1, QuietRegistry DEF Validate, sessions, registry, shutdown, bounds
<1>23. ASSUME NEW r \in Requests, Register(r), UNCHANGED now PROVE RegistryInv'
  BY <1>0, <1>23, RegisterRegistry
<1>24. ASSUME NEW r \in Requests, Unregister(r), UNCHANGED now PROVE RegistryInv'
  BY <1>0, <1>24, UnregisterRegistry
<1>25. ASSUME NEW r \in Requests, SetupFails(r), UNCHANGED now PROVE RegistryInv'
  <2>1. \A q \in Requests : Stays(q)
    BY <1>0, <1>25, EndEnds, MovesStays DEF SetupFails, At, registry
  <2> QED BY <1>25, <2>1, QuietRegistry DEF SetupFails, sessions, registry, shutdown, bounds
<1>26. ASSUME NEW r \in Requests, PeerLeaves(r), UNCHANGED now PROVE RegistryInv'
  <2>1. \A q \in Requests : Stays(q)
    BY <1>26 DEF PeerLeaves, Stays, registry
  <2> QED BY <1>0, <1>26, <2>1, QuietRegistry DEF PeerLeaves, sessions, registry, shutdown, bounds
<1>27. ASSUME Tick PROVE RegistryInv'
  <2>1. \A q \in Requests : Stays(q)
    BY <1>27 DEF Tick, Stays, registry
  <2> QED BY <1>0, <1>27, <2>1, QuietRegistry DEF Tick, sessions, registry, shutdown, bounds
<1>28. ASSUME NEW t \in Tokens, Expire(t) PROVE RegistryInv'
  <2>1. \A q \in Requests : Stays(q)
    BY <1>28 DEF Expire, Stays, registry
  <2> QED BY <1>0, <1>28, <2>1, QuietRegistry DEF Expire, sessions, registry, shutdown, bounds
<1>29. ASSUME NEW t \in Tokens, AuditTimeout(t) PROVE RegistryInv'
  <2>1. \A q \in Requests : Stays(q)
    BY <1>29 DEF AuditTimeout, Stays, registry
  <2> QED BY <1>0, <1>29, <2>1, QuietRegistry DEF AuditTimeout, sessions, registry, shutdown, bounds
<1>30. ASSUME CloseAllConnections PROVE RegistryInv'
  BY <1>0, <1>30, ShutdownRegistry
<1>31. ASSUME CloseDispatched PROVE RegistryInv'
  <2>1. \A q \in Requests : Stays(q)
    BY <1>31 DEF CloseDispatched, Stays, registry
  <2> QED BY <1>0, <1>31, <2>1, QuietRegistry DEF CloseDispatched, sessions, registry, shutdown, bounds
<1>32. ASSUME Drained PROVE RegistryInv'
  BY <1>0, <1>32, ShutdownRegistry
<1>33. ASSUME Close PROVE RegistryInv'
  <2>1. \A q \in Requests : Stays(q)
    BY <1>33 DEF Close, Stays, registry
  <2> QED BY <1>0, <1>33, <2>1, QuietRegistry DEF Close, sessions, registry, shutdown, bounds
<1>34. ASSUME CloseAuditSink PROVE RegistryInv'
  <2>1. \A q \in Requests : Stays(q)
    BY <1>34 DEF CloseAuditSink, Stays, registry
  <2> QED BY <1>0, <1>34, <2>1, QuietRegistry DEF CloseAuditSink, sessions, registry, shutdown, bounds
<1> QED BY <1>1, <1>2, <1>3, <1>4, <1>5, <1>6, <1>7, <1>8, <1>9, <1>10, <1>11, <1>12, <1>13, <1>14, <1>15,
           <1>16, <1>17, <1>18, <1>19, <1>20, <1>21, <1>22, <1>23, <1>24, <1>25, <1>26, <1>27, <1>28, <1>29,
           <1>30, <1>31, <1>32, <1>33, <1>34 DEF Next, Step, Arrive, Proceed
-----------------------------------------------------------------------------
(* The theorems.                                                           *)

StoreInv == Typed /\ SessionInv /\ TokenInv

\* At the start nobody is logged in.
LEMMA InitStore == Init => StoreInv
<1> SUFFICES ASSUME Init PROVE StoreInv
  OBVIOUS
<1>1. /\ DOMAIN store = {} /\ DOMAIN tracked = {} /\ DOMAIN index = {}
      /\ DOMAIN req = Requests /\ \A r \in Requests : req[r] = Idle
  BY SMTT(30) DEF Init
<1>2. \A r \in Requests : req[r].pc = "idle"
  BY SMTT(30), <1>1 DEF Idle
<1>3. Bounded
  BY SMTT(30), PlansAssumption DEF Init, Bounded, Tokens, Grants
<1>4. StoreTyped /\ IndexTyped
  BY <1>1 DEF Init, StoreTyped, IndexTyped
<1>5. RequestsTyped
  <2>1. IsRequest(Idle)
    BY SMTT(30) DEF IsRequest, Idle, Fields
  <2> QED BY <1>1, <2>1 DEF RequestsTyped
<1>6. RegistryTyped
  <2>1. generation \in [Users -> Nat] /\ conns \in [Users -> SUBSET Requests] /\ active \in Int
    BY SMTT(30) DEF Init
  <2>2. closeFns = {} /\ open = {} /\ outdated = {} /\ closing = FALSE
    BY DEF Init
  <2>3. closing \in BOOLEAN
    BY <2>2
  <2> QED BY <2>1, <2>2, <2>3 DEF RegistryTyped
<1>7. Ends
  BY <1>2 DEF Init, Ends, Unrecorded, Records, Tokens
<1>8. SessionInv
  BY <1>1, <1>2, <1>7 DEF Init, SessionInv, Locked, Holding, TimersMatch, NeverResurrected, Fresh, FromStore,
     Seen, Held,
              Stages, NoAuditAfterSink, At
<1>9. TokenInv
  <2>1. \A g : g \notin Granted(store)
    BY <1>1, GrantedIds
  <2> QED BY <1>1, <1>2, <2>1 DEF Init, TokenInv, Unique, NewToken, Granting, Saves, NewSession, At
<1> QED BY <1>3, <1>4, <1>5, <1>6, <1>8, <1>9 DEF StoreInv, Typed

\* StoreInv is kept where nothing happens.
LEMMA StutterStore == ASSUME StoreInv, UNCHANGED vars PROVE StoreInv'
<1>1. UNCHANGED <<plan, now, store, tracked, closed, auditing, lock, index, generation, conns, active, closing, open, closeFns,
                  stage, req, nextTok, nextGrant, dead, explicit, recorded, gone, uses, outdated>>
  BY DEF vars, sessions, registry, shutdown, bounds
<1>2. Typed'
  BY <1>1 DEF StoreInv, Typed, Bounded, Tokens, Grants, StoreTyped, IsSession, IndexTyped, RequestsTyped,
     IsRequest, RegistryTyped
<1>3. SessionInv'
  <2>1. Gone /\ \A q \in Requests : Keeps(q)
    BY <1>1 DEF Gone, Keeps
  <2> QED BY <1>1, <2>1, QuietSessions DEF StoreInv
<1>4. TokenInv'
  <2>1. GoneTokens /\ Loses({}) /\ \A q \in Requests : KeepsToken(q)
    BY <1>1, Unchanged DEF GoneTokens, KeepsToken, Keeps
  <2> QED BY <1>1, <1>3, <2>1, LoseTokens DEF StoreInv, SessionInv
<1> QED BY <1>2, <1>3, <1>4 DEF StoreInv

\* What the state of the sessions and of the tokens always satisfies.
LEMMA StoreHolds == Spec => []StoreInv
<1>1. StoreInv /\ [Next]_vars => StoreInv'
  <2>1. CASE Next
    <3>1. StoreInv /\ Next => Typed' /\ SessionInv'
      BY KeepsTyped, KeepsSessions DEF StoreInv, SessionInv, TokenInv
    <3> QED BY <2>1, <3>1, KeepsTokens DEF StoreInv
  <2>2. CASE UNCHANGED vars
    BY <2>2, StutterStore
  <2> QED BY <2>1, <2>2
<1> QED BY <1>1, InitStore, PTL DEF Spec

\* An RDP token is spent once, for any number of requests, sessions and tokens:
\* consumeRDPConnectGrant takes it out of the session under sessionsMu in the
\* step that authorizes the connection, and a token that was consumed, replaced
\* (indexRDPConnectGrant) or lost with its session is in no session again.
THEOREM TokensSpentOnce == Spec => SpentOnce
<1>1. StoreInv /\ StoreInv' /\ [Next]_vars =>
        [ /\ gone \cap Granted(store') = {}
          /\ \A g \in Grants : uses'[g] # uses[g] => g \in Granted(store) \ Granted(store') ]_vars
  <2>1. SUFFICES ASSUME StoreInv, StoreInv', Next
                 PROVE  /\ gone \cap Granted(store') = {}
                        /\ \A g \in Grants : uses'[g] # uses[g] => g \in Granted(store) \ Granted(store')
    OBVIOUS
  <2>2. gone \subseteq gone' /\ gone' \cap Granted(store') = {}
    BY <2>1 DEF StoreInv, TokenInv, Next, History
  <2> QED BY <2>1, <2>2, UseConsumes DEF StoreInv
<1> QED BY <1>1, StoreHolds, PTL DEF Spec, SpentOnce

\* Everything that is shown of the gateway's sessions, tokens and connections.
GatewayInv == StoreInv /\ RegistryInv /\ LogoutInv

\* At the start nobody is connected.
LEMMA InitGateway == Init => RegistryInv /\ LogoutInv
<1> SUFFICES ASSUME Init PROVE RegistryInv /\ LogoutInv
  OBVIOUS
<1>1. /\ DOMAIN store = {} /\ DOMAIN index = {} /\ open = {} /\ outdated = {} /\ active = 0
      /\ stage = "up" /\ closeFns = {}
  BY SMTT(30) DEF Init
<1>2. \A r \in Requests : req[r] = Idle
  BY DEF Init
<1>3. \A r \in Requests : req[r].pc = "idle" /\ req[r].before = {}
  BY SMTT(30), <1>2 DEF Idle
<1>4. \A u \in Users : conns[u] = {}
  BY DEF Init
<1>5. RegistryExact
  <2>1. {r \in Requests : At(r, "live")} = {}
    BY <1>3 DEF At
  <2> QED BY <1>1, <1>4, <2>1, LimitHolds, FS_EmptySet DEF RegistryExact
<1>6. RegistryInv
  BY <1>1, <1>5 DEF RegistryInv, OpenIsHeld, DrainComplete
<1>7. Owners
  BY <1>1, <1>3 DEF Owners, Owned, Named, Seen
<1>8. Generations /\ Revoking
  BY <1>3 DEF Generations, IsConnection, Revoking, LoggingOut
<1> QED BY <1>1, <1>3, <1>6, <1>7, <1>8 DEF LogoutInv, At

\* The invariants are kept where nothing happens.
LEMMA StutterGateway ==
  ASSUME GatewayInv, StoreInv', UNCHANGED vars
  PROVE  RegistryInv' /\ LogoutInv'
<1>1. UNCHANGED <<plan, now, store, index, generation, conns, active, closing, open, closeFns, stage, req, dead, gone, outdated>>
  BY DEF vars, sessions, registry, shutdown, bounds
<1>2. RegistryInv'
  <2>1. \A q \in Requests : Stays(q)
    BY <1>1 DEF Stays
  <2> QED BY <1>1, <2>1, QuietRegistry DEF GatewayInv
<1>3. History
  <2>1. \A q \in outdated : req[q].pc # "idle"
    BY DEF GatewayInv, LogoutInv, Revoked, IsConnection
  <2>2. {x \in Requests : At(x, "closing") /\ req'[x].pc = "idle"} = {}
    BY <1>1 DEF At
  <2>3. UNION {req[r].before : r \in {x \in Requests : At(x, "closing") /\ req'[x].pc = "idle"}} = {}
    BY <2>2
  <2>4. outdated' = (outdated \cup UNION {req[r].before : r \in {x \in Requests : At(x, "closing") /\ req'[x].pc = "idle"}})
                      \ {r \in Requests : req'[r].pc = "idle"}
    BY <1>1, <2>1, <2>3
  <2>5. dead' = dead \cup (DOMAIN store \ DOMAIN store') /\ gone' = gone \cup (Granted(store) \ Granted(store'))
    BY <1>1
  <2> QED BY <1>1, <2>4, <2>5 DEF History
<1>4. LogoutInv'
  <2>1. SameSessions
    BY <1>1 DEF SameSessions
  <2>2. now' \in Nat /\ now <= now' /\ RequestsTyped'
    BY SMTT(30), <1>1 DEF GatewayInv, StoreInv, Typed, Bounded
  <2> QED BY <1>1, <1>3, <2>1, <2>2, StayLogouts DEF GatewayInv, StoreInv
<1> QED BY <1>2, <1>4

\* What the state of the gateway always satisfies.
LEMMA GatewayHolds == Spec => []GatewayInv
<1>1. Init => GatewayInv
  BY InitStore, InitGateway DEF GatewayInv
<1>2. GatewayInv /\ StoreInv' /\ [Next]_vars => GatewayInv'
  <2>1. ASSUME GatewayInv, StoreInv', Next PROVE GatewayInv'
    <3>1. Typed /\ Typed' /\ SessionInv /\ TokenInv /\ RegistryInv /\ LogoutInv
      BY <2>1 DEF GatewayInv, StoreInv
    <3> QED BY <2>1, <3>1, KeepsRegistry, KeepsLogouts DEF GatewayInv
  <2>2. ASSUME GatewayInv, StoreInv', UNCHANGED vars PROVE GatewayInv'
    BY <2>2, StutterGateway DEF GatewayInv
  <2> QED BY <2>1, <2>2
<1> QED BY <1>1, <1>2, StoreHolds, PTL DEF Spec

\* The registry of connections is exact for any number of requests, users and
\* sessions and any userConnectionLimit: RegisterUserConnection and the
\* unregister function count every live handler and only those, and a logout
\* (DestroyAllSessionsForUser, then CloseUserConnections) leaves no transport of
\* an older request open that another caller is not about to close.
THEOREM RegistryAccounts == Spec => []ConnectionsAccounted
<1>1. GatewayInv => ConnectionsAccounted
  <2> SUFFICES ASSUME GatewayInv PROVE ConnectionsAccounted
    OBVIOUS
  <2>1. RegistryExact
    BY DEF GatewayInv, RegistryInv
  <2>2. LogoutEndsConnections
    BY DEF GatewayInv, RegistryInv, OpenIsHeld, InHand, LogoutInv, Revoked, LogoutEndsConnections
  <2> QED BY <2>1, <2>2 DEF ConnectionsAccounted
<1> QED BY <1>1, GatewayHolds, PTL

\* Sessions and the gateway end in order, for any number of requests, users and
\* sessions and any timeouts: a session that left sessionExpiryStore is not
\* committed again, its end is recorded once whoever takes it out of tracking,
\* CloseAllConnections reports success only when no handler is live, and the
\* audit sink is closed after the last expiry record.
THEOREM EndsInOrder == Spec => []EndsOrderly
<1>1. GatewayInv => EndsOrderly
  <2> SUFFICES ASSUME GatewayInv PROVE EndsOrderly
    OBVIOUS
  <2>1. NeverResurrected /\ NoAuditAfterSink /\ Ends /\ Typed /\ DrainComplete
    BY DEF GatewayInv, StoreInv, SessionInv, RegistryInv
  <2>2. EndRecordedOnce
    BY <2>1, EndCounted DEF EndRecordedOnce
  <2> QED BY <2>1, <2>2 DEF EndsOrderly
<1> QED BY <1>1, GatewayHolds, PTL
=============================================================================
