------------------------- MODULE VMLifecycleProofs --------------------------
(***************************************************************************)
(* The safety of VMLifecycle. A step of a goroutine at work keeps the      *)
(* invariant of every other goroutine and name (CarriedLife) and of the    *)
(* quota (QuotaKept, and the actions that count); with VMRequestsProofs,   *)
(* Safe is an inductive invariant, and the properties the model is checked *)
(* for follow from it.                                                     *)
(***************************************************************************)
EXTENDS VMRequestsProofs

\* The default prover is Zenon; SMT is cited where a leaf needs arithmetic or
\* the fields of a record.
USE ZenonT(40)

-----------------------------------------------------------------------------
(* What a step at work means for the rest.                                 *)

\* A step of p at work, which may report its creation or begin a removal.
Carried(p) ==
  /\ Touch(p) /\ UNCHANGED <<phase, todo>> /\ UNCHANGED mutexVars
  /\ Turned(req[p], Here(p), req'[p], Here(p)', created', Live', troubled', Name(p) \in plan.foreign)
  /\ removed \subseteq removed' /\ created \subseteq created'
  /\ \A i \in created' \ created : i = req[p].id /\ req[p].op = "create" /\ Here(p)'.dom.id = i

\* A goroutine at work is none that rests, waits or leaves.
LEMMA Worker ==
  ASSUME NEW p \in Procs, req[p].pc \in Work
  PROVE  ~At(p, "idle") /\ ~At(p, "lock") /\ ~At(p, "leave")
BY SMTT(30) DEF At, Work, Deciding, Making, Building, Undoing

\* Only p's own creation is reported, and only p's name has its domain.
LEMMA OthersKeep ==
  ASSUME Safe, NEW p \in Procs, req[p].pc \in Work, Carried(p), NEW n \in Keys, n # Name(p)
  PROVE  host'[n] = host[n] /\ (host[n].dom.id \in Live' => host[n].dom.id \in Live)
<1>1. host'[n] = host[n]
  BY DEF Carried, Touch
<1>2. ~At(p, "idle")
  BY Worker
<1>3. ASSUME host[n].dom.id \in Live' PROVE host[n].dom.id \in Live
  <2>1. host[n].dom.id \notin removed
    BY <1>3 DEF Live, Carried
  <2>2. CASE host[n].dom.id \in created
    BY <2>1, <2>2 DEF Live
  <2>3. CASE host[n].dom.id \notin created
    <3>1. host[n].dom.id = req[p].id /\ req[p].op = "create"
      BY <1>3, <2>3 DEF Carried, Live
    <3> QED BY <1>2, <3>1 DEF Safe, LifeInv, Ids, Creating
  <2> QED BY <2>2, <2>3
<1> QED BY <1>1, <1>3

\* A step at work keeps the invariant of the machines.
LEMMA CarriedLife ==
  ASSUME Safe, NEW p \in Procs, req[p].pc \in Work, Carried(p)
  PROVE  LifeInv'
<1>1. Linked' /\ Phases' /\ Rest'
  <2>1. /\ \A q \in Procs : q # p => req'[q] = req[q]
        /\ req'[p].pc \in Work /\ req'[p].op = req[p].op /\ req'[p].name = req[p].name
        /\ phase' = phase /\ todo' = todo /\ turn' = turn /\ want' = want
        /\ troubled => troubled'
    BY DEF Carried, Touch, Turned, mutexVars, Name
  <2>2. /\ ~At(p, "idle") /\ ~At(p, "lock") /\ ~At(p, "leave")
    BY Worker
  <2>3. /\ req'[p].pc # "idle" /\ req'[p].pc # "lock" /\ req'[p].pc # "leave"
    BY <2>1, SMTT(30) DEF Work, Deciding, Making, Building, Undoing
  <2>4. Linked'
    <3> SUFFICES ASSUME NEW q \in Procs
                 PROVE  /\ turn'[q] = "out" <=> req'[q].pc = "idle"
                        /\ turn'[q] = "waiting" <=> req'[q].pc = "lock"
                        /\ turn'[q] = "leaving" <=> req'[q].pc = "leave"
                        /\ req'[q].pc # "idle" => want'[q] = req'[q].name
      BY DEF Linked, At, Name
    <3>1. /\ turn[q] = "out" <=> At(q, "idle")
          /\ turn[q] = "waiting" <=> At(q, "lock")
          /\ turn[q] = "leaving" <=> At(q, "leave")
          /\ ~At(q, "idle") => want[q] = Name(q)
      BY DEF Safe, LifeInv, Linked
    <3>2. CASE q = p
      BY <2>1, <2>2, <2>3, <3>1, <3>2 DEF Name
    <3>3. CASE q # p
      BY <2>1, <3>1, <3>3 DEF At, Name
    <3> QED BY <3>2, <3>3
  <2>5. Phases'
    <3>1. Phases
      BY DEF Safe, LifeInv
    <3>2. phase' # "up" => \A q \in Requests : req'[q].pc = "idle"
      BY <2>1, <2>2, <3>1 DEF Phases, At, Requests
    <3>3. phase' # "booting" => req'[Boot].pc = "idle" /\ todo' = {}
      BY <2>1, <2>2, <3>1, VMAssumption DEF Phases, At
    <3>4. \A q \in Procs : req'[q].op = "recover" => q = Boot
      BY <2>1, <3>1 DEF Phases
    <3>5. req'[Boot].pc # "idle" => req'[Boot].op = "recover"
      BY <2>1, <2>2, <3>1, VMAssumption DEF Phases, At
    <3> QED BY <3>2, <3>3, <3>4, <3>5 DEF Phases, At, Requests
  <2>6. Rest'
    <3> SUFFICES ASSUME phase' # "down", ~troubled', NEW n \in Keys \ todo', \A q \in Procs : ~Busy(q, n)'
                 PROVE  host'[n].dom.state = "ready"
      BY DEF Rest
    <3>1. n # Name(p)
      BY <2>1 DEF Busy, Name
    <3>2. \A q \in Procs : ~Busy(q, n)
      BY <2>1, <3>1 DEF Busy, At, Name
    <3>3. host[n].dom.state = "ready"
      BY <2>1, <3>2 DEF Safe, LifeInv, Rest
    <3> QED BY <3>1, <3>3, OthersKeep
  <2> QED BY <2>4, <2>5, <2>6
<1>2. Ids'
  <2>1. /\ \A q \in Procs : q # p => req'[q] = req[q]
        /\ req'[p].pc \in Work /\ req'[p].op = req[p].op /\ req'[p].name = req[p].name
        /\ req[p].op = "create" => req'[p].id = req[p].id
        /\ plan'.requests = plan.requests /\ Name(p) \in Keys
    BY Holds DEF Carried, Touch, Turned, Name
  <2>2. ~At(p, "idle")
    BY Worker
  <2>3. req'[p].pc # "idle"
    BY <2>1, SMTT(30) DEF Work, Deciding, Making, Building, Undoing
  <2>4. \A q \in Procs : /\ Creating(q)' <=> Creating(q)
                         /\ Creating(q) => req'[q].id = req[q].id
                         /\ req'[q].name = Name(q)
    BY <2>1, <2>2, <2>3 DEF Creating, At, Name
  <2>5. /\ Ids /\ plan.requests \in Nat
    BY SMTT(30) DEF Safe, LifeInv, VMTyped, Courses
  <2>6. host'[Name(p)] = Here(p)'
    BY <2>1 DEF Here, Name
  <2>7. host'[Name(p)].dom.id \in {0, host[Name(p)].dom.id} \/ (host'[Name(p)].dom.id = req[p].id
            /\ Creating(p))
    <3>1. \/ Here(p)'.dom.id = 0 \/ Here(p)'.dom.id = Here(p).dom.id
          \/ Here(p)'.dom.id = req[p].id /\ Reserves(req[p])
      BY DEF Carried, Turned
    <3>2. Duty(req[p])
      BY DEF Safe, LifeInv, Local
    <3>3. Reserves(req[p]) => req[p].op = "create"
      BY SMTT(30), <3>2 DEF Duty, Reserves, Making, Building, Deciding
    <3> QED BY <2>2, <2>6, <3>1, <3>3 DEF Creating, Here
  <2>8. \A n \in Keys : n # Name(p) => host'[n] = host[n]
    BY OthersKeep
  <2>9. \A q \in Procs : Creating(q) => req[q].id > plan.requests /\ req[q].id # 0
    <3>1. \A q \in Procs : Creating(q) => req[q].id > plan.requests
      BY <2>5 DEF Ids
    <3>2. \A q \in Procs : req[q].id \in Nat
      BY SMTT(30) DEF Safe, VMTyped, Goroutines
    <3> QED BY SMTT(30), <2>5, <3>1, <3>2
  <2>10. \A q \in Procs : Creating(q)' => req'[q].id > plan'.requests
    BY <2>1, <2>4, <2>9
  <2>11. \A n \in Keys : host'[n].dom.id # 0 => host'[n].dom.id > plan'.requests
    <3> SUFFICES ASSUME NEW n \in Keys, host'[n].dom.id # 0 PROVE host'[n].dom.id > plan.requests
      BY <2>1
    <3>1. \A m \in Keys : host[m].dom.id # 0 => host[m].dom.id > plan.requests
      BY <2>5 DEF Ids
    <3>2. CASE n = Name(p)
      BY <2>7, <2>9, <3>1, <3>2
    <3>3. CASE n # Name(p)
      BY <2>8, <3>1, <3>3
    <3> QED BY <3>2, <3>3
  <2>12. \A i \in created' : i \in Nat /\ i > plan'.requests
    <3> SUFFICES ASSUME NEW i \in created' PROVE i \in Nat /\ i > plan.requests
      BY <2>1
    <3>1. CASE i \in created
      BY <2>5, <3>1 DEF Ids
    <3>2. CASE i \notin created
      <4>1. i = req[p].id /\ Creating(p)
        BY <2>2, <3>2 DEF Carried, Creating
      <4>2. req[p].id \in Nat
        BY SMTT(30) DEF Safe, VMTyped, Goroutines
      <4> QED BY <2>9, <4>1, <4>2
    <3> QED BY <3>1, <3>2
  <2>13. \A q, u \in Procs : Creating(q)' /\ Creating(u)' /\ req'[q].id = req'[u].id => q = u
    BY <2>4, <2>5 DEF Ids
  <2>14. \A q \in Procs, n \in Keys : Creating(q)' /\ host'[n].dom.id = req'[q].id => n = req'[q].name
    <3> SUFFICES ASSUME NEW q \in Procs, NEW n \in Keys, Creating(q), host'[n].dom.id = req[q].id
                 PROVE  n = Name(q)
      BY <2>4
    <3>1. host[n].dom.id = req[q].id => n = Name(q)
      BY <2>5 DEF Ids
    <3>2. CASE n # Name(p)
      BY <2>8, <3>1, <3>2
    <3>3. CASE n = Name(p) /\ host'[n].dom.id = req[p].id /\ Creating(p)
      BY <2>5, <3>3 DEF Ids
    <3>4. CASE n = Name(p) /\ host'[n].dom.id \in {0, host[n].dom.id}
      BY <2>9, <3>1, <3>4
    <3> QED BY <2>7, <3>2, <3>3, <3>4
  <2> QED BY <2>10, <2>11, <2>12, <2>13, <2>14 DEF Ids, Name
<1>3. Survivors'
  <2> SUFFICES ASSUME NEW i \in Live' PROVE \E n \in Keys : host'[n].dom.id = i
    BY DEF Survivors
  <2>1. Name(p) \in Keys /\ host'[Name(p)] = Here(p)'
    BY Holds DEF Carried, Touch, Here, Name
  <2>2. CASE i \in created
    <3>1. i \in Live
      BY <2>2 DEF Live, Carried
    <3>2. PICK n \in Keys : host[n].dom.id = i
      BY <3>1 DEF Safe, LifeInv, Survivors
    <3>3. CASE n = Name(p)
      <4>1. Here(p)'.dom.id = Here(p).dom.id
        BY <3>2, <3>3 DEF Carried, Turned, Here
      <4> QED BY <2>1, <3>2, <3>3, <4>1 DEF Here
    <3>4. CASE n # Name(p)
      BY <3>2, <3>4, OthersKeep
    <3> QED BY <3>3, <3>4
  <2>3. CASE i \notin created
    <3>1. Here(p)'.dom.id = i
      BY <2>3 DEF Live, Carried
    <3> QED BY <2>1, <3>1
  <2> QED BY <2>2, <2>3
<1>4. \A n \in Keys : Named(n)'
  <2> SUFFICES ASSUME NEW n \in Keys PROVE Keeps(host'[n], Live', n \in plan'.foreign)
    BY DEF Named
  <2>1. Name(p) \in Keys /\ host'[Name(p)] = Here(p)' /\ plan'.foreign = plan.foreign
    BY Holds DEF Carried, Touch, Here, Name
  <2>2. CASE n = Name(p)
    BY <2>1, <2>2 DEF Carried, Turned
  <2>3. CASE n # Name(p)
    <3>1. Keeps(host[n], Live, n \in plan.foreign)
      BY DEF Safe, LifeInv, Named
    <3>2. host'[n] = host[n] /\ (host[n].dom.id \in Live' => host[n].dom.id \in Live)
      BY <2>3, OthersKeep
    <3>3. Keeps(host[n], Live', n \in plan.foreign)
      BY <3>1, <3>2 DEF Keeps
    <3> QED BY <2>1, <3>2, <3>3
  <2> QED BY <2>2, <2>3
<1>5. \A q \in Procs : Local(q)'
  <2> SUFFICES ASSUME NEW q \in Procs PROVE Local(q)'
    OBVIOUS
  <2>1. /\ plan'.foreign = plan.foreign /\ req'[p].name = Name(p) /\ req'[p].op = req[p].op
        /\ req'[p].pc \in Work /\ Duty(req'[p]) /\ Fits(req'[p], Here(p)', created', Live', troubled')
        /\ troubled => troubled'
    BY DEF Carried, Touch, Turned
  <2>2. CASE q = p
    <3>1. ~At(p, "idle")
      BY Worker
    <3>2. req'[p].op = "remove" => Name(p) \notin plan.foreign
      BY <2>1, <3>1 DEF Safe, LifeInv, Local
    <3>3. req'[p].pc # "lock"
      BY <2>1, SMTT(30) DEF Work, Deciding, Making, Building, Undoing
    <3> QED BY <2>1, <2>2, <3>2, <3>3 DEF Local, At, Name
  <2>3. CASE q # p
    <3>1. req'[q] = req[q]
      BY <2>3 DEF Carried, Touch
    <3>2. Local(q)
      BY DEF Safe, LifeInv
    <3>3. Creating(q) => req[q].id \notin created' \ created
      <4> SUFFICES ASSUME Creating(q), req[q].id \in created' \ created PROVE FALSE
        OBVIOUS
      <4>1. req[q].id = req[p].id /\ req[p].op = "create"
        BY DEF Carried
      <4>2. Creating(p)
        BY <4>1, Worker DEF Creating
      <4> QED BY <2>3, <4>1, <4>2 DEF Safe, LifeInv, Ids
    <3>4. ASSUME req[q].pc \in Work PROVE Fits(req[q], host'[Name(q)], created', Live', troubled')
      <4>1. Name(q) # Name(p) /\ Name(q) \in Keys
        BY <2>3, <3>4, Alone, Holds
      <4>2. host'[Name(q)] = Here(q) /\ (Here(q).dom.id \in Live' => Here(q).dom.id \in Live)
        BY <4>1, OthersKeep DEF Here
      <4>3. Fits(req[q], Here(q), created, Live, troubled)
        BY <3>2, <3>4 DEF Local
      <4>4. req[q].op = "create" => Creating(q)
        BY <3>4, Worker DEF Creating
      <4>5. Spares(req[q], Here(q), created', Live')
        BY <3>3, <4>2, <4>3, <4>4 DEF Fits, Spares
      <4> QED BY <2>1, <4>2, <4>3, <4>5 DEF Fits
    <3>5. req[q].op = "create" /\ At(q, "lock") => req[q].id \notin created'
      <4>1. At(q, "lock") => ~At(q, "idle")
        BY DEF At
      <4> QED BY <3>2, <3>3, <4>1 DEF Local, Creating
    <3> QED BY <2>1, <3>1, <3>2, <3>4, <3>5 DEF Local, At, Name, Here
  <2> QED BY <2>2, <2>3
<1> QED BY <1>1, <1>2, <1>3, <1>4, <1>5 DEF LifeInv

-----------------------------------------------------------------------------
(* The quota.                                                              *)

\* Who holds a slot is at work.
LEMMA Reserving ==
  ASSUME Safe, NEW p \in Procs, Reserves(req[p])
  PROVE  req[p].pc \in Work /\ Name(p) \in Keys /\ Name(p) \in Reserved
<1>1. req[p].pc \in Work
  BY SMTT(30) DEF Reserves, Work, Making, Deciding, Undoing
<1>2. Name(p) \in Keys
  BY <1>1, Holds
<1> QED BY <1>1, <1>2 DEF Reserved

\* The other goroutines and their owners' names after a step of p.
LEMMA Bystanders ==
  ASSUME NEW p \in Procs, NEW q \in Procs, q # p, Touch(p)
  PROVE  req'[q] = req[q] /\ Name(q)' = Name(q) /\ Mine(q)' = Mine(q) /\ (At(q, "decide")' <=> At(q,
             "decide"))
<1>1. req'[q] = req[q]
  BY DEF Touch
<1> QED BY <1>1 DEF Mine, Name, At

\* A count is enough as long as it counts no fewer machines.
LEMMA CountedStill ==
  ASSUME Safe, NEW p \in Procs, NEW q \in Procs, q # p, Touch(p), At(q, "decide"),
         Mine(q) \cap (Existing' \ Reserved') \subseteq Mine(q) \cap (Existing \ Reserved)
  PROVE  Counted(q)'
<1>1. req'[q] = req[q] /\ Mine(q)' = Mine(q)
  BY Bystanders
<1>2. Mine(q) \cap (Existing \ Reserved) \subseteq Keys
  BY DEF Mine
<1>3. /\ Cardinality(Mine(q) \cap (Existing' \ Reserved')) \in Nat
      /\ Cardinality(Mine(q) \cap (Existing \ Reserved)) \in Nat
      /\ Cardinality(Mine(q) \cap (Existing' \ Reserved')) <= Cardinality(Mine(q) \cap (Existing \ Reserved))
  BY <1>2, Fewer
<1>4. Cardinality(Mine(q) \cap (Existing \ Reserved)) <= req[q].count
  BY DEF Safe, QuotaInv, Counted
<1>5. req[q].count \in Nat
  BY SMTT(30) DEF Safe, VMTyped, Goroutines
<1>6. Cardinality(Mine(q) \cap (Existing' \ Reserved')) <= req[q].count
  BY SMTT(30), <1>3, <1>4, <1>5
<1> QED BY <1>1, <1>6 DEF Counted

\* A step that neither takes nor returns a slot.
LEMMA QuotaKept ==
  ASSUME Safe, NEW p \in Procs, req[p].pc \in Work, Touch(p), inflight' = inflight,
         req'[p].pc # "decide", Reserves(req'[p]) <=> Reserves(req[p]),
         Here(p)'.dom.id # 0 => Here(p).dom.id # 0 \/ Reserves(req[p])
  PROVE  QuotaInv'
<1>1. \A q \in Procs : Name(q)' = Name(q) /\ (Reserves(req'[q]) <=> Reserves(req[q]))
  BY DEF Touch, Name
<1>2. Reserved' = Reserved
  BY <1>1 DEF Reserved
<1>3. Existing' \subseteq Existing \cup Reserved
  <2> SUFFICES ASSUME NEW n \in Keys, host'[n].dom.id # 0 PROVE n \in Existing \cup Reserved
    BY DEF Existing
  <2>1. CASE n # Name(p)
    BY <2>1 DEF Touch, Existing
  <2>2. CASE n = Name(p)
    <3>1. host'[n] = Here(p)'
      BY <2>2 DEF Touch, Here, Name
    <3> QED BY <2>2, <3>1, Reserving DEF Existing, Here
  <2> QED BY <2>1, <2>2
<1>4. Existing \subseteq Keys /\ Reserved \subseteq Keys
  BY DEF Existing, Reserved
<1>5. ASSUME NEW o \in DOMAIN inflight'
      PROVE  /\ inflight'[o] = Cardinality(OwnedBy(o) \cap Reserved')
             /\ Cardinality(OwnedBy(o) \cap (Existing' \cup Reserved')) <= Limit
  <2>1. /\ inflight[o] = Cardinality(OwnedBy(o) \cap Reserved)
        /\ Cardinality(OwnedBy(o) \cap (Existing \cup Reserved)) <= Limit
    BY <1>5 DEF Safe, QuotaInv
  <2>2. OwnedBy(o) \cap (Existing' \cup Reserved') \subseteq OwnedBy(o) \cap (Existing \cup Reserved)
    BY <1>2, <1>3
  <2>3. OwnedBy(o) \cap (Existing \cup Reserved) \subseteq Keys
    BY DEF OwnedBy
  <2>4. /\ Cardinality(OwnedBy(o) \cap (Existing' \cup Reserved')) \in Nat
        /\ Cardinality(OwnedBy(o) \cap (Existing \cup Reserved)) \in Nat
        /\ Cardinality(OwnedBy(o) \cap (Existing' \cup Reserved'))
             <= Cardinality(OwnedBy(o) \cap (Existing \cup Reserved))
    BY <2>2, <2>3, Fewer
  <2>5. Cardinality(OwnedBy(o) \cap (Existing' \cup Reserved')) <= Limit
    BY SMTT(30), <2>1, <2>4, VMAssumption
  <2> QED BY <1>2, <2>1, <2>5
<1>6. ASSUME NEW q \in Procs, req'[q].pc = "decide"
      PROVE  Counted(q)'
  <2>1. q # p
    BY <1>6
  <2>2. req'[q] = req[q] /\ Mine(q)' = Mine(q) /\ At(q, "decide")
    BY <1>6, <2>1, Bystanders DEF At
  <2>3. Mine(q) \cap (Existing' \ Reserved') \subseteq Mine(q) \cap (Existing \ Reserved)
    BY <1>2, <1>3
  <2> QED BY <2>1, <2>2, <2>3, CountedStill
<1>7. \A q, u \in Procs : req'[q].pc = "decide" /\ req'[u].pc = "decide"
          /\ Owner[Name(q)'] = Owner[Name(u)'] => q = u
  <2> SUFFICES ASSUME NEW q \in Procs, NEW u \in Procs, req'[q].pc = "decide", req'[u].pc = "decide",
                      Owner[Name(q)'] = Owner[Name(u)']
               PROVE  q = u
    OBVIOUS
  <2>1. q # p /\ u # p
    OBVIOUS
  <2>2. At(q, "decide") /\ At(u, "decide") /\ Owner[Name(q)] = Owner[Name(u)]
    BY <2>1, Bystanders DEF At
  <2> QED BY <2>2 DEF Safe, QuotaInv
<1> QED BY <1>5, <1>6, <1>7 DEF QuotaInv, At, OwnedBy, Name

\* The scan and the decision about the quota ...
LEMMA CountMoves ==
  ASSUME NEW r, NEW h, NEW s, NEW g, NEW made, NEW live, NEW was, NEW trouble, NEW foreign,
         Turn(r, h, s, g, made, live, was, trouble, foreign),
         \/ r.pc = "count" /\ s.pc = "decide"
         \/ r.pc = "count" /\ s.pc = "unlock"
         \/ r.pc = "decide" /\ s.pc \in {"plan", "unlock"}
         \/ r.pc = "slot" /\ s.pc = "unlock",
         g = h,
         Same(s, r)
  PROVE  Turned(r, h, s, g, made, live, trouble, foreign)
BY SMTT(30) DEF Moved, Turned, Turn, Same, Calls, Gives, Duty, Fits, Progress, Spares, Tidy,
   Reserves, Work, Deciding, Building, Making, Undoing, Goroutines, Keeps, Sound, Complete,
   NoDomain, NoVolume, ForeignVolume, Hosts, Domains, Volumes

\* The types after a step at work.
LEMMA Types ==
  ASSUME Safe, NEW p \in Procs, req[p].pc \in Work, Touch(p), UNCHANGED <<phase, todo>>,
         inflight' \in [{Owner[n] : n \in Keys} -> Nat]
  PROVE  VMTyped'
BY DEF Safe, VMTyped, Touch

\* countDomainsOwnedBy.
LEMMA CountOwnedStep ==
  ASSUME Safe, NEW p \in Procs, CountOwned(p)
  PROVE  /\ Touch(p)
         /\ Turned(req[p], Here(p), req'[p], Here(p)', created, Live, troubled', Name(p) \in plan.foreign)
         /\ QuotaInv'
<1>1. "count" \in Work /\ "decide" \in Work /\ "unlock" \in Work
  BY Labels
<1>2. /\ req[p].pc = "count" /\ req[p].pc \in Work /\ Here(p) \in Hosts /\ req[p] \in Goroutines
      /\ {Here(p)} \in SUBSET Hosts /\ Name(p) \in Keys /\ Duty(req[p])
  BY <1>1, AtWork DEF CountOwned
<1>3. ~Reserves(req[p]) /\ ~req[p].own
  BY SMTT(30), <1>2 DEF Reserves, Making, Building, Undoing, Duty, Deciding
<1>4. inflight' = inflight
  BY DEF CountOwned, Still
<1>5. CASE Fails(p, {Here(p)}, "unlock")
  <2>1. Turns(p) /\ req'[p].pc = "unlock" /\ Same(req'[p], req[p]) /\ Here(p)' = Here(p)
    BY <1>1, <1>2, <1>5, Failing
  <2>2. Touch(p) /\ Turned(req[p], Here(p), req'[p], Here(p)', created, Live, troubled',
            Name(p) \in plan.foreign)
    BY <1>2, <2>1, CountMoves DEF Turns
  <2>3. ~Reserves(req'[p]) /\ req'[p].pc # "decide"
    BY SMTT(30), <1>3, <2>1 DEF Reserves, Making, Building, Undoing, Same
  <2> QED BY <1>2, <1>3, <1>4, <2>1, <2>2, <2>3, QuotaKept
<1>6. CASE /\ req' = [req EXCEPT ![p] = [@ EXCEPT !.pc = "decide",
                        !.count = Cardinality({n \in Mine(p) : host[n].dom.id # 0})]]
           /\ UNCHANGED host /\ Calm
  <2>1. PICK c : c = Cardinality({n \in Mine(p) : host[n].dom.id # 0})
    OBVIOUS
  <2>2. c \in Nat
    <3>1. {n \in Mine(p) : host[n].dom.id # 0} \subseteq Keys
      BY DEF Mine
    <3> QED BY <2>1, <3>1, Fewer
  <2>3. PICK s : s = Tell(req[p], "decide", c)
    OBVIOUS
  <2>4. s \in Goroutines /\ Same(s, req[p]) /\ s.name = req[p].name /\ s.pc = "decide" /\ s.count = c
    BY SMTT(30), <1>1, <1>2, <2>2, <2>3, ToldIs
  <2>5. req' = [req EXCEPT ![p] = s]
    BY <1>6, <2>1, <2>3 DEF Tell
  <2>6. Turns(p) /\ req'[p] = s /\ Here(p)' = Here(p)
    BY <1>2, <1>6, <2>4, <2>5, Looking DEF Same
  <2>7. Touch(p) /\ Turned(req[p], Here(p), req'[p], Here(p)', created, Live, troubled',
            Name(p) \in plan.foreign)
    BY <1>2, <2>4, <2>6, CountMoves DEF Turns
  <2>8. ~Reserves(s)
    BY SMTT(30), <1>3, <2>4 DEF Reserves, Making, Building, Undoing, Same
  <2>9. Reserved' = Reserved
    <3>1. \A q \in Procs : Name(q)' = Name(q) /\ (Reserves(req'[q]) <=> Reserves(req[q]))
      BY <1>3, <2>4, <2>6, <2>7, <2>8 DEF Touch, Name
    <3> QED BY <3>1 DEF Reserved
  <2>10. Existing' = Existing
    BY <1>6 DEF Existing
  <2>11. ASSUME NEW o \in DOMAIN inflight'
         PROVE  /\ inflight'[o] = Cardinality(OwnedBy(o) \cap Reserved')
                /\ Cardinality(OwnedBy(o) \cap (Existing' \cup Reserved')) <= Limit
    BY <1>4, <2>9, <2>10, <2>11 DEF Safe, QuotaInv
  <2>12. Mine(p)' = Mine(p)
    BY <2>4, <2>6 DEF Mine, Name
  <2>13. Counted(p)'
    <3>1. {n \in Mine(p) : host[n].dom.id # 0} \subseteq Keys
      BY DEF Mine
    <3>2. Mine(p) \cap (Existing \ Reserved) \subseteq {n \in Mine(p) : host[n].dom.id # 0}
      BY DEF Existing
    <3>3. Cardinality(Mine(p) \cap (Existing \ Reserved)) <= c
      BY <2>1, <3>1, <3>2, Fewer
    <3> QED BY <2>4, <2>6, <2>9, <2>10, <2>12, <3>3 DEF Counted
  <2>14. ASSUME NEW q \in Procs, q # p, req'[q].pc = "decide"
         PROVE  Counted(q)' /\ Owner[Name(q)'] # Owner[Name(p)]
    <3>1. req'[q] = req[q] /\ Mine(q)' = Mine(q) /\ At(q, "decide") /\ Name(q)' = Name(q)
      BY <2>7, <2>14, Bystanders DEF At
    <3>2. Counted(q)
      BY <3>1 DEF Safe, QuotaInv
    <3>3. OwnerFree(p)
      BY DEF CountOwned
    <3> QED BY <2>9, <2>10, <3>1, <3>2, <3>3 DEF Counted, OwnerFree
  <2>15. \A q \in Procs : req'[q].pc = "decide" => Counted(q)'
    BY <2>13, <2>14
  <2>16. \A q, u \in Procs : req'[q].pc = "decide" /\ req'[u].pc = "decide"
             /\ Owner[Name(q)'] = Owner[Name(u)'] => q = u
    <3> SUFFICES ASSUME NEW q \in Procs, NEW u \in Procs, req'[q].pc = "decide", req'[u].pc = "decide",
                        Owner[Name(q)'] = Owner[Name(u)'], q # u
                 PROVE  FALSE
      OBVIOUS
    <3>0. Name(p)' = Name(p)
      BY <2>4, <2>6 DEF Name
    <3>1. q # p /\ u # p
      BY <2>14, <3>0
    <3>2. At(q, "decide") /\ At(u, "decide") /\ Owner[Name(q)] = Owner[Name(u)]
      BY <2>7, <3>1, Bystanders DEF At
    <3> QED BY <3>2 DEF Safe, QuotaInv
  <2> QED BY <2>7, <2>11, <2>15, <2>16 DEF QuotaInv, At, OwnedBy, Name
<1> QED BY <1>5, <1>6 DEF CountOwned


\* A user's names: the slot p takes is one more,
LEMMA SlotTaken ==
  ASSUME NEW R \in SUBSET Keys, NEW n \in Keys, NEW o, Owner[n] = o, n \notin R
  PROVE  Cardinality(OwnedBy(o) \cap (R \cup {n})) = Cardinality(OwnedBy(o) \cap R) + 1
<1>1. IsFiniteSet(OwnedBy(o) \cap R)
  BY VMAssumption, FS_Subset
<1>2. OwnedBy(o) \cap (R \cup {n}) = (OwnedBy(o) \cap R) \cup {n} /\ n \notin OwnedBy(o) \cap R
  BY DEF OwnedBy
<1> QED BY <1>1, <1>2, CountStep

\* and the one it returns is one less.
LEMMA SlotReturned ==
  ASSUME NEW R \in SUBSET Keys, NEW n \in R, NEW o, Owner[n] = o
  PROVE  /\ Cardinality(OwnedBy(o) \cap (R \ {n})) = Cardinality(OwnedBy(o) \cap R) - 1
         /\ Cardinality(OwnedBy(o) \cap R) \in Nat \ {0}
<1>1. IsFiniteSet(OwnedBy(o) \cap R)
  BY VMAssumption, FS_Subset
<1>2. OwnedBy(o) \cap (R \ {n}) = (OwnedBy(o) \cap R) \ {n} /\ n \in OwnedBy(o) \cap R
  BY DEF OwnedBy
<1>3. OwnedBy(o) \cap R # {}
  BY <1>2
<1> QED BY <1>1, <1>2, <1>3, CountStep

\* The decision: what it counted, the slots taken and the one it takes are
\* within the limit.
LEMMA SlotFits ==
  ASSUME NEW E \in SUBSET Keys, NEW R \in SUBSET Keys, NEW n \in Keys, NEW c \in Nat, n \notin R,
         NEW o, Owner[n] = o, Cardinality(OwnedBy(o) \cap (E \ R)) <= c,
         c + Cardinality(OwnedBy(o) \cap R) < Limit
  PROVE  Cardinality(OwnedBy(o) \cap (E \cup (R \cup {n}))) <= Limit
<1>1. PICK A : A = OwnedBy(o) \cap (E \ R)
  OBVIOUS
<1>2. PICK B : B = OwnedBy(o) \cap (R \cup {n})
  OBVIOUS
<1>3. IsFiniteSet(A) /\ IsFiniteSet(B) /\ IsFiniteSet(OwnedBy(o) \cap R) /\ IsFiniteSet(A \cap B)
  <2>1. A \subseteq Keys /\ B \subseteq Keys /\ OwnedBy(o) \cap R \subseteq Keys /\ A \cap B \subseteq Keys
    BY <1>1, <1>2
  <2> QED BY <2>1, VMAssumption, FS_Subset
<1>4. Cardinality(B) = Cardinality(OwnedBy(o) \cap R) + 1
  BY <1>2, SlotTaken
<1>5. Cardinality(A \cup B) = Cardinality(A) + Cardinality(B) - Cardinality(A \cap B)
  BY <1>3, FS_Union
<1>6. OwnedBy(o) \cap (E \cup (R \cup {n})) = A \cup B
  BY <1>1, <1>2
<1>7. /\ Cardinality(A) \in Nat /\ Cardinality(B) \in Nat /\ Cardinality(A \cap B) \in Nat
      /\ Cardinality(OwnedBy(o) \cap R) \in Nat /\ Limit \in Nat
  BY <1>3, FS_CardinalityType, VMAssumption
<1>8. Cardinality(A) <= c
  BY <1>1
<1>9. Cardinality(A \cup B) <= Limit
  BY SMTT(30), <1>4, <1>5, <1>7, <1>8
<1> QED BY <1>6, <1>9

\* reserveUserVMSlotWithCounter decides.
LEMMA ReserveSlotStep ==
  ASSUME Safe, NEW p \in Procs, ReserveSlot(p)
  PROVE  /\ Touch(p)
         /\ Turned(req[p], Here(p), req'[p], Here(p)', created, Live, troubled', Name(p) \in plan.foreign)
         /\ QuotaInv' /\ inflight' \in [{Owner[n] : n \in Keys} -> Nat]
<1>1. "decide" \in Work /\ "plan" \in Work /\ "unlock" \in Work
  BY Labels
<1>2. /\ req[p].pc = "decide" /\ req[p].pc \in Work /\ Here(p) \in Hosts /\ req[p] \in Goroutines
      /\ Name(p) \in Keys /\ Duty(req[p])
  BY <1>1, AtWork DEF ReserveSlot
<1>3. ~Reserves(req[p]) /\ ~req[p].own /\ req[p].count \in Nat
  BY SMTT(30), <1>2 DEF Reserves, Making, Building, Undoing, Duty, Deciding, Goroutines
<1>4. /\ inflight \in [{Owner[n] : n \in Keys} -> Nat] /\ UNCHANGED host /\ Calm
      /\ Owner[Name(p)] \in {Owner[n] : n \in Keys}
  BY <1>2 DEF Safe, VMTyped, ReserveSlot
<1>5. ASSUME NEW label \in {"plan", "unlock"}, req' = [req EXCEPT ![p] = [@ EXCEPT !.pc = label, !.count = 0]]
      PROVE  /\ Touch(p) /\ req'[p].pc = label /\ Same(req'[p], req[p]) /\ Here(p)' = Here(p)
             /\ Turned(req[p], Here(p), req'[p], Here(p)', created, Live, troubled', Name(p) \in plan.foreign)
  <2>1. PICK s : s = Tell(req[p], label, 0)
    OBVIOUS
  <2>2. s \in Goroutines /\ Same(s, req[p]) /\ s.name = req[p].name /\ s.pc = label
    <3>1. label \in Work
      BY <1>1, <1>5
    <3> QED BY SMTT(30), <1>2, <2>1, <3>1, ToldIs
  <2>3. req' = [req EXCEPT ![p] = s]
    BY <1>5, <2>1 DEF Tell
  <2>4. Turns(p) /\ req'[p] = s /\ Here(p)' = Here(p)
    BY <1>2, <1>4, <2>2, <2>3, Looking DEF Same
  <2> QED BY <1>2, <1>5, <2>2, <2>4, CountMoves DEF Turns
<1>6. CASE req' = [req EXCEPT ![p] = [@ EXCEPT !.pc = "unlock", !.count = 0]] /\ UNCHANGED inflight
  <2>1. /\ Touch(p) /\ req'[p].pc = "unlock" /\ Same(req'[p], req[p]) /\ Here(p)' = Here(p)
        /\ Turned(req[p], Here(p), req'[p], Here(p)', created, Live, troubled', Name(p) \in plan.foreign)
    BY <1>5, <1>6
  <2>2. ~Reserves(req'[p]) /\ req'[p].pc # "decide"
    BY SMTT(30), <1>3, <2>1 DEF Reserves, Making, Building, Undoing, Same
  <2> QED BY <1>2, <1>3, <1>4, <1>6, <2>1, <2>2, QuotaKept
<1>7. CASE /\ req[p].count + inflight[Owner[Name(p)]] < Limit
           /\ req' = [req EXCEPT ![p] = [@ EXCEPT !.pc = "plan", !.count = 0]]
           /\ inflight' = [inflight EXCEPT ![Owner[Name(p)]] = @ + 1]
  <2>1. /\ Touch(p) /\ req'[p].pc = "plan" /\ Same(req'[p], req[p]) /\ Here(p)' = Here(p)
        /\ Turned(req[p], Here(p), req'[p], Here(p)', created, Live, troubled', Name(p) \in plan.foreign)
    BY <1>5, <1>7
  <2>2. Reserves(req'[p]) /\ req'[p].name = Name(p)
    BY <2>1 DEF Reserves, Touch
  <2>3. Name(p) \notin Reserved
    <3> SUFFICES ASSUME NEW q \in Procs, Reserves(req[q]), Name(q) = Name(p) PROVE FALSE
      BY DEF Reserved
    <3>1. req[q].pc \in Work
      BY Reserving
    <3>2. q = p
      BY <1>2, <3>1, Alone
    <3> QED BY <1>3, <3>2
  <2>4. Reserved' = Reserved \cup {Name(p)}
    <3>1. \A q \in Procs : q # p => Name(q)' = Name(q) /\ (Reserves(req'[q]) <=> Reserves(req[q]))
      BY <2>1 DEF Touch, Name
    <3>2. Name(p)' = Name(p)
      BY <2>2 DEF Name
    <3> QED BY <1>2, <1>3, <2>2, <3>1, <3>2 DEF Reserved
  <2>5. Existing' = Existing
    BY <1>4 DEF Existing
  <2>6. Existing \in SUBSET Keys /\ Reserved \in SUBSET Keys
    BY DEF Existing, Reserved
  <2>7. /\ inflight'[Owner[Name(p)]] = inflight[Owner[Name(p)]] + 1
        /\ \A o \in DOMAIN inflight : o # Owner[Name(p)] => inflight'[o] = inflight[o]
        /\ DOMAIN inflight' = DOMAIN inflight /\ Owner[Name(p)] \in DOMAIN inflight
    BY <1>4, <1>7
  <2>8. inflight' \in [{Owner[n] : n \in Keys} -> Nat]
    <3>1. inflight[Owner[Name(p)]] + 1 \in Nat
      BY SMTT(30), <1>4
    <3> QED BY <1>4, <1>7, <3>1
  <2>9. Mine(p) = OwnedBy(Owner[Name(p)])
    BY DEF Mine, OwnedBy
  <2>10. ASSUME NEW o \in DOMAIN inflight
         PROVE  /\ inflight'[o] = Cardinality(OwnedBy(o) \cap Reserved')
                /\ Cardinality(OwnedBy(o) \cap (Existing' \cup Reserved')) <= Limit
    <3>1. /\ inflight[o] = Cardinality(OwnedBy(o) \cap Reserved)
          /\ Cardinality(OwnedBy(o) \cap (Existing \cup Reserved)) <= Limit
      BY DEF Safe, QuotaInv
    <3>2. CASE o = Owner[Name(p)]
      <4>1. Cardinality(OwnedBy(o) \cap (Reserved \cup {Name(p)})) = Cardinality(OwnedBy(o) \cap Reserved) + 1
        BY <1>2, <2>3, <2>6, <3>2, SlotTaken
      <4>2. Cardinality(OwnedBy(o) \cap (Existing \ Reserved)) <= req[p].count
        <5>1. Counted(p)
          BY <1>2 DEF Safe, QuotaInv, At
        <5> QED BY <2>9, <3>2, <5>1 DEF Counted
      <4>3. req[p].count + Cardinality(OwnedBy(o) \cap Reserved) < Limit
        BY <1>7, <3>1, <3>2
      <4>4. Cardinality(OwnedBy(o) \cap (Existing \cup (Reserved \cup {Name(p)}))) <= Limit
        BY <1>2, <1>3, <2>3, <2>6, <3>2, <4>2, <4>3, SlotFits
      <4> QED BY <2>4, <2>5, <2>7, <3>1, <3>2, <4>1, <4>4
    <3>3. CASE o # Owner[Name(p)]
      <4>1. /\ OwnedBy(o) \cap (Reserved \cup {Name(p)}) = OwnedBy(o) \cap Reserved
            /\ OwnedBy(o) \cap (Existing \cup (Reserved \cup {Name(p)}))
                 = OwnedBy(o) \cap (Existing \cup Reserved)
        BY <3>3 DEF OwnedBy
      <4> QED BY <2>4, <2>5, <2>7, <3>1, <3>3, <4>1
    <3> QED BY <3>2, <3>3
  <2>11. ASSUME NEW q \in Procs, req'[q].pc = "decide"
         PROVE  q # p /\ At(q, "decide") /\ Name(q)' = Name(q) /\ Counted(q)'
    <3>1. q # p
      BY <2>1, <2>11
    <3>2. req'[q] = req[q] /\ Mine(q)' = Mine(q) /\ At(q, "decide") /\ Name(q)' = Name(q)
      BY <2>1, <2>11, <3>1, Bystanders DEF At
    <3>3. Mine(q) \cap (Existing' \ Reserved') \subseteq Mine(q) \cap (Existing \ Reserved)
      BY <2>4, <2>5
    <3>4. Counted(q)'
      BY <2>1, <3>1, <3>2, <3>3, CountedStill
    <3> QED BY <3>1, <3>2, <3>4
  <2>12. \A q, u \in Procs : req'[q].pc = "decide" /\ req'[u].pc = "decide"
             /\ Owner[Name(q)'] = Owner[Name(u)'] => q = u
    BY <2>11 DEF Safe, QuotaInv
  <2>13. QuotaInv'
    BY <2>7, <2>10, <2>11, <2>12 DEF QuotaInv, At, OwnedBy, Name
  <2> QED BY <2>1, <2>8, <2>13
<1> QED BY <1>6, <1>7 DEF ReserveSlot


\* releaseUserVMSlot.
LEMMA ReleaseSlotStep ==
  ASSUME Safe, NEW p \in Procs, ReleaseSlot(p)
  PROVE  /\ Touch(p)
         /\ Turned(req[p], Here(p), req'[p], Here(p)', created, Live, troubled', Name(p) \in plan.foreign)
         /\ QuotaInv' /\ inflight' \in [{Owner[n] : n \in Keys} -> Nat]
<1>1. "slot" \in Work /\ "unlock" \in Work
  BY Labels
<1>2. /\ req[p].pc = "slot" /\ req[p].pc \in Work /\ Here(p) \in Hosts /\ req[p] \in Goroutines
      /\ Name(p) \in Keys
  BY <1>1, AtWork DEF ReleaseSlot
<1>3. Reserves(req[p])
  BY <1>2 DEF Reserves
<1>4. /\ inflight \in [{Owner[n] : n \in Keys} -> Nat] /\ UNCHANGED host
      /\ Owner[Name(p)] \in {Owner[n] : n \in Keys}
      /\ inflight' = [inflight EXCEPT ![Owner[Name(p)]] = @ - 1] /\ OwnerFree(p)
  BY <1>2 DEF Safe, VMTyped, ReleaseSlot, Goes
<1>5. /\ Turns(p) /\ req'[p].pc = "unlock" /\ Same(req'[p], req[p]) /\ Here(p)' = Here(p)
  BY <1>1, <1>2, Going DEF ReleaseSlot
<1>6. /\ Touch(p)
      /\ Turned(req[p], Here(p), req'[p], Here(p)', created, Live, troubled', Name(p) \in plan.foreign)
  BY <1>2, <1>5, CountMoves DEF Turns
<1>7. ~Reserves(req'[p]) /\ req'[p].name = Name(p)
  BY SMTT(30), <1>5, <1>6 DEF Reserves, Making, Building, Undoing, Touch
<1>8. Reserved' = Reserved \ {Name(p)} /\ Name(p) \in Reserved
  <2>1. \A q \in Procs : q # p => Name(q)' = Name(q) /\ (Reserves(req'[q]) <=> Reserves(req[q]))
    BY <1>6 DEF Touch, Name
  <2>2. \A q \in Procs : q # p /\ Reserves(req[q]) => Name(q) # Name(p)
    BY <1>2, Reserving, Alone
  <2>3. Name(p)' = Name(p)
    BY <1>7 DEF Name
  <2> QED BY <1>2, <1>3, <1>7, <2>1, <2>2, <2>3 DEF Reserved
<1>9. Existing' = Existing
  BY <1>4 DEF Existing
<1>10. Existing \in SUBSET Keys /\ Reserved \in SUBSET Keys
  BY DEF Existing, Reserved
<1>11. /\ inflight'[Owner[Name(p)]] = inflight[Owner[Name(p)]] - 1
       /\ \A o \in DOMAIN inflight : o # Owner[Name(p)] => inflight'[o] = inflight[o]
       /\ DOMAIN inflight' = DOMAIN inflight /\ Owner[Name(p)] \in DOMAIN inflight
  BY <1>4
<1>12. ASSUME NEW o \in DOMAIN inflight
       PROVE  /\ inflight[o] = Cardinality(OwnedBy(o) \cap Reserved)
              /\ Cardinality(OwnedBy(o) \cap (Existing \cup Reserved)) <= Limit
  BY DEF Safe, QuotaInv
<1>13. inflight' \in [{Owner[n] : n \in Keys} -> Nat]
  <2>1. inflight[Owner[Name(p)]] \in Nat \ {0}
    BY <1>8, <1>10, <1>11, <1>12, SlotReturned
  <2>2. inflight[Owner[Name(p)]] - 1 \in Nat
    BY SMTT(30), <2>1
  <2> QED BY <1>4, <2>2
<1>14. ASSUME NEW o \in DOMAIN inflight
       PROVE  /\ inflight'[o] = Cardinality(OwnedBy(o) \cap Reserved')
              /\ Cardinality(OwnedBy(o) \cap (Existing' \cup Reserved')) <= Limit
  <2>1. inflight'[o] = Cardinality(OwnedBy(o) \cap Reserved')
    <3>1. CASE o = Owner[Name(p)]
      <4>1. Cardinality(OwnedBy(o) \cap (Reserved \ {Name(p)})) = Cardinality(OwnedBy(o) \cap Reserved) - 1
        BY <1>8, <1>10, <3>1, SlotReturned
      <4> QED BY <1>8, <1>11, <1>12, <3>1, <4>1
    <3>2. CASE o # Owner[Name(p)]
      <4>1. OwnedBy(o) \cap (Reserved \ {Name(p)}) = OwnedBy(o) \cap Reserved
        BY <3>2 DEF OwnedBy
      <4> QED BY <1>8, <1>11, <1>12, <3>2, <4>1
    <3> QED BY <3>1, <3>2
  <2>2. OwnedBy(o) \cap (Existing' \cup Reserved') \subseteq OwnedBy(o) \cap (Existing \cup Reserved)
    BY <1>8, <1>9
  <2>3. OwnedBy(o) \cap (Existing \cup Reserved) \subseteq Keys
    BY DEF OwnedBy
  <2>4. /\ Cardinality(OwnedBy(o) \cap (Existing' \cup Reserved')) \in Nat
        /\ Cardinality(OwnedBy(o) \cap (Existing \cup Reserved)) \in Nat
        /\ Cardinality(OwnedBy(o) \cap (Existing' \cup Reserved'))
             <= Cardinality(OwnedBy(o) \cap (Existing \cup Reserved))
    BY <2>2, <2>3, Fewer
  <2>5. Cardinality(OwnedBy(o) \cap (Existing' \cup Reserved')) <= Limit
    <3>1. Limit \in Nat /\ Cardinality(OwnedBy(o) \cap (Existing \cup Reserved)) <= Limit
      BY <1>12, VMAssumption
    <3> QED BY SMTT(30), <2>4, <3>1
  <2> QED BY <2>1, <2>5
<1>15. ASSUME NEW q \in Procs, req'[q].pc = "decide"
       PROVE  q # p /\ At(q, "decide") /\ Name(q)' = Name(q) /\ Counted(q)'
  <2>1. q # p
    BY <1>5, <1>15
  <2>2. At(q, "decide") /\ Name(q)' = Name(q)
    BY <1>6, <1>15, <2>1, Bystanders DEF At
  <2>3. Name(p) \notin Mine(q)
    BY <1>4, <2>2 DEF OwnerFree, Mine
  <2>4. Mine(q) \cap (Existing' \ Reserved') \subseteq Mine(q) \cap (Existing \ Reserved)
    BY <1>8, <1>9, <2>3
  <2> QED BY <1>6, <2>1, <2>2, <2>4, CountedStill
<1>16. \A q, u \in Procs : req'[q].pc = "decide" /\ req'[u].pc = "decide"
           /\ Owner[Name(q)'] = Owner[Name(u)'] => q = u
  BY <1>15 DEF Safe, QuotaInv
<1>17. QuotaInv'
  BY <1>11, <1>14, <1>15, <1>16 DEF QuotaInv, At, OwnedBy, Name
<1> QED BY <1>6, <1>13, <1>17

\* A step that may report a creation or begin a removal.
LEMMA CarriedSafe ==
  ASSUME Safe, NEW p \in Procs, req[p].pc \in Work, Touch(p), UNCHANGED <<phase, todo>>, UNCHANGED mutexVars,
         Moved(req[p], Here(p), req'[p], Here(p)', created', Live', troubled', Name(p) \in plan.foreign),
         inflight' = inflight, removed \subseteq removed', created \subseteq created',
         \A i \in created' \ created : i = req[p].id /\ req[p].op = "create" /\ Here(p)'.dom.id = i
  PROVE  VMTyped' /\ LifeInv' /\ QuotaInv'
<1>1. /\ req'[p].pc # "decide" /\ (Reserves(req'[p]) <=> Reserves(req[p]))
      /\ Turned(req[p], Here(p), req'[p], Here(p)', created', Live', troubled', Name(p) \in plan.foreign)
  BY DEF Moved
<1>2. Here(p)'.dom.id # 0 => Here(p).dom.id # 0 \/ Reserves(req[p])
  BY <1>1 DEF Turned
<1>3. QuotaInv'
  BY <1>1, <1>2, QuotaKept
<1>4. Carried(p)
  BY <1>1 DEF Carried
<1>5. inflight' \in [{Owner[n] : n \in Keys} -> Nat]
  BY DEF Safe, VMTyped
<1> QED BY <1>3, <1>4, <1>5, CarriedLife, Types

\* provisionVMResources ends.
LEMMA FinishStep ==
  ASSUME Safe, NEW p \in Procs, Finish(p), UNCHANGED <<phase, todo>>, UNCHANGED mutexVars
  PROVE  VMTyped' /\ LifeInv' /\ QuotaInv'
<1>m. ASSUME NEW r, NEW h, NEW s, NEW g, NEW made, NEW live, NEW was, NEW trouble, NEW foreign,
             Turn(r, h, s, g, made, live, was, trouble, foreign),
             r.pc = "finish",
             Same(s, r),
             g = h,
             s.pc = "slot",
             NEW more,
             more \subseteq live \cup {r.id}
      PROVE  Moved(r, h, s, g, made \cup {r.id}, more, trouble, foreign)
  BY SMTT(30), <1>m DEF Moved, Turned, Turn, Same, Calls, Gives, Duty, Fits, Progress, Spares, Tidy,
     Reserves, Work, Deciding, Building, Making, Undoing, Goroutines, Keeps, Sound, Complete,
     NoDomain, NoVolume, ForeignVolume, Hosts, Domains, Volumes
<1>a. ASSUME NEW r, NEW h, NEW s, NEW g, NEW made, NEW live, NEW was, NEW trouble, NEW foreign,
             Turn(r, h, s, g, made, live, was, trouble, foreign),
             r.pc = "finish",
             Same(s, r),
             g = h,
             s.pc = "rollback"
      PROVE  Moved(r, h, s, g, made, live, trouble, foreign)
  BY SMTT(30), <1>a DEF Moved, Turned, Turn, Same, Calls, Gives, Duty, Fits, Progress, Spares, Tidy,
     Reserves, Work, Deciding, Building, Making, Undoing, Goroutines, Keeps, Sound, Complete,
     NoDomain, NoVolume, ForeignVolume, Hosts, Domains, Volumes
<1>1. "finish" \in Work /\ "slot" \in Work /\ "rollback" \in Work
  BY Labels
<1>2. /\ req[p].pc = "finish" /\ req[p].pc \in Work /\ Here(p) \in Hosts /\ req[p] \in Goroutines
      /\ Duty(req[p])
  BY <1>1, AtWork DEF Finish
<1>3. inflight' = inflight /\ removed' = removed
  BY DEF Finish
<1>4. CASE Goes(p, "rollback") /\ UNCHANGED created
  <2>1. Turns(p) /\ req'[p].pc = "rollback" /\ Same(req'[p], req[p]) /\ Here(p)' = Here(p)
    BY <1>1, <1>2, <1>4, Going
  <2>2. Live' = Live /\ created' = created
    BY <1>3, <1>4 DEF Live
  <2>3. Moved(req[p], Here(p), req'[p], Here(p)', created', Live', troubled', Name(p) \in plan.foreign)
    BY <1>a, <1>2, <2>1, <2>2 DEF Turns
  <2> QED BY <1>2, <1>3, <2>1, <2>2, <2>3, CarriedSafe DEF Turns
<1>5. CASE Goes(p, "slot") /\ created' = created \cup {req[p].id}
  <2>1. Turns(p) /\ req'[p].pc = "slot" /\ Same(req'[p], req[p]) /\ Here(p)' = Here(p)
    BY <1>1, <1>2, <1>5, Going
  <2>2. Live' \subseteq Live \cup {req[p].id}
    BY <1>3, <1>5 DEF Live
  <2>3. Moved(req[p], Here(p), req'[p], Here(p)', created', Live', troubled', Name(p) \in plan.foreign)
    BY <1>m, <1>2, <1>5, <2>1, <2>2 DEF Turns
  <2>4. req[p].op = "create"
    BY <1>2 DEF Duty, Making, Building
  <2>5. Here(p)'.dom.id = req[p].id
    <3>1. Progress(req[p], Here(p))
      BY <1>2 DEF Safe, LifeInv, Local, Fits
    <3> QED BY <1>2, <2>1, <3>1 DEF Progress, Building
  <2> QED BY <1>2, <1>3, <1>5, <2>1, <2>3, <2>4, <2>5, CarriedSafe DEF Turns
<1> QED BY <1>4, <1>5 DEF Finish

\* RemoveVM marks the machine.
LEMMA MarkStep ==
  ASSUME Safe, NEW p \in Procs, MarkDeleting(p), UNCHANGED <<phase, todo>>, UNCHANGED mutexVars
  PROVE  VMTyped' /\ LifeInv' /\ QuotaInv'
<1>m. ASSUME NEW r, NEW h, NEW s, NEW g, NEW made, NEW live, NEW was, NEW trouble, NEW foreign,
             Turn(r, h, s, g, made, live, was, trouble, foreign),
             r.pc = "mark",
             NEW less,
             less = live \ {h.dom.id},
             \/ h.dom.id = 0 /\ s.pc = "volumes" /\ g = h /\ s.id = r.id
             \/ /\ h.dom.id # 0 /\ s.pc = "stop" /\ s.id = h.dom.id /\ s.seen = h.dom.active
                /\ g = [h EXCEPT !.dom.deleting = TRUE]
             \/ h.dom.id # 0 /\ s.pc = "unlock" /\ s.id = r.id /\ trouble /\ g \in {h,
                    [h EXCEPT !.dom.deleting = TRUE]}
      PROVE  Moved(r, h, s, g, made, less, trouble, foreign)
  BY SMTT(30), <1>m DEF Moved, Turned, Turn, Same, Calls, Gives, Duty, Fits, Progress, Spares, Tidy,
     Reserves, Work, Deciding, Building, Making, Undoing, Goroutines, Keeps, Sound, Complete,
     NoDomain, NoVolume, ForeignVolume, Hosts, Domains, Volumes
<1>1. "mark" \in Work /\ "volumes" \in Work /\ "stop" \in Work /\ "unlock" \in Work
  BY Labels
<1>2. /\ VMTyped /\ req[p].pc = "mark" /\ req[p].pc \in Work /\ Here(p) \in Hosts /\ req[p] \in Goroutines
      /\ Duty(req[p]) /\ Name(p) \in Keys
  BY <1>1, AtWork DEF MarkDeleting
<1>3. inflight' = inflight /\ created' = created /\ removed' = removed \cup {Here(p).dom.id}
  BY DEF MarkDeleting, Dom
<1>4. Live' = Live \ {Here(p).dom.id}
  BY <1>3 DEF Live
<1>5. SUFFICES Touch(p) /\ Moved(req[p], Here(p), req'[p], Here(p)', created', Live', troubled',
          Name(p) \in plan.foreign)
  BY <1>2, <1>3, CarriedSafe
<1>6. CASE Dom(p).id = 0 /\ Goes(p, "volumes")
  BY <1>m, <1>1, <1>2, <1>3, <1>4, <1>6, Going DEF Turns, Dom
<1>7. [Here(p) EXCEPT !.dom.deleting = TRUE] \in Hosts
  BY <1>2, Machines, Empties
<1>8. CASE Dom(p).id # 0 /\ Fails(p, {Here(p), [Here(p) EXCEPT !.dom.deleting = TRUE]}, "unlock")
  <2>1. {Here(p), [Here(p) EXCEPT !.dom.deleting = TRUE]} \in SUBSET Hosts
    BY <1>2, <1>7
  <2>2. /\ Turns(p) /\ req'[p].pc = "unlock" /\ req'[p].id = req[p].id /\ troubled'
        /\ Here(p)' \in {Here(p), [Here(p) EXCEPT !.dom.deleting = TRUE]}
    BY <1>1, <1>2, <1>8, <2>1, Failing
  <2> QED BY <1>m, <1>2, <1>3, <1>4, <1>8, <2>2 DEF Turns, Dom
<1>9. CASE /\ Dom(p).id # 0 /\ Put(p, [Here(p) EXCEPT !.dom.deleting = TRUE]) /\ Calm
           /\ req' = [req EXCEPT ![p] = [@ EXCEPT !.pc = "stop", !.id = Dom(p).id, !.seen = Dom(p).active]]
  <2>1. PICK s : s = ViewAs(req[p], Here(p), "stop", Here(p).dom.id)
    OBVIOUS
  <2>2. /\ s \in Goroutines /\ s.name = req[p].name /\ s.op = req[p].op /\ s.own = req[p].own
        /\ s.pc = "stop" /\ s.seen = Here(p).dom.active /\ s.id = Here(p).dom.id
    <3>1. Here(p).dom.id \in Nat
      BY SMTT(30), <1>2 DEF Hosts, Domains
    <3>2. req[p] \in Goroutines /\ Here(p) \in Hosts /\ "stop" \in Work
      BY <1>1, <1>2
    <3> QED BY SMTT(30), <2>1, <3>1, <3>2, ViewedAs
  <2>3. req' = [req EXCEPT ![p] = s]
    BY <1>9, <2>1 DEF Dom, ViewAs
  <2>4. /\ req' \in [Procs -> Goroutines] /\ req'[p] = s /\ \A q \in Procs \ {p} : req'[q] = req[q]
    BY <1>2, <2>2, <2>3 DEF VMTyped
  <2>5. /\ host' \in [Keys -> Hosts] /\ host'[Name(p)] = [Here(p) EXCEPT !.dom.deleting = TRUE]
        /\ \A n \in Keys \ {Name(p)} : host'[n] = host[n]
    BY <1>2, <1>7, <1>9 DEF VMTyped, Put
  <2>6. req[p].op # "create"
    BY <1>2 DEF Duty
  <2>7. Touch(p) /\ Here(p)' = [Here(p) EXCEPT !.dom.deleting = TRUE]
    BY <1>2, <1>9, <2>2, <2>4, <2>5, <2>6 DEF Touch, VMTyped, Calm, Here, Name
  <2>8. Turns(p)
    BY <1>2, <2>2, <2>4, <2>7, Working DEF Turns
  <2> QED BY <1>m, <1>2, <1>3, <1>4, <1>9, <2>2, <2>4, <2>7, <2>8 DEF Turns, Dom
<1> QED BY <1>6, <1>8, <1>9 DEF MarkDeleting

\* reserveAvailableNetworkIdentity.
LEMMA ReserveStep ==
  ASSUME Safe, NEW p \in Procs, ReserveNetwork(p)
  PROVE  Advance(p)
<1>m. ASSUME NEW r, NEW h, NEW s, NEW g, NEW made, NEW live, NEW was, NEW trouble, NEW foreign,
             Turn(r, h, s, g, made, live, was, trouble, foreign),
             r.pc = "reserve",
             Same(s, r),
             NEW a \in Addresses,
             0 \notin Addresses,
             s.pc = "disk",
             g = [h EXCEPT !.net = a]
      PROVE  Moved(r, h, s, g, made, live, trouble, foreign)
  BY SMTT(30), <1>m DEF Moved, Turned, Turn, Same, Calls, Gives, Duty, Fits, Progress, Spares, Tidy,
     Reserves, Work, Deciding, Building, Making, Undoing, Goroutines, Keeps, Sound, Complete,
     NoDomain, NoVolume, ForeignVolume, Hosts, Domains, Volumes
<1>f. ASSUME NEW r, NEW h, NEW s, NEW g, NEW made, NEW live, NEW was, NEW trouble, NEW foreign,
             Turn(r, h, s, g, made, live, was, trouble, foreign),
             r.pc = "reserve",
             Same(s, r),
             s.pc = "rollback",
             g = h
      PROVE  Moved(r, h, s, g, made, live, trouble, foreign)
  BY SMTT(30), <1>f DEF Moved, Turned, Turn, Same, Calls, Gives, Duty, Fits, Progress, Spares, Tidy,
     Reserves, Work, Deciding, Building, Making, Undoing, Goroutines, Keeps, Sound, Complete,
     NoDomain, NoVolume, ForeignVolume, Hosts, Domains, Volumes
<1>g. ASSUME NEW r, NEW h, NEW s, NEW g, NEW made, NEW live, NEW was, NEW trouble, NEW foreign,
             Turn(r, h, s, g, made, live, was, trouble, foreign),
             r.pc = "reserve",
             Same(s, r),
             NEW a \in Addresses,
             0 \notin Addresses,
             s.pc = "rollback",
             g = [h EXCEPT !.net = a],
             trouble
      PROVE  Moved(r, h, s, g, made, live, trouble, foreign)
  BY SMTT(30), <1>g DEF Moved, Turned, Turn, Same, Calls, Gives, Duty, Fits, Progress, Spares, Tidy,
     Reserves, Work, Deciding, Building, Making, Undoing, Goroutines, Keeps, Sound, Complete,
     NoDomain, NoVolume, ForeignVolume, Hosts, Domains, Volumes
<1>1. "reserve" \in Work /\ "disk" \in Work /\ "rollback" \in Work
  BY Labels
<1>2. /\ req[p].pc = "reserve" /\ req[p].pc \in Work /\ Here(p) \in Hosts /\ req[p] \in Goroutines
      /\ {Here(p)} \in SUBSET Hosts
  BY <1>1, AtWork DEF ReserveNetwork
<1>3. CASE Goes(p, "rollback")
  <2>1. Turns(p) /\ req'[p].pc = "rollback" /\ Same(req'[p], req[p]) /\ Here(p)' = Here(p)
    BY <1>1, <1>2, <1>3, Going
  <2> QED BY <1>f, <1>2, <2>1 DEF Advance, Turns
<1>4. CASE Fails(p, {Here(p)}, "rollback")
  <2>1. Turns(p) /\ req'[p].pc = "rollback" /\ Same(req'[p], req[p]) /\ Here(p)' = Here(p)
    BY <1>1, <1>2, <1>4, Failing
  <2> QED BY <1>f, <1>2, <2>1 DEF Advance, Turns
<1>5. ASSUME NEW a \in Addresses, Call(p, [Here(p) EXCEPT !.net = a], "disk", "rollback")
      PROVE  Advance(p)
  <2>1. [Here(p) EXCEPT !.net = a] \in Hosts
    BY <1>2, Machines, Empties
  <2>2. /\ Turns(p) /\ Same(req'[p], req[p])
        /\ Calls(req'[p], Here(p)', Here(p), [Here(p) EXCEPT !.net = a], "disk", "rollback", troubled')
    BY <1>1, <1>2, <1>5, <2>1, Calling
  <2>3. 0 \notin Addresses
    BY VMAssumption
  <2>4. CASE req'[p].pc = "disk" /\ Here(p)' = [Here(p) EXCEPT !.net = a]
    BY <1>m, <1>2, <2>2, <2>3, <2>4 DEF Advance, Turns
  <2>5. CASE req'[p].pc = "rollback" /\ Here(p)' = [Here(p) EXCEPT !.net = a] /\ troubled'
    BY <1>g, <1>2, <2>2, <2>3, <2>5 DEF Advance, Turns
  <2>6. CASE req'[p].pc = "rollback" /\ Here(p)' = Here(p)
    BY <1>f, <1>2, <2>2, <2>6 DEF Advance, Turns
  <2> QED BY <2>2, <2>4, <2>5, <2>6 DEF Calls
<1>6. PICK free : free = Addresses \ {host[n].net : n \in Keys}
  OBVIOUS
<1>7. free # {} => Min(free) \in Addresses
  BY <1>6, VMAssumption, MinIn
<1> QED BY <1>3, <1>4, <1>5, <1>6, <1>7 DEF ReserveNetwork

-----------------------------------------------------------------------------
(* Every step keeps the invariant.                                         *)

\* Every step of the code between lock and unlock.
LEMMA StepSafe ==
  ASSUME Safe, NEW p \in Procs, Step(p)
  PROVE  VMTyped' /\ LifeInv' /\ QuotaInv'
<1>1. UNCHANGED <<phase, todo>> /\ UNCHANGED mutexVars
  BY DEF Step
<1>2. inflight \in [{Owner[n] : n \in Keys} -> Nat]
  BY DEF Safe, VMTyped
<1>3. ASSUME req[p].pc \in Work, Touch(p), UNCHANGED <<created, removed>>, QuotaInv',
             inflight' \in [{Owner[n] : n \in Keys} -> Nat],
             Turned(req[p], Here(p), req'[p], Here(p)', created, Live, troubled', Name(p) \in plan.foreign)
      PROVE  VMTyped' /\ LifeInv' /\ QuotaInv'
  <2>1. Live' = Live /\ created' = created /\ removed' = removed
    BY <1>3 DEF Live
  <2>2. Carried(p)
    BY <1>1, <1>3, <2>1 DEF Carried
  <2> QED BY <1>1, <1>3, <2>2, CarriedLife, Types
<1>4. ASSUME req[p].pc \in Work, Advance(p), Still
      PROVE  VMTyped' /\ LifeInv' /\ QuotaInv'
  <2>1. /\ Touch(p) /\ req'[p].pc # "decide" /\ (Reserves(req'[p]) <=> Reserves(req[p]))
        /\ Turned(req[p], Here(p), req'[p], Here(p)', created, Live, troubled', Name(p) \in plan.foreign)
    BY <1>4 DEF Advance, Moved
  <2>2. Here(p)'.dom.id # 0 => Here(p).dom.id # 0 \/ Reserves(req[p])
    BY <2>1 DEF Turned
  <2>3. inflight' = inflight /\ UNCHANGED <<created, removed>>
    BY <1>4 DEF Still
  <2>4. QuotaInv'
    BY <1>4, <2>1, <2>2, <2>3, QuotaKept
  <2> QED BY <1>2, <1>3, <1>4, <2>1, <2>3, <2>4
<1>5. CASE Unwind(p)
  <2>1. Advance(p)
    BY <1>5, RecoverStep, RollbackStep, BeginStep, StopStep, VolumesStep, NetStep, UndefineStep DEF Unwind
  <2>2. Still
    BY <1>5 DEF Unwind, Recover, Rollback, BeginRollback, StopDomain, RemoveVolumes, ReleaseNetwork, Undefine
  <2>3. req[p].pc \in Work
    BY <1>5, Labels DEF Unwind, Recover, Rollback, BeginRollback, StopDomain, RemoveVolumes, ReleaseNetwork,
       Undefine, At
  <2> QED BY <1>4, <2>1, <2>2, <2>3
<1>6. CASE StartExisting(p) \/ Restart(p) \/ PowerOff(p)
  <2>1. Advance(p)
    BY <1>6, PowerStep
  <2>2. Still /\ req[p].pc \in Work
    BY <1>6, Labels DEF StartExisting, Restart, PowerOff, At
  <2> QED BY <1>4, <2>1, <2>2
<1>7. CASE Available(p) \/ Plan(p) \/ DefinePending(p) \/ ReserveNetwork(p)
  <2>1. Advance(p)
    BY <1>7, AvailableStep, PlanStep, PendingStep, ReserveStep
  <2>2. Still /\ req[p].pc \in Work
    BY <1>7, Labels DEF Available, Plan, DefinePending, ReserveNetwork, At
  <2> QED BY <1>4, <2>1, <2>2
<1>8. CASE \/ CreateVolume(p, "disk", "disk", "upload") \/ FillVolume(p, "upload", "disk", "seed")
           \/ CreateVolume(p, "seed", "seed", "burn") \/ FillVolume(p, "burn", "seed", "define")
  <2>1. Advance(p)
    BY <1>8, DiskStep, UploadStep, SeedStep, BurnStep
  <2>2. Still /\ req[p].pc \in Work
    BY <1>8, Labels DEF CreateVolume, FillVolume, At
  <2> QED BY <1>4, <2>1, <2>2
<1>9. CASE DefineDomain(p) \/ MarkReady(p) \/ CreateDomain(p)
  <2>1. Advance(p)
    BY <1>9, DefineStep, ReadyStep, StartStep
  <2>2. Still /\ req[p].pc \in Work
    BY <1>9, Labels DEF DefineDomain, MarkReady, CreateDomain, At
  <2> QED BY <1>4, <2>1, <2>2
<1>10. CASE CountOwned(p)
  <2>1. UNCHANGED <<created, removed>> /\ inflight' = inflight /\ req[p].pc \in Work
    BY <1>10, Labels DEF CountOwned, Still, At
  <2> QED BY <1>2, <1>3, <1>10, <2>1, CountOwnedStep
<1>11. CASE ReserveSlot(p)
  <2>1. UNCHANGED <<created, removed>> /\ req[p].pc \in Work
    BY <1>11, Labels DEF ReserveSlot, At
  <2> QED BY <1>3, <1>11, <2>1, ReserveSlotStep
<1>12. CASE ReleaseSlot(p)
  <2>1. UNCHANGED <<created, removed>> /\ req[p].pc \in Work
    BY <1>12, Labels DEF ReleaseSlot, At
  <2> QED BY <1>3, <1>12, <2>1, ReleaseSlotStep
<1>13. CASE MarkDeleting(p)
  BY <1>1, <1>13, MarkStep
<1>14. CASE Finish(p)
  BY <1>1, <1>14, FinishStep
<1> QED BY <1>5, <1>6, <1>7, <1>8, <1>9, <1>10, <1>11, <1>12, <1>13, <1>14 DEF Step, Provision

-----------------------------------------------------------------------------
(* The invariant.                                                          *)

\* At first libvirt has nothing but volumes of another origin.
LEMMA InitSafe ==
  ASSUME Init
  PROVE  Safe
<1>1. /\ plan \in Courses /\ req = [p \in Procs |-> Idle] /\ phase = "down" /\ todo = {}
      /\ inflight = [o \in {Owner[n] : n \in Keys} |-> 0] /\ created = {} /\ removed = {}
      /\ turn = [p \in Procs |-> "out"]
  BY VMAssumption DEF Init, MutexInit, Courses
<1>2. \A p \in Procs : /\ req[p] \in Goroutines /\ req[p].op = "none" /\ req[p].pc = "idle"
                       /\ req[p].pc \notin Work /\ Duty(req[p]) /\ ~Reserves(req[p])
  BY <1>1, Quiet
<1>3. ASSUME NEW n \in Keys
      PROVE  /\ host[n] \in Hosts /\ host[n].dom = NoDomain /\ host[n].seed = NoVolume /\ host[n].net = 0
             /\ host[n].disk = IF n \in plan.foreign THEN ForeignVolume ELSE NoVolume
  <2>1. host[n] = [dom |-> NoDomain, seed |-> NoVolume, net |-> 0,
                   disk |-> IF n \in plan.foreign THEN ForeignVolume ELSE NoVolume]
    BY DEF Init
  <2>2. PICK d : d = IF n \in plan.foreign THEN ForeignVolume ELSE NoVolume
    OBVIOUS
  <2>3. d \in Volumes /\ NoVolume \in Volumes /\ NoDomain \in Domains /\ 0 \in Addresses \cup {0}
    BY SMTT(30), <2>2 DEF ForeignVolume, NoVolume, NoDomain, Volumes, Domains
  <2>4. host[n] = [dom |-> NoDomain, seed |-> NoVolume, net |-> 0, disk |-> d]
    BY <2>1, <2>2
  <2> QED BY SMTT(30), <2>2, <2>3, <2>4 DEF Hosts
<1>4. \A n \in Keys : host[n].dom.id = 0
  BY SMTT(30), <1>3 DEF NoDomain
<1>5. VMTyped
  <2>1. host \in [Keys -> Hosts]
    BY <1>3 DEF Init
  <2>2. req \in [Procs -> Goroutines]
    BY <1>1, <1>2
  <2>3. inflight \in [{Owner[n] : n \in Keys} -> Nat]
    <3>1. 0 \in Nat
      BY SMTT(30)
    <3> QED BY <1>1, <3>1
  <2> QED BY <1>1, <2>1, <2>2, <2>3 DEF VMTyped
<1>6. MutexTypeOK /\ MutexInv
  BY SMTT(30) DEF Init, MutexInit, MutexTypeOK, MutexInv
<1>7. Linked
  <2>1. \A p \in Procs : turn[p] = "out" /\ req[p].pc = "idle"
    BY <1>1, <1>2
  <2> QED BY <2>1 DEF Linked, At
<1>8. Phases /\ Rest
  BY <1>1, <1>2, VMAssumption DEF Phases, Rest, At, Requests
<1>9. Ids
  <2>1. \A p \in Procs : ~Creating(p)
    BY <1>2 DEF Creating
  <2> QED BY <1>1, <1>4, <2>1 DEF Ids
<1>10. Survivors
  BY <1>1 DEF Survivors, Live
<1>11. ASSUME NEW n \in Keys PROVE Named(n)
  <2>1. Sound(host[n])
    BY SMTT(30), <1>3, <1>4 DEF Sound, NoDomain, NoVolume, ForeignVolume
  <2> QED BY <1>1, <1>3, <1>4, <2>1 DEF Named, Keeps, Live
<1>12. \A p \in Procs : Local(p)
  BY <1>2 DEF Local
<1>13. QuotaInv
  <2>1. Reserved = {} /\ Existing = {}
    BY <1>2, <1>4 DEF Reserved, Existing
  <2>2. \A p \in Procs : ~At(p, "decide")
    BY <1>2 DEF At
  <2>3. ASSUME NEW o \in DOMAIN inflight
        PROVE  /\ inflight[o] = Cardinality(OwnedBy(o) \cap Reserved)
               /\ Cardinality(OwnedBy(o) \cap (Existing \cup Reserved)) <= Limit
    <3>1. OwnedBy(o) \cap Reserved = {} /\ OwnedBy(o) \cap (Existing \cup Reserved) = {}
      BY <2>1
    <3>2. Cardinality({}) = 0 /\ inflight[o] = 0 /\ Limit \in Nat
      BY <1>1, <2>3, FS_EmptySet, VMAssumption
    <3>3. 0 <= Limit
      BY SMTT(30), <3>2
    <3> QED BY <3>1, <3>2, <3>3
  <2> QED BY <2>2, <2>3 DEF QuotaInv
<1> QED BY <1>5, <1>6, <1>7, <1>8, <1>9, <1>10, <1>11, <1>12, <1>13 DEF Safe, LifeInv

\* Every step keeps it.
LEMMA NextSafe ==
  ASSUME Safe, [Next]_vars
  PROVE  Safe'
<1>1. ASSUME NEW p \in Procs, Step(p) PROVE Safe'
  <2>1. MutexTypeOK' /\ MutexInv'
    BY <1>1, MutexKept DEF Safe, Step
  <2> QED BY <1>1, <2>1, StepSafe DEF Safe
<1>2. ASSUME NEW p \in Procs, Proceed(p) PROVE Safe'
  BY <1>1, <1>2, LockSafe, UnlockSafe, ReturnSafe DEF Proceed
<1>3. ASSUME NEW p \in Requests, Arrive(p) \/ GiveUp(p) PROVE Safe'
  BY <1>3, ArriveSafe, GiveUpSafe DEF Requests
<1>4. CASE StartGateway \/ VisitName \/ FinishBoot \/ Crash
  BY <1>4, StartSafe, VisitSafe, FinishSafe, CrashSafe
<1>5. ASSUME NEW n \in Keys, GuestStops(n) PROVE Safe'
  BY <1>5, GuestSafe
<1>6. CASE UNCHANGED vars
  BY <1>6, StutterSafe
<1> QED BY <1>2, <1>3, <1>4, <1>5, <1>6 DEF Next

\* The inductive invariant holds of every behaviour.
THEOREM LifecycleSafe == Spec => []Safe
BY InitSafe, NextSafe, PTL DEF Spec

\* Provisioning, recovery, removal and power requests of one name exclude each
\* other, also where a request gives up its wait and after a crash.
THEOREM NamesExclude == Spec => []MutualExclusion
<1>1. MutexTypeOK /\ MutexInv => MutualExclusion
  BY SMTT(30) DEF MutexTypeOK, MutexInv, MutualExclusion
<1>2. Safe => MutualExclusion
  BY <1>1 DEF Safe
<1> QED BY <1>2, LifecycleSafe, PTL

\* Whatever requests, failing libvirt calls, ended contexts, crashes and guests
\* do, no volume or reservation is left without its domain, no volume of another
\* origin is touched, and a name at rest has no unfinished creation.
THEOREM NoneOrphaned == Spec => []NothingOrphaned
<1>1. ASSUME Safe PROVE NothingOrphaned
  <2>1. \A n \in Keys : Keeps(host[n], Live, n \in plan.foreign)
    BY <1>1 DEF Safe, LifeInv, Named
  <2>2. VMTypeOK
    <3>1. ASSUME NEW n \in Keys
          PROVE  /\ host[n].dom.id \in Nat /\ host[n].dom.state \in {"pending", "ready", "rollback"}
                 /\ host[n].disk.by \in Int /\ host[n].seed.by \in Int /\ host[n].net \in Addresses \cup {0}
      <4>1. host[n] \in Hosts
        BY <1>1 DEF Safe, VMTyped
      <4> QED BY SMTT(30), <4>1 DEF Hosts, Domains, Volumes
    <3>2. \A o \in DOMAIN inflight : inflight[o] \in Nat
      BY <1>1 DEF Safe, VMTyped
    <3> QED BY <1>1, <3>1, <3>2 DEF VMTypeOK, Safe, VMTyped
  <2>3. NoOrphans
    BY <2>1 DEF NoOrphans, Keeps, Sound
  <2>4. ForeignKept
    <3>1. plan.foreign \subseteq Keys
      BY SMTT(30), <1>1 DEF Safe, VMTyped, Courses
    <3> QED BY <2>1, <3>1 DEF ForeignKept, Keeps
  <2>5. CleanAtRest
    <3> SUFFICES ASSUME phase = "up", ~troubled, NEW n \in Keys, \A p \in Procs : Name(p) # n
                 PROVE  /\ host[n].dom.state = "ready"
                        /\ host[n].dom.id = 0 => host[n].seed = NoVolume /\ host[n].net = 0
      BY DEF CleanAtRest
    <3>1. todo = {} /\ \A p \in Procs : ~Busy(p, n)
      BY <1>1 DEF Safe, LifeInv, Phases, Busy
    <3>2. host[n].dom.state = "ready"
      BY <1>1, <3>1 DEF Safe, LifeInv, Rest
    <3> QED BY <2>1, <3>2 DEF Keeps, Sound
  <2> QED BY <2>2, <2>3, <2>4, <2>5 DEF NothingOrphaned
<1> QED BY <1>1, LifecycleSafe, PTL

\* No user has more domains than MAX_VDI_PER_USER, though scans, definitions and
\* removals of any number of requests interleave.
THEOREM QuotaStaysHeld == Spec => []QuotaHeld
<1>1. ASSUME Safe PROVE QuotaHeld
  <2> SUFFICES ASSUME NEW o \in DOMAIN inflight
               PROVE  Cardinality({n \in Keys : Owner[n] = o /\ host[n].dom.id # 0}) <= Limit
    BY DEF QuotaHeld
  <2>1. {n \in Keys : Owner[n] = o /\ host[n].dom.id # 0} \subseteq OwnedBy(o) \cap (Existing \cup Reserved)
    BY DEF OwnedBy, Existing
  <2>2. OwnedBy(o) \cap (Existing \cup Reserved) \in SUBSET Keys
    BY DEF OwnedBy
  <2>3. /\ Cardinality({n \in Keys : Owner[n] = o /\ host[n].dom.id # 0})
             <= Cardinality(OwnedBy(o) \cap (Existing \cup Reserved))
        /\ Cardinality({n \in Keys : Owner[n] = o /\ host[n].dom.id # 0}) \in Nat
        /\ Cardinality(OwnedBy(o) \cap (Existing \cup Reserved)) \in Nat
    BY <2>1, <2>2, Fewer
  <2>4. Cardinality(OwnedBy(o) \cap (Existing \cup Reserved)) <= Limit /\ Limit \in Nat
    BY <1>1, VMAssumption DEF Safe, QuotaInv
  <2> QED BY SMTT(30), <2>3, <2>4
<1> QED BY <1>1, LifecycleSafe, PTL

\* A machine that runs is complete and committed, and one that was reported to
\* its user stays whole until somebody removes it.
THEOREM MachinesStayWhole == Spec => []MachinesWhole
<1>1. ASSUME Safe PROVE MachinesWhole
  <2>1. \A n \in Keys : Keeps(host[n], Live, n \in plan.foreign)
    BY <1>1 DEF Safe, LifeInv, Named
  <2>2. RunsWhole /\ ActiveIsCommitted
    BY <2>1 DEF RunsWhole, ActiveIsCommitted, Keeps, Sound, Complete
  <2>3. CreatedSurvives
    <3> SUFFICES ASSUME NEW i \in Live
                 PROVE  \E n \in Keys :
                          /\ host[n].dom.id = i /\ host[n].dom.state = "ready" /\ host[n].dom.full
                          /\ host[n].net # 0
                          /\ \A v \in {host[n].disk, host[n].seed} : v.by = i /\ v.done
      BY DEF CreatedSurvives, Live
    <3>1. PICK n \in Keys : host[n].dom.id = i
      BY <1>1 DEF Safe, LifeInv, Survivors
    <3>2. i # 0
      <4>1. i \in Nat /\ i > plan.requests
        BY <1>1 DEF Safe, LifeInv, Ids, Live
      <4>2. plan.requests \in Nat
        BY SMTT(30), <1>1 DEF Safe, VMTyped, Courses
      <4> QED BY SMTT(30), <4>1, <4>2
    <3>3. host[n].dom.state = "ready" /\ Complete(host[n])
      BY <2>1, <3>1, <3>2 DEF Keeps, Sound
    <3> QED BY <3>1, <3>3 DEF Complete
  <2> QED BY <2>2, <2>3 DEF MachinesWhole
<1> QED BY <1>1, LifecycleSafe, PTL
=============================================================================
