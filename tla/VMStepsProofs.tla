--------------------------- MODULE VMStepsProofs ----------------------------
(***************************************************************************)
(* Proofs about one step of a goroutine at work in VMLifecycle, for any    *)
(* number of requests under way, any VM names and owners, any              *)
(* MAX_VDI_PER_USER, any addresses and any plan (any number of requests,   *)
(* failing libvirt calls, crashes and volumes of another origin).          *)
(*                                                                         *)
(* LifeInv says what the goroutine that holds a name's lock knows of the   *)
(* machine of that name, label by label, and what a name nobody works on   *)
(* is like; QuotaInv what the counter of creations in flight counts. Each  *)
(* lemma ...Step shows that an action turns the record of its goroutine    *)
(* and the machine of its name into a pair that LifeInv allows; its step   *)
(* <1>m says so of records alone, the others that the action does no more  *)
(* than that. VMRequestsProofs and VMLifecycleProofs lift this to all      *)
(* goroutines and names.                                                   *)
(***************************************************************************)
EXTENDS VMLifecycle, TLAPS

\* The default prover is Zenon; SMT is cited where a leaf needs arithmetic or
\* the fields of a record.
USE ZenonT(40)

-----------------------------------------------------------------------------
(* Virtual machines.                                                       *)

Volumes == [by : Int, done : BOOLEAN]
Domains == [id : Nat, state : {"pending", "ready", "rollback"}, full : BOOLEAN,
            deleting : BOOLEAN, active : BOOLEAN]
Hosts == [dom : Domains, disk : Volumes, seed : Volumes, net : Addresses \cup {0}]

\* Where a goroutine decides about a creation, makes a machine and unmakes one.
Deciding == {"available", "count", "decide", "plan"}
Building == {"reserve", "disk", "upload", "seed", "burn", "define", "ready", "start", "finish"}
Making == Building \cup {"pending", "rollback"}
Undoing == {"begin", "stop", "volumes", "net", "undefine"}
Work == Deciding \cup Making \cup Undoing \cup {"recover", "mark", "power", "slot", "unlock"}

Goroutines ==
  [op : {"create", "start", "restart", "stop", "remove", "recover", "none"},
   pc : Work \cup {"idle", "lock", "leave"}, name : Keys \cup {Nil}, id : Nat,
   own : BOOLEAN, seen : BOOLEAN, count : Nat]

Courses ==
  [ops : SUBSET {"create", "start", "restart", "stop", "remove"}, names : SUBSET Keys,
   requests : Nat, faults : Nat, crashes : Nat, foreign : SUBSET Keys]

VMTyped ==
  /\ host \in [Keys -> Hosts] /\ req \in [Procs -> Goroutines]
  /\ inflight \in [{Owner[n] : n \in Keys} -> Nat]
  /\ phase \in {"down", "booting", "up"} /\ todo \subseteq Keys /\ plan \in Courses

\* Who works on a name holds its lock.
Linked ==
  \A p \in Procs :
    /\ turn[p] = "out" <=> At(p, "idle")
    /\ turn[p] = "waiting" <=> At(p, "lock")
    /\ turn[p] = "leaving" <=> At(p, "leave")
    /\ ~At(p, "idle") => want[p] = Name(p)

\* The boot has the host for itself.
Phases ==
  /\ phase # "up" => \A p \in Requests : At(p, "idle")
  /\ phase # "booting" => At(Boot, "idle") /\ todo = {}
  /\ \A p \in Procs : req[p].op = "recover" => p = Boot
  /\ ~At(Boot, "idle") => req[Boot].op = "recover"

\* Whatever happened to it, what libvirt has under a name: nothing without a
\* domain, and nothing runs or can be started that is not complete.
Complete(h) == h.dom.full /\ h.net # 0 /\ \A v \in {h.disk, h.seed} : v.by = h.dom.id /\ v.done
Sound(h) ==
  /\ h.dom.id = 0 => h.dom = NoDomain /\ h.seed = NoVolume /\ h.net = 0
  /\ \A v \in {h.disk, h.seed} : v.by > 0 => v.by = h.dom.id
  /\ h.dom.active => Complete(h) /\ h.dom.state # "pending"
  /\ h.dom.id # 0 /\ h.dom.state = "ready" /\ ~h.dom.deleting => Complete(h)

\* What a goroutine is about, where it is.
Duty(r) ==
  /\ r.pc \in Deciding \cup Making \cup {"slot"} => r.op = "create"
  /\ r.pc \in {"recover", "begin"} => r.op \in {"create", "recover"}
  /\ r.pc = "mark" => r.op = "remove"
  /\ r.pc \in Undoing => r.op \in {"create", "recover", "remove"}
  /\ r.pc \in Making => r.own
  /\ r.pc \in Deciding \cup {"lock", "recover", "mark", "power"} => ~r.own
  /\ r.own => r.op = "create"

\* What the goroutine that holds the lock of a name knows of the host: how far
\* a creation got, and how far its removal.
Progress(r, h) ==
  /\ r.pc \in {"count", "decide", "plan", "pending"} => h.dom.id = 0
  /\ r.pc \in {"pending", "reserve", "disk"} => h.disk = NoVolume
  /\ r.pc \in Building => h.dom.id = r.id /\ ~h.dom.deleting
  /\ r.pc \in Building \ {"ready", "start", "finish"} => h.dom.state = "pending"
  /\ r.pc \in Building \ {"reserve"} => h.net # 0
  /\ r.pc \in Building \ {"reserve", "disk"} => h.disk.by = r.id
  /\ r.pc \in Building \ {"reserve", "disk", "upload"} => h.disk.done
  /\ r.pc \in {"burn", "define", "ready", "start", "finish"} => h.seed.by = r.id
  /\ r.pc \in {"define", "ready", "start", "finish"} => h.seed.done
  /\ r.pc \in {"ready", "start", "finish"} => h.dom.full
  /\ r.pc \in {"start", "finish"} => h.dom.state = "ready"
  /\ r.pc = "rollback" => h.dom.id \in {0, r.id}
  /\ r.pc \in {"begin", "stop"} => r.id # 0 /\ h.dom.id # 0 /\ (r.seen \/ ~h.dom.active)
  /\ r.pc = "stop" => h.dom.state = "rollback" \/ h.dom.deleting
  /\ r.pc \in {"volumes", "net", "undefine"} =>
       /\ ~h.dom.active
       /\ h.dom.id # 0 => r.id # 0 /\ (h.dom.state = "rollback" \/ h.dom.deleting)
       /\ h.dom.id = 0 => r.op = "remove"
  /\ r.pc \in {"net", "undefine"} => h.disk = NoVolume /\ h.seed = NoVolume
  /\ r.pc = "undefine" => h.net = 0

\* Nothing that was reported to its user is unmade; made are the operations
\* reported, live those of them that nobody removes.
Spares(r, h, made, live) ==
  /\ r.op = "create" /\ r.pc \notin {"slot", "unlock"} => r.id \notin made
  /\ r.pc \in Undoing => h.dom.id \notin live

\* While no libvirt call fails, nobody leaves an unfinished creation behind.
Tidy(r, h) ==
  /\ r.pc \in Deciding \cup {"mark", "power", "slot", "unlock"} => h.dom.state = "ready"
  /\ r.pc = "recover" /\ r.op = "create" => h.dom.state = "ready"
  /\ r.pc = "rollback" => h.dom.id = r.id

\* A name: a volume of another origin keeps domains away from it, and what was
\* reported is ready.
Keeps(h, live, foreign) ==
  /\ Sound(h)
  /\ foreign => h.disk = ForeignVolume /\ h.dom.id = 0
  /\ h.dom.id \in live => h.dom.state = "ready" /\ ~h.dom.deleting

\* A goroutine at work on a name.
Fits(r, h, made, live, trouble) ==
  Progress(r, h) /\ Spares(r, h, made, live) /\ (trouble \/ Tidy(r, h))

Live == created \ removed
Named(n) == Keeps(host[n], Live, n \in plan.foreign)
Local(p) ==
  /\ Duty(req[p])
  /\ req[p].op = "remove" /\ ~At(p, "idle") => Name(p) \notin plan.foreign
  /\ req[p].op = "create" /\ At(p, "lock") => req[p].id \notin created
  /\ req[p].pc \in Work => Fits(req[p], Here(p), created, Live, troubled)

Busy(p, n) == Name(p) = n /\ (req[p].pc \in Work \/ (At(p, "lock") /\ req[p].op = "recover"))
Rest ==
  phase # "down" /\ ~troubled =>
    \A n \in Keys \ todo : (\A p \in Procs : ~Busy(p, n)) => host[n].dom.state = "ready"

\* Each creation has an identity of its own, and so has its domain.
Creating(p) == req[p].op = "create" /\ ~At(p, "idle")
Ids ==
  /\ \A p \in Procs : Creating(p) => req[p].id > plan.requests
  /\ \A n \in Keys : host[n].dom.id # 0 => host[n].dom.id > plan.requests
  /\ \A i \in created : i \in Nat /\ i > plan.requests
  /\ \A p, q \in Procs : Creating(p) /\ Creating(q) /\ req[p].id = req[q].id => p = q
  /\ \A p \in Procs, n \in Keys : Creating(p) /\ host[n].dom.id = req[p].id => n = Name(p)

Survivors == \A i \in Live : \E n \in Keys : host[n].dom.id = i

LifeInv ==
  /\ Linked /\ Phases /\ Rest /\ Ids /\ Survivors
  /\ \A n \in Keys : Named(n)
  /\ \A p \in Procs : Local(p)
-----------------------------------------------------------------------------
(* The quota.                                                              *)

\* The names somebody holds a slot for.
Reserves(r) == r.pc \in Making \cup {"plan", "slot"} \/ (r.own /\ r.pc \in Undoing)
Reserved == {n \in Keys : \E p \in Procs : Reserves(req[p]) /\ Name(p) = n}
Existing == {n \in Keys : host[n].dom.id # 0}
OwnedBy(o) == {n \in Keys : Owner[n] = o}

\* A goroutine that decides about the quota knows at least the number of the
\* machines of its owner that nobody holds a slot for.
Counted(p) == Cardinality(Mine(p) \cap (Existing \ Reserved)) <= req[p].count

QuotaInv ==
  /\ \A o \in DOMAIN inflight :
       /\ inflight[o] = Cardinality(OwnedBy(o) \cap Reserved)
       /\ Cardinality(OwnedBy(o) \cap (Existing \cup Reserved)) <= Limit
  /\ \A p \in Procs : At(p, "decide") => Counted(p)
  /\ \A p, q \in Procs : At(p, "decide") /\ At(q, "decide") /\ Owner[Name(p)] = Owner[Name(q)] => p = q

-----------------------------------------------------------------------------
(* What a step of a goroutine makes of what it knows and of its name.      *)

\* Request r with machine h becomes s with g: s still fits g, and the step is
\* one the other goroutines, the quota and the reported creations can bear.
Turned(r, h, s, g, made, live, trouble, foreign) ==
  /\ Keeps(g, live, foreign) /\ Duty(s) /\ Fits(s, g, made, live, trouble) /\ s.pc \in Work
  /\ g.dom.id # 0 => g.dom.id = h.dom.id \/ (g.dom.id = r.id /\ Reserves(r))
  /\ h.dom.id \in live => g.dom.id = h.dom.id
Moved(r, h, s, g, made, live, trouble, foreign) ==
  /\ Turned(r, h, s, g, made, live, trouble, foreign)
  /\ s.pc # "decide" /\ (Reserves(s) <=> Reserves(r))

Same(s, r) == s.op = r.op /\ s.id = r.id /\ s.own = r.own /\ s.seen = r.seen

\* What holds of a goroutine at work, with what it is about to do.
Turn(r, h, s, g, made, live, was, trouble, foreign) ==
  /\ r \in Goroutines /\ h \in Hosts /\ s \in Goroutines /\ g \in Hosts
  /\ Keeps(h, live, foreign) /\ Duty(r) /\ Fits(r, h, made, live, was)
  /\ live \subseteq made /\ 0 \notin live
  /\ r.op = "remove" => ~foreign
  /\ r.op = "create" => r.id # 0
  /\ s.op = r.op /\ (s.own = r.own \/ r.pc = "plan") /\ (was => trouble)

\* The outcomes of a libvirt call that changes machine h to x.
Calls(s, g, h, x, ok, bad, trouble) ==
  (s.pc = ok /\ g = x) \/ (s.pc = bad /\ g \in {h, x} /\ trouble)
Gives(r) == IF r.own THEN "slot" ELSE "unlock"

-----------------------------------------------------------------------------
(* The frame of a step.                                                    *)

\* Goroutine p, at work, changes its own record and the machine of its name.
Touch(p) ==
  /\ req' \in [Procs -> Goroutines] /\ \A q \in Procs \ {p} : req'[q] = req[q]
  /\ host' \in [Keys -> Hosts] /\ \A n \in Keys \ {Name(p)} : host'[n] = host[n]
  /\ req'[p].name = Name(p) /\ req'[p].op = req[p].op
  /\ req[p].op = "create" => req'[p].id = req[p].id
  /\ plan' \in Courses /\ plan'.requests = plan.requests /\ plan'.foreign = plan.foreign
  /\ troubled => troubled'

\* Another label leaves the other fields of a goroutine's record alone.
LEMMA Relabelled ==
  ASSUME NEW r \in Goroutines, NEW label \in Work, NEW s, s = [r EXCEPT !.pc = label]
  PROVE  s \in Goroutines /\ Same(s, r) /\ s.pc = label /\ s.name = r.name /\ s.count = r.count
BY SMTT(30) DEF Goroutines, Same

\* One fault less is a course too.
LEMMA Spent ==
  ASSUME NEW c \in Courses, c.faults > 0, NEW d, d = [c EXCEPT !.faults = @ - 1]
  PROVE  d \in Courses /\ d.requests = c.requests /\ d.foreign = c.foreign
BY SMTT(30) DEF Courses

\* A goroutine goes on, with another machine or the same.
LEMMA GotoTouches ==
  ASSUME VMTyped, NEW p \in Procs, Name(p) \in Keys, NEW label \in Work, NEW h \in Hosts,
         Goto(p, label), Put(p, h), troubled => troubled',
         plan' \in Courses, plan'.requests = plan.requests, plan'.foreign = plan.foreign
  PROVE  Touch(p) /\ req'[p].pc = label /\ Same(req'[p], req[p]) /\ Here(p)' = h
<1>1. req \in [Procs -> Goroutines] /\ host \in [Keys -> Hosts]
  BY DEF VMTyped
<1>2. req' = [req EXCEPT ![p] = [req[p] EXCEPT !.pc = label]]
  BY <1>1 DEF Goto
<1>3. req'[p] = [req[p] EXCEPT !.pc = label] /\ \A q \in Procs \ {p} : req'[q] = req[q]
  BY <1>1, <1>2
<1>4. /\ req'[p] \in Goroutines /\ Same(req'[p], req[p]) /\ req'[p].pc = label
      /\ req'[p].name = req[p].name
  <2>1. req[p] \in Goroutines
    BY <1>1
  <2> QED BY <1>3, <2>1, Relabelled
<1>5. req' \in [Procs -> Goroutines]
  BY <1>1, <1>2, <1>3, <1>4
<1>6. host' \in [Keys -> Hosts] /\ host'[Name(p)] = h /\ \A n \in Keys \ {Name(p)} : host'[n] = host[n]
  BY <1>1 DEF Put
<1> QED BY <1>3, <1>4, <1>5, <1>6 DEF Touch, Same, Here, Name

\* Nothing but the label changes.
LEMMA GoesTouches ==
  ASSUME VMTyped, NEW p \in Procs, Name(p) \in Keys, NEW label \in Work, Goes(p, label)
  PROVE  /\ Touch(p) /\ req'[p].pc = label /\ Same(req'[p], req[p]) /\ Here(p)' = Here(p)
         /\ troubled' = troubled
<1>1. host' = [host EXCEPT ![Name(p)] = Here(p)] /\ Here(p) \in Hosts
  BY DEF VMTyped, Goes, Here
<1> QED BY <1>1, GotoTouches DEF VMTyped, Goes, Calm, Put

\* A refusal is a failure that changes nothing.
LEMMA RefusesTouches ==
  ASSUME VMTyped, NEW p \in Procs, Name(p) \in Keys, NEW label \in Work, Refuses(p, label)
  PROVE  /\ Touch(p) /\ req'[p].pc = label /\ Same(req'[p], req[p]) /\ Here(p)' = Here(p)
         /\ troubled'
<1>1. host' = [host EXCEPT ![Name(p)] = Here(p)] /\ Here(p) \in Hosts
  BY DEF VMTyped, Refuses, Here
<1> QED BY <1>1, GotoTouches DEF VMTyped, Refuses, Noted, Put

\* A libvirt call fails with one of its outcomes.
LEMMA FailsTouches ==
  ASSUME VMTyped, NEW p \in Procs, Name(p) \in Keys, NEW label \in Work, NEW outcomes \in SUBSET Hosts,
         Fails(p, outcomes, label)
  PROVE  /\ Touch(p) /\ req'[p].pc = label /\ Same(req'[p], req[p]) /\ Here(p)' \in outcomes
         /\ troubled'
<1>1. PICK h \in outcomes : Put(p, h)
  BY DEF Fails
<1>2. plan' \in Courses /\ plan'.requests = plan.requests /\ plan'.foreign = plan.foreign
  BY Spent DEF Fails, VMTyped
<1> QED BY <1>1, <1>2, GotoTouches DEF Fails, Noted

\* A libvirt call succeeds or fails.
LEMMA CallTouches ==
  ASSUME VMTyped, NEW p \in Procs, Name(p) \in Keys, NEW ok \in Work, NEW bad \in Work, NEW h \in Hosts,
         Call(p, h, ok, bad)
  PROVE  /\ Touch(p) /\ Same(req'[p], req[p])
         /\ Calls(req'[p], Here(p)', Here(p), h, ok, bad, troubled')
<1>1. CASE Put(p, h) /\ Goto(p, ok) /\ Calm
  BY <1>1, GotoTouches DEF Calm, VMTyped, Calls
<1>2. CASE Fails(p, {h, Here(p)}, bad)
  <2>1. {h, Here(p)} \in SUBSET Hosts
    BY DEF VMTyped, Here
  <2> QED BY <1>2, <2>1, FailsTouches DEF Calls
<1> QED BY <1>1, <1>2 DEF Call

\* A goroutine that looks at its machine.
LEMMA LooksTouches ==
  ASSUME VMTyped, NEW p \in Procs, Name(p) \in Keys, UNCHANGED host, Calm,
         NEW s \in Goroutines, req' = [req EXCEPT ![p] = s],
         s.name = req[p].name, s.op = req[p].op, req[p].op = "create" => s.id = req[p].id
  PROVE  Touch(p) /\ req'[p] = s /\ Here(p)' = Here(p) /\ troubled' = troubled
<1>1. req \in [Procs -> Goroutines] /\ host \in [Keys -> Hosts]
  BY DEF VMTyped
<1>2. req' \in [Procs -> Goroutines] /\ req'[p] = s /\ \A q \in Procs \ {p} : req'[q] = req[q]
  BY <1>1
<1> QED BY <1>1, <1>2 DEF Touch, Calm, VMTyped, Here, Name

-----------------------------------------------------------------------------
(* What holds of a goroutine at work, and what its step does to it.        *)

Safe == VMTyped /\ MutexTypeOK /\ MutexInv /\ LifeInv /\ QuotaInv

\* The step of p turns what p knows and its machine into what fits together.
Advance(p) ==
  Touch(p) /\ Moved(req[p], Here(p), req'[p], Here(p)', created, Live, troubled', Name(p) \in plan.foreign)

\* A goroutine at work holds the lock of its name.
LEMMA Holds ==
  ASSUME Safe, NEW p \in Procs, req[p].pc \in Work
  PROVE  turn[p] = "holding" /\ want[p] = Name(p) /\ Name(p) \in Keys
<1>1. req[p].pc \notin {"idle", "lock", "leave"}
  BY SMTT(30) DEF Work, Deciding, Making, Building, Undoing
<1>2. turn[p] \in {"out", "waiting", "holding", "leaving"}
  BY DEF Safe, MutexTypeOK
<1>3. turn[p] = "holding" /\ want[p] = Name(p)
  BY <1>1, <1>2 DEF Safe, LifeInv, Linked, At
<1>4. want[p] \in Keys
  BY <1>3 DEF Safe, MutexInv
<1> QED BY <1>3, <1>4

\* Two goroutines at work on one name are one.
LEMMA Alone ==
  ASSUME Safe, NEW p \in Procs, NEW q \in Procs, req[p].pc \in Work, req[q].pc \in Work, Name(p) = Name(q)
  PROVE  p = q
<1>1. turn[p] = "holding" /\ turn[q] = "holding" /\ want[p] = want[q] /\ want[p] \in Keys
  BY Holds
<1>2. entry[p] = entry[q]
  <2>1. locks[want[p]] = entry[p] /\ locks[want[q]] = entry[q]
    BY <1>1 DEF Safe, MutexInv
  <2> QED BY <1>1, <2>1
<1> QED BY <1>1, <1>2 DEF Safe, MutexInv

\* What the lemmas about its steps assume of a goroutine at work.
LEMMA Working ==
  ASSUME Safe, NEW p \in Procs, req[p].pc \in Work, Touch(p), req'[p].own = req[p].own \/ req[p].pc = "plan"
  PROVE  Turn(req[p], Here(p), req'[p], Here(p)', created, Live, troubled, troubled',
             Name(p) \in plan.foreign)
<1>1. Name(p) \in Keys
  BY Holds
<1>2. /\ req[p] \in Goroutines /\ Here(p) \in Hosts /\ req'[p] \in Goroutines /\ Here(p)' \in Hosts
  BY <1>1 DEF Safe, VMTyped, Touch, Here, Name
<1>3. Keeps(Here(p), Live, Name(p) \in plan.foreign)
  BY <1>1 DEF Safe, LifeInv, Named, Here
<1>4. Duty(req[p]) /\ Fits(req[p], Here(p), created, Live, troubled)
  BY DEF Safe, LifeInv, Local
<1>5. ~At(p, "idle")
  BY SMTT(30) DEF At, Work, Deciding, Making, Building, Undoing
<1>6. req[p].op = "remove" => ~(Name(p) \in plan.foreign)
  BY <1>5 DEF Safe, LifeInv, Local
<1>7. plan.requests \in Nat
  BY SMTT(30) DEF Safe, VMTyped, Courses
<1>8. Live \subseteq created
  BY DEF Live
<1>9. 0 \notin Live
  <2>1. \A i \in created : i \in Nat /\ i > plan.requests
    BY DEF Safe, LifeInv, Ids
  <2> QED BY SMTT(30), <1>7, <1>8, <2>1
<1>10. req[p].op = "create" => req[p].id # 0
  <2>1. req[p].op = "create" => req[p].id > plan.requests
    BY <1>5 DEF Safe, LifeInv, Ids, Creating
  <2>2. req[p].id \in Nat
    BY SMTT(30), <1>2 DEF Goroutines
  <2> QED BY SMTT(30), <1>7, <2>1, <2>2
<1> QED BY <1>2, <1>3, <1>4, <1>6, <1>8, <1>9, <1>10 DEF Turn, Touch

-----------------------------------------------------------------------------
(* The steps, one by one.                                                  *)

\* The labels of the code between lock and unlock.
LEMMA Labels ==
  {"available", "count", "decide", "plan", "reserve", "disk", "upload", "seed", "burn", "define", "ready",
   "start", "finish", "pending", "rollback", "begin", "stop", "volumes", "net", "undefine", "recover",
   "mark", "power", "slot", "unlock"} \subseteq Work
BY SMTT(30) DEF Work, Deciding, Making, Building, Undoing

\* Where a cleanup returns to, and where it gives up.
LEMMA Returns ==
  ASSUME NEW p \in Procs, req[p] \in Goroutines
  PROVE  /\ Unwound(p) = IF req[p].op # "create" THEN "unlock" ELSE IF req[p].own THEN "slot" ELSE "available"
         /\ Stuck(p) = Gives(req[p]) /\ Unwound(p) \in Work /\ Stuck(p) \in Work
BY SMTT(30) DEF Goroutines, Unwound, Stuck, Gives, Work, Deciding, Making, Building, Undoing

\* What every step at work starts from.
LEMMA AtWork ==
  ASSUME Safe, NEW p \in Procs, NEW label \in Work, At(p, label)
  PROVE  /\ VMTyped /\ req[p].pc = label /\ req[p].pc \in Work /\ Name(p) \in Keys
         /\ Here(p) \in Hosts /\ req[p] \in Goroutines /\ Duty(req[p])
<1>1. req[p].pc = label /\ req[p].pc \in Work
  BY DEF At
<1>2. Name(p) \in Keys
  BY <1>1, Holds
<1>3. Duty(req[p])
  BY DEF Safe, LifeInv, Local
<1> QED BY <1>1, <1>2, <1>3 DEF Safe, VMTyped, Here

\* What a step of p at work starts from and leads to, as the lemmas about
\* steps want it.
Turns(p) ==
  /\ Touch(p)
  /\ Turn(req[p], Here(p), req'[p], Here(p)', created, Live, troubled, troubled', Name(p) \in plan.foreign)

\* A goroutine at work goes on, and nothing else happens.
LEMMA Going ==
  ASSUME Safe, NEW p \in Procs, req[p].pc \in Work, NEW label \in Work, Goes(p, label)
  PROVE  /\ Turns(p) /\ req'[p].pc = label /\ Same(req'[p], req[p]) /\ req'[p].id = req[p].id
         /\ Here(p)' = Here(p) /\ troubled' = troubled
<1>1. VMTyped /\ Name(p) \in Keys
  BY Holds DEF Safe
<1>2. /\ Touch(p) /\ req'[p].pc = label /\ Same(req'[p], req[p]) /\ Here(p)' = Here(p)
      /\ troubled' = troubled
  BY <1>1, GoesTouches
<1>3. req'[p].own = req[p].own /\ req'[p].id = req[p].id
  BY <1>2 DEF Same
<1> QED BY <1>2, <1>3, Working DEF Turns

\* It is refused something, which is noted.
LEMMA Refusing ==
  ASSUME Safe, NEW p \in Procs, req[p].pc \in Work, NEW label \in Work, Refuses(p, label)
  PROVE  Turns(p) /\ req'[p].pc = label /\ Same(req'[p], req[p]) /\ Here(p)' = Here(p) /\ troubled'
<1>1. VMTyped /\ Name(p) \in Keys
  BY Holds DEF Safe
<1>2. Touch(p) /\ req'[p].pc = label /\ Same(req'[p], req[p]) /\ Here(p)' = Here(p) /\ troubled'
  BY <1>1, RefusesTouches
<1>3. req'[p].own = req[p].own
  BY <1>2 DEF Same
<1> QED BY <1>2, <1>3, Working DEF Turns

\* A libvirt call of it fails.
LEMMA Failing ==
  ASSUME Safe, NEW p \in Procs, req[p].pc \in Work, NEW label \in Work, NEW outcomes \in SUBSET Hosts,
         Fails(p, outcomes, label)
  PROVE  /\ Turns(p) /\ req'[p].pc = label /\ Same(req'[p], req[p]) /\ req'[p].id = req[p].id
         /\ Here(p)' \in outcomes /\ troubled'
<1>1. VMTyped /\ Name(p) \in Keys
  BY Holds DEF Safe
<1>2. Touch(p) /\ req'[p].pc = label /\ Same(req'[p], req[p]) /\ Here(p)' \in outcomes /\ troubled'
  BY <1>1, FailsTouches
<1>3. req'[p].own = req[p].own /\ req'[p].id = req[p].id
  BY <1>2 DEF Same
<1> QED BY <1>2, <1>3, Working DEF Turns

\* A libvirt call of it succeeds or fails.
LEMMA Calling ==
  ASSUME Safe, NEW p \in Procs, req[p].pc \in Work, NEW ok \in Work, NEW bad \in Work, NEW h \in Hosts,
         Call(p, h, ok, bad)
  PROVE  /\ Turns(p) /\ Same(req'[p], req[p])
         /\ Calls(req'[p], Here(p)', Here(p), h, ok, bad, troubled')
<1>1. VMTyped /\ Name(p) \in Keys
  BY Holds DEF Safe
<1>2. /\ Touch(p) /\ Same(req'[p], req[p])
      /\ Calls(req'[p], Here(p)', Here(p), h, ok, bad, troubled')
  BY <1>1, CallTouches
<1>3. req'[p].own = req[p].own
  BY <1>2 DEF Same
<1> QED BY <1>2, <1>3, Working DEF Turns

\* It looks at its machine and goes on with what it saw.
LEMMA Looking ==
  ASSUME Safe, NEW p \in Procs, req[p].pc \in Work, UNCHANGED host, Calm,
         NEW s \in Goroutines, req' = [req EXCEPT ![p] = s], s.own = req[p].own \/ req[p].pc = "plan",
         s.name = req[p].name, s.op = req[p].op, req[p].op = "create" => s.id = req[p].id
  PROVE  Turns(p) /\ req'[p] = s /\ Here(p)' = Here(p) /\ troubled' = troubled
<1>1. VMTyped /\ Name(p) \in Keys
  BY Holds DEF Safe
<1>2. Touch(p) /\ req'[p] = s /\ Here(p)' = Here(p) /\ troubled' = troubled
  BY <1>1, LooksTouches
<1> QED BY <1>2, Working DEF Turns

\* A goroutine's record with other values in some fields is one.
LEMMA Rewritten ==
  ASSUME NEW r \in Goroutines, NEW label \in Work, NEW b \in BOOLEAN, NEW i \in Nat
  PROVE  /\ [r EXCEPT !.pc = label] \in Goroutines /\ [r EXCEPT !.seen = b] \in Goroutines
         /\ [r EXCEPT !.id = i] \in Goroutines /\ [r EXCEPT !.own = b] \in Goroutines
         /\ [r EXCEPT !.count = i] \in Goroutines
BY SMTT(30) DEF Goroutines

\* A goroutine that looked whether its machine runs,
View(r, h, label) == [r EXCEPT !.pc = label, !.seen = h.dom.active]
ViewAs(r, h, label, i) == [r EXCEPT !.pc = label, !.seen = h.dom.active, !.id = i]

\* Both are records of goroutines, with the fields that were written.
LEMMA Viewed ==
  ASSUME NEW r \in Goroutines, NEW h \in Hosts, NEW label \in Work, NEW s,
         s = View(r, h, label)
  PROVE  /\ s \in Goroutines /\ s.name = r.name /\ s.op = r.op /\ s.own = r.own
         /\ s.pc = label /\ s.seen = h.dom.active /\ s.id = r.id
<1>1. h.dom.active \in BOOLEAN
  BY SMTT(30) DEF Hosts, Domains
<1>2. PICK x \in Goroutines : x = [r EXCEPT !.pc = label]
  BY Rewritten
<1>3. PICK y \in Goroutines : y = [x EXCEPT !.seen = h.dom.active]
  BY <1>1, Rewritten
<1>4. s \in Goroutines
  BY <1>2, <1>3 DEF View
<1> QED BY SMTT(30), <1>4 DEF Goroutines, View

\* and takes an identity.
LEMMA ViewedAs ==
  ASSUME NEW r \in Goroutines, NEW h \in Hosts, NEW label \in Work, NEW i \in Nat, NEW s,
         s = ViewAs(r, h, label, i)
  PROVE  /\ s \in Goroutines /\ s.name = r.name /\ s.op = r.op /\ s.own = r.own
         /\ s.pc = label /\ s.seen = h.dom.active /\ s.id = i
<1>1. PICK x : x = View(r, h, label)
  OBVIOUS
<1>2. x \in Goroutines
  BY <1>1, Viewed
<1>3. s = [x EXCEPT !.id = i]
  BY <1>1 DEF View, ViewAs
<1>4. s \in Goroutines
  BY <1>2, <1>3, Rewritten
<1> QED BY SMTT(30), <1>4 DEF Goroutines, ViewAs

\* A goroutine that keeps a count, and goes on.
Tell(r, label, c) == [r EXCEPT !.pc = label, !.count = c]

\* It is a record of a goroutine, with that count.
LEMMA ToldIs ==
  ASSUME NEW r \in Goroutines, NEW label \in Work, NEW c \in Nat, NEW s, s = Tell(r, label, c)
  PROVE  s \in Goroutines /\ Same(s, r) /\ s.name = r.name /\ s.pc = label /\ s.count = c
<1>1. PICK x \in Goroutines : x = [r EXCEPT !.pc = label]
  BY Rewritten
<1>2. PICK y \in Goroutines : y = [x EXCEPT !.count = c]
  BY Rewritten
<1>3. s \in Goroutines
  BY <1>1, <1>2 DEF Tell
<1> QED BY SMTT(30), <1>3 DEF Goroutines, Tell, Same

\* What the calls make of a machine is a machine.
LEMMA Machines ==
  ASSUME NEW h \in Hosts, NEW d \in Domains, NEW v \in Volumes, NEW a \in Addresses \cup {0},
             NEW b \in BOOLEAN
  PROVE  /\ [h EXCEPT !.dom.state = "rollback"] \in Hosts
         /\ [h EXCEPT !.dom.state = "ready"] \in Hosts
         /\ [h EXCEPT !.dom.active = b] \in Hosts
         /\ [h EXCEPT !.dom.deleting = b] \in Hosts
         /\ [h EXCEPT !.dom.full = b] \in Hosts
         /\ [h EXCEPT !.net = a] \in Hosts
         /\ [h EXCEPT !.dom = d] \in Hosts
         /\ [h EXCEPT !["disk"] = v] \in Hosts
         /\ [h EXCEPT !["seed"] = v] \in Hosts
         /\ [h EXCEPT !["disk"].done = b] \in Hosts
         /\ [h EXCEPT !["seed"].done = b] \in Hosts
<1>1. [h EXCEPT !.dom.state = "rollback"] \in Hosts
  BY SMTT(30) DEF Hosts, Domains
<1>2. [h EXCEPT !.dom.state = "ready"] \in Hosts
  BY SMTT(30) DEF Hosts, Domains
<1>3. [h EXCEPT !.dom.active = b] \in Hosts
  BY SMTT(30) DEF Hosts, Domains
<1>4. [h EXCEPT !.dom.deleting = b] \in Hosts
  BY SMTT(30) DEF Hosts, Domains
<1>5. [h EXCEPT !.dom.full = b] \in Hosts
  BY SMTT(30) DEF Hosts, Domains
<1>6. [h EXCEPT !.net = a] \in Hosts
  BY SMTT(30) DEF Hosts, Domains
<1>7. [h EXCEPT !.dom = d] \in Hosts
  BY SMTT(30) DEF Hosts, Domains
<1>8. [h EXCEPT !["disk"] = v] \in Hosts
  BY SMTT(30) DEF Hosts, Domains
<1>9. [h EXCEPT !["seed"] = v] \in Hosts
  BY SMTT(30) DEF Hosts, Domains
<1>10. [h EXCEPT !["disk"].done = b] \in Hosts
  BY SMTT(30) DEF Hosts, Volumes
<1>11. [h EXCEPT !["seed"].done = b] \in Hosts
  BY SMTT(30) DEF Hosts, Volumes
<1> QED BY <1>1, <1>2, <1>3, <1>4, <1>5, <1>6, <1>7, <1>8, <1>9, <1>10, <1>11

\* No domain, no volume, and volumes exchanged.
LEMMA Empties ==
  /\ NoDomain \in Domains /\ NoVolume \in Volumes
  /\ \A i \in Nat : [id |-> i, state |-> "pending", full |-> FALSE, deleting |-> FALSE, active |-> FALSE]
                      \in Domains
  /\ \A i \in Nat : [by |-> i, done |-> FALSE] \in Volumes
BY SMTT(30) DEF NoDomain, NoVolume, Domains, Volumes

\* Both volumes may change.
LEMMA TwoVolumes ==
  ASSUME NEW h \in Hosts, NEW d \in Volumes, NEW e \in Volumes, NEW g, g = [h EXCEPT !.disk = d, !.seed = e]
  PROVE  g \in Hosts
<1>1. PICK x : x = [h EXCEPT !.disk = d]
  OBVIOUS
<1>2. x \in Hosts
  BY SMTT(30), <1>1 DEF Hosts
<1>3. g = [x EXCEPT !.seed = e]
  BY <1>1
<1> QED BY SMTT(30), <1>2, <1>3 DEF Hosts

\* recoverPendingProvisioningLocked.
LEMMA RecoverStep ==
  ASSUME Safe, NEW p \in Procs, Recover(p)
  PROVE  Advance(p)
<1>m. ASSUME NEW r, NEW h, NEW s, NEW g, NEW made, NEW live, NEW was, NEW trouble, NEW foreign,
             Turn(r, h, s, g, made, live, was, trouble, foreign),
             r.pc = "recover",
             \/ /\ g = h /\ Same(s, r)
                /\ \/ /\ h.dom.id = 0 \/ h.dom.state = "ready"
                      /\ s.pc = IF r.op = "create" THEN "available" ELSE "unlock"
                   \/ s.pc = "unlock" /\ (trouble \/ r.op = "create")
             \/ /\ g = h /\ h.dom.id # 0 /\ h.dom.state # "ready" /\ s.pc = "begin"
                /\ s.seen = h.dom.active /\ s.id # 0 /\ (r.op = "create" => s.id = r.id)
      PROVE  Moved(r, h, s, g, made, live, trouble, foreign)
  BY SMTT(30), <1>m DEF Moved, Turned, Turn, Same, Calls, Gives, Duty, Fits, Progress, Spares, Tidy,
     Reserves, Work, Deciding, Building, Making, Undoing, Goroutines, Keeps, Sound, Complete,
     NoDomain, NoVolume, ForeignVolume, Hosts, Domains, Volumes
<1>1. "recover" \in Work /\ "unlock" \in Work /\ "begin" \in Work
  BY Labels
<1>3. /\ VMTyped /\ req[p].pc = "recover" /\ req[p].pc \in Work /\ Name(p) \in Keys
      /\ Here(p) \in Hosts /\ req[p] \in Goroutines /\ Duty(req[p])
  BY <1>1, AtWork DEF Recover
<1>4. Unwound(p) \in Work /\ Unwound(p) = IF req[p].op = "create" THEN "available" ELSE "unlock"
  BY <1>3, Returns DEF Duty
<1>5. CASE (Dom(p).id = 0 \/ Dom(p).state = "ready") /\ Goes(p, Unwound(p))
  BY <1>m, <1>3, <1>4, <1>5, Going DEF Advance, Dom, Turns
<1>6. CASE Fails(p, {Here(p)}, "unlock")
  <2>1. {Here(p)} \in SUBSET Hosts
    BY <1>3
  <2>2. Turns(p) /\ req'[p].pc = "unlock" /\ Same(req'[p], req[p]) /\ Here(p)' = Here(p) /\ troubled'
    BY <1>1, <1>3, <1>6, <2>1, Failing
  <2> QED BY <1>m, <1>3, <2>2 DEF Advance, Turns
<1>7. CASE req[p].op = "create" /\ Goes(p, "unlock")
  BY <1>m, <1>1, <1>3, <1>7, Going DEF Advance, Turns
<1>8. CASE Refuses(p, "unlock")
  BY <1>m, <1>1, <1>3, <1>8, Refusing DEF Advance, Turns
<1>9. CASE /\ Dom(p).id # 0 /\ Dom(p).state # "ready" /\ UNCHANGED host /\ Calm
           /\ req' = [req EXCEPT ![p] = [@ EXCEPT !.pc = "begin", !.seen = Dom(p).active,
                                 !.id = IF req[p].op = "create" THEN req[p].id ELSE Dom(p).id]]
  <2>1. PICK i : i = IF req[p].op = "create" THEN req[p].id ELSE Dom(p).id
    OBVIOUS
  <2>2. PICK s : s = [req[p] EXCEPT !.pc = "begin", !.seen = Dom(p).active, !.id = i]
    OBVIOUS
  <2>3. /\ s \in Goroutines /\ s.name = req[p].name /\ s.op = req[p].op /\ s.own = req[p].own
        /\ s.pc = "begin" /\ s.seen = Dom(p).active /\ s.id = i
    <3>1. i \in Nat
      BY SMTT(30), <1>3, <2>1 DEF Hosts, Domains, Dom, Goroutines
    <3>2. s = ViewAs(req[p], Here(p), "begin", i)
      BY <2>2 DEF Dom, ViewAs
    <3>3. req[p] \in Goroutines /\ Here(p) \in Hosts /\ "begin" \in Work
      BY <1>1, <1>3
    <3>4. /\ s \in Goroutines /\ s.name = req[p].name /\ s.op = req[p].op /\ s.own = req[p].own
          /\ s.pc = "begin" /\ s.seen = Here(p).dom.active /\ s.id = i
      BY SMTT(30), <3>1, <3>2, <3>3, ViewedAs
    <3> QED BY <3>4 DEF Dom
  <2>6. req' = [req EXCEPT ![p] = s]
    BY <1>9, <2>1, <2>2
  <2>7. req[p].op = "create" => s.id = req[p].id
    BY <2>1, <2>3
  <2>4. Turns(p) /\ req'[p] = s /\ Here(p)' = Here(p) /\ troubled' = troubled
    BY <1>3, <1>9, <2>3, <2>6, <2>7, Looking
  <2>5. s.id # 0 /\ (req[p].op = "create" => s.id = req[p].id)
    BY <1>9, <2>1, <2>3, <2>4 DEF Turns, Turn
  <2> QED BY <1>m, <1>3, <1>9, <2>3, <2>4, <2>5 DEF Advance, Dom, Turns
<1> QED BY <1>5, <1>6, <1>7, <1>8, <1>9 DEF Recover

\* rollbackProvisioningIntent.
LEMMA RollbackStep ==
  ASSUME Safe, NEW p \in Procs, Rollback(p)
  PROVE  Advance(p)
<1>m. ASSUME NEW r, NEW h, NEW s, NEW g, NEW made, NEW live, NEW was, NEW trouble, NEW foreign,
             Turn(r, h, s, g, made, live, was, trouble, foreign),
             r.pc = "rollback",
             g = h,
             s.id = r.id,
             \/ h.dom.id # r.id /\ s.pc = "slot"
             \/ h.dom.id = r.id /\ s.pc = "begin" /\ s.seen = h.dom.active
             \/ s.pc = "slot" /\ trouble
      PROVE  Moved(r, h, s, g, made, live, trouble, foreign)
  BY SMTT(30), <1>m DEF Moved, Turned, Turn, Same, Calls, Gives, Duty, Fits, Progress, Spares, Tidy,
     Reserves, Work, Deciding, Building, Making, Undoing, Goroutines, Keeps, Sound, Complete,
     NoDomain, NoVolume, ForeignVolume, Hosts, Domains, Volumes
<1>1. "rollback" \in Work /\ "slot" \in Work /\ "begin" \in Work
  BY Labels
<1>2. /\ req[p].pc = "rollback" /\ req[p].pc \in Work /\ Here(p) \in Hosts /\ req[p] \in Goroutines
      /\ {Here(p)} \in SUBSET Hosts
  BY <1>1, AtWork DEF Rollback
<1>3. CASE ~SameOperation(p) /\ Goes(p, "slot")
  BY <1>m, <1>1, <1>2, <1>3, Going DEF Advance, Turns, Dom, SameOperation
<1>4. CASE Fails(p, {Here(p)}, "slot")
  <2>1. Turns(p) /\ req'[p].pc = "slot" /\ req'[p].id = req[p].id /\ Here(p)' = Here(p) /\ troubled'
    BY <1>1, <1>2, <1>4, Failing
  <2> QED BY <1>m, <1>2, <2>1 DEF Advance, Turns
<1>5. CASE /\ SameOperation(p) /\ UNCHANGED host /\ Calm
           /\ req' = [req EXCEPT ![p] = [@ EXCEPT !.pc = "begin", !.seen = Dom(p).active]]
  <2>1. PICK s : s = View(req[p], Here(p), "begin")
    OBVIOUS
  <2>2. /\ s \in Goroutines /\ s.name = req[p].name /\ s.op = req[p].op /\ s.own = req[p].own
        /\ s.pc = "begin" /\ s.seen = Here(p).dom.active /\ s.id = req[p].id
    <3>1. req[p] \in Goroutines /\ Here(p) \in Hosts /\ "begin" \in Work
      BY <1>1, <1>2
    <3> QED BY SMTT(30), <2>1, <3>1, Viewed
  <2>3. req' = [req EXCEPT ![p] = s]
    BY <1>5, <2>1 DEF Dom, View
  <2>4. Turns(p) /\ req'[p] = s /\ Here(p)' = Here(p)
    BY <1>2, <1>5, <2>2, <2>3, Looking
  <2> QED BY <1>m, <1>2, <1>5, <2>2, <2>4 DEF Advance, Turns, Dom, SameOperation
<1> QED BY <1>3, <1>4, <1>5 DEF Rollback

\* runProvisioningRecovery begins.
LEMMA BeginStep ==
  ASSUME Safe, NEW p \in Procs, BeginRollback(p)
  PROVE  Advance(p)
<1>m. ASSUME NEW r, NEW h, NEW s, NEW g, NEW made, NEW live, NEW was, NEW trouble, NEW foreign,
             Turn(r, h, s, g, made, live, was, trouble, foreign),
             r.pc = "begin",
             Same(s, r),
             Calls(s, g, h, [h EXCEPT !.dom.state = "rollback"], "stop", Gives(r), trouble)
      PROVE  Moved(r, h, s, g, made, live, trouble, foreign)
  BY SMTT(30), <1>m DEF Moved, Turned, Turn, Same, Calls, Gives, Duty, Fits, Progress, Spares, Tidy,
     Reserves, Work, Deciding, Building, Making, Undoing, Goroutines, Keeps, Sound, Complete,
     NoDomain, NoVolume, ForeignVolume, Hosts, Domains, Volumes
<1>1. "begin" \in Work /\ "stop" \in Work
  BY Labels
<1>2. /\ req[p].pc = "begin" /\ req[p].pc \in Work /\ Here(p) \in Hosts /\ req[p] \in Goroutines
      /\ {Here(p)} \in SUBSET Hosts
  BY <1>1, AtWork DEF BeginRollback
<1>3. Stuck(p) = Gives(req[p]) /\ Stuck(p) \in Work
  BY <1>2, Returns
<1>4. CASE StorageDoubtful(p)
  <2>1. /\ Turns(p) /\ req'[p].pc = Gives(req[p]) /\ Same(req'[p], req[p]) /\ Here(p)' = Here(p)
        /\ troubled'
    BY <1>2, <1>3, <1>4, Failing DEF StorageDoubtful
  <2> QED BY <1>m, <1>2, <2>1 DEF Advance, Turns, Calls
<1>5. CASE Call(p, [Here(p) EXCEPT !.dom.state = "rollback"], "stop", Stuck(p))
  <2>1. [Here(p) EXCEPT !.dom.state = "rollback"] \in Hosts
    BY <1>2, SMTT(30) DEF Hosts, Domains
  <2> QED BY <1>m, <1>1, <1>2, <1>3, <1>5, <2>1, Calling DEF Advance, Turns
<1> QED BY <1>4, <1>5 DEF BeginRollback

\* Destroy.
LEMMA StopStep ==
  ASSUME Safe, NEW p \in Procs, StopDomain(p)
  PROVE  Advance(p)
<1>m. ASSUME NEW r, NEW h, NEW s, NEW g, NEW made, NEW live, NEW was, NEW trouble, NEW foreign,
             Turn(r, h, s, g, made, live, was, trouble, foreign),
             r.pc = "stop",
             Same(s, r),
             \/ ~r.seen /\ s.pc = "volumes" /\ g = h
             \/ Calls(s, g, h, [h EXCEPT !.dom.active = FALSE], "volumes", Gives(r), trouble)
             \/ s.pc = Gives(r) /\ g = h /\ trouble
      PROVE  Moved(r, h, s, g, made, live, trouble, foreign)
  BY SMTT(30), <1>m DEF Moved, Turned, Turn, Same, Calls, Gives, Duty, Fits, Progress, Spares, Tidy,
     Reserves, Work, Deciding, Building, Making, Undoing, Goroutines, Keeps, Sound, Complete,
     NoDomain, NoVolume, ForeignVolume, Hosts, Domains, Volumes
<1>1. "stop" \in Work /\ "volumes" \in Work
  BY Labels
<1>2. /\ req[p].pc = "stop" /\ req[p].pc \in Work /\ Here(p) \in Hosts /\ req[p] \in Goroutines
  BY <1>1, AtWork DEF StopDomain
<1>3. Stuck(p) = Gives(req[p]) /\ Stuck(p) \in Work
  BY <1>2, Returns
<1>4. CASE ~req[p].seen /\ Goes(p, "volumes")
  BY <1>m, <1>1, <1>2, <1>4, Going DEF Advance, Turns
<1>5. CASE Call(p, [Here(p) EXCEPT !.dom.active = FALSE], "volumes", Stuck(p))
  <2>1. [Here(p) EXCEPT !.dom.active = FALSE] \in Hosts
    BY <1>2, Machines, Empties
  <2> QED BY <1>m, <1>1, <1>2, <1>3, <1>5, <2>1, Calling DEF Advance, Turns
<1>6. CASE Refuses(p, Stuck(p))
  BY <1>m, <1>2, <1>3, <1>6, Refusing DEF Advance, Turns
<1> QED BY <1>4, <1>5, <1>6 DEF StopDomain

\* RemoveVolumes.
LEMMA VolumesStep ==
  ASSUME Safe, NEW p \in Procs, RemoveVolumes(p)
  PROVE  Advance(p)
<1>m. ASSUME NEW r, NEW h, NEW s, NEW g, NEW made, NEW live, NEW was, NEW trouble, NEW foreign,
             Turn(r, h, s, g, made, live, was, trouble, foreign),
             r.pc = "volumes",
             Same(s, r),
             NEW d,
             NEW e,
             g = [h EXCEPT !.disk = d, !.seed = e],
             \/ s.pc = "net" /\ d = NoVolume /\ e = NoVolume
             \/ s.pc = Gives(r) /\ trouble /\ d \in {NoVolume, h.disk} /\ e \in {NoVolume, h.seed}
      PROVE  Moved(r, h, s, g, made, live, trouble, foreign)
  BY SMTT(30), <1>m DEF Moved, Turned, Turn, Same, Calls, Gives, Duty, Fits, Progress, Spares, Tidy,
     Reserves, Work, Deciding, Building, Making, Undoing, Goroutines, Keeps, Sound, Complete,
     NoDomain, NoVolume, ForeignVolume, Hosts, Domains, Volumes
<1>1. "volumes" \in Work /\ "net" \in Work
  BY Labels
<1>2. /\ req[p].pc = "volumes" /\ req[p].pc \in Work /\ Here(p) \in Hosts /\ req[p] \in Goroutines
  BY <1>1, AtWork DEF RemoveVolumes
<1>3. Stuck(p) = Gives(req[p]) /\ Stuck(p) \in Work
  BY <1>2, Returns
<1>4. NoVolume \in Volumes /\ Here(p).disk \in Volumes /\ Here(p).seed \in Volumes
  BY SMTT(30), <1>2 DEF NoVolume, Volumes, Hosts
<1>5. CASE Put(p, [Here(p) EXCEPT !.disk = NoVolume, !.seed = NoVolume]) /\ Goto(p, "net") /\ Calm
  <2>1. PICK g : g = [Here(p) EXCEPT !.disk = NoVolume, !.seed = NoVolume]
    OBVIOUS
  <2>2. g \in Hosts
    BY <1>2, <1>4, <2>1, TwoVolumes
  <2>3. Call(p, g, "net", "net")
    BY <1>5, <2>1 DEF Call
  <2>4. Turns(p) /\ Same(req'[p], req[p]) /\ req'[p].pc = "net" /\ Here(p)' = g
    <3>1. VMTyped /\ Name(p) \in Keys
      BY <1>2, Holds DEF Safe
    <3>2. Touch(p) /\ req'[p].pc = "net" /\ Same(req'[p], req[p]) /\ Here(p)' = g
      BY <1>1, <1>5, <2>1, <2>2, <3>1, GotoTouches DEF Calm, VMTyped
    <3> QED BY <1>1, <1>2, <2>2, <2>3, <3>2, Calling
  <2> QED BY <1>m, <1>2, <2>1, <2>4 DEF Advance, Turns
<1>6. ASSUME NEW d \in {NoVolume, Here(p).disk}, NEW e \in {NoVolume, Here(p).seed},
             Fails(p, {[Here(p) EXCEPT !.disk = d, !.seed = e]}, Stuck(p))
      PROVE  Advance(p)
  <2>1. PICK g : g = [Here(p) EXCEPT !.disk = d, !.seed = e]
    OBVIOUS
  <2>2. {g} \in SUBSET Hosts
    BY <1>2, <1>4, <2>1, TwoVolumes
  <2>3. Turns(p) /\ req'[p].pc = Gives(req[p]) /\ Same(req'[p], req[p]) /\ Here(p)' \in {g} /\ troubled'
    BY <1>2, <1>3, <1>6, <2>1, <2>2, Failing
  <2> QED BY <1>m, <1>2, <1>6, <2>1, <2>3 DEF Advance, Turns
<1> QED BY <1>5, <1>6 DEF RemoveVolumes

\* The reservation is released.
LEMMA NetStep ==
  ASSUME Safe, NEW p \in Procs, ReleaseNetwork(p)
  PROVE  Advance(p)
<1>m. ASSUME NEW r, NEW h, NEW s, NEW g, NEW made, NEW live, NEW was, NEW trouble, NEW foreign,
             Turn(r, h, s, g, made, live, was, trouble, foreign),
             r.pc = "net",
             Same(s, r),
             Calls(s, g, h, [h EXCEPT !.net = 0], "undefine", Gives(r), trouble)
      PROVE  Moved(r, h, s, g, made, live, trouble, foreign)
  BY SMTT(30), <1>m DEF Moved, Turned, Turn, Same, Calls, Gives, Duty, Fits, Progress, Spares, Tidy,
     Reserves, Work, Deciding, Building, Making, Undoing, Goroutines, Keeps, Sound, Complete,
     NoDomain, NoVolume, ForeignVolume, Hosts, Domains, Volumes
<1>1. "net" \in Work /\ "undefine" \in Work
  BY Labels
<1>2. /\ req[p].pc = "net" /\ req[p].pc \in Work /\ Here(p) \in Hosts /\ req[p] \in Goroutines
  BY <1>1, AtWork DEF ReleaseNetwork
<1>3. Stuck(p) = Gives(req[p]) /\ Stuck(p) \in Work
  BY <1>2, Returns
<1>4. [Here(p) EXCEPT !.net = 0] \in Hosts
  BY <1>2, Machines, Empties
<1>5. Call(p, [Here(p) EXCEPT !.net = 0], "undefine", Stuck(p))
  BY DEF ReleaseNetwork
<1> QED BY <1>m, <1>1, <1>2, <1>3, <1>4, <1>5, Calling DEF Advance, Turns

\* Undefine.
LEMMA UndefineStep ==
  ASSUME Safe, NEW p \in Procs, Undefine(p)
  PROVE  Advance(p)
<1>m. ASSUME NEW r, NEW h, NEW s, NEW g, NEW made, NEW live, NEW was, NEW trouble, NEW foreign,
             Turn(r, h, s, g, made, live, was, trouble, foreign),
             r.pc = "undefine",
             Same(s, r),
             NEW next,
             next = IF r.op # "create" THEN "unlock" ELSE IF r.own THEN "slot" ELSE "available",
             \/ r.id = 0 /\ s.pc = next /\ g = h
             \/ r.id # 0 /\ Calls(s, g, h, [h EXCEPT !.dom = NoDomain], next, Gives(r), trouble)
      PROVE  Moved(r, h, s, g, made, live, trouble, foreign)
  BY SMTT(30), <1>m DEF Moved, Turned, Turn, Same, Calls, Gives, Duty, Fits, Progress, Spares, Tidy,
     Reserves, Work, Deciding, Building, Making, Undoing, Goroutines, Keeps, Sound, Complete,
     NoDomain, NoVolume, ForeignVolume, Hosts, Domains, Volumes
<1>1. "undefine" \in Work
  BY Labels
<1>2. /\ req[p].pc = "undefine" /\ req[p].pc \in Work /\ Here(p) \in Hosts /\ req[p] \in Goroutines
  BY <1>1, AtWork DEF Undefine
<1>3. /\ Stuck(p) = Gives(req[p]) /\ Stuck(p) \in Work /\ Unwound(p) \in Work
      /\ Unwound(p) = IF req[p].op # "create" THEN "unlock" ELSE IF req[p].own THEN "slot" ELSE "available"
  BY <1>2, Returns
<1>4. CASE req[p].id = 0 /\ Goes(p, Unwound(p))
  <2>1. Turns(p) /\ req'[p].pc = Unwound(p) /\ Same(req'[p], req[p]) /\ Here(p)' = Here(p)
    BY <1>2, <1>3, <1>4, Going
  <2> QED BY <1>m, <1>2, <1>3, <1>4, <2>1 DEF Advance, Turns
<1>5. CASE req[p].id # 0 /\ Call(p, [Here(p) EXCEPT !.dom = NoDomain], Unwound(p), Stuck(p))
  <2>1. [Here(p) EXCEPT !.dom = NoDomain] \in Hosts
    BY <1>2, Machines, Empties
  <2>2. /\ Turns(p) /\ Same(req'[p], req[p])
        /\ Calls(req'[p], Here(p)', Here(p), [Here(p) EXCEPT !.dom = NoDomain], Unwound(p), Gives(req[p]),
                 troubled')
    BY <1>2, <1>3, <1>5, <2>1, Calling
  <2> QED BY <1>m, <1>2, <1>3, <1>5, <2>2 DEF Advance, Turns
<1> QED BY <1>4, <1>5 DEF Undefine

\* StartExistingVM, RestartVM and ShutdownVM.
LEMMA PowerStep ==
  ASSUME Safe, NEW p \in Procs, StartExisting(p) \/ Restart(p) \/ PowerOff(p)
  PROVE  Advance(p)
<1>m. ASSUME NEW r, NEW h, NEW s, NEW g, NEW made, NEW live, NEW was, NEW trouble, NEW foreign,
             Turn(r, h, s, g, made, live, was, trouble, foreign),
             r.pc = "power",
             Same(s, r),
             s.pc = "unlock",
             NEW b \in BOOLEAN,
             b => Startable(h.dom),
             g = h \/ (g = [h EXCEPT !.dom.active = b] /\ h.dom.id # 0)
      PROVE  Moved(r, h, s, g, made, live, trouble, foreign)
  BY SMTT(30), <1>m DEF Moved, Startable, Turned, Turn, Same, Calls, Gives, Duty, Fits, Progress, Spares,
     Tidy, Reserves, Work, Deciding, Building, Making, Undoing, Goroutines, Keeps, Sound, Complete,
     NoDomain, NoVolume, ForeignVolume, Hosts, Domains, Volumes
<1>1. "power" \in Work /\ "unlock" \in Work
  BY Labels
<1>2. /\ req[p].pc = "power" /\ req[p].pc \in Work /\ Here(p) \in Hosts /\ req[p] \in Goroutines
  BY <1>1, AtWork DEF StartExisting, Restart, PowerOff
<1>3. CASE Goes(p, "unlock")
  <2>1. Turns(p) /\ req'[p].pc = "unlock" /\ Same(req'[p], req[p]) /\ Here(p)' = Here(p)
    BY <1>1, <1>2, <1>3, Going
  <2>2. FALSE \in BOOLEAN /\ (FALSE => Startable(Here(p).dom))
    OBVIOUS
  <2> QED BY <1>m, <1>2, <2>1, <2>2 DEF Advance, Turns
<1>4. ASSUME NEW b \in BOOLEAN, b => Startable(Here(p).dom), Here(p).dom.id # 0,
             Call(p, [Here(p) EXCEPT !.dom.active = b], "unlock", "unlock")
      PROVE  Advance(p)
  <2>1. [Here(p) EXCEPT !.dom.active = b] \in Hosts
    BY <1>2, Machines, Empties
  <2>2. /\ Turns(p) /\ Same(req'[p], req[p])
        /\ Calls(req'[p], Here(p)', Here(p), [Here(p) EXCEPT !.dom.active = b], "unlock", "unlock", troubled')
    BY <1>1, <1>2, <1>4, <2>1, Calling
  <2>3. req'[p].pc = "unlock" /\ (Here(p)' = Here(p) \/ Here(p)' = [Here(p) EXCEPT !.dom.active = b])
    BY <2>2 DEF Calls
  <2> QED BY <1>m, <1>2, <1>4, <2>2, <2>3 DEF Advance, Turns
<1>5. Dom(p).active => Dom(p).id # 0
  <2>1. Sound(Here(p))
    BY <1>2, Holds DEF Safe, LifeInv, Named, Keeps, Here
  <2> QED BY SMTT(30), <2>1 DEF Sound, NoDomain, Dom
<1>6. CASE StartExisting(p)
  BY <1>3, <1>4, <1>6 DEF StartExisting, Startable, Dom
<1>7. CASE Restart(p)
  BY <1>3, <1>4, <1>7 DEF Restart, Startable, Dom
<1>8. CASE PowerOff(p)
  BY <1>3, <1>4, <1>5, <1>8 DEF PowerOff, Dom
<1> QED BY <1>6, <1>7, <1>8

\* ensureVMNameAvailable.
LEMMA AvailableStep ==
  ASSUME Safe, NEW p \in Procs, Available(p)
  PROVE  Advance(p)
<1>m. ASSUME NEW r, NEW h, NEW s, NEW g, NEW made, NEW live, NEW was, NEW trouble, NEW foreign,
             Turn(r, h, s, g, made, live, was, trouble, foreign),
             r.pc = "available",
             Same(s, r),
             g = h,
             \/ h.dom.id = 0 /\ s.pc = "count"
             \/ s.pc = "unlock"
      PROVE  Moved(r, h, s, g, made, live, trouble, foreign)
  BY SMTT(30), <1>m DEF Moved, Turned, Turn, Same, Calls, Gives, Duty, Fits, Progress, Spares, Tidy,
     Reserves, Work, Deciding, Building, Making, Undoing, Goroutines, Keeps, Sound, Complete,
     NoDomain, NoVolume, ForeignVolume, Hosts, Domains, Volumes
<1>1. "available" \in Work /\ "count" \in Work /\ "unlock" \in Work
  BY Labels
<1>2. /\ req[p].pc = "available" /\ req[p].pc \in Work /\ Here(p) \in Hosts /\ req[p] \in Goroutines
      /\ {Here(p)} \in SUBSET Hosts
  BY <1>1, AtWork DEF Available
<1>3. CASE Goes(p, "unlock")
  BY <1>m, <1>1, <1>2, <1>3, Going DEF Advance, Turns
<1>4. CASE Fails(p, {Here(p)}, "unlock")
  <2>1. Turns(p) /\ req'[p].pc = "unlock" /\ Same(req'[p], req[p]) /\ Here(p)' = Here(p)
    BY <1>1, <1>2, <1>4, Failing
  <2> QED BY <1>m, <1>2, <2>1 DEF Advance, Turns
<1>5. CASE Dom(p).id = 0 /\ Goes(p, "count")
  BY <1>m, <1>1, <1>2, <1>5, Going DEF Advance, Turns, Dom
<1> QED BY <1>3, <1>4, <1>5 DEF Available

\* The record of a creation whose rollback is armed.
Armed(r) == [r EXCEPT !.pc = "pending", !.own = TRUE]

\* It is a record of a goroutine that owns what it will define.
LEMMA ArmedIs ==
  ASSUME NEW r \in Goroutines
  PROVE  /\ Armed(r) \in Goroutines /\ Armed(r).name = r.name /\ Armed(r).op = r.op /\ Armed(r).own
         /\ Armed(r).pc = "pending" /\ Armed(r).id = r.id
<1>0. "pending" \in Work /\ TRUE \in BOOLEAN
  BY Labels
<1>1. PICK x \in Goroutines : x = [r EXCEPT !.pc = "pending"]
  BY <1>0, Rewritten
<1>2. PICK y \in Goroutines : y = [x EXCEPT !.own = TRUE]
  BY <1>0, Rewritten
<1>3. Armed(r) \in Goroutines
  BY <1>1, <1>2 DEF Armed
<1> QED BY SMTT(30), <1>3 DEF Goroutines, Armed

\* planProvisioningIntent.
LEMMA PlanStep ==
  ASSUME Safe, NEW p \in Procs, Plan(p)
  PROVE  Advance(p)
<1>m. ASSUME NEW r, NEW h, NEW s, NEW g, NEW made, NEW live, NEW was, NEW trouble, NEW foreign,
             Turn(r, h, s, g, made, live, was, trouble, foreign),
             r.pc = "plan",
             g = h,
             s.id = r.id,
             \/ s.pc = "slot" /\ s.own = r.own
             \/ s.pc = "pending" /\ s.own /\ h.disk = NoVolume
      PROVE  Moved(r, h, s, g, made, live, trouble, foreign)
  BY SMTT(30), <1>m DEF Moved, Turned, Turn, Same, Calls, Gives, Duty, Fits, Progress, Spares, Tidy,
     Reserves, Work, Deciding, Building, Making, Undoing, Goroutines, Keeps, Sound, Complete,
     NoDomain, NoVolume, ForeignVolume, Hosts, Domains, Volumes
<1>1. "plan" \in Work /\ "slot" \in Work /\ "pending" \in Work
  BY Labels
<1>2. /\ req[p].pc = "plan" /\ req[p].pc \in Work /\ Here(p) \in Hosts /\ req[p] \in Goroutines
      /\ {Here(p)} \in SUBSET Hosts
  BY <1>1, AtWork DEF Plan
<1>3. CASE Goes(p, "slot")
  <2>1. Turns(p) /\ req'[p].pc = "slot" /\ Same(req'[p], req[p]) /\ Here(p)' = Here(p)
    BY <1>1, <1>2, <1>3, Going
  <2>2. req'[p].own = req[p].own /\ req'[p].id = req[p].id
    BY <2>1 DEF Same
  <2> QED BY <1>m, <1>2, <2>1, <2>2 DEF Advance, Turns
<1>4. CASE Fails(p, {Here(p)}, "slot")
  <2>1. Turns(p) /\ req'[p].pc = "slot" /\ Same(req'[p], req[p]) /\ Here(p)' = Here(p)
    BY <1>1, <1>2, <1>4, Failing
  <2>2. req'[p].own = req[p].own /\ req'[p].id = req[p].id
    BY <2>1 DEF Same
  <2> QED BY <1>m, <1>2, <2>1, <2>2 DEF Advance, Turns
<1>5. CASE /\ Here(p).disk = NoVolume /\ UNCHANGED host /\ Calm
           /\ req' = [req EXCEPT ![p] = [@ EXCEPT !.pc = "pending", !.own = TRUE]]
  <2>1. PICK s : s = Armed(req[p])
    OBVIOUS
  <2>2. /\ s \in Goroutines /\ s.name = req[p].name /\ s.op = req[p].op /\ s.own
        /\ s.pc = "pending" /\ s.id = req[p].id
    BY <1>2, <2>1, ArmedIs
  <2>3. req' = [req EXCEPT ![p] = s]
    BY <1>5, <2>1 DEF Armed
  <2>4. Turns(p) /\ req'[p] = s /\ Here(p)' = Here(p)
    BY <1>2, <1>5, <2>2, <2>3, Looking
  <2> QED BY <1>m, <1>2, <1>5, <2>2, <2>4 DEF Advance, Turns
<1> QED BY <1>3, <1>4, <1>5 DEF Plan

\* The record definePendingProvisioning writes.
LEMMA PendingDomain ==
  \A i : [NoDomain EXCEPT !.id = i, !.state = "pending"]
           = [id |-> i, state |-> "pending", full |-> FALSE, deleting |-> FALSE, active |-> FALSE]
<1>1. SUFFICES ASSUME NEW i, NEW d, d = [NoDomain EXCEPT !.id = i, !.state = "pending"]
               PROVE  d = [id |-> i, state |-> "pending", full |-> FALSE, deleting |-> FALSE,
                          active |-> FALSE]
  OBVIOUS
<1> QED BY <1>1 DEF NoDomain

\* definePendingProvisioning.
LEMMA PendingStep ==
  ASSUME Safe, NEW p \in Procs, DefinePending(p)
  PROVE  Advance(p)
<1>m. ASSUME NEW r, NEW h, NEW s, NEW g, NEW made, NEW live, NEW was, NEW trouble, NEW foreign,
             Turn(r, h, s, g, made, live, was, trouble, foreign),
             r.pc = "pending",
             Same(s, r),
             NEW d,
             d = [id |-> r.id, state |-> "pending", full |-> FALSE, deleting |-> FALSE, active |-> FALSE],
             Calls(s, g, h, [h EXCEPT !.dom = d], "reserve", "rollback", trouble)
      PROVE  Moved(r, h, s, g, made, live, trouble, foreign)
  BY SMTT(30), <1>m DEF Moved, Turned, Turn, Same, Calls, Gives, Duty, Fits, Progress, Spares, Tidy,
     Reserves, Work, Deciding, Building, Making, Undoing, Goroutines, Keeps, Sound, Complete,
     NoDomain, NoVolume, ForeignVolume, Hosts, Domains, Volumes
<1>1. "pending" \in Work /\ "reserve" \in Work /\ "rollback" \in Work
  BY Labels
<1>2. /\ req[p].pc = "pending" /\ req[p].pc \in Work /\ Here(p) \in Hosts /\ req[p] \in Goroutines
      /\ {Here(p)} \in SUBSET Hosts
  BY <1>1, AtWork DEF DefinePending
<1>3. PICK d \in Domains : d = [id |-> req[p].id, state |-> "pending", full |-> FALSE, deleting |-> FALSE,
                              active |-> FALSE]
  <2>1. req[p].id \in Nat
    BY SMTT(30), <1>2 DEF Goroutines
  <2> QED BY <2>1, Empties
<1>4. d = [NoDomain EXCEPT !.id = req[p].id, !.state = "pending"]
  BY <1>3, PendingDomain
<1>5. [Here(p) EXCEPT !.dom = d] \in Hosts
  BY <1>2, Machines, Empties
<1>6. Call(p, [Here(p) EXCEPT !.dom = d], "reserve", "rollback")
  BY <1>4 DEF DefinePending
<1>7. /\ Turns(p) /\ Same(req'[p], req[p])
      /\ Calls(req'[p], Here(p)', Here(p), [Here(p) EXCEPT !.dom = d], "reserve", "rollback", troubled')
  BY <1>1, <1>2, <1>5, <1>6, Calling
<1> QED BY <1>m, <1>2, <1>3, <1>7 DEF Advance, Turns

\* The disk's volume is made,
LEMMA DiskStep ==
  ASSUME Safe, NEW p \in Procs, CreateVolume(p, "disk", "disk", "upload")
  PROVE  Advance(p)
<1>m. ASSUME NEW r, NEW h, NEW s, NEW g, NEW made, NEW live, NEW was, NEW trouble, NEW foreign,
             Turn(r, h, s, g, made, live, was, trouble, foreign),
             r.pc = "disk",
             Same(s, r),
             \/ Calls(s, g, h, [h EXCEPT !["disk"] = [by |-> r.id, done |-> FALSE]], "upload", "rollback",
                    trouble)
             \/ s.pc = "rollback" /\ g = h
      PROVE  Moved(r, h, s, g, made, live, trouble, foreign)
  BY SMTT(30), <1>m DEF Moved, Turned, Turn, Same, Calls, Gives, Duty, Fits, Progress, Spares, Tidy,
     Reserves, Work, Deciding, Building, Making, Undoing, Goroutines, Keeps, Sound, Complete,
     NoDomain, NoVolume, ForeignVolume, Hosts, Domains, Volumes
<1>1. "disk" \in Work /\ "upload" \in Work /\ "rollback" \in Work
  BY Labels
<1>2. /\ req[p].pc = "disk" /\ req[p].pc \in Work /\ Here(p) \in Hosts /\ req[p] \in Goroutines
      /\ {Here(p)} \in SUBSET Hosts
  BY <1>1, AtWork DEF CreateVolume
<1>3. [Here(p) EXCEPT !["disk"] = [by |-> req[p].id, done |-> FALSE]] \in Hosts
  <2>1. [by |-> req[p].id, done |-> FALSE] \in Volumes
    BY SMTT(30), <1>2 DEF Goroutines, Volumes
  <2> QED BY <1>2, <2>1, Machines, Empties
<1>4. CASE Call(p, [Here(p) EXCEPT !["disk"] = [by |-> req[p].id, done |-> FALSE]], "upload", "rollback")
  <2>1. /\ Turns(p) /\ Same(req'[p], req[p])
        /\ Calls(req'[p], Here(p)', Here(p), [Here(p) EXCEPT !["disk"] = [by |-> req[p].id,
               done |-> FALSE]], "upload", "rollback",
                 troubled')
    BY <1>1, <1>2, <1>3, <1>4, Calling
  <2> QED BY <1>m, <1>2, <2>1 DEF Advance, Turns
<1>5. CASE Goes(p, "rollback")
  <2>1. Turns(p) /\ req'[p].pc = "rollback" /\ Same(req'[p], req[p]) /\ Here(p)' = Here(p)
    BY <1>1, <1>2, <1>5, Going
  <2> QED BY <1>m, <1>2, <2>1 DEF Advance, Turns
<1> QED BY <1>4, <1>5 DEF CreateVolume

\* and filled.
LEMMA UploadStep ==
  ASSUME Safe, NEW p \in Procs, FillVolume(p, "upload", "disk", "seed")
  PROVE  Advance(p)
<1>m. ASSUME NEW r, NEW h, NEW s, NEW g, NEW made, NEW live, NEW was, NEW trouble, NEW foreign,
             Turn(r, h, s, g, made, live, was, trouble, foreign),
             r.pc = "upload",
             Same(s, r),
             \/ Calls(s, g, h, [h EXCEPT !["disk"].done = TRUE], "seed", "rollback", trouble)
             \/ s.pc = "rollback" /\ g = h
      PROVE  Moved(r, h, s, g, made, live, trouble, foreign)
  BY SMTT(30), <1>m DEF Moved, Turned, Turn, Same, Calls, Gives, Duty, Fits, Progress, Spares, Tidy,
     Reserves, Work, Deciding, Building, Making, Undoing, Goroutines, Keeps, Sound, Complete,
     NoDomain, NoVolume, ForeignVolume, Hosts, Domains, Volumes
<1>1. "upload" \in Work /\ "seed" \in Work /\ "rollback" \in Work
  BY Labels
<1>2. /\ req[p].pc = "upload" /\ req[p].pc \in Work /\ Here(p) \in Hosts /\ req[p] \in Goroutines
      /\ {Here(p)} \in SUBSET Hosts
  BY <1>1, AtWork DEF FillVolume
<1>3. [Here(p) EXCEPT !["disk"].done = TRUE] \in Hosts
  BY <1>2, Machines, Empties
<1>4. CASE Call(p, [Here(p) EXCEPT !["disk"].done = TRUE], "seed", "rollback")
  <2>1. /\ Turns(p) /\ Same(req'[p], req[p])
        /\ Calls(req'[p], Here(p)', Here(p), [Here(p) EXCEPT !["disk"].done = TRUE], "seed", "rollback",
                 troubled')
    BY <1>1, <1>2, <1>3, <1>4, Calling
  <2> QED BY <1>m, <1>2, <2>1 DEF Advance, Turns
<1>5. CASE Goes(p, "rollback")
  <2>1. Turns(p) /\ req'[p].pc = "rollback" /\ Same(req'[p], req[p]) /\ Here(p)' = Here(p)
    BY <1>1, <1>2, <1>5, Going
  <2> QED BY <1>m, <1>2, <2>1 DEF Advance, Turns
<1> QED BY <1>4, <1>5 DEF FillVolume

\* The seed's volume is made,
LEMMA SeedStep ==
  ASSUME Safe, NEW p \in Procs, CreateVolume(p, "seed", "seed", "burn")
  PROVE  Advance(p)
<1>m. ASSUME NEW r, NEW h, NEW s, NEW g, NEW made, NEW live, NEW was, NEW trouble, NEW foreign,
             Turn(r, h, s, g, made, live, was, trouble, foreign),
             r.pc = "seed",
             Same(s, r),
             \/ Calls(s, g, h, [h EXCEPT !["seed"] = [by |-> r.id, done |-> FALSE]], "burn", "rollback",
                      trouble)
             \/ s.pc = "rollback" /\ g = h
      PROVE  Moved(r, h, s, g, made, live, trouble, foreign)
  BY SMTT(30), <1>m DEF Moved, Turned, Turn, Same, Calls, Gives, Duty, Fits, Progress, Spares, Tidy,
     Reserves, Work, Deciding, Building, Making, Undoing, Goroutines, Keeps, Sound, Complete,
     NoDomain, NoVolume, ForeignVolume, Hosts, Domains, Volumes
<1>1. "seed" \in Work /\ "burn" \in Work /\ "rollback" \in Work
  BY Labels
<1>2. /\ req[p].pc = "seed" /\ req[p].pc \in Work /\ Here(p) \in Hosts /\ req[p] \in Goroutines
      /\ {Here(p)} \in SUBSET Hosts
  BY <1>1, AtWork DEF CreateVolume
<1>3. [Here(p) EXCEPT !["seed"] = [by |-> req[p].id, done |-> FALSE]] \in Hosts
  <2>1. [by |-> req[p].id, done |-> FALSE] \in Volumes
    BY SMTT(30), <1>2 DEF Goroutines, Volumes
  <2> QED BY <1>2, <2>1, Machines, Empties
<1>4. CASE Call(p, [Here(p) EXCEPT !["seed"] = [by |-> req[p].id, done |-> FALSE]], "burn", "rollback")
  <2>1. /\ Turns(p) /\ Same(req'[p], req[p])
        /\ Calls(req'[p], Here(p)', Here(p), [Here(p) EXCEPT !["seed"] = [by |-> req[p].id,
               done |-> FALSE]], "burn", "rollback",
                 troubled')
    BY <1>1, <1>2, <1>3, <1>4, Calling
  <2> QED BY <1>m, <1>2, <2>1 DEF Advance, Turns
<1>5. CASE Goes(p, "rollback")
  <2>1. Turns(p) /\ req'[p].pc = "rollback" /\ Same(req'[p], req[p]) /\ Here(p)' = Here(p)
    BY <1>1, <1>2, <1>5, Going
  <2> QED BY <1>m, <1>2, <2>1 DEF Advance, Turns
<1> QED BY <1>4, <1>5 DEF CreateVolume

\* and filled.
LEMMA BurnStep ==
  ASSUME Safe, NEW p \in Procs, FillVolume(p, "burn", "seed", "define")
  PROVE  Advance(p)
<1>m. ASSUME NEW r, NEW h, NEW s, NEW g, NEW made, NEW live, NEW was, NEW trouble, NEW foreign,
             Turn(r, h, s, g, made, live, was, trouble, foreign),
             r.pc = "burn",
             Same(s, r),
             \/ Calls(s, g, h, [h EXCEPT !["seed"].done = TRUE], "define", "rollback", trouble)
             \/ s.pc = "rollback" /\ g = h
      PROVE  Moved(r, h, s, g, made, live, trouble, foreign)
  BY SMTT(30), <1>m DEF Moved, Turned, Turn, Same, Calls, Gives, Duty, Fits, Progress, Spares, Tidy,
     Reserves, Work, Deciding, Building, Making, Undoing, Goroutines, Keeps, Sound, Complete,
     NoDomain, NoVolume, ForeignVolume, Hosts, Domains, Volumes
<1>1. "burn" \in Work /\ "define" \in Work /\ "rollback" \in Work
  BY Labels
<1>2. /\ req[p].pc = "burn" /\ req[p].pc \in Work /\ Here(p) \in Hosts /\ req[p] \in Goroutines
      /\ {Here(p)} \in SUBSET Hosts
  BY <1>1, AtWork DEF FillVolume
<1>3. [Here(p) EXCEPT !["seed"].done = TRUE] \in Hosts
  BY <1>2, Machines, Empties
<1>4. CASE Call(p, [Here(p) EXCEPT !["seed"].done = TRUE], "define", "rollback")
  <2>1. /\ Turns(p) /\ Same(req'[p], req[p])
        /\ Calls(req'[p], Here(p)', Here(p), [Here(p) EXCEPT !["seed"].done = TRUE], "define", "rollback",
                 troubled')
    BY <1>1, <1>2, <1>3, <1>4, Calling
  <2> QED BY <1>m, <1>2, <2>1 DEF Advance, Turns
<1>5. CASE Goes(p, "rollback")
  <2>1. Turns(p) /\ req'[p].pc = "rollback" /\ Same(req'[p], req[p]) /\ Here(p)' = Here(p)
    BY <1>1, <1>2, <1>5, Going
  <2> QED BY <1>m, <1>2, <2>1 DEF Advance, Turns
<1> QED BY <1>4, <1>5 DEF FillVolume

\* StartVM redefines the domain,
LEMMA DefineStep ==
  ASSUME Safe, NEW p \in Procs, DefineDomain(p)
  PROVE  Advance(p)
<1>m. ASSUME NEW r, NEW h, NEW s, NEW g, NEW made, NEW live, NEW was, NEW trouble, NEW foreign,
             Turn(r, h, s, g, made, live, was, trouble, foreign),
             r.pc = "define",
             Same(s, r),
             \/ Calls(s, g, h, [h EXCEPT !.dom.full = TRUE], "ready", "rollback", trouble)
             \/ s.pc = "rollback" /\ g = h
      PROVE  Moved(r, h, s, g, made, live, trouble, foreign)
  BY SMTT(30), <1>m DEF Moved, Turned, Turn, Same, Calls, Gives, Duty, Fits, Progress, Spares, Tidy,
     Reserves, Work, Deciding, Building, Making, Undoing, Goroutines, Keeps, Sound, Complete,
     NoDomain, NoVolume, ForeignVolume, Hosts, Domains, Volumes
<1>1. "define" \in Work /\ "ready" \in Work /\ "rollback" \in Work
  BY Labels
<1>2. /\ req[p].pc = "define" /\ req[p].pc \in Work /\ Here(p) \in Hosts /\ req[p] \in Goroutines
      /\ {Here(p)} \in SUBSET Hosts
  BY <1>1, AtWork DEF DefineDomain
<1>3. [Here(p) EXCEPT !.dom.full = TRUE] \in Hosts
  BY <1>2, Machines, Empties
<1>4. CASE Call(p, [Here(p) EXCEPT !.dom.full = TRUE], "ready", "rollback")
  <2>1. /\ Turns(p) /\ Same(req'[p], req[p])
        /\ Calls(req'[p], Here(p)', Here(p), [Here(p) EXCEPT !.dom.full = TRUE], "ready", "rollback",
                 troubled')
    BY <1>1, <1>2, <1>3, <1>4, Calling
  <2> QED BY <1>m, <1>2, <2>1 DEF Advance, Turns
<1>5. CASE Goes(p, "rollback")
  <2>1. Turns(p) /\ req'[p].pc = "rollback" /\ Same(req'[p], req[p]) /\ Here(p)' = Here(p)
    BY <1>1, <1>2, <1>5, Going
  <2> QED BY <1>m, <1>2, <2>1 DEF Advance, Turns
<1> QED BY <1>4, <1>5 DEF DefineDomain

\* writes the ready record
LEMMA ReadyStep ==
  ASSUME Safe, NEW p \in Procs, MarkReady(p)
  PROVE  Advance(p)
<1>m. ASSUME NEW r, NEW h, NEW s, NEW g, NEW made, NEW live, NEW was, NEW trouble, NEW foreign,
             Turn(r, h, s, g, made, live, was, trouble, foreign),
             r.pc = "ready",
             Same(s, r),
             Calls(s, g, h, [h EXCEPT !.dom.state = "ready"], "start", "rollback", trouble)
      PROVE  Moved(r, h, s, g, made, live, trouble, foreign)
  BY SMTT(30), <1>m DEF Moved, Turned, Turn, Same, Calls, Gives, Duty, Fits, Progress, Spares, Tidy,
     Reserves, Work, Deciding, Building, Making, Undoing, Goroutines, Keeps, Sound, Complete,
     NoDomain, NoVolume, ForeignVolume, Hosts, Domains, Volumes
<1>1. "ready" \in Work /\ "start" \in Work /\ "rollback" \in Work
  BY Labels
<1>2. /\ req[p].pc = "ready" /\ req[p].pc \in Work /\ Here(p) \in Hosts /\ req[p] \in Goroutines
      /\ {Here(p)} \in SUBSET Hosts
  BY <1>1, AtWork DEF MarkReady
<1>3. [Here(p) EXCEPT !.dom.state = "ready"] \in Hosts
  BY <1>2, Machines, Empties
<1>4. CASE Call(p, [Here(p) EXCEPT !.dom.state = "ready"], "start", "rollback")
  <2>1. /\ Turns(p) /\ Same(req'[p], req[p])
        /\ Calls(req'[p], Here(p)', Here(p), [Here(p) EXCEPT !.dom.state = "ready"], "start", "rollback",
                 troubled')
    BY <1>1, <1>2, <1>3, <1>4, Calling
  <2> QED BY <1>m, <1>2, <2>1 DEF Advance, Turns
<1> QED BY <1>4 DEF MarkReady

\* and starts it.
LEMMA StartStep ==
  ASSUME Safe, NEW p \in Procs, CreateDomain(p)
  PROVE  Advance(p)
<1>m. ASSUME NEW r, NEW h, NEW s, NEW g, NEW made, NEW live, NEW was, NEW trouble, NEW foreign,
             Turn(r, h, s, g, made, live, was, trouble, foreign),
             r.pc = "start",
             Same(s, r),
             Calls(s, g, h, [h EXCEPT !.dom.active = TRUE], "finish", "rollback", trouble)
      PROVE  Moved(r, h, s, g, made, live, trouble, foreign)
  BY SMTT(30), <1>m DEF Moved, Turned, Turn, Same, Calls, Gives, Duty, Fits, Progress, Spares, Tidy,
     Reserves, Work, Deciding, Building, Making, Undoing, Goroutines, Keeps, Sound, Complete,
     NoDomain, NoVolume, ForeignVolume, Hosts, Domains, Volumes
<1>1. "start" \in Work /\ "finish" \in Work /\ "rollback" \in Work
  BY Labels
<1>2. /\ req[p].pc = "start" /\ req[p].pc \in Work /\ Here(p) \in Hosts /\ req[p] \in Goroutines
      /\ {Here(p)} \in SUBSET Hosts
  BY <1>1, AtWork DEF CreateDomain
<1>3. [Here(p) EXCEPT !.dom.active = TRUE] \in Hosts
  BY <1>2, Machines, Empties
<1>4. CASE Call(p, [Here(p) EXCEPT !.dom.active = TRUE], "finish", "rollback")
  <2>1. /\ Turns(p) /\ Same(req'[p], req[p])
        /\ Calls(req'[p], Here(p)', Here(p), [Here(p) EXCEPT !.dom.active = TRUE], "finish", "rollback",
                 troubled')
    BY <1>1, <1>2, <1>3, <1>4, Calling
  <2> QED BY <1>m, <1>2, <2>1 DEF Advance, Turns
<1> QED BY <1>4 DEF CreateDomain
=============================================================================
