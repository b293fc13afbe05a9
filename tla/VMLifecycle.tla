---------------------------- MODULE VMLifecycle ----------------------------
(***************************************************************************)
(* internal/virt: creating, removing, starting and stopping VMs, and the    *)
(* recovery of interrupted creations at boot.  What libvirt keeps (domains, *)
(* volumes, DHCP reservations) survives the gateway; its locks, its count   *)
(* of creations in flight and its requests do not.  Every libvirt call may  *)
(* fail with its effect done or not done.                                  *)
(***************************************************************************)
EXTENDS KeyedMutex, Integers, FiniteSetsExt

CONSTANTS
  Boot,          \* the goroutine that runs Init; the others serve requests
  Owner,         \* who owns a VM name: [Keys -> user]
  Limit,         \* MAX_VDI_PER_USER
  Addresses,     \* host addresses of the VM network
  Plans          \* what a behaviour may contain

ASSUME VMAssumption ==
  /\ Boot \in Procs /\ Limit \in Nat \ {0} /\ Addresses \subseteq Nat \ {0}
  /\ IsFiniteSet(Keys) /\ Keys \subseteq Nat
  /\ \A pl \in Plans :
       pl \in [ops : SUBSET {"create", "start", "restart", "stop", "remove"}, names : SUBSET Keys,
              requests : Nat, faults : Nat, crashes : Nat, foreign : SUBSET Keys]

VARIABLES
  host,          \* libvirt, per VM name
  req,           \* the goroutines: request, program counter, locals
  inflight,      \* inflightVMCreations
  phase,         \* down, booting, up
  todo,          \* names recoverPendingProvisioning has yet to visit
  bootFailed,    \* it collected a failure
  plan,          \* what may still happen in this behaviour
  created,       \* operations whose creation was reported to the user
  removed,       \* operations a removal was begun of
  troubled       \* some libvirt call has failed

vmVars == <<host, req, inflight, phase, todo, bootFailed, plan, created, removed, troubled>>
vars == <<vmVars, mutexVars>>

Requests == Procs \ {Boot}
NoDomain == [id |-> 0, state |-> "ready", full |-> FALSE, deleting |-> FALSE, active |-> FALSE]
NoVolume == [by |-> 0, done |-> FALSE]
ForeignVolume == [by |-> -1, done |-> TRUE]
Idle == [op |-> "none", pc |-> "idle", name |-> Nil, id |-> 0, own |-> FALSE,
         seen |-> FALSE, count |-> 0]

Name(p) == req[p].name
Here(p) == host[Name(p)]
Dom(p) == Here(p).dom
At(p, label) == req[p].pc = label
Goto(p, label) == req' = [req EXCEPT ![p].pc = label]

Put(p, h) == host' = [host EXCEPT ![Name(p)] = h]
Calm == UNCHANGED <<plan, troubled, bootFailed>>
Still == UNCHANGED <<inflight, created, removed>>

\* An error is noted; recoverPendingProvisioning joins it to its failures.
Noted(p) == troubled' = TRUE /\ bootFailed' = (bootFailed \/ p = Boot)

\* A libvirt call fails; what it did to the host is one of the outcomes.
Fails(p, outcomes, bad) ==
  /\ plan.faults > 0 /\ plan' = [plan EXCEPT !.faults = @ - 1]
  /\ Noted(p) /\ Goto(p, bad) /\ \E h \in outcomes : Put(p, h)

Goes(p, label) == Goto(p, label) /\ UNCHANGED host /\ Calm
Refuses(p, label) == Goto(p, label) /\ Noted(p) /\ UNCHANGED <<host, plan>>

\* A call that changes the host to h.
Call(p, h, ok, bad) ==
  \/ Put(p, h) /\ Goto(p, ok) /\ Calm
  \/ Fails(p, {h, Here(p)}, bad)

\* Where the removal of a name's resources returns to: a recovery before a
\* creation goes on with it, the rollback of a creation gives its slot back.
Unwound(p) == CASE req[p].op = "create" /\ ~req[p].own -> "available"
                [] req[p].op = "create" /\ req[p].own -> "slot"
                [] OTHER -> "unlock"
Stuck(p) == IF req[p].own THEN "slot" ELSE "unlock"
-----------------------------------------------------------------------------
\* recoverPendingProvisioningLocked and the start of recoverProvisioningDomain.
\* Faulty variant: a ready record is recovered like a pending one.
FaultyRecover(p) ==
  /\ At(p, "recover") /\ Still
  /\ \/ Dom(p).id = 0 /\ Goes(p, Unwound(p))
     \/ /\ Dom(p).id # 0 /\ UNCHANGED host /\ Calm
        /\ req' = [req EXCEPT ![p] = [@ EXCEPT !.pc = "begin", !.seen = Dom(p).active,
             !.id = IF req[p].op = "create" THEN req[p].id ELSE Dom(p).id]]

Recover(p) ==
  /\ At(p, "recover") /\ Still
  /\ \/ /\ Dom(p).id = 0 \/ Dom(p).state = "ready"
        /\ Goes(p, Unwound(p))
     \/ /\ Dom(p).id # 0 /\ Dom(p).state # "ready"
        /\ IF Dom(p).state = "pending" /\ Dom(p).active
           THEN Refuses(p, "unlock")
           ELSE /\ req' = [req EXCEPT ![p] = [@ EXCEPT !.pc = "begin", !.seen = Dom(p).active,
                     !.id = IF req[p].op = "create" THEN req[p].id ELSE Dom(p).id]]
                /\ UNCHANGED host /\ Calm
     \/ Fails(p, {Here(p)}, "unlock")
     \/ req[p].op = "create" /\ Goes(p, "unlock")

\* verifyProvisioningDomain: the domain is the one this operation defined.
SameOperation(p) == Dom(p).id = req[p].id

\* rollbackProvisioningIntent: only the domain this creation defined.
Rollback(p) ==
  /\ At(p, "rollback") /\ Still
  /\ \/ ~SameOperation(p) /\ Goes(p, "slot")
     \/ /\ SameOperation(p) /\ UNCHANGED host /\ Calm
        /\ req' = [req EXCEPT ![p] = [@ EXCEPT !.pc = "begin", !.seen = Dom(p).active]]
     \/ Fails(p, {Here(p)}, "slot")

\* validateProvisioningStorage finds the pool or a volume in doubt.
StorageDoubtful(p) == Fails(p, {Here(p)}, Stuck(p))

\* runProvisioningRecovery: the state is reset before anything is destroyed.
BeginRollback(p) ==
  /\ At(p, "begin") /\ Still
  /\ StorageDoubtful(p) \/ Call(p, [Here(p) EXCEPT !.dom.state = "rollback"], "stop", Stuck(p))

\* Destroy, of a domain that was active when it was looked at; the guest may
\* have stopped by itself since, and then Destroy is an error.
StopDomain(p) ==
  /\ At(p, "stop") /\ Still
  /\ \/ ~req[p].seen /\ Goes(p, "volumes")
     \/ req[p].seen /\ Dom(p).active
        /\ Call(p, [Here(p) EXCEPT !.dom.active = FALSE], "volumes", Stuck(p))
     \/ req[p].seen /\ ~Dom(p).active /\ Refuses(p, Stuck(p))

\* storage.RemoveVolumes tries both volumes and joins the errors.
\* Faulty variant: a volume that could not be deleted does not stop the cleanup.
FaultyRemoveVolumes(p) ==
  /\ At(p, "volumes") /\ Still
  /\ \/ Put(p, [Here(p) EXCEPT !.disk = NoVolume, !.seed = NoVolume]) /\ Goto(p, "net") /\ Calm
     \/ Fails(p, {Here(p)}, "net")

RemoveVolumes(p) ==
  /\ At(p, "volumes") /\ Still
  /\ \/ Put(p, [Here(p) EXCEPT !.disk = NoVolume, !.seed = NoVolume]) /\ Goto(p, "net") /\ Calm
     \/ \E d \in {NoVolume, Here(p).disk}, e \in {NoVolume, Here(p).seed} :
          Fails(p, {[Here(p) EXCEPT !.disk = d, !.seed = e]}, Stuck(p))

ReleaseNetwork(p) ==
  /\ At(p, "net") /\ Still
  /\ Call(p, [Here(p) EXCEPT !.net = 0], "undefine", Stuck(p))

\* A removal that found no domain has none to undefine.
Undefine(p) ==
  /\ At(p, "undefine") /\ Still
  /\ \/ req[p].id = 0 /\ Goes(p, Unwound(p))
     \/ req[p].id # 0 /\ Call(p, [Here(p) EXCEPT !.dom = NoDomain], Unwound(p), Stuck(p))

Unwind(p) ==
  Recover(p) \/ Rollback(p) \/ BeginRollback(p) \/ StopDomain(p) \/ RemoveVolumes(p)
    \/ ReleaseNetwork(p) \/ Undefine(p)
-----------------------------------------------------------------------------
\* RemoveVM: lookupRemovalDomain and prepareDomainDeletion up to Destroy.
MarkDeleting(p) ==
  /\ At(p, "mark") /\ UNCHANGED <<inflight, created>>
  /\ removed' = removed \cup {Dom(p).id}
  /\ \/ Dom(p).id = 0 /\ Goes(p, "volumes")
     \/ /\ Dom(p).id # 0
        /\ \/ /\ Put(p, [Here(p) EXCEPT !.dom.deleting = TRUE]) /\ Calm
              /\ req' = [req EXCEPT ![p] = [@ EXCEPT !.pc = "stop", !.id = Dom(p).id,
                                                     !.seen = Dom(p).active]]
           \/ Fails(p, {Here(p), [Here(p) EXCEPT !.dom.deleting = TRUE]}, "unlock")

\* ensureVMNotDeleting and ensureProvisioningComplete.
Startable(d) == d.id # 0 /\ ~d.deleting /\ d.state = "ready"

\* StartExistingVM leaves a running domain alone.
StartExisting(p) ==
  /\ At(p, "power") /\ req[p].op = "start" /\ Still
  /\ \/ (~Startable(Dom(p)) \/ Dom(p).active) /\ Goes(p, "unlock")
     \/ /\ Startable(Dom(p)) /\ ~Dom(p).active
        /\ Call(p, [Here(p) EXCEPT !.dom.active = TRUE], "unlock", "unlock")

\* RestartVM reboots it.
Restart(p) ==
  /\ At(p, "power") /\ req[p].op = "restart" /\ Still
  /\ \/ ~Startable(Dom(p)) /\ Goes(p, "unlock")
     \/ Startable(Dom(p)) /\ Call(p, [Here(p) EXCEPT !.dom.active = TRUE], "unlock", "unlock")

\* ShutdownVM.
PowerOff(p) ==
  /\ At(p, "power") /\ req[p].op = "stop" /\ Still
  /\ LET running == Dom(p).active /\ ~Dom(p).deleting
     IN \/ ~running /\ Goes(p, "unlock")
        \/ running /\ Call(p, [Here(p) EXCEPT !.dom.active = FALSE], "unlock", "unlock")
-----------------------------------------------------------------------------
Mine(p) == {n \in Keys : Owner[n] = Owner[Name(p)]}

\* ensureVMNameAvailable.
Available(p) ==
  /\ At(p, "available") /\ Still
  /\ \/ Dom(p).id = 0 /\ Goes(p, "count")
     \/ Dom(p).id # 0 /\ Goes(p, "unlock")
     \/ Fails(p, {Here(p)}, "unlock")

\* vmQuotaOwnerLocks is held from the scan to the decision; release takes it.
OwnerFree(p) ==
  \A q \in Procs : At(q, "decide") => Owner[Name(q)] # Owner[Name(p)]

\* reserveUserVMSlotWithCounter: countDomainsOwnedBy ...
CountOwned(p) ==
  /\ At(p, "count") /\ OwnerFree(p) /\ Still
  /\ \/ /\ req' = [req EXCEPT ![p] = [@ EXCEPT !.pc = "decide",
                     !.count = Cardinality({n \in Mine(p) : host[n].dom.id # 0})]]
        /\ UNCHANGED host /\ Calm
     \/ Fails(p, {Here(p)}, "unlock")

\* ... and the decision.
\* Faulty variant: creations in flight are not counted.
FaultyReserveSlot(p) ==
  /\ At(p, "decide") /\ UNCHANGED <<host, created, removed>> /\ Calm
  /\ \/ /\ req[p].count >= Limit
        /\ req' = [req EXCEPT ![p] = [@ EXCEPT !.pc = "unlock", !.count = 0]]
        /\ UNCHANGED inflight
     \/ /\ req[p].count < Limit
        /\ req' = [req EXCEPT ![p] = [@ EXCEPT !.pc = "plan", !.count = 0]]
        /\ inflight' = [inflight EXCEPT ![Owner[Name(p)]] = @ + 1]

ReserveSlot(p) ==
  /\ At(p, "decide") /\ UNCHANGED <<host, created, removed>> /\ Calm
  /\ LET have == req[p].count + inflight[Owner[Name(p)]]
     IN \/ /\ have >= Limit
           /\ req' = [req EXCEPT ![p] = [@ EXCEPT !.pc = "unlock", !.count = 0]]
           /\ UNCHANGED inflight
        \/ /\ have < Limit
           /\ req' = [req EXCEPT ![p] = [@ EXCEPT !.pc = "plan", !.count = 0]]
           /\ inflight' = [inflight EXCEPT ![Owner[Name(p)]] = @ + 1]

\* releaseUserVMSlot.
ReleaseSlot(p) ==
  /\ At(p, "slot") /\ OwnerFree(p) /\ Goes(p, "unlock")
  /\ inflight' = [inflight EXCEPT ![Owner[Name(p)]] = @ - 1]
  /\ UNCHANGED <<created, removed>>

\* planProvisioningIntent: nothing of that name may exist; then the rollback is
\* armed.  The context is looked at first.
Plan(p) ==
  /\ At(p, "plan") /\ Still
  /\ LET clear == Here(p).disk = NoVolume /\ Here(p).seed = NoVolume /\ Here(p).net = 0
     IN \/ /\ clear /\ UNCHANGED host /\ Calm
           /\ req' = [req EXCEPT ![p] = [@ EXCEPT !.pc = "pending", !.own = TRUE]]
        \/ ~clear /\ Goes(p, "slot")
        \/ Fails(p, {Here(p)}, "slot")
        \/ Goes(p, "slot")

\* definePendingProvisioning.
DefinePending(p) ==
  /\ At(p, "pending") /\ Still
  /\ Call(p, [Here(p) EXCEPT !.dom = [NoDomain EXCEPT !.id = req[p].id, !.state = "pending"]],
          "reserve", "rollback")

\* reserveAvailableNetworkIdentity: the lowest free address, or none is free.
\* An update that failed but is found in the next snapshot is taken; if that
\* snapshot cannot be read, the creation fails with the address reserved.
ReserveNetwork(p) ==
  /\ At(p, "reserve") /\ Still
  /\ LET free == Addresses \ {host[n].net : n \in Keys}
     IN \/ free # {} /\ Call(p, [Here(p) EXCEPT !.net = Min(free)], "disk", "rollback")
        \/ Fails(p, {Here(p)}, "rollback")
        \/ Goes(p, "rollback")

\* CopyAndResizeVolumeWithContext and CreateSeedISOToPoolWithContext: create an
\* empty volume, then fill it.  The context may be done, and a volume of that
\* name be in the way.
CreateVolume(p, label, vol, next) ==
  /\ At(p, label) /\ Still
  /\ \/ /\ Here(p)[vol] = NoVolume
        /\ Call(p, [Here(p) EXCEPT ![vol] = [by |-> req[p].id, done |-> FALSE]], next, "rollback")
     \/ Goes(p, "rollback")

FillVolume(p, label, vol, next) ==
  /\ At(p, label) /\ Still
  /\ \/ Call(p, [Here(p) EXCEPT ![vol].done = TRUE], next, "rollback")
     \/ Goes(p, "rollback")

\* StartVM: redefine the pending domain with its disk and network card, unless
\* the context is done or the domain is not the pending one ...
DefineDomain(p) ==
  /\ At(p, "define") /\ Still
  /\ \/ /\ SameOperation(p) /\ ~Dom(p).deleting
        /\ Call(p, [Here(p) EXCEPT !.dom.full = TRUE], "ready", "rollback")
     \/ Goes(p, "rollback")

\* ... write its metadata and, last, the ready record ...
MarkReady(p) ==
  /\ At(p, "ready") /\ Still
  /\ Call(p, [Here(p) EXCEPT !.dom.state = "ready"], "start", "rollback")

\* ... and start it.
CreateDomain(p) ==
  /\ At(p, "start") /\ Still
  /\ Call(p, [Here(p) EXCEPT !.dom.active = TRUE], "finish", "rollback")

\* provisionVMResources looks at the context a last time.
Finish(p) ==
  /\ At(p, "finish") /\ UNCHANGED <<inflight, removed>>
  /\ \/ Goes(p, "slot") /\ created' = created \cup {req[p].id}
     \/ Goes(p, "rollback") /\ UNCHANGED created

Provision(p) ==
  \/ Available(p) \/ CountOwned(p) \/ ReserveSlot(p) \/ ReleaseSlot(p) \/ Plan(p)
  \/ DefinePending(p) \/ ReserveNetwork(p)
  \/ CreateVolume(p, "disk", "disk", "upload") \/ FillVolume(p, "upload", "disk", "seed")
  \/ CreateVolume(p, "seed", "seed", "burn") \/ FillVolume(p, "burn", "seed", "define")
  \/ DefineDomain(p) \/ MarkReady(p) \/ CreateDomain(p) \/ Finish(p)
-----------------------------------------------------------------------------
\* A request for a VM, from one of the handlers; all but a creation are
\* authorised against an existing domain before the name is locked.
Arrive(p) ==
  /\ phase = "up" /\ plan.requests > 0
  /\ At(p, "idle") /\ turn[p] = "out" /\ \A q \in Requests : q < p => ~At(q, "idle")
  /\ \E op \in plan.ops, n \in plan.names :
       /\ op = "create" \/ host[n].dom.id # 0
       /\ Refer(p, n)
       /\ \A e \in Entries : e < entry'[p] => Referring(e) # {} \/ entry'[p] = locks[n]
       /\ req' = [req EXCEPT ![p] = [Idle EXCEPT
            !.op = op, !.pc = "lock", !.name = n,
            !.id = IF op = "create" THEN plan.requests ELSE 0]]
  /\ plan' = [plan EXCEPT !.requests = @ - 1]
  /\ UNCHANGED <<host, phase, todo, bootFailed, troubled>> /\ Still

First(op) == CASE op = "create" -> "recover" [] op = "recover" -> "recover"
               [] op = "remove" -> "mark" [] OTHER -> "power"

Lock(p) ==
  /\ At(p, "lock") /\ Acquire(p) /\ Goto(p, First(req[p].op))
  /\ UNCHANGED <<host, plan, phase, todo, bootFailed, troubled>> /\ Still

\* A creation whose context ends while it waits for the name.
GiveUp(p) ==
  /\ At(p, "lock") /\ req[p].op = "create" /\ Cancel(p) /\ Goto(p, "leave")
  /\ UNCHANGED <<host, plan, phase, todo, bootFailed, troubled>> /\ Still

\* Faulty variant: the release is forgotten.
FaultyUnlock(p) ==
  /\ At(p, "unlock") /\ req' = [req EXCEPT ![p] = Idle]
  /\ UNCHANGED <<mutexVars, host, plan, phase, todo, bootFailed, troubled>> /\ Still

Unlock(p) ==
  /\ At(p, "unlock") /\ Release(p) /\ Goto(p, "leave")
  /\ UNCHANGED <<host, plan, phase, todo, bootFailed, troubled>> /\ Still

Return(p) ==
  /\ At(p, "leave") /\ Leave(p) /\ req' = [req EXCEPT ![p] = Idle]
  /\ UNCHANGED <<host, plan, phase, todo, bootFailed, troubled>> /\ Still

Step(p) ==
  /\ Unwind(p) \/ MarkDeleting(p) \/ StartExisting(p) \/ Restart(p) \/ PowerOff(p) \/ Provision(p)
  /\ UNCHANGED <<phase, todo>> /\ UNCHANGED mutexVars
-----------------------------------------------------------------------------
\* The process starts: Init lists the domains ...
StartGateway ==
  /\ phase = "down" /\ phase' = "booting" /\ bootFailed' = FALSE
  /\ todo' = {n \in Keys : host[n].dom.id # 0}
  /\ UNCHANGED <<host, req, plan, troubled, mutexVars>> /\ Still

\* ... recovers each under its name lock ...
VisitName ==
  /\ phase = "booting" /\ At(Boot, "idle") /\ todo # {}
  /\ LET n == Min(todo)
     IN /\ Refer(Boot, n) /\ entry'[Boot] = Min(Entries) /\ todo' = todo \ {n}
        /\ req' = [req EXCEPT ![Boot] = [Idle EXCEPT !.op = "recover", !.pc = "lock", !.name = n]]
  /\ UNCHANGED <<host, phase, bootFailed, plan, troubled>> /\ Still

\* ... and accepts requests, or exits to be started again if one failed.
FinishBoot ==
  /\ phase = "booting" /\ At(Boot, "idle") /\ todo = {}
  /\ phase' = IF bootFailed THEN "down" ELSE "up"
  /\ UNCHANGED <<host, req, todo, bootFailed, plan, troubled, mutexVars>> /\ Still

Crash ==
  /\ phase # "down" /\ phase' = "down" /\ plan.crashes > 0
  /\ plan' = [plan EXCEPT !.crashes = @ - 1]
  /\ req' = [p \in Procs |-> Idle] /\ inflight' = [o \in DOMAIN inflight |-> 0]
  /\ todo' = {} /\ bootFailed' = FALSE
  /\ locks' = [k \in Keys |-> Nil] /\ turn' = [p \in Procs |-> "out"]
  /\ waiters' = [e \in Entries |-> 0] /\ held' = [e \in Entries |-> FALSE]
  /\ want' = [p \in Procs |-> Nil] /\ entry' = [p \in Procs |-> Nil]
  /\ UNCHANGED <<host, troubled, created, removed>>

\* The guest powers off, by itself or on the ACPI request of
\* GracefulShutdownVM.
GuestStops(n) ==
  /\ host[n].dom.active /\ host' = [host EXCEPT ![n].dom.active = FALSE]
  /\ UNCHANGED <<req, phase, todo, bootFailed, plan, troubled, mutexVars>> /\ Still

Init ==
  /\ plan \in Plans
  /\ host = [n \in Keys |-> [dom |-> NoDomain, seed |-> NoVolume, net |-> 0,
       disk |-> IF n \in plan.foreign THEN ForeignVolume ELSE NoVolume]]
  /\ req = [p \in Procs |-> Idle] /\ inflight = [o \in {Owner[n] : n \in Keys} |-> 0]
  /\ phase = "down" /\ todo = {} /\ bootFailed = FALSE
  /\ created = {} /\ removed = {} /\ troubled = FALSE
  /\ MutexInit

Proceed(p) == Lock(p) \/ Unlock(p) \/ Return(p) \/ Step(p)

Next ==
  \/ \E p \in Requests : Arrive(p) \/ GiveUp(p)
  \/ \E p \in Procs : Proceed(p)
  \/ StartGateway \/ VisitName \/ FinishBoot \/ Crash
  \/ \E n \in Keys : GuestStops(n)

Spec == Init /\ [][Next]_vars

\* The process is started again when it stopped, and as long as some goroutine
\* can go on, one does.  Requests need not arrive, contexts need not end.
FairSpec ==
  Spec /\ WF_vars(StartGateway \/ VisitName \/ FinishBoot \/ \E p \in Procs : Proceed(p))
-----------------------------------------------------------------------------
\* What libvirt keeps and where the goroutines are stay what the functions of
\* internal/virt handle, and a quota slot is never given back twice.
VMTypeOK ==
  /\ \A n \in Keys :
       /\ host[n].dom.id \in Nat /\ host[n].dom.state \in {"pending", "ready", "rollback"}
       /\ host[n].disk.by \in Int /\ host[n].seed.by \in Int /\ host[n].net \in Addresses \cup {0}
  /\ \A o \in DOMAIN inflight : inflight[o] \in Nat
  /\ phase \in {"down", "booting", "up"} /\ todo \subseteq Keys

\* Every volume and reservation a creation made has that creation's domain, so
\* that somebody is authorised to remove it and a restart finds it, at every
\* point of creation, rollback and removal and after every crash.
NoOrphans ==
  \A n \in Keys :
    /\ \A v \in {host[n].disk, host[n].seed} : v.by > 0 => v.by = host[n].dom.id
    /\ host[n].net # 0 => host[n].dom.id # 0

\* A volume the gateway did not make is never deleted or replaced by it.
ForeignKept ==
  \A n \in plan.foreign : host[n].disk = ForeignVolume

\* A user never has more domains than MAX_VDI_PER_USER allows, though scans,
\* definitions and removals of several requests interleave.
QuotaHeld ==
  \A o \in DOMAIN inflight :
    Cardinality({n \in Keys : Owner[n] = o /\ host[n].dom.id # 0}) <= Limit

\* A running domain has its own disk and seed, completely written, and its
\* address: nothing starts a VM that is half made or half removed.
RunsWhole ==
  \A n \in Keys :
    LET d == host[n].dom
    IN d.active => /\ d.full /\ host[n].net # 0
                   /\ \A v \in {host[n].disk, host[n].seed} : v.by = d.id /\ v.done

\* A running domain's creation is committed or being rolled back, so the
\* recovery at boot never refuses a name because its VM is running.
ActiveIsCommitted ==
  \A n \in Keys : host[n].dom.active => host[n].dom.state # "pending"

\* A VM whose creation was reported stays whole until somebody removes it: no
\* failed creation, recovery or restart takes anything from it.
CreatedSurvives ==
  \A i \in created \ removed :
    \E n \in Keys :
      /\ host[n].dom.id = i /\ host[n].dom.state = "ready" /\ host[n].dom.full
      /\ host[n].net # 0
      /\ \A v \in {host[n].disk, host[n].seed} : v.by = i /\ v.done

\* While no libvirt call has failed, a name nobody is working on has no
\* unfinished creation: cancelled and crashed creations leave nothing behind
\* once the gateway is up.
CleanAtRest ==
  phase = "up" /\ ~troubled =>
    \A n \in Keys : (\A p \in Procs : Name(p) # n) =>
      /\ host[n].dom.state = "ready"
      /\ host[n].dom.id = 0 => host[n].seed = NoVolume /\ host[n].net = 0

\* Every request that is under way ends or dies with the process, and the
\* gateway comes up again: nobody waits for a lock for ever.
EveryoneReturns == <>[](phase = "up" /\ \A p \in Procs : At(p, "idle"))

(* Creation, rollback and removal: volumes and reservations belong to a      *)
(* domain, volumes of another origin are kept, and a creation that failed or *)
(* was cancelled leaves nothing at rest.                                     *)
NothingOrphaned == VMTypeOK /\ NoOrphans /\ ForeignKept /\ CleanAtRest

(* Start and recovery: only a whole and committed machine runs, and one      *)
(* whose creation was answered stays whole until its owner removes it.       *)
MachinesWhole == RunsWhole /\ ActiveIsCommitted /\ CreatedSurvives
=============================================================================
