---------------------------- MODULE IdleShutdown ----------------------------
(* The record of when a virtual machine was last used, with its copy in the  *)
(* machine's metadata, and the sweeper that stops idle machines: gracefully  *)
(* first, by force after a grace period.                                     *)
(*                                                                           *)
(* Two locks shape the steps.  The guard of a name makes opening, closing    *)
(* and marking a use, and the whole decision of the sweeper about a machine, *)
(* one step each.  The lifecycle lock keeps the sweeper away from a machine  *)
(* while it is being started, created or removed, but not the connections.   *)
(* Time counts sweep intervals from 1; 0 is no time.                         *)
EXTENDS Naturals, FiniteSets

CONSTANTS IdlePlans

VARIABLES iplan,   \* [idle, grace, vms, opens, marks, powers, faults, kinds, last]
          ispent,  \* how much of the plan's opens, marks, powers and faults is used
          inow,    \* the clock
          doms,    \* the domains: state, owned, stored timestamp, when they were created,
                   \* whether they obey the power button and when that was pressed
          held,    \* who holds a machine's lifecycle lock across steps
          times,   \* vmLastUsedRegistry.times
          uses,    \* vmLastUsedRegistry.uses
          asked,   \* shutdownRequestedAt
          pass,    \* the sweeper: whether a tick waits, the last listing, what is left of it
          links,   \* the open connections: [vm, id], with void when the machine went
          used,    \* ghost: when a machine was really used last
          unsaved, \* ghost: the last use is not in the metadata, since a write failed or is due
          short    \* ghost: how much too early the record of a machine may lie, after it was
                   \* lost or a creation put its own time over a later one

idleVars == <<iplan, ispent, inow, doms, held, times, uses, asked, pass, links, used, unsaved, short>>

VMs == DOMAIN iplan.vms
Without(f, S) == [k \in DOMAIN f \ S |-> f[k]]
With(f, k, v) == [j \in DOMAIN f \cup {k} |-> IF j = k THEN v ELSE f[j]]

IFault(kind) == ispent.faults < iplan.faults /\ kind \in iplan.kinds
InUse(vm) == uses[vm] # {}
Linked(vm) == \E l \in links : l.vm = vm /\ ~l.void
NoPass == [due |-> FALSE, vms |-> <<>>, left |-> {}]

(* setDomainLastUsedMetadata *)
SetMetadata(vm, spent) ==
    \/ /\ ispent' = spent
       /\ doms' = [doms EXCEPT ![vm].stored = inow]
       /\ unsaved' = [unsaved EXCEPT ![vm] = FALSE]
    \/ /\ IFault("persist")
       /\ ispent' = [spent EXCEPT !.faults = @ + 1]
       /\ unsaved' = [unsaved EXCEPT ![vm] = TRUE]
       /\ UNCHANGED doms

(* A use is recorded in memory in any case; the stored copy is best effort. *)
Remember(vm) ==
    /\ times' = With(times, vm, inow)
    /\ used' = [used EXCEPT ![vm] = inow]
    /\ short' = [short EXCEPT ![vm] = 0]
Record(vm, spent) ==
    /\ Remember(vm)
    /\ IF doms[vm].state = "none"
       THEN ispent' = spent /\ UNCHANGED <<doms, unsaved>>
       ELSE SetMetadata(vm, spent)
Spent(what) == [ispent EXCEPT ![what] = @ + 1]

IdleInit ==
    /\ iplan \in IdlePlans
    /\ ispent = [opens |-> 0, marks |-> 0, powers |-> 0, lates |-> 0, faults |-> 0]
    /\ inow = 1
    /\ doms = iplan.vms
    /\ held = [vm \in VMs |-> "free"]
    /\ times = <<>> /\ asked = <<>> /\ links = {}
    /\ uses = [vm \in VMs |-> {}]
    /\ pass = NoPass
    /\ used = [vm \in VMs |-> IF iplan.vms[vm].stored = 0 THEN 1 ELSE iplan.vms[vm].stored]
    /\ unsaved = [vm \in VMs |-> FALSE]
    /\ short = [vm \in VMs |-> 0]

-----------------------------------------------------------------------------
(* TrackVMUse and the function it returns.  A connection to a machine that   *)
(* is gone is still counted until the removal clears the record.             *)
OpenUse(vm) ==
    /\ ispent.opens < iplan.opens
    /\ LET id == ispent.opens + 1
       IN  /\ uses' = [uses EXCEPT ![vm] = @ \cup {id}]
           /\ links' = links \cup {[vm |-> vm, id |-> id, void |-> FALSE]}
    /\ Record(vm, Spent("opens"))
    /\ UNCHANGED <<iplan, inow, held, asked, pass>>

Ends(l) == [uses EXCEPT ![l.vm] = @ \ {l.id}]

CloseUse(l) ==
    /\ links' = links \ {l}
    /\ IF l.id \in uses[l.vm]
       THEN uses' = Ends(l) /\ Record(l.vm, ispent)
       ELSE UNCHANGED <<ispent, doms, times, uses, used, unsaved, short>>
    /\ UNCHANGED <<iplan, inow, held, asked, pass>>

(* MarkVMUsed, on a click that asks for a connection file. *)
MarkVMUsed(vm) ==
    /\ ispent.marks < iplan.marks
    /\ Record(vm, Spent("marks"))
    /\ UNCHANGED <<iplan, inow, held, uses, asked, pass, links>>

-----------------------------------------------------------------------------
(* StartExistingVM, RestartVM: the domain runs before it is marked as used.  *)
StartVM(vm) ==
    /\ ispent.powers < iplan.powers /\ held[vm] = "free" /\ doms[vm].state # "none"
    /\ held' = [held EXCEPT ![vm] = "starting"]
    /\ doms' = [doms EXCEPT ![vm].state = "running", ![vm].pressed = IF doms[vm].state = "running" THEN @ ELSE 0]
    /\ used' = [used EXCEPT ![vm] = inow]
    /\ unsaved' = [unsaved EXCEPT ![vm] = TRUE]
    /\ short' = [short EXCEPT ![vm] = 0]
    /\ ispent' = Spent("powers")
    /\ UNCHANGED <<iplan, inow, times, uses, asked, pass, links>>

(* BootNewVM: the metadata is complete before the domain runs. *)
CreateVM(vm) ==
    /\ ispent.powers < iplan.powers /\ held[vm] = "free" /\ doms[vm].state = "none"
    /\ held' = [held EXCEPT ![vm] = "creating"]
    /\ doms' = [doms EXCEPT ![vm].state = "running", ![vm].stored = inow, ![vm].born = inow, ![vm].pressed = 0]
    /\ used' = [used EXCEPT ![vm] = inow]
    /\ unsaved' = [unsaved EXCEPT ![vm] = FALSE]
    /\ short' = [short EXCEPT ![vm] = 0]
    /\ ispent' = Spent("powers")
    /\ UNCHANGED <<iplan, inow, times, uses, asked, pass, links>>

(* markDomainUsed. *)
Started(vm) ==
    /\ held[vm] = "starting"
    /\ held' = [held EXCEPT ![vm] = "free"]
    /\ Remember(vm) /\ SetMetadata(vm, ispent)
    /\ UNCHANGED <<iplan, inow, uses, asked, pass, links>>

(* The time taken before the domain was started is registered, without the   *)
(* guard, also over that of a use since.                                     *)
Created(vm) ==
    /\ held[vm] = "creating"
    /\ held' = [held EXCEPT ![vm] = "free"]
    /\ times' = With(times, vm, doms[vm].born)
    /\ short' = [short EXCEPT ![vm] = used[vm] - doms[vm].born]
    /\ UNCHANGED <<iplan, ispent, inow, doms, uses, asked, pass, links, used, unsaved>>

(* RemoveVM: the domain goes first, then the record with its uses. *)
RemoveVM(vm) ==
    /\ ispent.powers < iplan.powers /\ held[vm] = "free" /\ doms[vm].state # "none"
    /\ held' = [held EXCEPT ![vm] = "removing"]
    /\ doms' = [doms EXCEPT ![vm].state = "none", ![vm].stored = 0]
    /\ ispent' = Spent("powers")
    /\ UNCHANGED <<iplan, inow, times, uses, asked, pass, links, used, unsaved, short>>

Removed(vm) ==
    /\ held[vm] = "removing"
    /\ held' = [held EXCEPT ![vm] = "free"]
    /\ times' = Without(times, {vm})
    /\ uses' = [uses EXCEPT ![vm] = {}]
    /\ links' = {IF l.vm = vm THEN [l EXCEPT !.void = TRUE] ELSE l : l \in links}
    /\ UNCHANGED <<iplan, ispent, inow, doms, asked, pass, used, unsaved, short>>

(* A guest that obeys powers off some time after it was asked. *)
GuestObeys(vm) ==
    /\ doms[vm].state = "running" /\ doms[vm].obeys /\ doms[vm].pressed # 0
    /\ doms' = [doms EXCEPT ![vm].state = "off"]
    /\ UNCHANGED <<iplan, ispent, inow, held, times, uses, asked, pass, links, used, unsaved, short>>

-----------------------------------------------------------------------------
(* The cached inventory: as it is, as it was, without a machine whose state  *)
(* could not be read, or empty.                                              *)
Listing == [vm \in {v \in VMs : doms[v].state # "none"} |-> doms[vm].state]

(* retainNames keeps what is in use even when the listing omits it. *)
Retained(names) == {vm \in DOMAIN times : vm \in names \/ InUse(vm)}

Sweeping(listing) ==
    /\ pass.due /\ pass.left = {} /\ listing # <<>>
    /\ pass' = [due |-> FALSE, vms |-> listing, left |-> DOMAIN listing]
    /\ times' = [vm \in Retained(DOMAIN listing) |-> times[vm]]
    /\ asked' = Without(asked, DOMAIN asked \ DOMAIN listing)
    /\ short' = [vm \in VMs |->
          IF vm \in DOMAIN times \ DOMAIN times' /\ unsaved[vm] THEN iplan.idle ELSE short[vm]]
    /\ UNCHANGED <<iplan, inow, doms, held, uses, links, used, unsaved>>

SweepListed == Sweeping(Listing) /\ UNCHANGED ispent
SweepStale == IFault("stale") /\ Sweeping(pass.vms) /\ ispent' = Spent("faults")
SweepOmits ==
    /\ IFault("omit") /\ ispent' = Spent("faults")
    /\ \E vm \in DOMAIN Listing : Sweeping(Without(Listing, {vm}))

(* An empty listing may mean that the inventory is not available. *)
SweepEmpty ==
    /\ pass.due /\ pass.left = {}
    /\ pass' = NoPass
    /\ \/ Listing = <<>> /\ UNCHANGED ispent
       \/ Listing # <<>> /\ IFault("empty") /\ ispent' = Spent("faults")
    /\ UNCHANGED <<iplan, inow, doms, held, times, uses, asked, links, used, unsaved, short>>

SweepsVM(vm) ==
    /\ vm \in pass.left /\ held[vm] = "free"
    /\ pass' = [pass EXCEPT !.left = @ \ {vm}]
    /\ UNCHANGED <<iplan, inow, held, uses, links>>

Candidate(vm) == doms[vm].owned /\ pass.vms[vm] = "running"

SweepNothing(vm) ==
    /\ SweepsVM(vm) /\ ~Candidate(vm)
    /\ asked' = Without(asked, {vm})
    /\ UNCHANGED <<ispent, doms, times, used, unsaved, short>>

ProtectsNone(vm) == FALSE
Protects(vm) == InUse(vm)

(* Live use is checkpointed on every pass. *)
SweepInUse(vm) ==
    /\ SweepsVM(vm) /\ Candidate(vm) /\ Protects(vm)
    /\ asked' = Without(asked, {vm})
    /\ Record(vm, ispent)

(* The time of the last use: remembered, recovered, or now when unknown. *)
LastUsed(vm) ==
    IF vm \in DOMAIN times THEN times[vm]
    ELSE IF doms[vm].state # "none" /\ doms[vm].stored # 0 THEN doms[vm].stored ELSE inow

Idle(vm) == inow >= LastUsed(vm) + iplan.idle
PendingNever(vm) == FALSE
Pending(vm) == vm \in DOMAIN asked
GraceOver(vm) == inow >= asked[vm] + iplan.grace

Decides(vm, last) ==
    /\ SweepsVM(vm) /\ Candidate(vm) /\ ~Protects(vm)
    /\ times' = With(times, vm, last)
    /\ UNCHANGED <<used, unsaved, short>>

(* A machine used since it was asked to stop is no longer asked. *)
SweepFresh(vm) ==
    /\ Decides(vm, LastUsed(vm)) /\ ~Idle(vm)
    /\ asked' = Without(asked, {vm})
    /\ UNCHANGED <<ispent, doms>>

SweepUnknown(vm) ==
    /\ vm \notin DOMAIN times /\ IFault("load")
    /\ Decides(vm, inow)
    /\ asked' = Without(asked, {vm})
    /\ ispent' = Spent("faults") /\ UNCHANGED doms

(* stopVM finds no domain or libvirt refuses. *)
StopFails(vm) ==
    /\ doms[vm].state = "none" \/ IFault("stop")
    /\ ispent' = IF doms[vm].state = "none" THEN ispent ELSE Spent("faults")

(* stopIdleVM; asking or stopping a domain that is off changes nothing. *)
SweepAsks(vm) ==
    /\ Decides(vm, LastUsed(vm)) /\ Idle(vm) /\ ~Pending(vm) /\ doms[vm].state # "none"
    /\ asked' = With(asked, vm, inow)
    /\ doms' = IF doms[vm].state = "running" THEN [doms EXCEPT ![vm].pressed = inow] ELSE doms
    /\ UNCHANGED ispent

SweepAskFails(vm) ==
    /\ Decides(vm, LastUsed(vm)) /\ Idle(vm) /\ ~Pending(vm)
    /\ UNCHANGED <<asked, doms>>
    /\ StopFails(vm)

SweepWaits(vm) ==
    /\ Decides(vm, LastUsed(vm)) /\ Idle(vm) /\ Pending(vm) /\ ~GraceOver(vm)
    /\ UNCHANGED <<ispent, doms, asked>>

SweepForces(vm) ==
    /\ Decides(vm, LastUsed(vm)) /\ Idle(vm) /\ Pending(vm) /\ GraceOver(vm)
    /\ doms[vm].state # "none"
    /\ asked' = Without(asked, {vm})
    /\ doms' = [doms EXCEPT ![vm].state = "off"]
    /\ UNCHANGED ispent

SweepForceFails(vm) ==
    /\ Decides(vm, LastUsed(vm)) /\ Idle(vm) /\ Pending(vm) /\ GraceOver(vm)
    /\ UNCHANGED <<doms, asked>>
    /\ StopFails(vm)

-----------------------------------------------------------------------------
(* One interval passes; a pass that takes longer makes one tick wait. *)
Passes ==
    /\ inow < iplan.last
    /\ inow' = inow + 1
    /\ pass' = [pass EXCEPT !.due = TRUE]
    /\ UNCHANGED <<iplan, doms, held, times, uses, asked, links, used, unsaved, short>>
IdleClock == ~pass.due /\ pass.left = {} /\ Passes /\ UNCHANGED ispent
IdleClockLate ==
    /\ pass.due \/ pass.left # {}
    /\ IFault("late") /\ Passes
    /\ ispent' = [ispent EXCEPT !.faults = @ + 1, !.lates = @ + 1]

(* The gateway dies and starts again; what it stored is all it has. *)
GatewayRestarts ==
    /\ IFault("crash") /\ ispent' = Spent("faults")
    /\ times' = <<>> /\ asked' = <<>> /\ links' = {}
    /\ uses' = [vm \in VMs |-> {}]
    /\ held' = [vm \in VMs |-> "free"]
    /\ pass' = NoPass
    /\ used' = [vm \in VMs |-> IF Linked(vm) THEN inow ELSE used[vm]]
    /\ short' = [vm \in VMs |->
          IF unsaved[vm] THEN iplan.idle ELSE IF Linked(vm) THEN 1 + ispent.lates ELSE short[vm]]
    /\ UNCHANGED <<iplan, inow, doms, unsaved>>

Locked(vm) == Started(vm) \/ Created(vm) \/ Removed(vm)
SweepVM(vm) ==
    \/ SweepNothing(vm) \/ SweepInUse(vm) \/ SweepFresh(vm) \/ SweepUnknown(vm)
    \/ SweepAsks(vm) \/ SweepAskFails(vm) \/ SweepWaits(vm)
    \/ SweepForces(vm) \/ SweepForceFails(vm)

IdleNext ==
    \/ \E vm \in VMs :
          \/ OpenUse(vm) \/ MarkVMUsed(vm) \/ StartVM(vm) \/ CreateVM(vm) \/ RemoveVM(vm)
          \/ Locked(vm) \/ GuestObeys(vm) \/ SweepVM(vm)
    \/ \E l \in links : CloseUse(l)
    \/ SweepListed \/ SweepStale \/ SweepEmpty \/ SweepOmits
    \/ IdleClock \/ IdleClockLate \/ GatewayRestarts

-----------------------------------------------------------------------------
Asks(vm) == vm \in DOMAIN asked' \ DOMAIN asked
Forces(vm) == vm \in pass.left \ pass'.left /\ doms[vm].state # doms'[vm].state

(* The uses the registry counts are those of the connections that are open   *)
(* and whose machine was not removed under them; a pass looks at what it     *)
(* listed, and no recorded time lies in the future.                          *)
IdleTypeOK ==
    /\ \A vm \in VMs : uses[vm] = {l.id : l \in {k \in links : k.vm = vm /\ ~k.void}}
    /\ pass.left \subseteq DOMAIN pass.vms
    /\ \A vm \in DOMAIN times : times[vm] <= inow
    /\ \A vm \in VMs : doms[vm].state \in {"none", "off", "running"} /\ doms[vm].stored <= inow

(* A machine somebody is connected to is neither asked to stop nor stopped,  *)
(* whatever listing the pass works from (sweepVM, TrackVMUse).               *)
NotStoppedInUse ==
    \A vm \in VMs : Asks(vm) \/ Forces(vm) => ~Linked(vm)

(* A machine is asked or stopped only after a full idle time since it was    *)
(* really used, over restarts of the gateway too: those cost at most the     *)
(* interval since the last checkpoint of a live use.  Only a use that could  *)
(* not be stored before the record was lost is forgotten, and one that ended *)
(* during the creation of its machine is dated back to it.                   *)
StoppedOnlyIdle ==
    \A vm \in VMs : Asks(vm) \/ Forces(vm) =>
          inow + short[vm] >= used[vm] + iplan.idle

(* A running machine is stopped by force only when its power button was      *)
(* pressed, an idle time after its last use and a grace period ago.          *)
GraceBeforeForce ==
    \A vm \in VMs : Forces(vm) /\ doms[vm].state = "running" =>
          /\ doms[vm].pressed # 0 /\ inow >= doms[vm].pressed + iplan.grace
          /\ doms[vm].pressed + short[vm] >= used[vm] + iplan.idle

(* A pass leaves no managed machine running that nobody has used for the     *)
(* idle time and the grace period; each fault delays this by a new round at  *)
(* most.                                                                     *)
StoppedInTime ==
    \A vm \in VMs :
        /\ doms[vm].state = "running" /\ doms[vm].owned
        /\ ~Linked(vm) /\ ~pass.due /\ pass.left = {}
        => inow <= used[vm] + iplan.idle + iplan.grace
                       + ispent.faults * (iplan.idle + iplan.grace + 1)

(* Sweep: what is asked to stop, or stopped by force, is not in use, has     *)
(* been idle for the window, and is forced only after its grace period.      *)
StopsJustified == [][NotStoppedInUse /\ StoppedOnlyIdle /\ GraceBeforeForce]_idleVars

(* Sweep and uses: the uses on record are the connections there are, and an  *)
(* idle machine does not run on.                                             *)
IdleSound == IdleTypeOK /\ StoppedInTime
=============================================================================
