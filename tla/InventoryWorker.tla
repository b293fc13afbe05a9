--------------------------- MODULE InventoryWorker ---------------------------
(* The inventory of virtual machines: the worker that starts sweeps of       *)
(* libvirt and abandons the ones that hang, the sweeps, each on a connection *)
(* of its own, the caches they reuse, the visible snapshot, the probes of    *)
(* the RDP port, and the dashboards that are told of changes and read it.    *)
(*                                                                           *)
(* A domain has a UUID and a name.  Its metadata is written after it is      *)
(* defined: stage 1 adds the owner, stage 2 the creation time, which stands  *)
(* for the UUID.  Two hosts may have a domain of one UUID, with different    *)
(* owners and disks.                                                         *)
EXTENDS Naturals, FiniteSets

CONSTANTS MaxSweeps,     \* maxOutstandingSweeps
          SweepTimeout,  \* sweepTimeout, in ticks
          InventoryPlans \* the domains of each host, the dashboards, and the budgets

ASSUME InventoryAssumption == MaxSweeps \in Nat \ {0}

VARIABLES wplan,   \* the plan, its budgets counted down
          world,   \* libvirt, the machines and the data of other parts: [host, doms, up, extra, quiet, tell, version]
          sweeps,  \* the sweep goroutines
          flight,  \* the one the worker waits for: [id, age]
          work,    \* what the worker has still to do to apply an outcome
          cache,   \* [id, meta, disk]: the host identity, and the caches by UUID
          snap,    \* [vms, swept, from]: the visible snapshot; from is its world's version, 0 when it is cleared
          numbers, \* [obs, shown]: the RDP observations, and the snapshots, which number the generations
          boards   \* the dashboards: what each does, its channel, what it read, its probes

inventoryVars == <<wplan, world, sweeps, flight, work, cache, snap, numbers, boards>>

None == "none"
Admin == "admin"
Empty == [u \in {} |-> 0]
NoSweep == [pc |-> "gone", hung |-> FALSE, host |-> None, out |-> [kind |-> "error"]]
Hosts == DOMAIN world.doms
SweepIds == DOMAIN sweeps
WFault(kind) == wplan.faults > 0 /\ kind \in wplan.kinds
Blame(n) == wplan' = [wplan EXCEPT !.faults = @ - n]

InventoryInit ==
    /\ wplan \in InventoryPlans
    /\ world = [host |-> "h1", doms |-> wplan.doms, up |-> wplan.up, extra |-> 0, quiet |-> 0, tell |-> FALSE,
                version |-> 1]
    /\ sweeps = [i \in 1 .. (MaxSweeps + 1) |-> NoSweep]
    /\ flight = [id |-> 0, age |-> 0]
    /\ work = [pc |-> "idle"]
    /\ cache = [id |-> None, meta |-> Empty, disk |-> Empty]
    /\ snap = [vms |-> Empty, swept |-> FALSE, from |-> 0]
    /\ numbers = [obs |-> 0, shown |-> 0]
    /\ boards = [b \in DOMAIN wplan.boards |->
                    [pc |-> IF wplan.boards[b] = Admin THEN "subscribe" ELSE "refresh", told |-> FALSE, joined |-> FALSE, view |-> {}, jobs |-> {}]]

-----------------------------------------------------------------------------
(* Libvirt and the machines.                                                 *)
Here == world.doms[world.host]

World(w, cost) ==
    /\ wplan.change >= cost
    /\ wplan' = [wplan EXCEPT !.change = @ - cost]
    /\ world' = [w EXCEPT !.version = @ + 1]
    /\ UNCHANGED <<sweeps, flight, work, cache, snap, numbers, boards>>

HostMoves ==
    \E h \in (Hosts \ {world.host}) \cap wplan.moves : World([world EXCEPT !.host = h, !.up = {}], 1)

(* The creation of a machine writes the next piece of its metadata. *)
CreationGoesOn(u) ==
    /\ Here[u].stage < 2
    /\ World([world EXCEPT !.doms[world.host][u].stage = @ + 1], 0)

(* A machine is replaced by a new one of the same name, owner and address. *)
Replaced(u) ==
    /\ wplan.spare \notin DOMAIN Here
    /\ World([world EXCEPT
          !.doms[world.host] = [v \in {wplan.spare} \cup (DOMAIN Here \ {u}) |->
                                   IF v = wplan.spare THEN [Here[u] EXCEPT !.stage = 0] ELSE Here[v]],
          !.up = @ \ {Here[u].name}], 1)

PowerToggles(u) ==
    /\ wplan.power
    /\ World([world EXCEPT !.doms[world.host][u].on = ~@, !.up = @ \ {Here[u].name}], 1)

PortToggles(u) ==
    /\ Here[u].on /\ wplan.port
    /\ World([world EXCEPT !.up = IF Here[u].name \in @ THEN @ \ {Here[u].name}
                                                       ELSE @ \cup {Here[u].name}], 1)

-----------------------------------------------------------------------------
(* The sweeps.                                                               *)
Sweep(i, s) ==
    /\ sweeps' = [sweeps EXCEPT ![i] = s]
    /\ UNCHANGED <<world, flight, work, cache, snap, numbers, boards>>

Connect(i) ==
    /\ sweeps[i].pc = "counted" /\ ~sweeps[i].hung
    /\ Sweep(i, [sweeps[i] EXCEPT !.pc = "connected", !.host = world.host]) /\ UNCHANGED wplan

(* The connection, the identity of the host or the listing fails. *)
SweepFails(i) ==
    /\ sweeps[i].pc \in {"counted", "connected"} /\ ~sweeps[i].hung /\ WFault("error") /\ Blame(1)
    /\ Sweep(i, [sweeps[i] EXCEPT !.pc = "reported", !.host = None])

(* The metadata libvirt has of a domain, and the disk's size. *)
Metadata(h, u) ==
    LET d == world.doms[h][u]
    IN [owner |-> IF d.stage >= 1 THEN d.owner ELSE "", created |-> IF d.stage = 2 THEN u ELSE "", host |-> h]
NoMetadata(h) == [owner |-> "", created |-> "", host |-> h]

(* What a sweep takes for a domain's metadata: the cached one first; a load  *)
(* that fails gives none.                                                    *)
LoadMetadata(h, u, bad) ==
    IF u \in DOMAIN cache.meta /\ u \notin bad.uuid THEN cache.meta[u]
    ELSE IF u \in bad.meta THEN NoMetadata(h)
    ELSE Metadata(h, u)

LoadDisk(h, u, bad) ==
    IF u \in DOMAIN cache.disk /\ u \notin bad.uuid THEN cache.disk[u] ELSE h

(* The metadata kept for the next sweep: a complete one, of a known UUID. *)
RetainedMetadata(h, bad, listed) ==
    [u \in {v \in listed \ bad.uuid : LoadMetadata(h, v, bad).created # ""} |-> LoadMetadata(h, u, bad)]

RetainedDisks(h, bad, listed) ==
    [u \in listed \ (bad.uuid \cup bad.state) |-> LoadDisk(h, u, bad)]

DomainVMInfo(h, u, bad) ==
    [owner |-> LoadMetadata(h, u, bad).owner, created |-> LoadMetadata(h, u, bad).created,
     on |-> world.doms[h][u].on, hosts |-> {h, LoadMetadata(h, u, bad).host, LoadDisk(h, u, bad)},
     ready |-> FALSE, gen |-> 0, obs |-> 0, since |-> 0, basis |-> 0]

(* The rows by name; a domain whose state cannot be read is left out. *)
ListVMs(h, bad) ==
    LET listed == DOMAIN world.doms[h] \ bad.state
    IN [n \in {world.doms[h][u].name : u \in listed} |->
           DomainVMInfo(h, CHOOSE u \in listed : world.doms[h][u].name = n, bad)]

NothingBad == [uuid |-> {}, meta |-> {}, state |-> {}]
BadCalls(h) ==
    {NothingBad} \cup
    {[NothingBad EXCEPT ![k] = {u}] : k \in {"uuid", "meta", "state"} \cap wplan.kinds, u \in DOMAIN world.doms[h]}

(* The whole collection.  The caches it copies change only when an outcome   *)
(* is applied, and this one's counts only if none was in between.            *)
CollectInventory(i) ==
    /\ sweeps[i].pc = "connected" /\ ~sweeps[i].hung
    /\ \E bad \in BadCalls(sweeps[i].host) :
          LET h == sweeps[i].host
          IN /\ bad = NothingBad \/ wplan.faults > 0
             /\ Blame(IF bad = NothingBad THEN 0 ELSE 1)
             /\ Sweep(i, [sweeps[i] EXCEPT !.pc = "reported", !.host = None,
                    !.out = [kind |-> "ok", host |-> h, vms |-> ListVMs(h, bad), from |-> world.version,
                             meta |-> RetainedMetadata(h, bad, DOMAIN world.doms[h]),
                             disk |-> RetainedDisks(h, bad, DOMAIN world.doms[h])]])

(* A call into libvirt, the close of the connection included, hangs; one day *)
(* it may return.                                                            *)
Hangs(i) ==
    /\ sweeps[i].pc \in {"counted", "connected", "reported"} /\ ~sweeps[i].hung /\ WFault("hang") /\ Blame(1)
    /\ Sweep(i, [sweeps[i] EXCEPT !.hung = TRUE])

HangReturns(i) ==
    /\ sweeps[i].hung
    /\ Sweep(i, [sweeps[i] EXCEPT !.hung = FALSE]) /\ UNCHANGED wplan

(* The connection is closed and the count taken back.  An outcome that the   *)
(* worker still waits for stays in its channel.                              *)
SweepReturns(i) ==
    /\ sweeps[i].pc = "reported" /\ ~sweeps[i].hung
    /\ Sweep(i, IF flight.id = i THEN [sweeps[i] EXCEPT !.pc = "returned"] ELSE NoSweep)
    /\ UNCHANGED wplan

-----------------------------------------------------------------------------
(* The worker.                                                               *)
NoFlight == [id |-> 0, age |-> 0]
Running == {i \in SweepIds : sweeps[i].pc \notin {"gone", "returned"}}
Outstanding == Cardinality(Running)
MayStart == Outstanding < MaxSweeps

(* The sweeps once the worker has let go of the one in flight, its channel   *)
(* with it.                                                                  *)
LetGo ==
    [i \in SweepIds |-> IF i # flight.id THEN sweeps[i]
                        ELSE IF sweeps[i].pc = "returned" THEN NoSweep
                        ELSE [sweeps[i] EXCEPT !.out = NoSweep.out]]

(* The sweeps whose outcome the worker takes: the one in flight. *)
TakesAny == {i \in SweepIds : sweeps[i].pc \in {"reported", "returned"}}
Takes == {i \in SweepIds : sweeps[i].pc \in {"reported", "returned"} /\ i = flight.id}

(* A tick may come.  What does not hang is done before the next one, but for *)
(* wplan.slow ticks.                                                         *)
InTime == \E i \in SweepIds : (i \in Running /\ ~sweeps[i].hung) \/ i \in Takes
Tickable ==
    /\ work.pc = "idle"
    /\ InTime => wplan.slow > 0
    /\ wplan' = [wplan EXCEPT !.slow = IF InTime THEN @ - 1 ELSE @]

Overdue == flight.age >= SweepTimeout

Waits ==
    /\ Tickable /\ flight.id # 0 /\ ~Overdue
    /\ flight' = [flight EXCEPT !.age = @ + 1]
    /\ UNCHANGED <<world, sweeps, work, cache, snap, numbers, boards>>

(* The tick that starts a sweep, or abandons the one in flight first. *)
StartSweepIfDue ==
    /\ Tickable /\ (flight.id = 0 \/ Overdue) /\ MayStart
    /\ \E i \in SweepIds :
          /\ LetGo[i].pc = "gone" /\ \A j \in 1 .. (i - 1) : LetGo[j].pc # "gone"
          /\ flight' = [id |-> i, age |-> 0]
          /\ sweeps' = [LetGo EXCEPT ![i] = [NoSweep EXCEPT !.pc = "counted"]]
    /\ UNCHANGED <<world, work, cache, snap, numbers, boards>>

TooManyBlocked ==
    /\ Tickable /\ flight.id # 0 /\ Overdue /\ ~MayStart
    /\ flight' = NoFlight /\ sweeps' = LetGo
    /\ UNCHANGED <<world, work, cache, snap, numbers, boards>>

ApplyError(i) ==
    /\ i \in Takes /\ work.pc = "idle" /\ sweeps[i].out.kind = "error"
    /\ flight' = NoFlight /\ sweeps' = LetGo
    /\ UNCHANGED <<wplan, world, work, cache, snap, numbers, boards>>

(* Whether the outcome's host replaces the one the caches are of. *)
HostChangeUnseen(h) == FALSE
HostChanged(h) == cache.id \notin {None, h}

(* setInventoryHostIdentity, and the caches publishInventory installs.       *)
ApplySweep(i) ==
    /\ i \in Takes /\ work.pc = "idle" /\ sweeps[i].out.kind = "ok"
    /\ LET out == sweeps[i].out
       IN IF HostChanged(out.host)
          THEN /\ cache' = [id |-> out.host, meta |-> Empty, disk |-> Empty]
               /\ work' = [pc |-> "invalidate", step |-> 1]
          ELSE /\ cache' = [id |-> out.host, meta |-> out.meta, disk |-> out.disk]
               /\ work' = [pc |-> "publish", vms |-> out.vms, from |-> out.from]
    /\ flight' = NoFlight /\ sweeps' = LetGo
    /\ UNCHANGED <<wplan, world, snap, numbers, boards>>

(* Every subscriber's channel holds one notification at most. *)
Notified == [b \in DOMAIN boards |-> [boards[b] EXCEPT !.told = boards[b].joined]]

(* mergeRDPReadinessLocked.  since is the snapshot from which a machine has  *)
(* been shown as this one and in this state.                                 *)
SameTarget(n, vms) ==
    /\ n \in DOMAIN snap.vms
    /\ \A field \in {"owner", "created", "on"} : snap.vms[n][field] = vms[n][field]

Carried(n, vms) ==
    IF SameTarget(n, vms)
    THEN [vms[n] EXCEPT !.ready = snap.vms[n].ready /\ vms[n].on, !.gen = snap.vms[n].gen, !.obs = snap.vms[n].obs,
                        !.since = snap.vms[n].since, !.basis = snap.vms[n].basis]
    ELSE [vms[n] EXCEPT !.gen = numbers.shown + 1, !.since = numbers.shown + 1]

(* setVMs: the subscribers are told only of a snapshot that differs.  The    *)
(* machines new in one share a generation, the snapshot's number.            *)
SetVMs(vms, from) ==
    LET next == [n \in DOMAIN vms |-> Carried(n, vms)]
    IN /\ snap' = [snap EXCEPT !.vms = next, !.from = from]
       /\ boards' = IF next = snap.vms THEN boards ELSE Notified
       /\ numbers' = IF next = snap.vms THEN numbers
                     ELSE [numbers EXCEPT !.shown = @ + 1]

(* The steps of invalidateVMSnapshot, in their order. *)
Invalidation == <<"unmark", "clear">>

Unmark ==
    /\ work.pc = "invalidate" /\ Invalidation[work.step] = "unmark"
    /\ snap' = [snap EXCEPT !.swept = FALSE]
    /\ work' = IF work.step = 2 THEN [pc |-> "idle"] ELSE [work EXCEPT !.step = 2]
    /\ UNCHANGED <<wplan, world, sweeps, flight, cache, numbers, boards>>

Clear ==
    /\ work.pc = "invalidate" /\ Invalidation[work.step] = "clear"
    /\ SetVMs(Empty, 0)
    /\ work' = IF work.step = 2 THEN [pc |-> "idle"] ELSE [work EXCEPT !.step = 2]
    /\ UNCHANGED <<wplan, world, sweeps, flight, cache>>

PublishInventory ==
    /\ work.pc = "publish"
    /\ SetVMs(work.vms, work.from)
    /\ work' = [pc |-> "mark"]
    /\ UNCHANGED <<wplan, world, sweeps, flight, cache>>

MarkVMSnapshotSwept ==
    /\ work.pc = "mark"
    /\ snap' = [snap EXCEPT !.swept = TRUE]
    /\ work' = [pc |-> "idle"]
    /\ UNCHANGED <<wplan, world, sweeps, flight, cache, numbers, boards>>

-----------------------------------------------------------------------------
(* Data of other parts of the gateway that the dashboards show (the last     *)
(* use, the base images) changes, and then its author tells.  The idle sweep *)
(* and the creation of a machine set its last use and tell nobody.           *)
DataChanges ==
    /\ wplan.extra > 0 /\ ~world.tell
    /\ wplan' = [wplan EXCEPT !.extra = @ - 1]
    /\ world' = [world EXCEPT !.extra = @ + 1, !.tell = TRUE]
    /\ UNCHANGED <<sweeps, flight, work, cache, snap, numbers, boards>>

DataChangesUntold ==
    /\ wplan.quiet > 0
    /\ wplan' = [wplan EXCEPT !.quiet = @ - 1]
    /\ world' = [world EXCEPT !.quiet = @ + 1]
    /\ UNCHANGED <<sweeps, flight, work, cache, snap, numbers, boards>>

NotifyVMDataChanged ==
    /\ world.tell
    /\ world' = [world EXCEPT !.tell = FALSE] /\ boards' = Notified
    /\ UNCHANGED <<wplan, sweeps, flight, work, cache, snap, numbers>>

-----------------------------------------------------------------------------
(* The dashboards: publishDashboardVMUpdates of each.                        *)
Board(b, r) ==
    /\ boards' = [boards EXCEPT ![b] = r]
    /\ UNCHANGED <<world, sweeps, flight, work, cache>>

Visible(b) == {n \in DOMAIN snap.vms : wplan.boards[b] \in {Admin, snap.vms[n].owner}}
DataFor(b) ==
    [vms |-> [n \in Visible(b) |-> [owner |-> snap.vms[n].owner, created |-> snap.vms[n].created,
                                    on |-> snap.vms[n].on, ready |-> snap.vms[n].ready]],
     extra |-> world.extra, quiet |-> world.quiet]

(* The running machines of the dashboard's user, each probed by a goroutine. *)
RdpReadinessJobs(b) ==
    {[name |-> n, gen |-> snap.vms[n].gen, owner |-> snap.vms[n].owner, at |-> numbers.shown,
      pc |-> "dial", ready |-> FALSE, obs |-> 0] : n \in {m \in Visible(b) : snap.vms[m].on}}

AfterRefresh(b) == IF boards[b].joined THEN "idle" ELSE "subscribe"

RefreshRDPReadiness(b) ==
    /\ boards[b].pc = "refresh"
    /\ Board(b, [boards[b] EXCEPT !.pc = IF RdpReadinessJobs(b) = {} THEN AfterRefresh(b) ELSE "probing",
                                  !.jobs = RdpReadinessJobs(b)])
    /\ UNCHANGED <<wplan, snap, numbers>>

ProbeRDPAddress(b, j) ==
    /\ j.pc = "dial"
    /\ Board(b, [boards[b] EXCEPT !.jobs = (@ \ {j}) \cup {[j EXCEPT !.pc = "dialled", !.ready = j.name \in world.up]}])
    /\ UNCHANGED <<wplan, snap, numbers>>

NumberObservation(b, j) ==
    /\ j.pc = "dialled"
    /\ Board(b, [boards[b] EXCEPT !.jobs = (@ \ {j}) \cup {[j EXCEPT !.pc = "done", !.obs = numbers.obs + 1]}])
    /\ numbers' = [numbers EXCEPT !.obs = @ + 1]
    /\ UNCHANGED <<wplan, snap>>

(* rdpResultMatchesTarget and the observation's order. *)
MatchesTarget(n, j) ==
    n = j.name /\ snap.vms[n].owner = j.owner /\ snap.vms[n].on /\ snap.vms[n].gen = j.gen
IsNewerAlways(n, j) == TRUE
IsNewer(n, j) == j.obs > snap.vms[n].obs

ApplyRDPReadinessResults(b) ==
    LET accepted(n) == {j \in boards[b].jobs : MatchesTarget(n, j) /\ IsNewer(n, j)}
        next == [n \in DOMAIN snap.vms |->
                    IF accepted(n) = {} THEN snap.vms[n]
                    ELSE LET j == CHOOSE k \in accepted(n) : TRUE
                         IN [snap.vms[n] EXCEPT !.ready = j.ready, !.obs = j.obs, !.basis = j.at]]
        told == IF \E n \in DOMAIN next : next[n].ready # snap.vms[n].ready THEN Notified ELSE boards
    IN /\ boards[b].pc = "probing" /\ \A j \in boards[b].jobs : j.pc = "done"
       /\ snap' = [snap EXCEPT !.vms = next]
       /\ boards' = [told EXCEPT ![b].pc = AfterRefresh(b), ![b].jobs = {}]
       /\ UNCHANGED <<wplan, world, sweeps, flight, work, cache, numbers>>

(* The subscription comes before the first read. *)
SubscribeVMChanges(b) ==
    /\ boards[b].pc = "subscribe"
    /\ Board(b, [boards[b] EXCEPT !.joined = TRUE, !.pc = "read"])
    /\ UNCHANGED <<wplan, snap, numbers>>

QueueDashboardDataUpdate(b) ==
    /\ boards[b].pc = "read"
    /\ Board(b, [boards[b] EXCEPT !.pc = "idle", !.view = {DataFor(b)}])
    /\ UNCHANGED <<wplan, snap, numbers>>

Update(b) ==
    /\ boards[b].pc = "idle" /\ boards[b].told
    /\ Board(b, [boards[b] EXCEPT !.pc = "read", !.told = FALSE])
    /\ UNCHANGED <<wplan, snap, numbers>>

(* The ticker of an owner's dashboard. *)
ReadinessDue(b) ==
    /\ boards[b].pc = "idle" /\ wplan.boards[b] # Admin /\ wplan.polls > 0
    /\ wplan' = [wplan EXCEPT !.polls = @ - 1]
    /\ Board(b, [boards[b] EXCEPT !.pc = "refresh"])
    /\ UNCHANGED <<snap, numbers>>

(* The connection ends: its probes' results are dropped. *)
BoardLeaves(b) ==
    /\ boards[b].pc # "gone" /\ wplan.leave > 0
    /\ wplan' = [wplan EXCEPT !.leave = @ - 1]
    /\ Board(b, [pc |-> "gone", told |-> FALSE, joined |-> FALSE, view |-> {}, jobs |-> {}])
    /\ UNCHANGED <<snap, numbers>>

-----------------------------------------------------------------------------
InventoryWork ==
    \/ Waits \/ StartSweepIfDue \/ TooManyBlocked
    \/ Unmark \/ Clear \/ PublishInventory \/ MarkVMSnapshotSwept
    \/ \E i \in SweepIds : \/ Connect(i) \/ CollectInventory(i) \/ SweepReturns(i)
                           \/ ApplyError(i) \/ ApplySweep(i)

BoardWork ==
    \/ NotifyVMDataChanged
    \/ \E b \in DOMAIN boards :
          \/ RefreshRDPReadiness(b) \/ ApplyRDPReadinessResults(b) \/ SubscribeVMChanges(b)
          \/ QueueDashboardDataUpdate(b) \/ Update(b)
          \/ \E j \in boards[b].jobs : ProbeRDPAddress(b, j) \/ NumberObservation(b, j)

InventoryNext ==
    \/ InventoryWork \/ BoardWork \/ HostMoves \/ DataChanges \/ DataChangesUntold
    \/ \E u \in DOMAIN Here : CreationGoesOn(u) \/ Replaced(u) \/ PowerToggles(u) \/ PortToggles(u)
    \/ \E i \in SweepIds : SweepFails(i) \/ Hangs(i) \/ HangReturns(i)
    \/ \E b \in DOMAIN boards : ReadinessDue(b) \/ BoardLeaves(b)

InventorySpec == InventoryInit /\ [][InventoryNext]_inventoryVars

-----------------------------------------------------------------------------
(* The worker waits for a sweep it started and that has run no longer than   *)
(* the timeout; a dashboard that waits has no probe running.                 *)
InventoryTypeOK ==
    /\ flight.id # 0 => sweeps[flight.id].pc # "gone" /\ flight.age <= SweepTimeout
    /\ cache.id \in Hosts \cup {None} /\ snap.swept \in BOOLEAN
    /\ \A b \in DOMAIN boards : (boards[b].jobs # {}) = (boards[b].pc = "probing")

(* maxOutstandingSweeps: however many sweeps hang in libvirt, in whichever   *)
(* call, no more than this number of goroutines and connections is there.    *)
SweepsBounded == Cardinality(Running) <= MaxSweeps

(* applySweep: what is shown and what is cached is of one host, the recorded *)
(* one; nothing collected from one host's caches is shown of another.        *)
OneHost ==
    work.pc = "idle" =>
       /\ \A n \in DOMAIN snap.vms : snap.vms[n].hosts = {cache.id}
       /\ \A u \in DOMAIN cache.meta : cache.meta[u].host = cache.id
       /\ \A u \in DOMAIN cache.disk : cache.disk[u] = cache.id

(* domainMetadataCacheSweep.load: metadata is cached for good, so only once  *)
(* the creation has written all of it.                                       *)
CachedIsFinal ==
    \A u \in DOMAIN cache.meta : u \in DOMAIN world.doms[cache.id] =>
        world.doms[cache.id][u].stage = 2 /\ cache.meta[u] = Metadata(cache.id, u)

(* startSweepIfDue: the outcome of an abandoned sweep is never applied, so a *)
(* snapshot never gives way to one collected from an older world, unless the *)
(* snapshot is cleared.                                                      *)
NeverBackwards == [][snap'.from = 0 \/ snap'.from >= snap.from]_inventoryVars

(* invalidateVMSnapshot: CountVMsOwnedBy never takes the absence of machines *)
(* in a cleared snapshot for a count.                                        *)
CountsPublished == snap.swept => snap.from # 0

(* rdpResultMatchesTarget: a machine is shown as ready only because of a     *)
(* probe that began when this machine, running, was already shown.           *)
ReadyByItsProbe ==
    \A n \in DOMAIN snap.vms : snap.vms[n].ready => snap.vms[n].on /\ snap.vms[n].basis >= snap.vms[n].since

(* applyRDPReadinessResults: of two dashboards' probes of a machine the one  *)
(* that was observed last stands, in whatever order they are applied.        *)
LaterProbeStands ==
    [][\A n \in DOMAIN snap.vms \cap DOMAIN snap'.vms :
          snap'.vms[n].since = snap.vms[n].since => snap'.vms[n].obs >= snap.vms[n].obs]_inventoryVars

(* What a dashboard queued last is what it would read now, the last uses     *)
(* that changed untold apart.                                                *)
Current(b) == \E v \in boards[b].view : v.vms = DataFor(b).vms /\ v.extra = DataFor(b).extra

(* publishDashboardVMUpdates: a dashboard that waits has queued the machines *)
(* and the announced data as it would read them now, or a notification waits *)
(* for it, or the author is about to send one.  A last use that was set      *)
(* untold it has only if it has read since.                                  *)
CurrentOrTold ==
    \A b \in DOMAIN boards : boards[b].pc = "idle" => boards[b].told \/ Current(b) \/ world.tell

(* The world is shown: each machine of the host as libvirt has it. *)
Shown ==
    /\ cache.id = world.host /\ snap.swept
    /\ DOMAIN snap.vms = {Here[u].name : u \in DOMAIN Here}
    /\ \A u \in DOMAIN Here : LET row == snap.vms[Here[u].name]
          IN row.owner = Metadata(world.host, u).owner /\ row.created = Metadata(world.host, u).created
             /\ row.on = Here[u].on
AllHung == Cardinality({i \in SweepIds : sweeps[i].hung}) = MaxSweeps

(* run: whatever failed before, the dashboards come to show the machines as  *)
(* libvirt has them and the data whose authors tell, unless as many sweeps   *)
(* as are allowed hang for good.                                             *)
DashboardsCatchUp ==
    <>[](AllHung \/ \A b \in DOMAIN boards : boards[b].pc = "gone" \/ (Shown /\ Current(b)))

(* Worker and snapshot: sweeps are bounded, what is shown is of one host,    *)
(* its cached metadata is final, a count is of a published snapshot,         *)
(* readiness is of the machine that was probed, and a dashboard is current   *)
(* in what its authors announce, or will be told.                            *)
SnapshotSound ==
    /\ InventoryTypeOK /\ SweepsBounded /\ OneHost /\ CachedIsFinal
    /\ CountsPublished /\ ReadyByItsProbe /\ CurrentOrTold
=============================================================================
