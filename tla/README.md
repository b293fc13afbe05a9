# Verification of the DevBox gateway

DevBox-Gateway gives users of a hypervisor their virtual machines (web
dashboard, RDP and console access, provisioning through libvirt) and collects
an audit trail of the guests: SauronAgent reads the kernel audit log inside a
guest and delivers it over vsock to a collector, which writes it to files and
to Splunk. This directory holds TLA+ models of the parts of that system whose
correctness depends on interleavings, crashes and failing steps, the TLC runs
that check them and TLAPS proofs.

## Reading guide

| Module | Models | Source |
|---|---|---|
| `LossyFifo` | what a bounded queue promises | (abstract) |
| `EventQueue` | the agent's bounded queue and its sequencer | `SauronAgent/internal/queue`, `agent/sequencer.go` |
| `EventQueueProofs` | proofs about `EventQueue` | |
| `AgentSpool` | the agent's on-disk spool | `SauronAgent/internal/spool` |
| `StreamLedger` | what the collector remembers of one guest stream, as operators | `SauronAgent/internal/host/dedup.go`, `arrival.go` |
| `HostStream` | sessions, the shared table, gap reports | `SauronAgent/internal/host` |
| `GatewaySessions` | browser sessions, RDP tokens, live connections, their shutdown | `internal/session`, `internal/gateway` |
| `GatewaySessionsProofs`, `GatewayLogoutsProofs`, `GatewayConnectionsProofs` | proofs about `GatewaySessions`, each on top of the one before | |
| `KeyedMutex` | the per-name lock | `internal/virt/namelock.go` |
| `VMLifecycle` | creating, removing, powering VMs, recovery at boot | `internal/virt` |
| `VMStepsProofs`, `VMRequestsProofs`, `VMLifecycleProofs` | proofs about `KeyedMutex` and `VMLifecycle`, each on top of the one before | |
| `AgentDelivery` | the agent from a numbered event to its acknowledgement | `SauronAgent/internal/agent` |
| `AuditCollection` | kernel socket, listener, correlator, normalizer | `SauronAgent/internal/audit`, `agent/agent.go` |
| `DeliverySpool`, `SplunkHec` | the gateway's spool, and the external collector of records, as operators | `internal/sauron/spool.go` |
| `GuestOutput` | guest events on their way to the log and to Splunk | `internal/sauron` |
| `AuditOutput`, `AuditFile` | the gateway's own audit records, with Splunk and without | `internal/audit` |
| `FileSink` | the rotating event log | `SauronAgent/internal/output/file.go` |
| `GatewayOutputs` | composes the four outputs | |
| `CollectorServer` | admission, the machine behind a connection, the stream monitor | `SauronAgent/internal/host`, `internal/virt/vsock.go` |
| `GatewayFront` | listeners, consoles, RDP, orderly shutdown | `internal/gateway`, `internal/console`, `internal/rdp`, `internal/virt` |
| `LoginLimiter` | the lockout of failed logins | `internal/gateway/ratelimit.go` |
| `IdleShutdown` | use tracking and the idle sweep | `internal/virt/lastused.go`, `autoshutdown.go` |
| `InventoryWorker` | the inventory sweeps, their snapshot and RDP readiness | `internal/virt` |
| `DashboardSocket` | one dashboard connection | `internal/console/dashboard_socket.go` |
| `RuntimeProofs` | proofs about `InventoryWorker` and `DashboardSocket` | |
| `GatewayRuntime` | composes `AuditCollection` and the models from `CollectorServer` on | |
| `MC...` | instances for TLC | |

`PROJECT.json` lists components, runs, hazards, findings and theorems, and maps
every definition to the lines it translates. The definitions listed there as
`mutants` (`FaultyClose`, `TrustHint`, `DrainHandOnly` and so on) are
deliberately wrong versions of the definition that follows them. No
specification uses them; putting one in place of the right definition makes
TLC report a violation of the property it is listed with.

What a run checks is a conjunction of related claims, each of which is a
definition of its own with its own comment; `Runs` lists them. There is one
mutant for each conjunction, which breaks at least one of its claims.

Common conventions: an action is one critical section of the code's mutex, or
one effect on the outside (a disk operation, a call of the sink) where the code
makes several under one lock; a variable whose comment says *history* records
what happened and guards nothing.

## The system and its hazards

### Guest side (SauronAgent agent)

* **Queue and sequencer.** Producers number events and put them in a ring;
  when it is full the oldest event is displaced and accounted for. Consumers
  park on a channel that is closed to wake them. State: ring, counters of the
  loss since the last drain, the number of parked consumers. Hard: a wake-up
  that is skipped because nobody seems parked, Put after Close, wrapped
  indexes, the range of a loss report.
* **Spool.** Segment files, a checkpoint, a cursor into the oldest segment, an
  in-memory account of losses. Operations: Open, Append, NextAfter, Ack, Sync,
  DrainDropped, Close. Hard: a crash between any two disk effects, failures
  after which memory and disk must still agree, numbers that must not be
  reissued, eviction at the size limit.
* **Sender.** Connects, resumes at the host's position, keeps a bounded number
  of events in flight, applies ACKs. Hard: positions of an earlier connection,
  a host that is ahead of or behind the agent, oversized events.
* **Correlator and kernel reader.** Groups records of an audit event until its
  end record or a timeout. Hard: stages that stop while the channels between
  them are full, records of several events that interleave at the limit of open
  groups, a kernel that drops records.

### Collector side (SauronAgent host, embedded in the gateway)

* **Sessions and the ledger.** Every connection is a goroutine; all share a
  table of streams with a watermark, numbers written out of order, accepted
  losses and pending gap evidence, all bounded. Events are reserved on arrival,
  wait for a per-peer gate, are checked, written and committed. Gap reports go
  to the same sink and are accounted for when it accepts them. Hard: copies of
  an event on two connections, a gap report in flight while the event arrives,
  eviction at the limit of the table, a sink that refuses, a restart.
* **Monitor, admission, file sinks.** Presence records per guest, connection
  limits, rotation and fan-out. Hard: a CID that passes to another machine
  while a connection is looked up, an alert backlog at its limit, rotation that
  fails half way.

### Gateway

* **Sessions.** In-memory store with absolute expiry, per-user connections
  with a generation number, RDP tokens. Hard: a logout that races with a connection
  being set up; expiry that races with a commit; single use of tokens.
* **Audit delivery.** Two durable spools with forwarders to Splunk, isolation
  of refused records, retention and retry, readiness latches, shutdown.
* **Virtual machines.** Provisioning with a write-ahead intent and crash
  recovery, quota, deletion, per-name locks, idle shutdown, the inventory
  worker. Hard: listings that are old or incomplete, sweeps that hang in
  libvirt and answer after their successors.
* **Listeners and shutdown.** Connection slots, hand-over of hijacked
  connections, order of draining.
* **Logins and dashboards.** Failure counts under concurrent attempts; a
  browser that stops reading while its data changes.

## Modules

### EventQueue

State: `buf`, `head`, `n` are the ring; `notify` counts the times the notify
channel was closed and replaced, so a consumer parked on an older number holds
a closed channel; `waiters`, `closed`, `dropped`, `firstMissing`, `lastMissing`
are the fields of the same names; `next` is the sequencer's. `pc` and `wait`
say where each consumer is in `Get`. Actions: `Submit` (number and `Put`, in
its three cases), `ResumeNumbering`, `GetPop`, `GetClosed`, `GetPark`,
`GetWoken`, `GetCancelled`, `TryGet`, `DrainOverflow`, `Close`.

### AgentSpool

`Spool.mu` serialises operations, so an operation is a chain of steps through
`pc`, one per effect on the disk, and a crash may come at each. A file is a
sequence of cells: records (their numbers) and what short writes leave. A
record shorter than its header is a `Stub`; a `Fragment` has a header that
claims bytes which the next record will occupy. `synced` and `linked` say what
of a file and of its directory entry survives a power loss; `chkDurable` is the
checkpoint that does. A power loss keeps any prefix of the unsynced data and
any subset of the unsynced directory changes. Disk operations fail by kind, at
most `MaxFaults` times. `env` fixes, for a behaviour, `SyncOnWrite`, the kind
and number of crashes, the operations that may fail and the last number.

### StreamLedger and HostStream

`StreamLedger` has the operations of `dedup` on one stream record, as operators
without state; lists of ranges are sets of numbers. `HostStream` composes them:
sessions step through `handshake` and `handleEvent`, every actor can hold a
publication, one worker retries pending gap reports. Agents are the
environment: they hold events until the host's position covers them, send them
in order, may give events up and may drop a connection whose frames still
arrive. `budget` fixes the bounds of a behaviour.

### GatewaySessions

A request is a slot in `req` with a program counter; it keeps what the handler
keeps in local variables: the session it loaded, the generation it captured,
the deadline, the session it is about to commit. `store` and `tracked` are the
scs store and the expiry timers, each step on them is one critical section of
`sessionExpiryStore.mu`; `lock` is `sessionsMu`, which grants, logouts and
renewals hold over several such steps while timers and the save at the end of a
login do not take it. `conns`, `active`, `generation`, `closing` are the
registry; `open` says which transports are open, because a table is emptied
before its close functions run. `stage` follows `gatewayRuntime.close`: close
all connections, wait for the drain or give up, close the store, close the
audit sink. Requests may still arrive on kept-alive connections until the store
is closed. A VM's owner, which libvirt knows, is any user.

### KeyedMutex and VMLifecycle

`KeyedMutex` is the map of counted lock entries; an entry is an object, so a
goroutine can wait on one that has left the map. `VMLifecycle` extends it: `host`
is what libvirt keeps for each VM name (the domain with its intent, its two
volumes, its address) and survives a crash; `req` holds the goroutines, `Boot`
is the one that runs `Init`. A creation walks through `provisionAndStartVM` one
libvirt call at a time; its rollback, the recovery of an earlier creation, the
recovery at boot and `RemoveVM` share the steps from `StopDomain` to `Undefine`,
as the code shares the functions. A call fails with its effect done or not
done. A request's context may be found done wherever the code looks at it. The
owner lock is held from the scan to the decision; the address lock covers one
step, because nothing else touches the network.

### AgentDelivery

Collection stages, loss poller, pump, send loop and receive loop are program
counters of their own. The queue and the spool are the sequences that
`EventQueue` and `AgentSpool` are checked to implement. The collector is the
session of `host/session.go` over one stream, reduced to what an agent sees of
it: duplicates, a sink that refuses, cumulative positions; gap reports succeed
here and are `HostStream`'s subject. When a connection ends, by a cut or with the
agent, its session of the host keeps the frames it was sent (`host.older`) and may
write them at any later time, next to the session that has replaced it: READY
does not wait for it. `plan` fixes capacities, faults, restarts and stops. A
heartbeat timeout is the cut of the connection it leads to; the acknowledgement
timeout is a step, needed once a sink has refused an event.

### DeliverySpool, SplunkHec, GuestOutput, AuditOutput, FileSink, AuditFile

`DeliverySpool` has the operations of the gateway's spool on a spool record:
segments, what of them is written, synced and committed, the checkpoint and
what a crash or a power cut makes of it all. `GuestOutput` and `AuditOutput`
use it with their own locking, health and retries; both send through
`SplunkHec`, which is external and may lose a request, lose an answer, refuse a
record, refuse a batch, or be busy. `FileSink` is the rotating file step by
step; `AuditFile` the file of a gateway without a collector, which another
program rotates. The four share code and no state, so a behaviour of
`GatewayOutputs` exercises one of them.

A power cut leaves any part of what was not synced. The assumption is that an
fsync that reports success made everything before it durable. With
`syncOnWrite` each name change that was not synced may be lost by itself,
without it only the latest. Unlinked segments and older checkpoint files may
come back.

### CollectorServer

Machines start, stop and exchange CIDs; agents dial and are looked up in
several libvirt calls, admitted against two counters, pinned to a source and
heard. The monitor reads the expected machines, applies them later, and
publishes alerts from a bounded backlog. A connection whose machine is gone
cannot finish its handshake, as vsock resets it. A rejection may be reported
under the CID's new holder. Time moves on when work is done, or `late` times
before.

### GatewayFront

A connection takes its slots, is accepted, becomes a web, VNC, serial or RDP
connection and gives everything back. The shutdown stops accepting, drains each
kind with a time limit and closes the sink last. A deadline of a connection that
is being set up is a client that leaves; waits with a limit may run out `late`
times.

### LoginLimiter

A login reads the clock, takes the lock, asks, verifies the password outside the
lock and records the outcome with another reading of the clock. `Skew` bounds
how old a reading can be. A success of the same pair ends a lockout; failures of
a pair that is locked out are not counted against its address; requests without
credentials never reach the limiter.

### IdleShutdown

Uses begin and end, their times are stored, lost and found again; the sweep
works on a listing that may be old, empty or incomplete, asks a machine to shut
down and forces it off after the grace period. Time is in sweep intervals. The
model assumes that listings come back empty for less than the idle window.
Machines that are started behind the gateway's back are left out.

### InventoryWorker

`sweeps` are the goroutines in libvirt, `flight` the one the worker waits for,
`work` the steps of applying its outcome, `snap` what readers see. A sweep is
abandoned at its timeout and may return much later. A sweep reads the world in
one step, because its caches change only when its outcome is applied. A probe is
ordered by the number it gets after it answered, not by its dial. A machine that
goes off and on between two sweeps keeps its readiness. The branch of
`setInventoryHostIdentity` for caches without an identity is not reached from
the worker. The age limit in `CountVMsOwnedBy` is the flag `swept`. The data of
other parts that a dashboard adds to the snapshot has two authors: one that
tells the subscribers (`DataChanges`: `TrackVMUse`, `MarkVMUsed`) and one that
does not (`DataChangesUntold`: the idle sweep and the end of a creation set a
last use without a notification).

### DashboardSocket

Reader, writer, publisher and closer share the outbound queue and the socket;
the keepalive writes control frames beside the writer. Data is a version number.
The handler waits for writer, publisher and closer, and only tells the keepalive
to stop: a ping that is due at that moment may still be written or, on the
closed socket, fail. A ping to a browser that reads no more succeeds while the
kernel takes it. A missed pong is a peer that is `stuck` or `gone`; the ping
period is below the pong wait, so a browser that is there is taken to answer
in time.

### AuditCollection

The kernel keeps a few datagrams and reports once, until the buffer is empty,
that it dropped some. The listener, the correlator and the normalizer are joined
by channels that are closed in turn. Time is in ticks of the correlator. At a
cancellation, records in the listener's hand are abandoned and records in the
channel stay unread; `RecordsAccounted` names both. A record that comes after
its group expired begins a second group; if it is the end marker, an event with
only the marker is complete, which is what `Group.Complete` says.

### GatewayRuntime

The parts share no state of these models, so `part` picks the one a behaviour
exercises; the number of states is the sum and not the product.

## Runs

| Run | Expected | Shows |
|---|---|---|
| `queue` | pass | no lost wake-up, every number delivered or reported once and in order, the ring refines `LossyFifo`, stored events are served, Close reaches every consumer |
| `spool` | pass | nothing is lost silently, numbers are not reissued, cursors describe the files, losses are covered by the range reported, SyncOnWrite keeps its promise |
| `spool_fragment` | violation | a short write past the header costs the next event, accepted by `Append`, at the next `Open` |
| `host` | pass | an ACK covers only what is written or reported lost, an event that arrived is not declared lost, reservations and claims are exact, no double write of a remembered event, evidence survives eviction |
| `host_evict` | violation | eviction between a refused event and the next one makes an ACK cover the refused event |
| `sessions` | pass | a completed logout leaves no older connection, sessions and RDP tokens never come back, each end of a session is recorded once and eventually, the drain is complete and no expiry audit is written after the sink closed |
| `vms` | pass | nothing a creation made is without its domain, foreign volumes are kept, quotas hold, only whole VMs run, finished VMs survive failures and restarts, cancelled and crashed creations leave nothing, everyone returns |
| `delivery` | pass | every numbered event is held, delivered or named as lost; the wire is ordered; numbering stays ahead of the host's position over restarts, older sessions of the host excepted; losses are reported once; a stop delivers what the spool holds; backoff grows; the stream settles and stops |
| `outputs` | pass | what was acknowledged or accepted is kept until Splunk has it or refused it, refused records are set aside on a verdict only, nothing confirmed is sent again without a crash, health tells of rejected records, rotation loses and prunes in order, delivery catches up, Close ends |
| `outputs_checkpoint` | violation | a stale checkpoint becomes valid again and skips acknowledged records |
| `outputs_rejected` | violation | the file of refused records may lose its name at a power cut |
| `runtime`, collector | pass | the source named for a session is the machine's, both counters match the open connections, the alerts tell the health table's story, one publisher at a time, the sink outlives its writers; health settles, incomplete names are recovered, Run ends |
| `runtime`, front | pass | slots match open connections, every disconnect is recorded before the sink closes, a use covers its backend, everything taken is given back, a libvirt stream is not used after it is freed, the shutdown ends |
| `runtime`, login | pass | the limits hold under concurrent attempts, a lockout has its failures, is honoured, and is not extended by attempts during it |
| `runtime`, idle | pass | no machine in use is stopped, one that is stopped was idle for the window and had its grace period, an idle machine is stopped in time |
| `runtime`, inventory | pass | sweeps stay bounded, a snapshot has one host and never goes backwards, cached metadata is final, readiness belongs to the machine probed and the later probe, a subscriber is current or told (last uses set without a notification apart); dashboards catch up |
| `runtime`, socket | pass | the queue is bounded, the view never goes back and misses no change, a returned handler leaves a closed socket and only the keepalive, a broken connection ends all five goroutines, a live browser catches up |
| `runtime`, collection | pass | a record that was taken is in one place and one event, or is named; complete events end with their marker; groups go out in time; stages end; kernel losses are told; records come out |

`runtime` is one run; the rows are the parts of `GatewayRuntime`.

The properties, and the claims each one joins:

| Run | Property | Claims |
|---|---|---|
| `queue` | `NumbersAccounted` | `OverflowNamed`, `NothingVanishes`, `CountedOnce`, `StreamOrdered` |
| | `ConsumersServed` | `StoredIsServed`, `CloseReachesConsumers` |
| | `NoLostWakeup`, `ImplementsFifo` | |
| `spool` | `LossesCovered` | `NothingSilentlyLost`, `LossRangeCovers` |
| | `SpoolSound` | types, `CursorExact`, `NextIsComplete` |
| | `SurvivesCrash` | `LastSequenceKept`, `AcceptedSurvives` |
| `host` | `ArrivalsExact` | types, `InFlightNotLost`, `PinsExact` |
| | `AckedIsHeld`, `WrittenOnce`, `EvidenceKept` | |
| `sessions` | `ConnectionsAccounted` | `RegistryExact`, `LogoutEndsConnections` |
| | `EndsOrderly` | `NeverResurrected`, `EndRecordedOnce`, `DrainComplete`, `NoAuditAfterSink` |
| | `SpentOnce`, `EndIsRecorded` | |
| `vms` | `NothingOrphaned` | types, `NoOrphans`, `ForeignKept`, `CleanAtRest` |
| | `MachinesWhole` | `RunsWhole`, `ActiveIsCommitted`, `CreatedSurvives` |
| | `MutualExclusion`, `QuotaHeld`, `EveryoneReturns` | |
| `delivery` | `EventsAccounted` | `DeliveredOrNamed`, `ReportedOnce`, `StopDelivers` |
| | `StreamSound` | types, `WireOrdered`, `NumberingAhead`, `BackoffGrows` |
| | `SettlesAndStops` | `Settles`, `Stops` |
| `outputs` | `VerdictsObserved` | types, `DroppedOnVerdict`, `NotSentAgain`, `HealthyMeansAccepted`, `SetAsideOnVerdict`, `AuditNotSentAgain`, `LoggedOrLatched` |
| | `FilesKept` | `AcceptedNamed`, `PrunedLast`, `LoggedKept`, `OneLateAppend` |
| | `OutputsProgress` | `GuestsCatchUp`, `OutputsClose`, `AuditRecovers`, `AuditCloseEnds` |
| | `AcknowledgedKept`, `AuditKept` | |
| `runtime` | `CollectorSound` | types, `CountsMatch`, `AttributionRight`, `AlertsTellHealth`, `PublisherSafe`, `SinkOutlivesWriters` |
| | `FrontOrderly` | types, `SlotsMatchOpen`, `RecordedBeforeClosed`, `UseCoversBackend`, `AllReturned`, `StreamSafe` |
| | `LimitsKept` | types, `LimitKept`, `LockoutJustified` |
| | `LockoutsStand` | `LockoutHonoured`, `LockoutNotExtended` |
| | `StopsJustified` | `NotStoppedInUse`, `StoppedOnlyIdle`, `GraceBeforeForce` |
| | `IdleSound` | types, `StoppedInTime` |
| | `SnapshotSound` | types, `SweepsBounded`, `OneHost`, `CachedIsFinal`, `CountsPublished`, `ReadyByItsProbe`, `CurrentOrTold` |
| | `ConnectionSound` | types with the limit of the queue, `ViewInOrder`, `NothingMissed`, `NothingLeft` |
| | `CollectionSound` | types, `RecordsAccounted`, `CompleteIsLast`, `GroupsTimely` |
| | `RuntimeProgress` | `HealthSettles`, `IdentityRecovered`, `RunEnds`, `CloseEnds`, `DashboardsCatchUp`, `SocketEnds`, `BrowserCatchesUp`, `CollectionEnds`, `LossTold`, `RecordsComeOut` |
| | `NeverBackwards`, `LaterProbeStands` | |

### Bounds

* `queue`: capacity 2 and 4 numbers, so the ring wraps twice and both a partly
  and a wholly displaced content occur; two consumers, so one can be woken for
  an event that the other takes.
* `spool`: segments of 2 cells, 3 cells in all, 3 or 4 numbers: rolling, eviction
  of a partly acknowledged segment, an acknowledgement inside a segment and
  numbering that resumes after recovery all happen. One failing operation. One
  process crash with every kind of fault, and with 4 numbers when a removal or a
  checkpoint fails; two power losses (so also one during recovery) with failing
  writes and syncs, and with 4 numbers when nothing fails; one power loss with
  `SyncOnWrite`, 4 numbers and every kind of fault but a failing directory sync.
  521,564 states.
* `host`: a table of one stream and lists of one range and one out-of-order
  number, so that every limit is met. Eight budgets: copies on two connections
  with a loss, with a refusing sink, and with both; two losses of three and of
  four numbers against full lists; two streams on one and on two connections
  with a restart; two streams with a sink that refuses reports twice. 503,807
  states.
* `sessions`: three requests at a time and three to five in all, a lifetime of
  two instants and a token window of one, one connection per user (a limit of 0
  is none, as in the code, and is covered by the proofs only). Six plans
  say which kinds of requests meet: consoles with logouts and new logins; two
  RDP tokens of two VMs with logouts; ends of two sessions with a grant and the
  shutdown; consoles of one user and of two, and a token, with the shutdown.
  276,145 states.
* `vms`: two requests at a time and up to three in all on one VM or on two that
  share a quota of one or the only address; one failing call; one crash.
  Failing calls and crashes meet with two
  requests, each alone with three. One plan has a volume of another origin.
  196,698 states.
* `delivery`: two events in flight, and fourteen courses (`MCAgentDelivery`): with
  a spool, with a full one, without one; oversized events and reports; broken,
  refused and fatal links, a refusing sink; a restart with the numbering kept and
  lost; a stop. 451,695 states.
* `outputs`: batches of two, records of one to three units in segments of a few
  units, so that rotation, a full spool and reclaiming are met; up to two failing
  operations, a crash, a power cut. The comments of `MCGatewayOutputs` say which
  hazard each plan is for. One plan of the audit spool has a limit of ten
  units, so that admission is refused while a tenth of the space is left.
  192,396 states. `outputs_checkpoint` has two crashes
  and a power cut, the least that shows its trace.
* `runtime`: 285,311 states. Collector: three machines (one is a namesake), two
  CIDs, two connections, one per CID, a backlog of two alerts. Front: one or two
  slots for two or three connections of two addresses. Login: three logins with
  limits of one to three and a clock that may be read one unit late. Idle: one or
  two machines with a window of three sweeps and a grace of one, one of them
  used while it is being created. Inventory: two
  hosts, two sweeps at a time, one or two dashboards, one machine and its
  namesake, and two last uses set untold. Socket: a queue of two messages, up to
  three changes, pings, and two beats and two ends of the connection. Collection: a socket buffer, and
  channels, of one; a timeout of two ticks; two open groups for three audit
  events. Every bound is small enough that its limit is met in the run.

Runs do not check for deadlock: a queue with no more events, a spool or an
agent with nothing to do may stop, and the bounds end every behaviour.

### Fairness

`queue`, `sessions`, `vms`, `delivery`, `outputs` and `runtime` check liveness.
`queue` assumes weak fairness of the steps of a
consumer that is in `Get`: the Go scheduler runs a runnable goroutine
eventually and `Queue.mu` is held only for bounded time. Nothing is assumed of
producers, cancellation or `Close`. `sessions` assumes that time passes, that
due timers fire and that a handler which is under way goes on; requests need
not arrive, peers need not leave and the gateway need not shut down. One
condition covers the three, because a behaviour is bounded. `vms`
assumes that a stopped gateway is started again and that as long as some
goroutine can go on one of them does; contexts need not end and guests need not
stop. `delivery` and `outputs` assume weak fairness of the steps of the
goroutines and of their timers and retries; faults are bounded by the plan, and
crashes, cuts and stops need not come. `runtime` assumes weak fairness of the
parts' own steps, and of agents that dial again and dashboards that are read;
machines, browsers, faults and shutdowns are free. One condition for all
goroutines of a part is enough there, and weaker than one for each. The inventory
worker repeats its sweeps for ever, so the dashboards have a condition of their
own beside the worker's.
Where what is claimed is stable once it holds, it is written `<>[]`.

## Proofs

`EventQueueProofs` proves for every capacity, every finite set of consumers and
every bound on the numbers:

* `QueueTyped`, `WakeupsKept`: types, and no lost wake-up. The inductive
  invariant adds that `waiters` counts exactly the parked consumers and that no
  consumer waits on a channel newer than the current one; without the count a
  `Put` that skips the wake-up could leave one behind.
* `LossesNamed`, `NothingLostSilently`, `LostOrDeliveredOnce`, `OrderKept`,
  `RingIsFifo`: the accounting of losses, that every number is in exactly one
  place, order, and refinement of `LossyFifo`. The inductive invariant relates
  the ring's window to the histories: free slots are nil, the contents are
  increasing and above all that was taken, issued numbers are below `next`.
  `NumbersStayAccounted` puts the first four together.

`VMRequestsProofs` proves `NameLockExcludes` and `EntriesReclaimed` for every
finite set of goroutines and any keys and entries. `MutexInv` is inductive: a
goroutine that is not out refers to the entry the map has for its key, keys do
not share entries, `waiters` is the number of goroutines that refer to an entry
and at most one of them holds it. Without the count, a leaving goroutine could
take an entry out of the map under one that waits on it.

`VMLifecycleProofs` proves the safety of the life cycle of virtual machines for
any number of requests under way, any VM names and owners, any
`MAX_VDI_PER_USER`, any addresses and any plan (any number of requests, failing
libvirt calls, crashes and volumes of another origin):

* `NamesExclude` (`MutualExclusion`): no two goroutines work on one name;
* `NoneOrphaned` (`NothingOrphaned`): no volume or address without its domain,
  volumes of another origin untouched, no unfinished creation at rest as long as
  no call has failed;
* `QuotaStaysHeld` (`QuotaHeld`): no user over the limit;
* `MachinesStayWhole` (`MachinesWhole`): what runs is complete and committed, and
  what was reported to its user stays whole until somebody removes it.

None of the last three is inductive: they speak of machines, and a machine is
what it is because of where the goroutine that holds its name has got to. The
inductive invariant `Safe` is `VMTyped`, `MutexTypeOK`, `MutexInv`, `LifeInv` and
`QuotaInv`. `LifeInv` says

* of each goroutine at work, label by label, how far the machine of its name is
  made or unmade (`Progress`), that it unmakes nothing that was reported
  (`Spares`), and that it leaves nothing unfinished behind while no call fails
  (`Tidy`);
* of each name, whoever works on it, that nothing is there without a domain and
  that nothing runs or can be started that is incomplete (`Keeps`);
* that a goroutine at work holds the lock of its name (`Linked`), that the boot
  has the host for itself (`Phases`), and that each creation has an identity of
  its own, which is also its domain's (`Ids`). Without the last, a rollback could
  take another creation's machine for its own.

`QuotaInv` says that `inflightVMCreations` counts the names a slot is held for,
that the machines and the slots of an owner together are within the limit, and
that what a scan has counted is still an upper bound of the machines without a
slot when the decision is taken. Without the second, a machine whose slot is
given back could be one too many.

The proof has three levels. In `VMStepsProofs` each lemma `...Step` takes one
action: its step `<1>m` is about the record of one goroutine and one machine
only, the others show that the action does what that step assumes. `CarriedLife`
and `QuotaKept` in `VMLifecycleProofs` lift such a step to all goroutines and
names, which the lock makes possible: nobody else works on the name (`Alone`).
`VMRequestsProofs` does the same for the steps that change no machine (`Shifted`:
asking, waiting, giving up, returning), and for the start, the boot, a crash and
a guest that shuts itself down. TLC checked the five parts of `Safe` as
invariants on the instance of the `vms` run before they were proved.

`RuntimeProofs` proves `SocketMissesNothing`, `SocketLeavesNothing` and
`SocketBounded` for every size of the queue and every plan. The invariant
`SocketInv` adds the order of the teardown (a reader that joins has closed the
socket, a publisher that is done has unsubscribed, the reader returns after the
others), that no message, queued or in the hand of a goroutine, is newer than
the data, and what `NothingMissed` needs in the states in which the publisher
is not waiting: from the subscription on, data that changed after it was read
has left a notification, and the data read is in the publisher's hand until it
is in the queue. `SocketSound` puts them together.

It proves `SweepsStayBounded`, `CountsArePublished` and
`SnapshotNeverBackwards` for every limit of sweeps, every timeout and every
plan. `WorkerInv` adds what the worker relies on: it waits for no sweep while it
applies an outcome; the outcome it waits for, and the one it applies, are of a
world no older than the snapshot; a snapshot that is about to be marked as swept
has been published. Without the first, an abandoned sweep could overtake the one
being applied. `OthersKeep` covers libvirt, machines and dashboards at once: they
leave the worker's state alone. Both results are about the component's own
specification; `GatewayRuntime` takes steps of one component or leaves its
variables unchanged.

Three modules prove the safety of `GatewaySessions` for any number of requests
under way, any users and VMs, any `userConnectionLimit`, `sessionTTL` and
`rdpConnectWindow`, and any plan (any number of sessions, tokens and instants):

* `TokensSpentOnce` (`SpentOnce`): an RDP token authorizes a connection only in
  the step that takes it out of its session, and never returns;
* `RegistryAccounts` (`ConnectionsAccounted`): the registry is exact, and a
  logout leaves no older connection;
* `EndsInOrder` (`EndsOrderly`): no session comes back, each end is recorded
  once, the drain is complete and no expiry record follows the sink's closing.

None of the three is inductive. The invariant `GatewayInv` has one layer for
each thing a handler carries from one critical section to the next:

* `Typed` (`GatewaySessionsProofs`): the state is typed, and a session that is
  about to be saved is one.
* `SessionInv` (same module): whoever is inside `sessionsMu` is the only one; a
  session in the store has its timer, with its deadline, unless a request from
  another address has claimed it; a login's session is new; what a grant or a
  consumption is about to save is the session in the store or has expired
  meanwhile; an end is recorded, or exactly one actor is about to record it.
  Without the fourth, a commit could bring a session back that its timer took.
* `TokenInv` (`GatewayLogoutsProofs`): a token is of one VM in one session; one
  that is being granted is known to nobody; what is saved under the lock is the
  stored session with one token more, or with one less.
* `LogoutInv` (same module): a session's user is the same on every
  way it is referred to; while a logout deletes sessions, the sessions behind an
  older connection request of its user are ended or on its list; a request that
  is older than the new generation can only end. `Behind` is the set of sessions
  that could still authorize a request; a logout works because no step enlarges
  it.
* `RegistryInv` (`GatewayConnectionsProofs`): an open transport is in the table
  of its user, or in the hands of a caller that emptied the table; the shutdown
  has none in hand before it starts.

Each layer first states what a step does to one request, to the store and to the
index (`Moves`, `Finishes`, `Arrives`, `Loses`, `Puts`, `Drops`), once for each
kind of step, and then goes through the actions one by one (`KeepsTyped`,
`KeepsSessions`, `KeepsTokens`, `KeepsLogouts`, `KeepsRegistry`). TLC checked the
layers as invariants on the instance of the `sessions` run before they were
proved.

The only assumptions are the ones stated with the constants: a positive
capacity (of the event queue, of the dashboard queue, of the number of sweeps)
and quota, finite sets of consumers, goroutines and VM names, natural numbers as
bounds, limits, VM names and addresses, plans of the right type, and that "no
entry" is not an entry.

Model-checked only: liveness (`EndIsRecorded` of `GatewaySessions` and
`EveryoneReturns` of `VMLifecycle` included), which is out of the prover's reach;
`OneHost`, `ReadyByItsProbe` and the other invariants of `InventoryWorker` that
are not named above; and everything about the other modules.

## Findings

* `spool_fragment`: `walkRecords` trusts the length of a record whose checksum
  fails and jumps past the record that follows it, where its comment says it
  resynchronises byte by byte. In the trace `Append` fails for event 1 behind
  its header and returns nil for event 2; the next `Open` finds no valid record,
  removes the segment and records no loss (`AcceptedRecovered`).
* `host_evict`: a stream whose event the sink refused has nothing that pins it,
  so it can be evicted; its next event re-anchors the watermark above the
  refused one.
* `outputs_checkpoint`: a checkpoint that does not fit the segments is ignored
  and left on disk; after records of the same length took the places of lost
  ones, a later start trusts it and skips them.
* `outputs_rejected`: the file of refused records is synced into its directory
  only by the attempt that creates it; if that attempt fails, the next one does
  not make the name durable.

Smaller disagreements met while modelling, each reproduced with the same
modules under other constants, and not kept as runs:

* `queue.go:101` says the loss is "exactly describable" as the range from
  `firstMissing` to `lastMissing`. A consumer that takes an event between two
  drops leaves a delivered number inside the range. `OverflowNamed` claims the
  count and the two ends only.
* `spool.go:741`: `recover` opens the newest segment with `dirty` unset, so the
  sync before an eviction during Open does nothing although the process that
  crashed may have left unsynced records. A process crash followed by a power
  loss can lose the highest number. The environments of the `spool` run have
  one kind of crash each.
* `spool.go:623`: after a failed directory sync in `roll`, the next Append
  syncs the file only; a power loss can take the file with its entry. Likewise
  a checkpoint whose rename was not made durable is trusted by the next Open,
  which deletes segments on the strength of it.
* `segment.go:121`: a walk that starts at the cursor has no previous record, so
  the low bound of damage it finds is 1 and not taken from a surviving record.
* `spool.go:764`: when the removal of an acknowledged segment fails and the
  segment is later evicted, the next segment's acknowledged records count as
  pending again. `CursorExact` excludes a failing removal.
* `dedup.go:51`: `Duplicate` is also reported for numbers below the first
  arrival and for numbers reported missing.

* `session.go:92` says how many live connections a user "may hold at once". A
  logout empties the table while handlers are still unwinding, so for a moment
  more connections than the limit can be open; `RegistryExact` bounds the table.
* Two logouts of one user at the same time: the second can answer while the
  first still holds close functions it has not called.
  `LogoutEndsConnections` names that exception.

* `namelock.go` and `RemoveVM`: a removal is authorised before it waits for the
  name. If the VM is removed and created again meanwhile, the waiting removal
  removes the new one, which has the same owner. `CreatedSurvives` counts it as
  removed by its owner.
* A rollback looks whether a VM runs and then destroys it. If the guest powers
  off in between, the rollback stops there and the next start or retry resumes
  it; `CleanAtRest` excludes that case as a failed call.

* `sender.go:59` says of the backlogs that "Neither ever drops an event without
  accounting for it". An agent that lost its numbering and issues numbers up to
  the host's position before it connects has them released as delivered.
  `DeliveredOrNamed` excepts these numbers (`Reissued`).
* `agent.go:547` says that the lifted numbering makes "the next event issued [...]
  one the host has never seen". That is so for the position READY names. An older
  session of the host, of up to four per CID, may still be writing events of the
  run before (`session.go:170` does not wait for it): if they get numbers above
  READY's position, the new events with these numbers are taken for duplicates
  and released. `NumberingAhead` and `DeliveredOrNamed` except exactly the
  numbers up to those that older sessions brought under the position after the
  numbering was lost (`Overtaken`); an agent that kept its spool has none.
* An older session of the host may also advance the position over an oversized
  event between the moment a session of the agent read it and the moment it gets
  to it; the marker is then gone and the event is reported a second time.
  `ReportedOnce` speaks of events the backlog still holds.
* Without a spool, the pump leaves at cancellation while collection still
  submits; those events are not counted. `StopDelivers` claims the spool only.
* A failed send hides that the host closed the session for misbehaviour, and a
  failed dial clears the mark, so the backoff can be reset early.
* A report of a full spool takes space in it and may evict another event; the
  number of reports is bounded by the polls.
* `spool.go` of the gateway: after a rotation that failed to create the next
  segment, acknowledged records wait for the next append before they are
  forwarded. `GuestsCatchUp` excepts that state.
* A machine that left the health table after it was reported lost may be
  reported lost again; `AlertsTellHealth` names it (`told`).
* A crash before the last use was stored, or between a creation and its mark,
  lets the idle time begin earlier than the use. So does a use between the start
  of a new domain and the end of its creation: `boot.go:152` sets the time taken
  at `boot.go:186`, without the lock of the name's last use, over the later one.
  `StoppedOnlyIdle` and `GraceBeforeForce` have the exact allowance (`short`).
* `autoshutdown.go:98` and `:119`, and `boot.go:152`, set a last use without
  telling the dashboards, where `TrackVMUse` and `MarkVMUsed` do; a dashboard
  shows it with the next change of something else. `CurrentOrTold` and
  `DashboardsCatchUp` claim the machines and the data that is told.
* If as many sweeps as the limit allows hang for good, no dashboard is updated
  again; `DashboardsCatchUp` excepts it.

## What is left out

In the modelled parts: contents of events, JSON, metrics and logging; failing
reads, undecodable payloads and bit rot of spool files; rate limits, PING/PONG
and source enrichment of sessions. Payloads are their sequence numbers. The
session identity check is a nondeterministic refusal. The in-memory session
store does not fail, so `restore` is not reached. Pools, network definitions and
the XML of domains are external to `VMLifecycle`; the checks of a recovery that
compare them with the intent are failing calls.

`AgentDelivery`: `Agent.Close`, and batches larger than the number in flight.
Outputs: a failing close of the active file, a failing truncation after a partial
write, unreadable records, the stray file of a failed creation, the byte limit of
a batch, host diagnostics without a number, syslog and standard output,
`DeliverySpool.Append` (used by tests), a failing close of the file before in
`reopenRotated`. Collector: the validation of duplicate CIDs is one of the
inventory's failures. Dashboards: addresses and disk sizes. `AuditCollection`:
`Close` during `Run`.

## Not modelled, and why

* **Event model and redaction, wire protocol, configuration, metrics, logging,
  identity.** Conversions between text or bytes and plain data. They keep no
  state that interleaves, and a model of them would be the code again; the models
  use what they produce (a frame that arrives whole or not at all, an event that
  fits or does not).
* **Parsing of kernel records, audit rules.** Text and bit patterns. Rules are
  compared and installed before the stages start.
* **Commands, packaging.** Wiring, flags and archive writers.
* **Storage and images.** Calls of libvirt and files of the host, modelled as the
  effects that provisioning sees.
* **LDAP and certificates.** Queries of an external service, and one-shot
  generation of files.
* **Byte relays of RDP and consoles, rendering.** Their life cycle is in
  `GatewayFront` and `GatewaySessions`; the bytes are data.
