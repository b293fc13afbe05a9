--------------------------- MODULE RuntimeProofs ---------------------------
(***************************************************************************)
(* Two parts of the gateway that share nothing, each for every value of    *)
(* its constants: the inventory worker of virt.go, for every limit of      *)
(* sweeps and every plan; and the dashboard connection, for every size of  *)
(* its queue and every plan.                                               *)
(***************************************************************************)
EXTENDS InventoryWorker, DashboardSocket, FiniteSetTheorems, TLAPS

\* The default prover is Zenon; SMT is cited where a leaf needs arithmetic or
\* the fields of a record.
USE ZenonT(40)

-----------------------------------------------------------------------------
(* The inventory worker: sweeps that hang never exceed the limit, a cleared *)
(* snapshot is never counted, and a snapshot never gives way to an older   *)
(* one.                                                                    *)

SweepFields == {"pc", "hung", "host", "out"}

(* A sweep is a record, and one that reports success has read the world. *)
SweepOK(s) ==
    /\ DOMAIN s = SweepFields
    /\ s.out.kind = "ok" => s.out.from \in Nat \ {0} /\ s.out.from <= world.version

WorkerTypes ==
    /\ DOMAIN sweeps = 1 .. (MaxSweeps + 1)
    /\ \A i \in 1 .. (MaxSweeps + 1) : SweepOK(sweeps[i])
    /\ "version" \in DOMAIN world /\ world.version \in Nat \ {0}
    /\ DOMAIN snap = {"vms", "swept", "from"} /\ snap.from \in Nat
    /\ flight.id \in 0 .. (MaxSweeps + 1) /\ "age" \in DOMAIN flight /\ "id" \in DOMAIN flight

(* The steps that are left of an outcome that is applied. *)
WorkOK ==
    /\ work.pc \in {"idle", "invalidate", "publish", "mark"}
    /\ work.pc = "invalidate" => /\ DOMAIN work = {"pc", "step"} /\ work.step \in {1, 2}
                                 /\ work.step = 2 => snap.swept = FALSE
    /\ work.pc = "publish" => work.from \in Nat \ {0} /\ work.from <= world.version /\ work.from >= snap.from
    /\ work.pc = "mark" => snap.from # 0

(* The worker waits for nothing while it applies, and the outcome it waits   *)
(* for is of a world no older than the one that is shown.                    *)
InOrder ==
    /\ snap.from <= world.version
    /\ flight.id # 0 => work.pc = "idle"
    /\ (flight.id # 0 /\ sweeps[flight.id].out.kind = "ok") => sweeps[flight.id].out.from >= snap.from

WorkerInv == WorkerTypes /\ WorkOK /\ InOrder /\ CountsPublished

(* The set of running sweeps is finite, so its size is a number. *)
LEMMA RunningFinite ==
    ASSUME WorkerTypes
    PROVE  IsFiniteSet(Running) /\ Cardinality(Running) \in Nat
<1>1. IsFiniteSet(1 .. (MaxSweeps + 1))
  BY SMTT(30), FS_Interval, InventoryAssumption
<1>2. Running \subseteq 1 .. (MaxSweeps + 1)
  BY DEF Running, SweepIds, WorkerTypes
<1> QED BY <1>1, <1>2, FS_Subset, FS_CardinalityType

(* The worker starts in the invariant (newWorker). *)
LEMMA WorkerInitInv == InventoryInit => WorkerInv /\ SweepsBounded
<1> SUFFICES ASSUME InventoryInit PROVE WorkerInv /\ SweepsBounded
  OBVIOUS
<1>1. WorkerInv
  BY SMTT(30), InventoryAssumption
     DEF InventoryInit, NoSweep, WorkerInv, WorkerTypes, WorkOK, InOrder, CountsPublished, SweepOK, SweepFields
<1>2. Running = {}
  BY DEF InventoryInit, NoSweep, Running, SweepIds
<1> QED BY SMTT(30), <1>1, <1>2, FS_EmptySet, InventoryAssumption DEF SweepsBounded

(* Libvirt, the machines and the dashboards leave the worker alone: they     *)
(* change none of its state, and the version of the world only grows.        *)
LEMMA OthersKeep ==
    ASSUME WorkerInv,
           UNCHANGED <<sweeps, flight, work>>,
           snap' = snap \/ \E vms : snap' = [snap EXCEPT !.vms = vms],
           "version" \in DOMAIN world', world'.version \in Nat, world'.version >= world.version
    PROVE  WorkerInv' /\ Running' = Running
<1> USE DEF WorkerInv, WorkerTypes, WorkOK, InOrder, CountsPublished, SweepOK
<1>1. DOMAIN snap' = DOMAIN snap /\ snap'.from = snap.from /\ snap'.swept = snap.swept
  OBVIOUS
<1>2. WorkerTypes'
  BY SMTT(30), <1>1
<1>3. WorkOK' /\ InOrder' /\ CountsPublished'
  BY SMTT(30), <1>1
<1> QED BY <1>2, <1>3 DEF Running, SweepIds

(* A step of one sweep: what the invariant needs of its new record, and that *)
(* a sweep that does not run does not start to.                              *)
LEMMA SweepKeeps ==
    ASSUME WorkerInv, NEW i \in SweepIds, NEW s, Sweep(i, s),
           DOMAIN s = SweepFields,
           s.out.kind = "ok" => s.out.from \in Nat \ {0} /\ s.out.from <= world.version,
           (i = flight.id /\ s.out.kind = "ok") => s.out.from >= snap.from,
           s.pc \in {"gone", "returned"} \/ i \in Running
    PROVE  WorkerInv' /\ Running' \subseteq Running
<1> USE DEF WorkerInv, WorkerTypes, WorkOK, InOrder, CountsPublished, SweepOK, Sweep, SweepIds
<1>1. /\ DOMAIN sweeps' = DOMAIN sweeps /\ sweeps'[i] = s
      /\ \A j \in DOMAIN sweeps : j # i => sweeps'[j] = sweeps[j]
  OBVIOUS
<1>2. WorkerTypes'
  BY <1>1
<1>3. WorkOK' /\ InOrder' /\ CountsPublished'
  BY SMTT(30), <1>1
<1>4. Running' \subseteq Running
  BY <1>1 DEF Running
<1> QED BY <1>2, <1>3, <1>4

(* The goroutine of a sweep: connect, collect, report, close; and libvirt's  *)
(* faults under it.                                                          *)
LEMMA SweepStepsKeep ==
    ASSUME WorkerInv, NEW i \in SweepIds,
           Connect(i) \/ SweepFails(i) \/ CollectInventory(i) \/ Hangs(i) \/ HangReturns(i) \/ SweepReturns(i)
    PROVE  WorkerInv' /\ Running' \subseteq Running
<1>0. /\ DOMAIN sweeps[i] = SweepFields /\ SweepOK(sweeps[i])
      /\ (i = flight.id /\ sweeps[i].out.kind = "ok") => sweeps[i].out.from >= snap.from
      /\ snap.from <= world.version /\ world.version \in Nat \ {0} /\ i # 0
  BY SMTT(30) DEF WorkerInv, WorkerTypes, InOrder, SweepOK, SweepIds
<1>1. CASE Connect(i)
  <2>1. i \in Running
    BY <1>1 DEF Connect, Running
  <2> QED BY <1>0, <1>1, <2>1, SweepKeeps DEF Connect, SweepOK, SweepFields
<1>2. CASE SweepFails(i)
  <2>1. i \in Running
    BY <1>2 DEF SweepFails, Running
  <2> QED BY <1>0, <1>2, <2>1, SweepKeeps DEF SweepFails, SweepOK, SweepFields
<1>3. CASE CollectInventory(i)
  <2>1. i \in Running
    BY <1>3 DEF CollectInventory, Running
  <2>2. PICK bad \in BadCalls(sweeps[i].host) :
           Sweep(i, [sweeps[i] EXCEPT !.pc = "reported", !.host = None,
                    !.out = [kind |-> "ok", host |-> sweeps[i].host, vms |-> ListVMs(sweeps[i].host, bad), from |-> world.version,
                             meta |-> RetainedMetadata(sweeps[i].host, bad, DOMAIN world.doms[sweeps[i].host]),
                             disk |-> RetainedDisks(sweeps[i].host, bad, DOMAIN world.doms[sweeps[i].host])]])
    BY <1>3 DEF CollectInventory
  <2> DEFINE o == [kind |-> "ok", host |-> sweeps[i].host, vms |-> ListVMs(sweeps[i].host, bad), from |-> world.version,
                   meta |-> RetainedMetadata(sweeps[i].host, bad, DOMAIN world.doms[sweeps[i].host]),
                   disk |-> RetainedDisks(sweeps[i].host, bad, DOMAIN world.doms[sweeps[i].host])]
             s == [sweeps[i] EXCEPT !.pc = "reported", !.host = None, !.out = o]
  <2>3. Sweep(i, s)
    BY <2>2
  <2>4. o.from = world.version
    OBVIOUS
  <2>5. DOMAIN s = SweepFields /\ s.out = o
    BY <1>0 DEF SweepFields
  <2>6. s.out.from = world.version
    BY <2>4, <2>5
  <2> HIDE DEF s, o
  <2> QED BY SMTT(30), <1>0, <2>1, <2>3, <2>5, <2>6, SweepKeeps
<1>4. CASE Hangs(i)
  <2>1. i \in Running
    BY <1>4 DEF Hangs, Running
  <2> QED BY <1>0, <1>4, <2>1, SweepKeeps DEF Hangs, SweepOK, SweepFields
<1>5. CASE HangReturns(i)
  BY <1>0, <1>5, SweepKeeps DEF HangReturns, SweepOK, SweepFields, Running
<1>6. CASE SweepReturns(i)
  <2>1. i \in Running
    BY <1>6 DEF SweepReturns, Running
  <2>2. CASE flight.id = i
    BY <1>0, <1>6, <2>1, <2>2, SweepKeeps DEF SweepReturns, SweepOK, SweepFields
  <2>3. CASE flight.id # i
    <3>1. DOMAIN NoSweep = SweepFields /\ NoSweep.out.kind = "error"
      BY DEF NoSweep, SweepFields
    <3> QED BY <1>0, <1>6, <2>1, <2>3, <3>1, SweepKeeps DEF SweepReturns
  <2> QED BY <2>2, <2>3
<1> QED BY <1>1, <1>2, <1>3, <1>4, <1>5, <1>6

(* Letting go of the sweep in flight starts none, and forgets its outcome. *)
LEMMA LetGoKeeps ==
    ASSUME WorkerInv
    PROVE  /\ DOMAIN LetGo = 1 .. (MaxSweeps + 1)
           /\ \A i \in 1 .. (MaxSweeps + 1) :
                 /\ SweepOK(LetGo[i])
                 /\ LetGo[i].pc \notin {"gone", "returned"} => i \in Running
<1>1. DOMAIN NoSweep = SweepFields /\ NoSweep.out.kind = "error" /\ NoSweep.pc = "gone"
  BY DEF NoSweep, SweepFields
<1>2. DOMAIN LetGo = 1 .. (MaxSweeps + 1)
  BY DEF LetGo, SweepIds, WorkerInv, WorkerTypes
<1>3. ASSUME NEW i \in 1 .. (MaxSweeps + 1)
      PROVE  SweepOK(LetGo[i]) /\ (LetGo[i].pc \notin {"gone", "returned"} => i \in Running)
  <2>1. SweepOK(sweeps[i]) /\ i \in SweepIds
    BY DEF WorkerInv, WorkerTypes, SweepIds
  <2>2. CASE i # flight.id
    <3>1. LetGo[i] = sweeps[i]
      BY <2>1, <2>2 DEF LetGo
    <3> QED BY <2>1, <3>1 DEF Running
  <2>3. CASE i = flight.id /\ sweeps[i].pc = "returned"
    <3>1. LetGo[i] = NoSweep
      BY <2>1, <2>3 DEF LetGo
    <3> QED BY <3>1, <1>1 DEF SweepOK
  <2>4. CASE i = flight.id /\ sweeps[i].pc # "returned"
    <3>1. LetGo[i] = [sweeps[i] EXCEPT !.out = NoSweep.out]
      BY <2>1, <2>4 DEF LetGo
    <3>2. DOMAIN LetGo[i] = SweepFields /\ LetGo[i].out.kind = "error" /\ LetGo[i].pc = sweeps[i].pc
      BY <2>1, <3>1, <1>1 DEF SweepOK, SweepFields
    <3> QED BY <2>1, <3>2 DEF SweepOK, Running
  <2> QED BY <2>2, <2>3, <2>4
<1> QED BY <1>2, <1>3

(* The worker's tick, and the outcome it takes: the sweep in flight is let   *)
(* go, and the steps to apply the outcome are left.                          *)
LEMMA TakesKeep ==
    ASSUME WorkerInv, sweeps' = LetGo, flight' = NoFlight, UNCHANGED <<world, snap>>,
           WorkOK'
    PROVE  WorkerInv' /\ Running' \subseteq Running
<1>1. WorkerTypes'
  BY SMTT(30), LetGoKeeps, InventoryAssumption DEF WorkerInv, WorkerTypes, SweepOK, NoFlight
<1>2. InOrder' /\ CountsPublished'
  BY DEF WorkerInv, InOrder, CountsPublished, NoFlight
<1>3. Running' \subseteq Running
  BY LetGoKeeps DEF Running, SweepIds
<1> QED BY <1>1, <1>2, <1>3 DEF WorkerInv

(* run and applySweep. *)
LEMMA WorkerKeeps ==
    ASSUME WorkerInv,
           Waits \/ TooManyBlocked \/ \E i \in SweepIds : ApplyError(i) \/ ApplySweep(i)
    PROVE  WorkerInv' /\ Running' \subseteq Running
<1>1. CASE Waits
  <2>1. /\ flight' = [flight EXCEPT !.age = @ + 1] /\ UNCHANGED <<world, sweeps, work, snap>>
    BY <1>1 DEF Waits
  <2>2. flight'.id = flight.id /\ DOMAIN flight' = DOMAIN flight
    BY <2>1 DEF WorkerInv, WorkerTypes
  <2>3. WorkerTypes'
    BY <2>1, <2>2 DEF WorkerInv, WorkerTypes, SweepOK
  <2>4. WorkOK' /\ InOrder' /\ CountsPublished'
    BY <2>1, <2>2 DEF WorkerInv, WorkOK, InOrder, CountsPublished
  <2> QED BY <2>1, <2>3, <2>4 DEF WorkerInv, Running, SweepIds
<1>2. CASE TooManyBlocked
  <2>1. sweeps' = LetGo /\ flight' = NoFlight /\ UNCHANGED <<world, snap, work>>
    BY <1>2 DEF TooManyBlocked
  <2>2. WorkOK'
    BY <2>1 DEF WorkerInv, WorkOK
  <2> QED BY <2>1, <2>2, TakesKeep
<1>3. ASSUME NEW i \in SweepIds, ApplyError(i) PROVE WorkerInv' /\ Running' \subseteq Running
  <2>1. sweeps' = LetGo /\ flight' = NoFlight /\ UNCHANGED <<world, snap, work>>
    BY <1>3 DEF ApplyError
  <2>2. WorkOK'
    BY <2>1 DEF WorkerInv, WorkOK
  <2> QED BY <2>1, <2>2, TakesKeep
<1>4. ASSUME NEW i \in SweepIds, ApplySweep(i) PROVE WorkerInv' /\ Running' \subseteq Running
  <2>1. sweeps' = LetGo /\ flight' = NoFlight /\ UNCHANGED <<world, snap>>
    BY <1>4 DEF ApplySweep
  <2>2. /\ i = flight.id /\ i # 0 /\ sweeps[i].out.kind = "ok"
        /\ work' = [pc |-> "invalidate", step |-> 1]
           \/ work' = [pc |-> "publish", vms |-> sweeps[i].out.vms, from |-> sweeps[i].out.from]
    BY SMTT(30), <1>4 DEF ApplySweep, Takes, WorkerInv, WorkerTypes, SweepIds
  <2>3. /\ sweeps[i].out.from \in Nat \ {0} /\ sweeps[i].out.from <= world.version
        /\ sweeps[i].out.from >= snap.from
    BY SMTT(30), <2>2 DEF WorkerInv, WorkerTypes, SweepOK, InOrder
  <2>4. WorkOK'
    <3>1. CASE work' = [pc |-> "invalidate", step |-> 1]
      BY SMTT(30), <3>1 DEF WorkOK
    <3>2. CASE work' = [pc |-> "publish", vms |-> sweeps[i].out.vms, from |-> sweeps[i].out.from]
      <4>1. work'.pc = "publish" /\ work'.from = sweeps[i].out.from
        BY <3>2
      <4> QED BY <2>1, <2>3, <4>1 DEF WorkOK
    <3> QED BY <2>2, <3>1, <3>2
  <2> QED BY <2>1, <2>4, TakesKeep
<1> QED BY <1>1, <1>2, <1>3, <1>4

(* startSweepIfDue: one sweep more, counted before it starts. *)
LEMMA StartKeeps ==
    ASSUME WorkerInv, StartSweepIfDue
    PROVE  WorkerInv' /\ SweepsBounded'
<1>1. PICK i \in SweepIds : /\ flight' = [id |-> i, age |-> 0]
                            /\ sweeps' = [LetGo EXCEPT ![i] = [NoSweep EXCEPT !.pc = "counted"]]
  BY DEF StartSweepIfDue
<1>2. work.pc = "idle" /\ UNCHANGED <<world, work, snap>> /\ Cardinality(Running) < MaxSweeps
  BY DEF StartSweepIfDue, Tickable, MayStart, Outstanding
<1> DEFINE s == [NoSweep EXCEPT !.pc = "counted"]
<1>3. DOMAIN s = SweepFields /\ s.out.kind = "error" /\ s.pc = "counted"
  BY DEF NoSweep, SweepFields
<1>4. sweeps' = [LetGo EXCEPT ![i] = s]
  BY <1>1
<1> HIDE DEF s
<1>5. i \in 1 .. (MaxSweeps + 1)
  BY DEF SweepIds, WorkerInv, WorkerTypes
<1>6. /\ DOMAIN sweeps' = 1 .. (MaxSweeps + 1) /\ sweeps'[i] = s
      /\ \A j \in 1 .. (MaxSweeps + 1) : j # i => sweeps'[j] = LetGo[j]
  BY <1>4, <1>5, LetGoKeeps
<1>7. WorkerTypes'
  <2>1. \A j \in 1 .. (MaxSweeps + 1) : SweepOK(sweeps[j])'
    BY <1>2, <1>3, <1>6, LetGoKeeps DEF SweepOK
  <2>2. flight'.id = i /\ "age" \in DOMAIN flight' /\ "id" \in DOMAIN flight'
    BY <1>1
  <2>3. i \in 0 .. (MaxSweeps + 1)
    BY SMTT(30), <1>5, InventoryAssumption
  <2> QED BY <1>2, <1>6, <2>1, <2>2, <2>3 DEF WorkerInv, WorkerTypes
<1>8. WorkOK' /\ InOrder' /\ CountsPublished'
  BY <1>1, <1>2, <1>3, <1>6 DEF WorkerInv, WorkOK, InOrder, CountsPublished
<1>9. Running' \subseteq Running \cup {i}
  BY <1>6, LetGoKeeps DEF Running, SweepIds
<1>10. SweepsBounded'
  <2>1. IsFiniteSet(Running) /\ Cardinality(Running) \in Nat
    BY RunningFinite DEF WorkerInv
  <2>2. /\ IsFiniteSet(Running \cup {i})
        /\ Cardinality(Running \cup {i}) = Cardinality(Running) \/ Cardinality(Running \cup {i}) = Cardinality(Running) + 1
    BY <2>1, FS_AddElement
  <2>3. Cardinality(Running') <= Cardinality(Running \cup {i}) /\ Cardinality(Running') \in Nat
    BY <1>9, <2>2, FS_Subset, FS_CardinalityType
  <2> QED BY SMTT(30), <1>2, <2>1, <2>2, <2>3, InventoryAssumption DEF SweepsBounded
<1> QED BY <1>7, <1>8, <1>10 DEF WorkerInv

(* publishInventory and invalidateVMSnapshot: the mark is taken away before  *)
(* the snapshot is cleared, and given after it is published.                 *)
LEMMA PublishKeeps ==
    ASSUME WorkerInv, Unmark \/ Clear \/ PublishInventory \/ MarkVMSnapshotSwept
    PROVE  WorkerInv' /\ Running' = Running /\ (snap'.from = 0 \/ snap'.from >= snap.from)
<1>0. UNCHANGED <<world, sweeps, flight>>
  BY DEF Unmark, Clear, PublishInventory, MarkVMSnapshotSwept
<1>1. Running' = Running /\ flight.id = 0
  BY <1>0 DEF Running, SweepIds, WorkerInv, InOrder, Unmark, Clear, PublishInventory, MarkVMSnapshotSwept
<1>2. SUFFICES ASSUME DOMAIN snap' = DOMAIN snap, snap'.from \in Nat, snap'.from <= world.version,
                      snap'.from = 0 \/ snap'.from >= snap.from, WorkOK', CountsPublished'
               PROVE  WorkerInv'
  <2>1. CASE Unmark
    <3>1. snap' = [snap EXCEPT !.swept = FALSE]
      BY <2>1 DEF Unmark
    <3>2. DOMAIN snap' = DOMAIN snap /\ snap'.from = snap.from /\ snap'.swept = FALSE
      BY <3>1 DEF WorkerInv, WorkerTypes
    <3>3. work' = [pc |-> "idle"] \/ (work' = [work EXCEPT !.step = 2] /\ work.pc = "invalidate")
      BY <2>1 DEF Unmark
    <3>4. work'.pc = "idle" \/ (work'.pc = "invalidate" /\ DOMAIN work' = {"pc", "step"} /\ work'.step = 2)
      BY SMTT(30), <3>3 DEF WorkerInv, WorkOK
    <3>5. WorkOK'
      BY <3>2, <3>4 DEF WorkOK
    <3> QED BY SMTT(30), <1>1, <3>2, <3>5 DEF WorkerInv, WorkerTypes, InOrder, CountsPublished
  <2>2. CASE Clear
    <3>1. work.step = 2 /\ work.pc = "invalidate"
      BY SMTT(30), <2>2 DEF Clear, Invalidation, WorkerInv, WorkOK
    <3>2. work' = [pc |-> "idle"] /\ \E vms : snap' = [snap EXCEPT !.vms = vms, !.from = 0]
      BY <2>2, <3>1 DEF Clear, SetVMs
    <3>3. DOMAIN snap' = DOMAIN snap /\ snap'.from = 0 /\ snap'.swept = snap.swept
      BY <3>2 DEF WorkerInv, WorkerTypes
    <3>4. snap.swept = FALSE /\ world.version \in Nat
      BY <3>1 DEF WorkerInv, WorkOK, WorkerTypes
    <3>5. WorkOK' /\ CountsPublished'
      BY <3>2, <3>3, <3>4 DEF WorkOK, CountsPublished
    <3> QED BY SMTT(30), <1>1, <3>3, <3>4, <3>5
  <2>3. CASE PublishInventory
    <3>1. /\ work.pc = "publish" /\ work' = [pc |-> "mark"]
          /\ \E vms : snap' = [snap EXCEPT !.vms = vms, !.from = work.from]
      BY <2>3 DEF PublishInventory, SetVMs
    <3>2. DOMAIN snap' = DOMAIN snap /\ snap'.from = work.from
      BY <3>1 DEF WorkerInv, WorkerTypes
    <3>3. work.from \in Nat \ {0} /\ work.from <= world.version /\ work.from >= snap.from
      BY <3>1 DEF WorkerInv, WorkOK
    <3>4. WorkOK' /\ CountsPublished'
      BY <3>1, <3>2, <3>3 DEF WorkOK, CountsPublished
    <3> QED BY <1>1, <3>2, <3>3, <3>4
  <2>4. CASE MarkVMSnapshotSwept
    <3>1. work.pc = "mark" /\ snap' = [snap EXCEPT !.swept = TRUE] /\ work' = [pc |-> "idle"]
      BY <2>4 DEF MarkVMSnapshotSwept
    <3>2. DOMAIN snap' = DOMAIN snap /\ snap'.from = snap.from /\ snap.from # 0
      BY <3>1 DEF WorkerInv, WorkerTypes, WorkOK
    <3>3. WorkOK' /\ CountsPublished'
      BY <3>1, <3>2 DEF WorkOK, CountsPublished
    <3> QED BY SMTT(30), <1>1, <3>2, <3>3 DEF WorkerInv, WorkerTypes, InOrder
  <2> QED BY <2>1, <2>2, <2>3, <2>4
<1>3. WorkerTypes'
  BY <1>0, <1>2 DEF WorkerInv, WorkerTypes, SweepOK
<1>4. InOrder'
  BY <1>0, <1>1, <1>2 DEF WorkerInv, InOrder
<1> QED BY <1>2, <1>3, <1>4 DEF WorkerInv

(* Every step keeps the invariant and the limit, and the snapshot's age. *)
LEMMA InventoryNextKeeps ==
    ASSUME WorkerInv, SweepsBounded, InventoryNext
    PROVE  WorkerInv' /\ SweepsBounded' /\ (snap'.from = 0 \/ snap'.from >= snap.from)
<1> DEFINE Goal == WorkerInv' /\ SweepsBounded' /\ (snap'.from = 0 \/ snap'.from >= snap.from)
<1>0. ASSUME WorkerInv', Running' \subseteq Running, snap'.from = 0 \/ snap'.from >= snap.from
      PROVE  Goal
  <2>1. IsFiniteSet(Running) /\ Cardinality(Running) \in Nat
    BY RunningFinite DEF WorkerInv
  <2>2. Cardinality(Running') <= Cardinality(Running) /\ Cardinality(Running') \in Nat
    BY <1>0, <2>1, FS_Subset, FS_CardinalityType
  <2> QED BY SMTT(30), <1>0, <2>1, <2>2, InventoryAssumption DEF SweepsBounded
<1>f. snap.from \in Nat /\ "version" \in DOMAIN world /\ world.version \in Nat \ {0} /\ DOMAIN snap = {"vms", "swept", "from"}
  BY DEF WorkerInv, WorkerTypes
<1>1. ASSUME UNCHANGED <<sweeps, flight, work, snap>>,
             "version" \in DOMAIN world', world'.version \in Nat, world'.version >= world.version
      PROVE  Goal
  BY SMTT(30), <1>0, <1>1, <1>f, OthersKeep
<1>w. ASSUME NEW w, NEW c, World(w, c), "version" \in DOMAIN w, w.version = world.version PROVE Goal
  <2>1. world' = [w EXCEPT !.version = @ + 1] /\ UNCHANGED <<sweeps, flight, work, snap>>
    BY <1>w DEF World
  <2>2. "version" \in DOMAIN world' /\ world'.version = world.version + 1
    BY <1>w, <2>1
  <2> QED BY SMTT(30), <1>1, <1>f, <2>1, <2>2
<1>2. CASE HostMoves \/ \E u \in DOMAIN Here : CreationGoesOn(u) \/ Replaced(u) \/ PowerToggles(u) \/ PortToggles(u)
  <2>1. CASE HostMoves
    <3>1. PICK h : World([world EXCEPT !.host = h, !.up = {}], 1)
      BY <2>1 DEF HostMoves
    <3> DEFINE w == [world EXCEPT !.host = h, !.up = {}]
    <3>2. "version" \in DOMAIN w /\ w.version = world.version
      BY <1>f
    <3> QED BY <3>1, <3>2, <1>w
  <2>2. ASSUME NEW u \in DOMAIN Here, CreationGoesOn(u) PROVE Goal
    <3> DEFINE w == [world EXCEPT !.doms[world.host][u].stage = @ + 1]
    <3>1. World(w, 0)
      BY <2>2 DEF CreationGoesOn
    <3>2. "version" \in DOMAIN w /\ w.version = world.version
      BY <1>f
    <3> QED BY <3>1, <3>2, <1>w
  <2>3. ASSUME NEW u \in DOMAIN Here, Replaced(u) PROVE Goal
    <3>1. PICK d : World([world EXCEPT !.doms[world.host] = d, !.up = @ \ {Here[u].name}], 1)
      BY <2>3 DEF Replaced
    <3> DEFINE w == [world EXCEPT !.doms[world.host] = d, !.up = @ \ {Here[u].name}]
    <3>2. "version" \in DOMAIN w /\ w.version = world.version
      BY <1>f
    <3> QED BY <3>1, <3>2, <1>w
  <2>4. ASSUME NEW u \in DOMAIN Here, PowerToggles(u) PROVE Goal
    <3> DEFINE w == [world EXCEPT !.doms[world.host][u].on = ~@, !.up = @ \ {Here[u].name}]
    <3>1. World(w, 1)
      BY <2>4 DEF PowerToggles
    <3>2. "version" \in DOMAIN w /\ w.version = world.version
      BY <1>f
    <3> QED BY <3>1, <3>2, <1>w
  <2>5. ASSUME NEW u \in DOMAIN Here, PortToggles(u) PROVE Goal
    <3>1. PICK up : World([world EXCEPT !.up = up], 1)
      BY <2>5 DEF PortToggles
    <3> DEFINE w == [world EXCEPT !.up = up]
    <3>2. "version" \in DOMAIN w /\ w.version = world.version
      BY <1>f
    <3> QED BY <3>1, <3>2, <1>w
  <2> QED BY <1>2, <2>1, <2>2, <2>3, <2>4, <2>5
<1>3. CASE DataChanges \/ DataChangesUntold \/ NotifyVMDataChanged
  <2>1. UNCHANGED <<sweeps, flight, work, snap>> /\ "version" \in DOMAIN world' /\ world'.version = world.version
    BY <1>3, <1>f DEF DataChanges, DataChangesUntold, NotifyVMDataChanged
  <2> QED BY SMTT(30), <1>1, <1>f, <2>1
<1>4. ASSUME NEW b \in DOMAIN boards,
             \/ RefreshRDPReadiness(b) \/ SubscribeVMChanges(b) \/ QueueDashboardDataUpdate(b) \/ Update(b)
             \/ \E j \in boards[b].jobs : ProbeRDPAddress(b, j) \/ NumberObservation(b, j)
             \/ ReadinessDue(b) \/ BoardLeaves(b)
      PROVE  Goal
  <2>1. UNCHANGED <<world, sweeps, flight, work, snap>>
    BY <1>4 DEF RefreshRDPReadiness, SubscribeVMChanges, QueueDashboardDataUpdate, Update, ProbeRDPAddress,
                NumberObservation, ReadinessDue, BoardLeaves, Board
  <2> QED BY SMTT(30), <1>1, <1>f, <2>1
<1>5. ASSUME NEW b \in DOMAIN boards, ApplyRDPReadinessResults(b) PROVE Goal
  <2>1. UNCHANGED <<world, sweeps, flight, work>> /\ \E vms : snap' = [snap EXCEPT !.vms = vms]
    BY <1>5 DEF ApplyRDPReadinessResults
  <2>2. snap'.from = snap.from
    BY <2>1, <1>f
  <2>3. "version" \in DOMAIN world' /\ world'.version \in Nat /\ world'.version >= world.version
    BY SMTT(30), <2>1, <1>f
  <2>4. WorkerInv' /\ Running' = Running
    BY <2>1, <2>3, OthersKeep, Zenon
  <2>5. snap'.from >= snap.from
    BY SMTT(30), <2>2, <1>f
  <2> QED BY <1>0, <2>4, <2>5
<1>6. ASSUME NEW i \in SweepIds,
             Connect(i) \/ SweepFails(i) \/ CollectInventory(i) \/ Hangs(i) \/ HangReturns(i) \/ SweepReturns(i)
      PROVE  Goal
  <2>1. snap' = snap
    BY <1>6 DEF Connect, SweepFails, CollectInventory, Hangs, HangReturns, SweepReturns, Sweep
  <2> QED BY SMTT(30), <1>0, <1>6, <1>f, <2>1, SweepStepsKeep
<1>7. CASE Waits \/ TooManyBlocked \/ \E i \in SweepIds : ApplyError(i) \/ ApplySweep(i)
  <2>1. snap' = snap
    BY <1>7 DEF Waits, TooManyBlocked, ApplyError, ApplySweep
  <2> QED BY SMTT(30), <1>0, <1>7, <1>f, <2>1, WorkerKeeps
<1>8. CASE StartSweepIfDue
  <2>1. snap' = snap
    BY <1>8 DEF StartSweepIfDue
  <2> QED BY SMTT(30), <1>8, <1>f, <2>1, StartKeeps
<1>9. CASE Unmark \/ Clear \/ PublishInventory \/ MarkVMSnapshotSwept
  BY <1>0, <1>9, PublishKeeps
<1> QED
  BY <1>2, <1>3, <1>4, <1>5, <1>6, <1>7, <1>8, <1>9 DEF InventoryNext, InventoryWork, BoardWork

(* The worker's invariant, with the limit of sweeps (worker.run). *)
THEOREM WorkerInvariant == InventorySpec => [](WorkerInv /\ SweepsBounded)
<1>1. ASSUME WorkerInv, SweepsBounded, UNCHANGED inventoryVars PROVE WorkerInv' /\ SweepsBounded'
  BY <1>1
     DEF inventoryVars, WorkerInv, WorkerTypes, SweepOK, WorkOK, InOrder, CountsPublished, SweepsBounded,
         Running, SweepIds
<1> QED BY <1>1, WorkerInitInv, InventoryNextKeeps, PTL DEF InventorySpec

(* maxOutstandingSweeps: whatever hangs, the sweep goroutines never exceed   *)
(* the limit.                                                                *)
THEOREM SweepsStayBounded == InventorySpec => []SweepsBounded
  BY WorkerInvariant, PTL

(* CountVMsOwnedBy: a snapshot that counts is one that was published. *)
THEOREM CountsArePublished == InventorySpec => []CountsPublished
<1>1. WorkerInv => CountsPublished
  BY DEF WorkerInv
<1> QED BY <1>1, WorkerInvariant, PTL

(* startSweepIfDue and applySweep: a snapshot never gives way to an older    *)
(* one, however late an abandoned sweep reports.                             *)
THEOREM SnapshotNeverBackwards == InventorySpec => NeverBackwards
<1>1. ASSUME WorkerInv, SweepsBounded, [InventoryNext]_inventoryVars
      PROVE  [snap'.from = 0 \/ snap'.from >= snap.from]_inventoryVars
  BY <1>1, InventoryNextKeeps
<1> QED BY <1>1, WorkerInvariant, PTL DEF InventorySpec, NeverBackwards

-----------------------------------------------------------------------------
(* The dashboard connection: what is on its way to the browser is in order   *)
(* and misses no change, the queue keeps its limit, and a handler that has   *)
(* returned leaves a closed socket and nothing that reads, queues or writes. *)

SocketTypes ==
    /\ sock \in [open : BOOLEAN, cancelled : BOOLEAN, peer : {"ok", "stuck", "gone"}]
    /\ data \in [version : Nat, told : BOOLEAN, joined : BOOLEAN]
    /\ out \in Seq(Nat)
    /\ reader \in {"read", "pong", "join", "returned"}
    /\ writer \in [pc : {"idle", "write", "done"}, message : Nat]
    /\ publisher \in [pc : {"subscribe", "read", "queue", "idle", "done"}, message : Nat]
    /\ closer \in {"wait", "done"}
    /\ keeper \in {"wait", "ping", "done"}
    /\ shown \in Nat

(* No message, wherever it is, is newer than the data. *)
NotAhead ==
    /\ \A k \in 1..Len(out) : out[k] <= data.version
    /\ writer.message <= data.version /\ publisher.message <= data.version
    /\ shown <= data.version

(* A goroutine has a message only while it writes or queues it. *)
Holding ==
    /\ writer.pc # "write" => writer.message = 0
    /\ publisher.pc # "queue" => publisher.message = 0

(* The publisher reads as a subscriber, so what it has read is current until *)
(* a notification waits.                                                     *)
Fresh ==
    /\ publisher.pc \in {"read", "queue", "idle"} => data.joined = TRUE
    /\ publisher.pc = "queue" /\ data.told = FALSE => publisher.message = data.version

(* The current version is shown, being written or queued. *)
UnderWay ==
    \/ shown = data.version \/ writer.message = data.version
    \/ \E k \in 1..Len(out) : out[k] = data.version
Delivers == publisher.pc = "idle" /\ data.told = FALSE /\ writer.pc # "done" => UnderWay

(* The reader leaves a closed socket and a cancelled context behind, and     *)
(* returns after the others; a publisher that is done has unsubscribed.      *)
Teardown ==
    /\ publisher.pc = "done" => data.joined = FALSE
    /\ reader \in {"join", "returned"} => sock.open = FALSE
    /\ reader = "returned" => writer.pc = "done" /\ closer = "done" /\ publisher.pc = "done"

Queued == Len(out) <= QueueCap

SocketInv == SocketTypes /\ NotAhead /\ ViewInOrder /\ Holding /\ Fresh /\ Delivers /\ Teardown /\ Queued

(* A connection starts in the invariant (bridgeDashboardControlSocket...). *)
LEMMA SocketInitInv == SocketInit => SocketInv
<1> SUFFICES ASSUME SocketInit PROVE SocketInv
  OBVIOUS
<1>1. /\ splan.version \in Nat /\ out = <<>> /\ shown = 0
      /\ sock = [open |-> TRUE, cancelled |-> FALSE, peer |-> "ok"]
      /\ data = [version |-> splan.version, told |-> FALSE, joined |-> FALSE]
      /\ reader = "read" /\ closer = "wait" /\ keeper = "wait"
      /\ writer = [pc |-> "idle", message |-> 0] /\ publisher = [pc |-> "subscribe", message |-> 0]
  BY SMTT(30), SocketAssumption DEF SocketInit
<1>2. SocketTypes /\ NotAhead /\ ViewInOrder /\ Holding /\ Teardown
  BY SMTT(30), <1>1 DEF SocketTypes, NotAhead, ViewInOrder, Follows, Holding, Teardown
<1>3. Fresh /\ Delivers /\ Queued
  BY SMTT(30), <1>1, SocketAssumption DEF Fresh, Delivers, Queued
<1> QED BY <1>2, <1>3 DEF SocketInv

(* A step that changes at most the socket, the reader's or the closer's or   *)
(* the keepalive's state, and opens no socket, keeps all but the teardown.   *)
LEMMA QuietKeeps ==
    ASSUME SocketInv, UNCHANGED <<data, out, writer, publisher, shown>>,
           sock' \in [open : BOOLEAN, cancelled : BOOLEAN, peer : {"ok", "stuck", "gone"}],
           reader' \in {"read", "pong", "join", "returned"}, closer' \in {"wait", "done"},
           keeper' \in {"wait", "ping", "done"}, Teardown'
    PROVE  SocketInv'
<1>1. SocketTypes' /\ Teardown'
  BY DEF SocketInv, SocketTypes
<1>2. NotAhead' /\ ViewInOrder' /\ Holding'
  BY DEF SocketInv, NotAhead, ViewInOrder, Holding
<1>3. Fresh' /\ Delivers' /\ Queued'
  BY DEF SocketInv, Fresh, Delivers, UnderWay, Queued
<1> QED BY <1>1, <1>2, <1>3 DEF SocketInv

(* The inventory changes: whoever has subscribed is told. *)
LEMMA ChangeKeeps == ASSUME SocketInv, InventoryChanges PROVE SocketInv'
<1>1. /\ data' = [version |-> data.version + 1, told |-> data.joined, joined |-> data.joined]
      /\ UNCHANGED <<sock, out, reader, writer, publisher, closer, keeper, shown>>
  BY DEF InventoryChanges, SocketInv, SocketTypes
<1>2. /\ data'.version = data.version + 1 /\ data'.joined = data.joined /\ data'.told = data.joined
      /\ data.joined \in BOOLEAN /\ data.version \in Nat
  BY <1>1 DEF SocketInv, SocketTypes
<1>3. data' \in [version : Nat, told : BOOLEAN, joined : BOOLEAN]
  BY SMTT(30), <1>1, <1>2
<1>4. SocketTypes'
  BY <1>1, <1>3 DEF SocketInv, SocketTypes
<1>5. NotAhead'
  BY SMTT(30), <1>1, <1>2 DEF SocketInv, SocketTypes, NotAhead
<1>6. ViewInOrder' /\ Holding' /\ Teardown' /\ Queued'
  BY <1>1, <1>2 DEF SocketInv, ViewInOrder, Holding, Teardown, Queued
<1>7. Fresh' /\ Delivers'
  BY <1>1, <1>2 DEF SocketInv, Fresh, Delivers
<1> QED BY <1>4, <1>5, <1>6, <1>7 DEF SocketInv

(* The browser and the session. *)
LEMMA EnvironmentKeeps ==
    ASSUME SocketInv, ConnectionEnds \/ ReadPing \/ PingDue
    PROVE  SocketInv'
<1> USE DEF SocketInv, SocketTypes
<1>1. CASE ConnectionEnds
  <2>1. /\ sock' \in [open : BOOLEAN, cancelled : BOOLEAN, peer : {"ok", "stuck", "gone"}]
        /\ sock.open = FALSE => sock'.open = FALSE
    BY <1>1 DEF ConnectionEnds, Ending
  <2>2. UNCHANGED <<data, out, reader, writer, publisher, closer, keeper, shown>>
    BY <1>1 DEF ConnectionEnds
  <2>3. Teardown'
    BY <2>1, <2>2 DEF Teardown
  <2> QED BY <2>1, <2>2, <2>3, QuietKeeps
<1>2. CASE ReadPing
  <2>1. Teardown'
    BY <1>2 DEF ReadPing, Teardown
  <2> QED BY <1>2, <2>1, QuietKeeps DEF ReadPing
<1>3. CASE PingDue
  <2>1. Teardown'
    BY <1>3 DEF PingDue, Teardown
  <2> QED BY <1>3, <2>1, QuietKeeps DEF PingDue
<1> QED BY <1>1, <1>2, <1>3

(* A message is appended that is a pong or follows all that is under way. *)
LEMMA AppendKeeps ==
    ASSUME SocketInv, NEW m \in Nat, Room, out' = Append(out, m), m <= data.version,
           UNCHANGED <<data, writer, shown>>,
           Follows(m, shown), Follows(m, writer.message), \A k \in 1..Len(out) : Follows(m, out[k]),
           publisher'.message \in Nat, Follows(publisher'.message, m), publisher'.message <= data.version,
           publisher'.message \in {0, publisher.message}
    PROVE  /\ out' \in Seq(Nat) /\ NotAhead' /\ ViewInOrder' /\ Queued'
           /\ UnderWay \/ m = data.version => UnderWay'
<1>1. /\ out' \in Seq(Nat) /\ Len(out') = Len(out) + 1 /\ Len(out) \in Nat
      /\ \A k \in 1..Len(out') : out'[k] = IF k = Len(out) + 1 THEN m ELSE out[k]
      /\ out'[Len(out) + 1] = m /\ \A k \in 1..Len(out) : out'[k] = out[k]
  BY SMTT(30) DEF SocketInv, SocketTypes
<1>2. Queued'
  BY SMTT(30), <1>1, SocketAssumption DEF Room, Queued
<1>3. NotAhead'
  BY SMTT(30), <1>1 DEF SocketInv, SocketTypes, NotAhead
<1>4. \A k \in 1..Len(out') : Follows(out'[k], shown) /\ Follows(out'[k], writer.message)
                              /\ Follows(publisher'.message, out'[k])
  BY SMTT(30), <1>1 DEF SocketInv, SocketTypes, ViewInOrder, Follows
<1>5. \A j, k \in 1..Len(out') : j < k => Follows(out'[k], out'[j])
  BY SMTT(30), <1>1 DEF SocketInv, SocketTypes, ViewInOrder, Follows
<1>6. /\ Follows(writer.message, shown) /\ Follows(publisher'.message, shown)
      /\ Follows(publisher'.message, writer.message)
  BY SMTT(30) DEF SocketInv, SocketTypes, ViewInOrder, Follows
<1>7. ViewInOrder'
  BY <1>4, <1>5, <1>6 DEF ViewInOrder, Follows
<1>8. ASSUME UnderWay \/ m = data.version PROVE UnderWay'
  <2>1. CASE m = data.version
    <3>1. Len(out) + 1 \in 1..Len(out') /\ out'[Len(out) + 1] = data'.version
      BY SMTT(30), <1>1, <2>1
    <3> QED BY <3>1 DEF UnderWay
  <2>2. CASE UnderWay
    <3>1. CASE shown = data.version \/ writer.message = data.version
      BY <3>1 DEF UnderWay
    <3>2. ASSUME NEW k \in 1..Len(out), out[k] = data.version PROVE UnderWay'
      <4>1. k \in 1..Len(out') /\ out'[k] = data'.version
        BY SMTT(30), <1>1, <3>2
      <4> QED BY <4>1 DEF UnderWay
    <3> QED BY <2>2, <3>1, <3>2 DEF UnderWay
  <2> QED BY <1>8, <2>1, <2>2
<1> QED BY <1>1, <1>2, <1>3, <1>7, <1>8

(* The reader and the handler it is part of. *)
LEMMA ReaderKeeps ==
    ASSUME SocketInv, QueuePong \/ ReaderStops \/ HandlerReturns
    PROVE  SocketInv'
<1> USE DEF SocketInv, SocketTypes
<1>1. CASE QueuePong
  <2>1. /\ out' = Append(out, 0) /\ Room /\ reader' = "read" /\ reader = "pong"
        /\ UNCHANGED <<splan, sock, data, writer, publisher, closer, keeper, shown>>
    BY <1>1 DEF QueuePong
  <2>2. /\ 0 \in Nat /\ 0 <= data.version /\ publisher.message \in Nat /\ Follows(publisher.message, 0)
        /\ publisher.message <= data.version
        /\ \A v \in Nat : Follows(0, v)
    BY SMTT(30) DEF NotAhead, Follows
  <2>3. /\ out' \in Seq(Nat) /\ NotAhead' /\ ViewInOrder' /\ Queued' /\ (UnderWay => UnderWay')
    <3> HIDE DEF SocketInv
    <3>1. \A k \in 1..Len(out) : Follows(0, out[k])
      BY DEF Follows
    <3>2. Follows(0, shown) /\ Follows(0, writer.message)
      BY DEF Follows
    <3> QED BY <2>1, <2>2, <3>1, <3>2, AppendKeeps
  <2>4. SocketTypes' /\ Holding' /\ Fresh' /\ Teardown'
    BY <2>1, <2>3 DEF Holding, Fresh, Teardown
  <2>5. Delivers'
    BY <2>1, <2>3 DEF Delivers
  <2> QED BY <2>3, <2>4, <2>5
<1>2. CASE ReaderStops
  <2>1. Teardown'
    BY <1>2 DEF ReaderStops, Teardown
  <2>2. sock' \in [open : BOOLEAN, cancelled : BOOLEAN, peer : {"ok", "stuck", "gone"}]
    BY <1>2 DEF ReaderStops
  <2> QED BY <1>2, <2>1, <2>2, QuietKeeps DEF ReaderStops
<1>3. CASE HandlerReturns
  <2>1. Teardown'
    BY <1>3 DEF HandlerReturns, Joins, Teardown
  <2> QED BY <1>3, <2>1, QuietKeeps DEF HandlerReturns
<1> QED BY <1>1, <1>2, <1>3

(* The writer takes the head of the queue: what follows it stays behind it.  *)
LEMMA TakeKeeps == ASSUME SocketInv, TakeMessage PROVE SocketInv'
<1> USE DEF SocketTypes
<1>1. /\ writer' = [pc |-> "write", message |-> Head(out)] /\ out' = Tail(out) /\ out # <<>>
      /\ writer.pc = "idle" /\ UNCHANGED <<splan, sock, data, reader, publisher, closer, keeper, shown>>
  BY DEF TakeMessage
<1>2. /\ Head(out) = out[1] /\ Len(out) >= 1 /\ Len(out) \in Nat /\ out[1] \in Nat /\ 1 \in 1..Len(out)
      /\ writer'.message = out[1] /\ writer'.pc = "write"
  BY SMTT(30), <1>1 DEF SocketInv
<1>3. /\ out' \in Seq(Nat) /\ Len(out') = Len(out) - 1
      /\ \A k \in 1..Len(out') : out'[k] = out[k + 1] /\ k + 1 \in 1..Len(out)
  BY SMTT(30), <1>1 DEF SocketInv
<1>4. NotAhead' /\ Queued'
  BY SMTT(30), <1>1, <1>2, <1>3, SocketAssumption DEF SocketInv, NotAhead, Queued
<1>5. SocketTypes' /\ Teardown' /\ Holding' /\ Fresh'
  BY <1>1, <1>2, <1>3 DEF SocketInv, Teardown, Holding, Fresh
<1>6. ViewInOrder'
  <2>0. /\ \A k \in 1..Len(out) :
              Follows(out[k], shown) /\ Follows(out[k], writer.message) /\ Follows(publisher.message, out[k])
        /\ \A j, k \in 1..Len(out) : j < k => Follows(out[k], out[j])
    BY DEF SocketInv, ViewInOrder
  <2>1. ASSUME NEW k \in 1..Len(out')
        PROVE  Follows(out'[k], shown) /\ Follows(out'[k], writer'.message) /\ Follows(publisher.message, out'[k])
    <3>1. out'[k] = out[k + 1] /\ k + 1 \in 1..Len(out)
      BY <1>3
    <3>2. 1 < k + 1
      BY SMTT(30), <1>3
    <3>3. Follows(out[k + 1], shown) /\ Follows(out[k + 1], out[1]) /\ Follows(publisher.message, out[k + 1])
      BY <1>2, <2>0, <3>1, <3>2
    <3> QED BY <1>2, <3>1, <3>3
  <2>2. ASSUME NEW j \in 1..Len(out'), NEW k \in 1..Len(out'), j < k PROVE Follows(out'[k], out'[j])
    <3>1. out'[k] = out[k + 1] /\ k + 1 \in 1..Len(out) /\ out'[j] = out[j + 1] /\ j + 1 \in 1..Len(out)
      BY <1>3
    <3>2. j + 1 < k + 1
      BY SMTT(30), <1>3, <2>2
    <3> QED BY <2>0, <3>1, <3>2
  <2>3. /\ Follows(writer'.message, shown) /\ Follows(publisher.message, shown)
        /\ Follows(publisher.message, writer'.message)
    BY SMTT(30), <1>2 DEF SocketInv, ViewInOrder, Follows
  <2> QED BY <1>1, <2>1, <2>2, <2>3 DEF ViewInOrder, Follows
<1>7. ASSUME UnderWay PROVE UnderWay'
  <2>1. CASE shown = data.version
    BY <1>1, <2>1 DEF UnderWay
  <2>2. CASE writer.message = data.version
    <3>1. shown = data.version
      BY SMTT(30), <1>1, <2>2 DEF SocketInv, Holding, NotAhead
    <3> QED BY <1>1, <3>1 DEF UnderWay
  <2>3. ASSUME NEW k \in 1..Len(out), out[k] = data.version PROVE UnderWay'
    <3>1. CASE k = 1
      BY <1>1, <1>2, <2>3, <3>1 DEF UnderWay
    <3>2. CASE k # 1
      <4>1. k - 1 \in 1..Len(out') /\ out'[k - 1] = data.version
        BY SMTT(30), <1>2, <1>3, <2>3, <3>2
      <4> QED BY <1>1, <4>1 DEF UnderWay
    <3> QED BY <3>1, <3>2
  <2> QED BY <1>7, <2>1, <2>2, <2>3 DEF UnderWay
<1>8. Delivers'
  BY <1>1, <1>2, <1>7 DEF SocketInv, Delivers
<1> QED BY <1>4, <1>5, <1>6, <1>8 DEF SocketInv

(* A message reaches the browser. *)
LEMMA WriteKeeps == ASSUME SocketInv, WriteJSON PROVE SocketInv'
<1> USE DEF SocketTypes
<1>1. /\ writer' = [pc |-> "idle", message |-> 0] /\ writer.pc = "write"
      /\ shown' = IF writer.message = 0 THEN shown ELSE writer.message
      /\ UNCHANGED <<splan, sock, data, out, reader, publisher, closer, keeper>>
  BY DEF WriteJSON
<1>2. writer'.message = 0 /\ writer'.pc = "idle" /\ shown' \in Nat /\ shown' <= data.version
  BY SMTT(30), <1>1 DEF SocketInv, NotAhead
<1>3. SocketTypes' /\ Teardown' /\ Holding' /\ Fresh' /\ Queued'
  BY <1>1, <1>2 DEF SocketInv, Teardown, Holding, Fresh, Queued
<1>4. NotAhead'
  BY SMTT(30), <1>1, <1>2 DEF SocketInv, NotAhead
<1>5. ViewInOrder'
  BY SMTT(30), <1>1, <1>2 DEF SocketInv, ViewInOrder, Follows
<1>6. ASSUME UnderWay PROVE UnderWay'
  <2>1. CASE shown = data.version \/ writer.message = data.version
    <3>1. shown' = data.version
      BY SMTT(30), <1>1, <2>1 DEF SocketInv, ViewInOrder, Follows, NotAhead
    <3> QED BY <1>1, <3>1 DEF UnderWay
  <2>2. CASE \E k \in 1..Len(out) : out[k] = data.version
    BY <1>1, <2>2 DEF UnderWay
  <2> QED BY <1>6, <2>1, <2>2 DEF UnderWay
<1>7. Delivers'
  BY <1>1, <1>6 DEF SocketInv, Delivers
<1> QED BY <1>3, <1>4, <1>5, <1>7 DEF SocketInv

(* The writer ends, and nothing is owed any more. *)
LEMMA WriterEndKeeps ==
    ASSUME SocketInv, writer' = [pc |-> "done", message |-> 0],
           sock' \in [open : BOOLEAN, cancelled : BOOLEAN, peer : {"ok", "stuck", "gone"}],
           sock.open = FALSE => sock'.open = FALSE,
           UNCHANGED <<data, out, reader, publisher, closer, keeper, shown>>
    PROVE  SocketInv'
<1> USE DEF SocketTypes
<1>1. writer'.message = 0 /\ writer'.pc = "done"
  OBVIOUS
<1>2. SocketTypes' /\ Teardown' /\ Holding' /\ Fresh' /\ Queued' /\ Delivers'
  BY <1>1 DEF SocketInv, Teardown, Holding, Fresh, Queued, Delivers
<1>3. NotAhead' /\ ViewInOrder'
  BY SMTT(30), <1>1 DEF SocketInv, NotAhead, ViewInOrder, Follows
<1> QED BY <1>2, <1>3 DEF SocketInv

(* The writer, the goroutine that closes the socket, and the keepalive. *)
LEMMA WriterKeeps ==
    ASSUME SocketInv, \/ TakeMessage \/ WriteJSON \/ WriteFails \/ WriterStops \/ CloseSocketWhenDone
                      \/ WriteControl \/ PingFails \/ KeepaliveStops
    PROVE  SocketInv'
<1> USE DEF SocketInv, SocketTypes
<1>1. CASE TakeMessage
  BY <1>1, TakeKeeps
<1>2. CASE WriteJSON
  BY <1>2, WriteKeeps
<1>3. CASE WriteFails
  <2>1. /\ sock' \in [open : BOOLEAN, cancelled : BOOLEAN, peer : {"ok", "stuck", "gone"}]
        /\ sock'.open = FALSE
    BY <1>3 DEF WriteFails
  <2> QED BY <1>3, <2>1, WriterEndKeeps DEF WriteFails
<1>4. CASE WriterStops
  BY <1>4, WriterEndKeeps DEF WriterStops
<1>5. CASE CloseSocketWhenDone
  <2>1. Teardown' /\ sock' \in [open : BOOLEAN, cancelled : BOOLEAN, peer : {"ok", "stuck", "gone"}]
    BY <1>5 DEF CloseSocketWhenDone, Teardown
  <2> QED BY <1>5, <2>1, QuietKeeps DEF CloseSocketWhenDone
<1>6. CASE WriteControl
  <2>1. Teardown'
    BY <1>6 DEF WriteControl, Teardown
  <2> QED BY <1>6, <2>1, QuietKeeps DEF WriteControl
<1>7. CASE PingFails
  <2>1. Teardown' /\ sock' \in [open : BOOLEAN, cancelled : BOOLEAN, peer : {"ok", "stuck", "gone"}]
    BY <1>7 DEF PingFails, Teardown
  <2> QED BY <1>7, <2>1, QuietKeeps DEF PingFails
<1>8. CASE KeepaliveStops
  <2>1. Teardown'
    BY <1>8 DEF KeepaliveStops, Teardown
  <2> QED BY <1>8, <2>1, QuietKeeps DEF KeepaliveStops
<1> QED BY <1>1, <1>2, <1>3, <1>4, <1>5, <1>6, <1>7, <1>8

(* A step of the publisher that queues nothing. *)
LEMMA PublisherQuiet ==
    ASSUME SocketInv, UNCHANGED <<sock, out, reader, writer, closer, keeper, shown>>,
           publisher' \in [pc : {"subscribe", "read", "queue", "idle", "done"}, message : Nat],
           data' \in [version : Nat, told : BOOLEAN, joined : BOOLEAN], data'.version = data.version,
           publisher'.message \in {0, data.version}, publisher'.pc # "queue" => publisher'.message = 0,
           Fresh', publisher'.pc # "idle", publisher'.pc = "done" => data'.joined = FALSE,
           publisher.pc # "done"
    PROVE  SocketInv'
<1> USE DEF SocketTypes
<1>1. SocketTypes' /\ Teardown' /\ Holding' /\ Queued' /\ Delivers'
  BY DEF SocketInv, Teardown, Holding, Queued, Delivers
<1>2. NotAhead' /\ ViewInOrder'
  BY SMTT(30) DEF SocketInv, NotAhead, ViewInOrder, Follows
<1> QED BY <1>1, <1>2 DEF SocketInv

(* The publisher. *)
LEMMA PublisherKeeps ==
    ASSUME SocketInv, Subscribe \/ ReadData \/ QueueUpdate \/ ReceiveUpdate \/ PublisherStops
    PROVE  SocketInv'
<1> USE DEF SocketTypes, Publisher
<1>1. CASE Subscribe
  <2>1. /\ publisher' = [publisher EXCEPT !.pc = "read"] /\ data' = [data EXCEPT !.joined = TRUE]
        /\ publisher.pc = "subscribe" /\ UNCHANGED <<sock, out, reader, writer, closer, keeper, shown>>
    BY <1>1 DEF Subscribe
  <2>2. /\ data' \in [version : Nat, told : BOOLEAN, joined : BOOLEAN]
        /\ data'.version = data.version /\ data'.joined = TRUE
    BY <2>1 DEF SocketInv
  <2>3. /\ publisher' \in [pc : {"subscribe", "read", "queue", "idle", "done"}, message : Nat]
        /\ publisher'.pc = "read" /\ publisher'.message = 0
    BY <2>1 DEF SocketInv, Holding
  <2>4. Fresh'
    BY <2>2, <2>3 DEF Fresh
  <2> QED BY <2>1, <2>2, <2>3, <2>4, PublisherQuiet
<1>2. CASE ReadData
  <2>1. /\ publisher' = [pc |-> "queue", message |-> data.version] /\ data' = data
        /\ publisher.pc = "read" /\ UNCHANGED <<sock, out, reader, writer, closer, keeper, shown>>
    BY <1>2 DEF ReadData
  <2>2. /\ publisher' \in [pc : {"subscribe", "read", "queue", "idle", "done"}, message : Nat]
        /\ publisher'.pc = "queue" /\ publisher'.message = data.version
    BY <2>1 DEF SocketInv
  <2>3. Fresh'
    BY <2>1, <2>2 DEF SocketInv, Fresh
  <2> QED BY <2>1, <2>2, <2>3, PublisherQuiet DEF SocketInv
<1>3. CASE QueueUpdate
  <2>1. /\ out' = Append(out, publisher.message) /\ Room /\ data' = data
        /\ publisher' = [pc |-> "idle", message |-> 0] /\ publisher.pc = "queue"
        /\ UNCHANGED <<splan, sock, reader, writer, closer, keeper, shown>>
    BY <1>3 DEF QueueUpdate
  <2>2. /\ publisher'.message = 0 /\ publisher'.pc = "idle" /\ publisher.message \in Nat
        /\ publisher.message <= data.version /\ data.version \in Nat
    BY <2>1 DEF SocketInv, NotAhead
  <2>3. /\ publisher'.message \in Nat /\ publisher'.message <= data.version
        /\ Follows(publisher'.message, publisher.message)
    BY SMTT(30), <2>2 DEF Follows
  <2>4. /\ Follows(publisher.message, shown) /\ Follows(publisher.message, writer.message)
        /\ \A k \in 1..Len(out) : Follows(publisher.message, out[k])
    BY DEF SocketInv, ViewInOrder
  <2>5. /\ out' \in Seq(Nat) /\ NotAhead' /\ ViewInOrder' /\ Queued'
        /\ (publisher.message = data.version => UnderWay')
    BY <2>1, <2>2, <2>3, <2>4, AppendKeeps
  <2>6. SocketTypes' /\ Teardown' /\ Holding' /\ Fresh'
    BY <2>1, <2>2, <2>5 DEF SocketInv, Teardown, Holding, Fresh
  <2>7. Delivers'
    BY <2>1, <2>5 DEF SocketInv, Fresh, Delivers
  <2> QED BY <2>5, <2>6, <2>7 DEF SocketInv
<1>4. CASE ReceiveUpdate
  <2>1. /\ publisher' = [publisher EXCEPT !.pc = "read"] /\ data' = [data EXCEPT !.told = FALSE]
        /\ publisher.pc = "idle" /\ UNCHANGED <<sock, out, reader, writer, closer, keeper, shown>>
    BY <1>4 DEF ReceiveUpdate
  <2>2. /\ data' \in [version : Nat, told : BOOLEAN, joined : BOOLEAN]
        /\ data'.version = data.version /\ data'.joined = data.joined
    BY <2>1 DEF SocketInv
  <2>3. /\ publisher' \in [pc : {"subscribe", "read", "queue", "idle", "done"}, message : Nat]
        /\ publisher'.pc = "read" /\ publisher'.message = 0
    BY <2>1 DEF SocketInv, Holding
  <2>4. Fresh'
    BY <2>1, <2>2, <2>3 DEF SocketInv, Fresh
  <2> QED BY <2>1, <2>2, <2>3, <2>4, PublisherQuiet
<1>5. CASE PublisherStops
  <2>1. /\ publisher' = [pc |-> "done", message |-> 0]
        /\ data' = [data EXCEPT !.joined = FALSE, !.told = FALSE]
        /\ publisher.pc \in {"idle", "queue"}
        /\ UNCHANGED <<splan, sock, out, reader, writer, closer, keeper, shown>>
    BY <1>5 DEF PublisherStops
  <2>2. /\ data' \in [version : Nat, told : BOOLEAN, joined : BOOLEAN]
        /\ data'.joined = FALSE /\ data'.version = data.version
    BY <2>1 DEF SocketInv
  <2>3. /\ publisher' \in [pc : {"subscribe", "read", "queue", "idle", "done"}, message : Nat]
        /\ publisher'.message = 0 /\ publisher'.pc = "done"
    BY <2>1
  <2>4. Fresh'
    BY <2>3 DEF Fresh
  <2> QED BY <2>1, <2>2, <2>3, <2>4, PublisherQuiet
<1> QED BY <1>1, <1>2, <1>3, <1>4, <1>5

(* The invariant holds always: publishDashboardVMUpdates, the writer, the    *)
(* closer, the keepalive and the read loop keep it in every interleaving.    *)
THEOREM SocketInvariant == SocketSpec => []SocketInv
<1>1. ASSUME SocketInv, [SocketNext]_socketVars PROVE SocketInv'
  <2>1. CASE UNCHANGED socketVars
    <3>1. UNCHANGED <<sock, data, out, reader, writer, publisher, closer, keeper, shown>> /\ Teardown'
      BY <1>1, <2>1 DEF socketVars, SocketInv, Teardown
    <3> QED BY <1>1, <3>1, QuietKeeps DEF SocketInv, SocketTypes
  <2>2. CASE SocketNext
    BY <1>1, <2>2, ChangeKeeps, EnvironmentKeeps, ReaderKeeps, WriterKeeps, PublisherKeeps DEF SocketNext, SocketWork
  <2> QED BY <1>1, <2>1, <2>2
<1> QED BY <1>1, SocketInitInv, PTL DEF SocketSpec

(* publishDashboardVMUpdates and writeDashboardMessages: no change of the    *)
(* data is missed, and what is on its way to the browser is in order.        *)
THEOREM SocketMissesNothing == SocketSpec => [](ViewInOrder /\ NothingMissed)
<1>1. SocketInv => ViewInOrder /\ NothingMissed
  BY DEF SocketInv, SocketTypes, Delivers, UnderWay, NothingMissed
<1> QED BY <1>1, SocketInvariant, PTL

(* bridgeDashboardControlSocketForView: however a connection ends, its       *)
(* handler returns only when the socket is closed, the subscription gone and *)
(* writer, publisher and closer are done; only the keepalive may still run.  *)
THEOREM SocketLeavesNothing == SocketSpec => []NothingLeft
<1>1. SocketInv => NothingLeft
  BY DEF SocketInv, SocketTypes, Teardown, NothingLeft
<1> QED BY <1>1, SocketInvariant, PTL

(* dashboardOutboundQueue and queueDashboardDataUpdate: the queue keeps its  *)
(* limit, and the browser never shows a version newer than the data.         *)
THEOREM SocketBounded == SocketSpec => []SocketTypeOK
<1>1. SocketInv => SocketTypeOK
  BY DEF SocketInv, NotAhead, Queued, SocketTypeOK
<1> QED BY <1>1, SocketInvariant, PTL

\* What a dashboard connection promises, for every queue limit and every plan: the
\* queue keeps its limit, the browser's view follows the data in order and misses no
\* change, and a handler that has returned leaves a closed socket, no subscription and
\* none of the goroutines it waits for.
THEOREM SocketSound == SocketSpec => []ConnectionSound
<1>1. SocketTypeOK /\ (ViewInOrder /\ NothingMissed) /\ NothingLeft => ConnectionSound
  BY DEF ConnectionSound
<1> QED BY <1>1, SocketMissesNothing, SocketLeavesNothing, SocketBounded, PTL

=============================================================================
