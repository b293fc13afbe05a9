----------------------------- MODULE EventQueue -----------------------------
(***************************************************************************)
(* SauronAgent/internal/queue: the bounded ring between the collection     *)
(* stages and the sender, and the sequencer that numbers what enters it.   *)
(* Every action is one critical section of Queue.mu (and of submitMu for   *)
(* Submit and ResumeNumbering), so TLC interleaves producers, the loss     *)
(* reporter and any number of consumers as the scheduler may.              *)
(*                                                                         *)
(* An event is its sequence number.  0 stands for the nil slot and for     *)
(* "no sequence", as in the code.  The notify channel is the number of     *)
(* times it has been closed and replaced: a consumer parked on an older    *)
(* number holds a closed channel.                                          *)
(***************************************************************************)
EXTENDS Integers, Sequences, FiniteSets

CONSTANTS Capacity,   \* len(q.buf)
          Consumers,  \* goroutines that call Get
          MaxSeq      \* bound: the last sequence number the model issues

ASSUME CapacityAssumption == Capacity \in Nat \ {0}
ASSUME MaxSeqAssumption == MaxSeq \in Nat
ASSUME ConsumersAssumption == IsFiniteSet(Consumers)

VARIABLES buf, head, n,      \* the ring
          closed,
          notify, waiters,   \* generation of the channel, parked consumers
          dropped, firstMissing, lastMissing,  \* accounting since the drain
          next,              \* sequencer.next
          pc, wait,          \* per consumer: where Get is, channel it waits on
          issued,            \* history: numbers assigned so far
          taken,             \* history: numbers handed out, in order
          missing,           \* history: numbers dropped since the last drain
          reported           \* history: numbers dropped and drained

ring == <<buf, head, n>>
overflow == <<dropped, firstMissing, lastMissing, missing>>
consumer == <<pc, wait, waiters>>
stream == <<next, issued>>
vars == <<ring, closed, notify, consumer, overflow, stream, taken, reported>>

Slots == 0 .. Capacity - 1

\* The slot i places after slot h.
At(h, i) == (h + i) % Capacity

\* The k slots of ring b from slot h on; the ring's contents, oldest first.
Window(b, h, k) == [i \in 1 .. k |-> b[At(h, i - 1)]]

Contents == Window(buf, head, n)

Elements(seq) == {seq[i] : i \in DOMAIN seq}

Init ==
  /\ buf = [i \in Slots |-> 0] /\ head = 0 /\ n = 0
  /\ closed = FALSE
  /\ notify = 0 /\ waiters = 0
  /\ dropped = 0 /\ firstMissing = 0 /\ lastMissing = 0
  /\ next = 1 /\ issued = {}
  /\ pc = [c \in Consumers |-> "out"]
  /\ wait = [c \in Consumers |-> 0]
  /\ taken = <<>> /\ missing = {} /\ reported = {}
-----------------------------------------------------------------------------
\* Faulty variant: the low end of the range is the latest drop, not the lowest.
FaultyRecordDrop(s) ==
  /\ dropped' = dropped + 1
  /\ firstMissing' = s
  /\ lastMissing' = IF s > lastMissing THEN s ELSE lastMissing
  /\ missing' = missing \cup {s}

recordDropLocked(s) ==
  /\ dropped' = dropped + 1
  /\ firstMissing' = IF s # 0 /\ (firstMissing = 0 \/ s < firstMissing)
                     THEN s ELSE firstMissing
  /\ lastMissing' = IF s > lastMissing THEN s ELSE lastMissing
  /\ missing' = missing \cup {s}

\* Faulty variant: only a close, never a Put, wakes the parked consumers.
FaultyWakeLocked == notify' = notify

wakeLocked == notify' = IF waiters = 0 THEN notify ELSE notify + 1

\* Put on a closed queue stores nothing and counts the event.
PutClosed(s) ==
  /\ closed
  /\ recordDropLocked(s)
  /\ UNCHANGED <<ring, notify>>

PutRoom(s) ==
  /\ ~closed /\ n < Capacity
  /\ buf' = [buf EXCEPT ![At(head, n)] = s]
  /\ n' = n + 1
  /\ wakeLocked
  /\ UNCHANGED <<head, overflow>>

\* Faulty variant: the newest stored event makes room instead of the oldest,
\* and the head moves all the same.
FaultyPutFullOrder(s) ==
  /\ ~closed /\ n = Capacity
  /\ recordDropLocked(buf[At(head, n - 1)])
  /\ head' = At(head, 1)
  /\ buf' = [buf EXCEPT ![At(head, n - 1)] = s]
  /\ wakeLocked
  /\ UNCHANGED n

\* A full ring: the freed slot is the one the new event takes.
PutFull(s) ==
  /\ ~closed /\ n = Capacity
  /\ recordDropLocked(buf[head])
  /\ head' = At(head, 1)
  /\ buf' = [buf EXCEPT ![head] = 0,
                        ![At(At(head, 1), n - 1)] = s]
  /\ wakeLocked
  /\ UNCHANGED n

Put(s) ==
  /\ PutClosed(s) \/ PutRoom(s) \/ PutFull(s)
  /\ UNCHANGED <<closed, consumer, taken, reported>>

\* Agent.submit: number the event and queue it, under submitMu.
Submit ==
  /\ next <= MaxSeq
  /\ next' = next + 1
  /\ issued' = issued \cup {next}
  /\ Put(next)

\* Agent.resumeNumbering: the host already holds everything through h.
ResumeNumbering(h) ==
  /\ h + 1 > next /\ h < MaxSeq
  /\ next' = h + 1
  /\ UNCHANGED <<issued, ring, closed, notify, consumer, overflow, taken, reported>>

popLocked ==
  /\ n > 0
  /\ taken' = Append(taken, buf[head])
  /\ buf' = [buf EXCEPT ![head] = 0]
  /\ head' = At(head, 1)
  /\ n' = n - 1

\* The locked section of Get's loop: pop, or give up, or park.
GetPop(c) ==
  /\ pc[c] \in {"out", "loop"}
  /\ popLocked
  /\ pc' = [pc EXCEPT ![c] = "out"]
  /\ UNCHANGED <<closed, notify, waiters, wait, overflow, stream, reported>>

GetClosed(c) ==
  /\ pc[c] \in {"out", "loop"}
  /\ n = 0 /\ closed
  /\ pc' = [pc EXCEPT ![c] = "ErrClosed"]
  /\ UNCHANGED <<ring, closed, notify, waiters, wait, overflow, stream, taken, reported>>

GetPark(c) ==
  /\ pc[c] \in {"out", "loop"}
  /\ n = 0 /\ ~closed
  /\ pc' = [pc EXCEPT ![c] = "parked"]
  /\ wait' = [wait EXCEPT ![c] = notify]
  /\ waiters' = waiters + 1
  /\ UNCHANGED <<ring, closed, notify, overflow, stream, taken, reported>>

\* The select of Get, and the locked decrement that follows either branch.
GetWoken(c) ==
  /\ pc[c] = "parked" /\ wait[c] # notify
  /\ pc' = [pc EXCEPT ![c] = "loop"]
  /\ waiters' = waiters - 1
  /\ UNCHANGED <<ring, closed, notify, wait, overflow, stream, taken, reported>>

GetCancelled(c) ==
  /\ pc[c] = "parked"
  /\ pc' = [pc EXCEPT ![c] = "out"]
  /\ waiters' = waiters - 1
  /\ UNCHANGED <<ring, closed, notify, wait, overflow, stream, taken, reported>>

TryGet ==
  /\ popLocked
  /\ UNCHANGED <<closed, notify, consumer, overflow, stream, reported>>

DrainOverflow ==
  /\ dropped # 0
  /\ dropped' = 0 /\ firstMissing' = 0 /\ lastMissing' = 0
  /\ missing' = {}
  /\ reported' = reported \cup missing
  /\ UNCHANGED <<ring, closed, notify, consumer, stream, taken>>

\* Faulty variant: Close tells no parked consumer.
FaultyClose ==
  /\ ~closed
  /\ closed' = TRUE
  /\ UNCHANGED <<ring, notify, consumer, overflow, stream, taken, reported>>

\* Close wakes every parked consumer, whether or not waiters is zero.
Close ==
  /\ ~closed
  /\ closed' = TRUE
  /\ notify' = notify + 1
  /\ UNCHANGED <<ring, consumer, overflow, stream, taken, reported>>

Next ==
  \/ Submit \/ TryGet \/ DrainOverflow \/ Close
  \/ \E h \in 1 .. MaxSeq : ResumeNumbering(h)
  \/ \E c \in Consumers :
       GetPop(c) \/ GetClosed(c) \/ GetPark(c) \/ GetWoken(c) \/ GetCancelled(c)

Spec == Init /\ [][Next]_vars

\* Consumers that stay in Get: the Go scheduler runs a runnable goroutine
\* eventually.  Nothing is assumed of producers, cancellation or Close.
Serve(c) == GetPop(c) \/ GetClosed(c) \/ GetPark(c) \/ GetWoken(c)

FairSpec == Spec /\ \A c \in Consumers : WF_vars(Serve(c))
-----------------------------------------------------------------------------
TypeOK ==
  /\ buf \in [Slots -> 0 .. MaxSeq] /\ head \in Slots /\ n \in 0 .. Capacity
  /\ closed \in BOOLEAN
  /\ notify \in Nat /\ waiters \in Nat
  /\ dropped \in Nat /\ firstMissing \in 0 .. MaxSeq /\ lastMissing \in 0 .. MaxSeq
  /\ next \in 1 .. MaxSeq + 1 /\ issued \in SUBSET (1 .. MaxSeq)
  /\ pc \in [Consumers -> {"out", "loop", "parked", "ErrClosed"}]
  /\ wait \in [Consumers -> Nat]
  /\ taken \in Seq(1 .. MaxSeq)
  /\ missing \in SUBSET (1 .. MaxSeq) /\ reported \in SUBSET (1 .. MaxSeq)

(***************************************************************************)
(* A consumer still parked on the current channel has nothing to miss: the *)
(* queue is empty and open.  Put skips the wake-up when waiters is zero    *)
(* (queue.go:275), so this also needs waiters to count every goroutine     *)
(* between its park and its wake-up.                                       *)
(***************************************************************************)
NoLostWakeup ==
  \A c \in Consumers :
    pc[c] = "parked" /\ wait[c] = notify => n = 0 /\ ~closed

(***************************************************************************)
(* What DrainOverflow would return names the losses since the last drain:  *)
(* how many, and the lowest and the highest number (queue.go:205).         *)
(***************************************************************************)
OverflowNamed ==
  /\ dropped = Cardinality(missing)
  /\ missing # {} =>
       /\ {firstMissing, lastMissing} \subseteq missing
       /\ \A s \in missing : firstMissing <= s /\ s <= lastMissing

(***************************************************************************)
(* Every number ever issued is queued, handed out, awaiting a loss report, *)
(* or in one: an event produced after Close (queue.go:110) or displaced    *)
(* from a full ring never vanishes.                                        *)
(***************************************************************************)
NothingVanishes ==
  issued = Elements(Contents) \cup Elements(taken) \cup missing \cup reported

(***************************************************************************)
(* ... and it is in only one of those places: what was handed out is not   *)
(* also reported lost, and no drop is reported twice.                      *)
(***************************************************************************)
CountedOnce ==
  Cardinality(issued) =
    n + Len(taken) + Cardinality(missing) + Cardinality(reported)

(***************************************************************************)
(* What was handed out, followed by what is still queued, is in the order  *)
(* of the sequence numbers.  The spool refuses a number that is not above  *)
(* the last one it stored (agent.go:558), so a reordering would turn into  *)
(* a loss there.                                                           *)
(***************************************************************************)
StreamOrdered ==
  LET all == taken \o Contents
  IN  \A i, j \in 1 .. Len(all) : i < j => all[i] < all[j]

(***************************************************************************)
(* The ring behaves like a FIFO that gives up its oldest element when full *)
(* and accounts for each loss.                                             *)
(***************************************************************************)
Fifo == INSTANCE LossyFifo WITH items <- Contents, shut <- closed,
                            Numbers <- 1 .. MaxSeq

ImplementsFifo == Fifo!AbstractSpec

(***************************************************************************)
(* As long as some consumer stays in Get, a stored event is handed out or  *)
(* displaced, even if wake-ups, cancellations and Close interleave with    *)
(* its parking.                                                            *)
(***************************************************************************)
StoredIsServed ==
  \A s \in 1 .. MaxSeq : s \in Elements(Contents) ~> s \notin Elements(Contents)

(***************************************************************************)
(* Every parked consumer learns of Close (queue.go:238).                   *)
(***************************************************************************)
CloseReachesConsumers ==
  \A c \in Consumers : closed ~> pc[c] = "ErrClosed"

(* Queue and sequencer: every number that was issued is in exactly one       *)
(* place, queued, taken, missing or reported; what is missing has its count  *)
(* and its ends; and consumers take numbers in order.                        *)
NumbersAccounted == OverflowNamed /\ NothingVanishes /\ CountedOnce /\ StreamOrdered

(* Get: what is stored is served, and Close reaches every consumer.          *)
ConsumersServed == StoredIsServed /\ CloseReachesConsumers
=============================================================================
