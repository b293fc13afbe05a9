-------------------------- MODULE EventQueueProofs --------------------------
(***************************************************************************)
(* Proofs about EventQueue for every capacity, every finite set of         *)
(* consumers and every number of events.                                   *)
(***************************************************************************)
EXTENDS EventQueue, TLAPS, FiniteSetTheorems, SequenceTheorems

\* The default prover is Zenon; SMT is cited where a leaf needs arithmetic.
USE ZenonT(40)

(***************************************************************************)
(* Ring indexes wrap at most once: the remainder in (head + n) % len(buf)  *)
(* (queue.go:129, 135, 251) is a conditional subtraction.                  *)
(***************************************************************************)
LEMMA AtWraps ==
  ASSUME NEW h \in Slots, NEW i \in 0 .. Capacity
  PROVE  /\ At(h, i) \in Slots
         /\ At(h, i) = IF h + i < Capacity THEN h + i ELSE h + i - Capacity
<1>1. h + i \in Int /\ Capacity \in Int /\ Capacity > 0
  BY SMTT(30), CapacityAssumption DEF Slots
<1>2. CASE h + i < Capacity
  <2>1. (h + i) % Capacity = h + i
    BY SMTT(30), <1>1, <1>2 DEF Slots
  <2>2. QED BY SMTT(30), <2>1, <1>1, <1>2 DEF At, Slots
<1>3. CASE h + i >= Capacity
  <2>1. (h + i) % Capacity = h + i - Capacity
    BY SMTT(30), <1>1, <1>3 DEF Slots
  <2>2. QED BY SMTT(30), <2>1, <1>1, <1>3 DEF At, Slots
<1>4. QED BY SMTT(30), <1>1, <1>2, <1>3

(***************************************************************************)
(* Different places in the ring are different slots.                       *)
(***************************************************************************)
LEMMA AtInjective ==
  ASSUME NEW h \in Slots, NEW i \in 0 .. Capacity - 1, NEW j \in 0 .. Capacity - 1,
         i # j
  PROVE  At(h, i) # At(h, j)
<1>1. Capacity \in Nat /\ h \in Int BY SMTT(30), CapacityAssumption DEF Slots
<1>2. i \in 0 .. Capacity /\ j \in 0 .. Capacity BY SMTT(30), <1>1
<1>3. At(h, i) = IF h + i < Capacity THEN h + i ELSE h + i - Capacity
  BY <1>2, AtWraps
<1>4. At(h, j) = IF h + j < Capacity THEN h + j ELSE h + j - Capacity
  BY <1>2, AtWraps
<1>5. QED BY SMTT(30), <1>1, <1>3, <1>4

(***************************************************************************)
(* Stepping the head and then counting is counting one further.            *)
(***************************************************************************)
LEMMA AtStep ==
  ASSUME NEW h \in Slots, NEW i \in 0 .. Capacity - 1
  PROVE  At(h, 1) \in Slots /\ At(At(h, 1), i) = At(h, i + 1)
<1>1. Capacity \in Nat \ {0} /\ h \in 0 .. Capacity - 1
  BY CapacityAssumption DEF Slots
<1>2. 1 \in 0 .. Capacity /\ i \in 0 .. Capacity /\ i + 1 \in 0 .. Capacity BY SMTT(30), <1>1
<1>3. At(h, 1) \in Slots /\ At(h, 1) = IF h + 1 < Capacity THEN h + 1 ELSE h + 1 - Capacity
  BY <1>2, AtWraps
<1>4. At(h, i + 1) = IF h + (i + 1) < Capacity THEN h + (i + 1) ELSE h + (i + 1) - Capacity
  BY <1>2, AtWraps
<1>5. At(At(h, 1), i) =
        IF At(h, 1) + i < Capacity THEN At(h, 1) + i ELSE At(h, 1) + i - Capacity
  BY <1>2, <1>3, AtWraps
<1>6. QED BY SMTT(30), <1>1, <1>3, <1>4, <1>5

(***************************************************************************)
(* A window of the ring is a sequence; its first element is slot h.        *)
(***************************************************************************)
LEMMA WindowIsSeq ==
  ASSUME NEW b \in [Slots -> 0 .. MaxSeq], NEW h \in Slots, NEW k \in 0 .. Capacity
  PROVE  /\ Window(b, h, k) \in Seq(0 .. MaxSeq)
         /\ Len(Window(b, h, k)) = k
         /\ \A i \in 1 .. k : Window(b, h, k)[i] = b[At(h, i - 1)]
         /\ k > 0 => Window(b, h, k) # <<>> /\ Head(Window(b, h, k)) = b[h]
<1>0. k \in Nat /\ Capacity \in Nat BY SMTT(30), CapacityAssumption
<1>1. \A i \in 1 .. k : At(h, i - 1) \in Slots
  <2>1. TAKE i \in 1 .. k
  <2>2. i - 1 \in 0 .. Capacity BY SMTT(30), <1>0
  <2>3. QED BY <2>2, AtWraps
<1>2. \A i \in 1 .. k : b[At(h, i - 1)] \in 0 .. MaxSeq BY <1>1
<1>3. Window(b, h, k) \in Seq(0 .. MaxSeq) /\ Len(Window(b, h, k)) = k
  BY SMTT(30), <1>0, <1>2 DEF Window
<1>4. \A i \in 1 .. k : Window(b, h, k)[i] = b[At(h, i - 1)] BY DEF Window
<1>5. ASSUME k > 0 PROVE Window(b, h, k) # <<>> /\ Head(Window(b, h, k)) = b[h]
  <2>1. h + 0 < Capacity /\ h + 0 = h /\ 0 \in 0 .. Capacity BY SMTT(30), <1>0 DEF Slots
  <2>2. At(h, 0) = h BY <2>1, AtWraps
  <2>3. Window(b, h, k)[1] = b[h] BY SMTT(30), <1>4, <1>5, <1>0, <2>2
  <2>4. QED BY SMTT(30), <2>3, <1>3, <1>5
<1>6. QED BY <1>3, <1>4, <1>5

(***************************************************************************)
(* Clearing slot h and stepping the head removes the oldest element: the   *)
(* ring side of popLocked (queue.go:245).                                  *)
(***************************************************************************)
LEMMA WindowPop ==
  ASSUME NEW b \in [Slots -> 0 .. MaxSeq], NEW h \in Slots, NEW k \in 1 .. Capacity,
         NEW c, c = [b EXCEPT ![h] = 0]
  PROVE  /\ c \in [Slots -> 0 .. MaxSeq]
         /\ At(h, 1) \in Slots
         /\ Window(c, At(h, 1), k - 1) = Tail(Window(b, h, k))
<1> DEFINE g == At(h, 1)
           w == Window(b, h, k)
           v == Window(c, g, k - 1)
<1>1. Capacity \in Nat \ {0} /\ k \in 0 .. Capacity /\ k - 1 \in 0 .. Capacity /\ k \in Nat /\ k > 0
  BY SMTT(30), CapacityAssumption
<1>2. c \in [Slots -> 0 .. MaxSeq] BY SMTT(30), MaxSeqAssumption
<1>3. g \in Slots BY SMTT(30), <1>1, AtStep
<1>4. /\ w \in Seq(0 .. MaxSeq) /\ Len(w) = k /\ w # <<>>
      /\ \A i \in 1 .. k : w[i] = b[At(h, i - 1)]
  BY <1>1, WindowIsSeq
<1>5. /\ v \in Seq(0 .. MaxSeq) /\ Len(v) = k - 1
      /\ \A i \in 1 .. k - 1 : v[i] = c[At(g, i - 1)]
  BY ZenonT(90), <1>1, <1>2, <1>3, WindowIsSeq
<1>6. /\ Tail(w) \in Seq(0 .. MaxSeq) /\ Len(Tail(w)) = k - 1
      /\ \A i \in 1 .. k - 1 : Tail(w)[i] = w[i + 1]
  BY <1>4, HeadTailProperties
<1>7. \A i \in 1 .. k - 1 : v[i] = Tail(w)[i]
  <2>1. SUFFICES ASSUME NEW i \in 1 .. k - 1 PROVE v[i] = Tail(w)[i] OBVIOUS
  <2>2. i - 1 \in 0 .. Capacity - 1 /\ i \in 0 .. Capacity - 1 /\ i # 0 /\ 0 \in 0 .. Capacity - 1
        /\ (i - 1) + 1 = i /\ i + 1 \in 1 .. k /\ (i + 1) - 1 = i /\ i \in 0 .. Capacity
    BY SMTT(30), <1>1
  <2>3. At(g, i - 1) = At(h, i) BY <2>2, AtStep
  <2>4. At(h, 0) = h
    <3>1. h + 0 < Capacity /\ h + 0 = h /\ 0 \in 0 .. Capacity BY SMTT(30), <1>1 DEF Slots
    <3>2. QED BY <3>1, AtWraps
  <2>5. At(h, i) # h BY <2>2, <2>4, AtInjective
  <2>6. At(h, i) \in Slots BY <2>2, AtWraps
  <2>7. c[At(h, i)] = b[At(h, i)] BY <2>5, <2>6
  <2>8. QED BY <2>2, <2>3, <2>7, <1>4, <1>5, <1>6
<1>8. v = Tail(w) BY <1>5, <1>6, <1>7, SeqEqual
<1>9. QED BY <1>2, <1>3, <1>8

(***************************************************************************)
(* Writing the slot past the window appends: the ring side of Put          *)
(* (queue.go:135).                                                         *)
(***************************************************************************)
LEMMA WindowAppend ==
  ASSUME NEW b \in [Slots -> 0 .. MaxSeq], NEW h \in Slots, NEW k \in 0 .. Capacity - 1,
         NEW s \in 0 .. MaxSeq, NEW c \in [Slots -> 0 .. MaxSeq],
         \A j \in Slots : c[j] = IF j = At(h, k) THEN s ELSE b[j]
  PROVE  Window(c, h, k + 1) = Append(Window(b, h, k), s)
<1> DEFINE w == Window(b, h, k)
           v == Window(c, h, k + 1)
<1>1. Capacity \in Nat \ {0} /\ k \in 0 .. Capacity /\ k + 1 \in 0 .. Capacity /\ k \in Nat
  BY SMTT(30), CapacityAssumption
<1>2. c \in [Slots -> 0 .. MaxSeq] OBVIOUS
<1>3. At(h, k) \in Slots BY <1>1, AtWraps
<1>4. /\ w \in Seq(0 .. MaxSeq) /\ Len(w) = k
      /\ \A i \in 1 .. k : w[i] = b[At(h, i - 1)]
  BY <1>1, WindowIsSeq
<1>5. /\ v \in Seq(0 .. MaxSeq) /\ Len(v) = k + 1
      /\ \A i \in 1 .. k + 1 : v[i] = c[At(h, i - 1)]
  BY <1>1, <1>2, WindowIsSeq
<1>6. /\ Append(w, s) \in Seq(0 .. MaxSeq) /\ Len(Append(w, s)) = k + 1
      /\ \A i \in 1 .. k : Append(w, s)[i] = w[i]
      /\ Append(w, s)[k + 1] = s
  BY SMTT(30), <1>1, <1>4, AppendProperties
<1>7. \A i \in 1 .. k + 1 : v[i] = Append(w, s)[i]
  <2>1. SUFFICES ASSUME NEW i \in 1 .. k + 1 PROVE v[i] = Append(w, s)[i] OBVIOUS
  <2>2. CASE i = k + 1
    <3>1. i - 1 = k BY SMTT(30), <2>2, <1>1
    <3>2. v[i] = s BY <1>3, <1>5, <3>1
    <3>3. QED BY <3>2, <2>2, <1>6
  <2>3. CASE i # k + 1
    <3>1. i \in 1 .. k /\ i - 1 \in 0 .. Capacity - 1 /\ i - 1 # k /\ i - 1 \in 0 .. Capacity
      BY SMTT(30), <2>3, <1>1
    <3>2. At(h, i - 1) # At(h, k) /\ At(h, i - 1) \in Slots
      BY <3>1, <1>1, AtInjective, AtWraps
    <3>3. QED BY <3>1, <3>2, <1>4, <1>5, <1>6
  <2>4. QED BY <2>2, <2>3
<1>8. v = Append(w, s) BY <1>5, <1>6, <1>7, SeqEqual
<1>9. QED BY <1>2, <1>8

-----------------------------------------------------------------------------
RingOK ==
  /\ buf \in [Slots -> 0 .. MaxSeq] /\ head \in Slots /\ n \in 0 .. Capacity

(***************************************************************************)
(* What each ring operation does to the sequence it stores.                *)
(***************************************************************************)
LEMMA PopStep ==
  ASSUME RingOK, popLocked
  PROVE  /\ RingOK' /\ n > 0 /\ n' = n - 1
         /\ Contents \in Seq(0 .. MaxSeq) /\ Len(Contents) = n /\ Contents # <<>>
         /\ Contents' = Tail(Contents)
         /\ taken' = Append(taken, Head(Contents))
         /\ Head(Contents) = Contents[1]
<1>1. /\ n \in 1 .. Capacity /\ n \in 0 .. Capacity /\ n' = n - 1 /\ n' \in 0 .. Capacity
      /\ buf' = [buf EXCEPT ![head] = 0] /\ head' = At(head, 1)
  BY SMTT(30), CapacityAssumption DEF RingOK, popLocked
<1>2. buf' \in [Slots -> 0 .. MaxSeq] /\ head' \in Slots /\ Contents' = Tail(Contents)
  BY <1>1, WindowPop DEF RingOK, Contents
<1>3. /\ Contents \in Seq(0 .. MaxSeq) /\ Len(Contents) = n
      /\ Contents # <<>> /\ Head(Contents) = buf[head]
  BY SMTT(30), <1>1, WindowIsSeq DEF RingOK, Contents
<1>4. QED BY SMTT(30), <1>1, <1>2, <1>3 DEF RingOK, popLocked

\* Put with room: the event is appended at the end of the window.
LEMMA PutRoomStep ==
  ASSUME RingOK, NEW s \in 1 .. MaxSeq, PutRoom(s)
  PROVE  /\ RingOK' /\ n < Capacity /\ n' = n + 1
         /\ Contents \in Seq(0 .. MaxSeq) /\ Len(Contents) = n
         /\ Contents' = Append(Contents, s)
<1>1. /\ n \in 0 .. Capacity - 1 /\ n' = n + 1 /\ n' \in 0 .. Capacity /\ head' = head
      /\ buf' = [buf EXCEPT ![At(head, n)] = s] /\ s \in 0 .. MaxSeq
  BY SMTT(30), CapacityAssumption, MaxSeqAssumption DEF RingOK, PutRoom
<1>2. buf' \in [Slots -> 0 .. MaxSeq] /\ Contents' = Append(Contents, s)
  <2>1. buf \in [Slots -> 0 .. MaxSeq] /\ head \in Slots BY DEF RingOK
  <2>4. /\ buf' \in [Slots -> 0 .. MaxSeq]
        /\ \A j \in Slots : buf'[j] = IF j = At(head, n) THEN s ELSE buf[j]
    BY <1>1, <2>1
  <2>2. Window(buf', head, n + 1) = Append(Window(buf, head, n), s)
    <3>1. n \in 0 .. Capacity - 1 /\ s \in 0 .. MaxSeq BY <1>1
    <3>2. \A c \in [Slots -> 0 .. MaxSeq] :
            (\A j \in Slots : c[j] = IF j = At(head, n) THEN s ELSE buf[j])
              => Window(c, head, n + 1) = Append(Window(buf, head, n), s)
      BY ZenonT(90), <3>1, <2>1, WindowAppend
    <3>3. QED BY <3>2, <2>4
  <2>3. QED BY <2>4, <1>1, <2>2 DEF Contents
<1>3. Contents \in Seq(0 .. MaxSeq) /\ Len(Contents) = n
  BY <1>1, WindowIsSeq DEF RingOK, Contents
<1>4. QED BY <1>1, <1>2, <1>3 DEF RingOK, PutRoom

\* Put when full: the oldest event leaves and the new one is appended (queue.go
\* Put, drop-oldest).
LEMMA PutFullStep ==
  ASSUME RingOK, NEW s \in 1 .. MaxSeq, PutFull(s)
  PROVE  /\ RingOK' /\ n = Capacity /\ n' = n /\ n > 0
         /\ Contents \in Seq(0 .. MaxSeq) /\ Len(Contents) = n /\ Contents # <<>>
         /\ Contents' = Append(Tail(Contents), s)
         /\ Head(Contents) = buf[head] /\ Head(Contents) = Contents[1]
<1> DEFINE h == At(head, 1)
<1>0. PICK b : b = [buf EXCEPT ![head] = 0] OBVIOUS
<1>1. /\ n = Capacity /\ n' = n /\ n > 0 /\ n \in 1 .. Capacity /\ n - 1 \in 0 .. Capacity - 1
      /\ (n - 1) + 1 = n /\ s \in 0 .. MaxSeq /\ head' = h
  BY SMTT(30), CapacityAssumption, MaxSeqAssumption DEF RingOK, PutFull
<1>2. b \in [Slots -> 0 .. MaxSeq] /\ h \in Slots /\ Window(b, h, n - 1) = Tail(Contents)
  <2>1. buf \in [Slots -> 0 .. MaxSeq] /\ head \in Slots BY DEF RingOK
  <2>2. b \in [Slots -> 0 .. MaxSeq] /\ h \in Slots
        /\ Window(b, h, n - 1) = Tail(Window(buf, head, n))
    BY ZenonT(90), <1>0, <1>1, <2>1, WindowPop
  <2>3. QED BY <2>2 DEF Contents
<1>3. buf' = [b EXCEPT ![At(h, n - 1)] = s] BY <1>0 DEF PutFull
<1>4. buf' \in [Slots -> 0 .. MaxSeq] /\ Window(buf', h, n) = Append(Tail(Contents), s)
  <2> HIDE DEF h
  <2>4. /\ buf' \in [Slots -> 0 .. MaxSeq]
        /\ \A j \in Slots : buf'[j] = IF j = At(h, n - 1) THEN s ELSE b[j]
    BY <1>1, <1>2, <1>3
  <2>1. Window(buf', h, (n - 1) + 1) = Append(Window(b, h, n - 1), s)
    BY SMTT(30), <1>1, <1>2, <2>4, WindowAppend
  <2>2. QED BY <2>4, <1>1, <1>2, <1>3, <2>1
<1>5. Contents' = Append(Tail(Contents), s) BY <1>1, <1>4 DEF Contents
<1>6. /\ Contents \in Seq(0 .. MaxSeq) /\ Len(Contents) = n /\ Contents # <<>>
      /\ Head(Contents) = buf[head]
  BY <1>1, WindowIsSeq DEF RingOK, Contents
<1>7. QED BY SMTT(30), <1>1, <1>2, <1>4, <1>5, <1>6 DEF RingOK

-----------------------------------------------------------------------------
(***************************************************************************)
(* The order of the stream, in the form an induction needs: every number   *)
(* in sight is below the sequencer's next one, the ring and what was taken *)
(* are increasing, and until Close nothing reported missing is newer than  *)
(* what is still queued.                                                   *)
(***************************************************************************)
Ordered ==
  /\ \A i \in 1 .. n : Contents[i] \in 1 .. next - 1
  /\ \A i, j \in 1 .. n : i < j => Contents[i] < Contents[j]
  /\ \A i \in 1 .. Len(taken) : taken[i] < next
  /\ \A i, j \in 1 .. Len(taken) : i < j => taken[i] < taken[j]
  /\ \A i \in 1 .. Len(taken), j \in 1 .. n : taken[i] < Contents[j]
  /\ \A m \in missing \cup reported \cup issued : m < next
  /\ ~closed => \A m \in missing \cup reported, j \in 1 .. n : m < Contents[j]

Base == TypeOK /\ Ordered

\* The type invariant holds what the ring lemmas need.
LEMMA TypeGivesRing == TypeOK => RingOK
BY DEF TypeOK, RingOK

\* NewEventQueue: an empty ring, nothing taken, numbering at the start.
LEMMA BaseInit == Init => Base
<1> SUFFICES ASSUME Init PROVE Base OBVIOUS
<1> USE CapacityAssumption, MaxSeqAssumption DEF Init
<1>1. buf \in [Slots -> 0 .. MaxSeq] /\ head \in Slots BY SMTT(30) DEF Slots
<1>2. <<>> \in Seq(1 .. MaxSeq) /\ Len(taken) = 0 BY EmptySeq
<1>3. TypeOK BY SMTT(30), <1>1, <1>2 DEF TypeOK
<1>4. Ordered BY SMTT(30), <1>2 DEF Ordered
<1>5. QED BY <1>3, <1>4 DEF Base

\* Submit keeps the numbers in order, whichever way Put ends.
LEMMA BaseSubmit == ASSUME Base, Submit PROVE Base'
<1> USE CapacityAssumption, MaxSeqAssumption
<1>0. TypeOK /\ Ordered /\ RingOK BY TypeGivesRing DEF Base
<1>1. /\ next \in 1 .. MaxSeq /\ next' = next + 1 /\ issued' = issued \cup {next}
      /\ Put(next) /\ UNCHANGED <<closed, pc, wait, waiters, taken, reported>>
  BY SMTT(30), <1>0 DEF Submit, Put, TypeOK, consumer
<1>2. CASE PutClosed(next)
  <2>1. /\ closed /\ recordDropLocked(next) /\ UNCHANGED <<buf, head, n, notify>>
        /\ Contents' = Contents
    BY <1>2 DEF PutClosed, ring, Contents
  <2>2. /\ dropped' \in Nat /\ firstMissing' \in 0 .. MaxSeq /\ lastMissing' \in 0 .. MaxSeq
        /\ missing' = missing \cup {next}
    BY SMTT(30), <1>0, <1>1, <2>1 DEF recordDropLocked, TypeOK
  <2>3. TypeOK' BY SMTT(30), <1>0, <1>1, <2>1, <2>2 DEF TypeOK
  <2>4. Ordered' BY SMTT(30), <1>0, <1>1, <2>1, <2>2 DEF Ordered, TypeOK
  <2>5. QED BY <2>3, <2>4 DEF Base
<1>3. CASE PutRoom(next)
  <2>1. /\ RingOK' /\ n' = n + 1
        /\ Contents \in Seq(0 .. MaxSeq) /\ Len(Contents) = n
        /\ Contents' = Append(Contents, next)
    BY <1>0, <1>1, <1>3, PutRoomStep
  <2>2. /\ \A i \in 1 .. n : Contents'[i] = Contents[i]
        /\ Contents'[n + 1] = next
    BY SMTT(30), <2>1, <1>1, AppendProperties
  <2>3. notify' \in Nat /\ ~closed /\ UNCHANGED <<dropped, firstMissing, lastMissing, missing>>
    BY SMTT(30), <1>0, <1>3 DEF PutRoom, wakeLocked, TypeOK, overflow
  <2>4. TypeOK' BY SMTT(30), <1>0, <1>1, <2>1, <2>3 DEF TypeOK, RingOK
  <2>5. Ordered'
    <3>1. n \in Nat /\ next \in Nat BY SMTT(30), <1>0 DEF RingOK, TypeOK
    <3>2. \A i \in 1 .. n' : (i \in 1 .. n) \/ (i = n + 1) BY SMTT(30), <2>1, <3>1
    <3>3. \A i \in 1 .. n' : Contents'[i] \in 1 .. next' - 1
      BY SMTT(60), <1>0, <1>1, <2>2, <3>1, <3>2 DEF Ordered
    <3>4. \A i, j \in 1 .. n' : i < j => Contents'[i] < Contents'[j]
      BY SMTT(30), <1>0, <1>1, <2>2, <3>1, <3>2 DEF Ordered
    <3>5. \A i \in 1 .. Len(taken) : taken[i] \in Int BY SMTT(30), <1>0 DEF TypeOK
    <3>6. /\ \A i \in 1 .. Len(taken') : taken'[i] < next'
          /\ \A i, j \in 1 .. Len(taken') : i < j => taken'[i] < taken'[j]
          /\ \A i \in 1 .. Len(taken'), j \in 1 .. n' : taken'[i] < Contents'[j]
      BY SMTT(30), <1>0, <1>1, <2>2, <3>1, <3>2, <3>5 DEF Ordered
    <3>7. \A m \in missing' \cup reported' \cup issued' : m < next'
      BY SMTT(30), <1>0, <1>1, <2>3 DEF Ordered, TypeOK
    <3>8. ~closed' => \A m \in missing' \cup reported', j \in 1 .. n' : m < Contents'[j]
      BY <1>0, <1>1, <2>2, <2>3, <3>2 DEF Ordered
    <3>9. QED BY <3>3, <3>4, <3>6, <3>7, <3>8 DEF Ordered
  <2>6. QED BY <2>4, <2>5 DEF Base
<1>4. CASE PutFull(next)
  <2>1. /\ RingOK' /\ n' = n /\ n > 0
        /\ Contents \in Seq(0 .. MaxSeq) /\ Len(Contents) = n /\ Contents # <<>>
        /\ Contents' = Append(Tail(Contents), next)
        /\ buf[head] = Contents[1]
    BY <1>0, <1>1, <1>4, PutFullStep
  <2>2. n \in Nat /\ next \in Nat BY SMTT(30), <1>0 DEF RingOK, TypeOK
  <2>3. /\ Tail(Contents) \in Seq(0 .. MaxSeq) /\ Len(Tail(Contents)) = n - 1
        /\ \A i \in 1 .. n - 1 : Tail(Contents)[i] = Contents[i + 1]
    BY <2>1, HeadTailProperties
  <2>4. /\ \A i \in 1 .. n - 1 : Contents'[i] = Contents[i + 1]
        /\ Contents'[n] = next
    <3>1. next \in 0 .. MaxSeq BY SMTT(30), <1>1
    <3>2. /\ \A i \in 1 .. n - 1 : Append(Tail(Contents), next)[i] = Tail(Contents)[i]
          /\ Append(Tail(Contents), next)[(n - 1) + 1] = next
      BY SMTT(30), <2>3, <3>1, AppendProperties
    <3>3. (n - 1) + 1 = n BY SMTT(30), <2>2
    <3>4. QED BY <2>1, <2>3, <3>2, <3>3
  <2>5. Contents[1] \in 1 .. next - 1 BY SMTT(30), <1>0, <2>1, <2>2 DEF Ordered
  <2>6. /\ ~closed /\ notify' \in Nat /\ dropped' \in Nat
        /\ firstMissing' \in 0 .. MaxSeq /\ lastMissing' \in 0 .. MaxSeq
        /\ missing' = missing \cup {Contents[1]}
    <3>1. Contents[1] \in 0 .. MaxSeq BY SMTT(30), <2>5, <1>1
    <3>2. QED BY SMTT(30), <1>0, <1>4, <2>1, <3>1 DEF PutFull, recordDropLocked, wakeLocked, TypeOK
  <2>7. TypeOK'
    <3>1. Contents[1] \in 1 .. MaxSeq BY SMTT(30), <2>5, <1>1
    <3>2. missing' \in SUBSET (1 .. MaxSeq) /\ issued' \in SUBSET (1 .. MaxSeq)
      BY <1>0, <1>1, <2>6, <3>1 DEF TypeOK
    <3>3. QED BY SMTT(30), <1>0, <1>1, <2>1, <2>6, <3>2 DEF TypeOK, RingOK
  <2>8. Ordered'
    <3>1. \A i \in 1 .. n' : (i \in 1 .. n - 1 /\ i + 1 \in 1 .. n) \/ (i = n) BY SMTT(30), <2>1, <2>2
    <3>2. \A i \in 1 .. n' : Contents'[i] \in 1 .. next' - 1
      <4>1. TAKE i \in 1 .. n'
      <4>2. CASE i = n BY SMTT(30), <4>2, <2>4, <2>2, <1>1
      <4>3. CASE i # n
        <5>1. Contents'[i] = Contents[i + 1] /\ i + 1 \in 1 .. n BY <4>3, <3>1, <2>4
        <5>2. Contents[i + 1] \in 1 .. next - 1 BY <5>1, <1>0 DEF Ordered
        <5>3. QED BY SMTT(30), <5>1, <5>2, <1>1, <2>2
      <4>4. QED BY <4>2, <4>3
    <3>3. \A i, j \in 1 .. n' : i < j => Contents'[i] < Contents'[j]
      BY SMTT(30), <1>0, <1>1, <2>2, <2>4, <3>1 DEF Ordered
    <3>4. \A i \in 1 .. Len(taken) : taken[i] \in Int BY SMTT(30), <1>0 DEF TypeOK
    <3>5. /\ \A i \in 1 .. Len(taken') : taken'[i] < next'
          /\ \A i, j \in 1 .. Len(taken') : i < j => taken'[i] < taken'[j]
          /\ \A i \in 1 .. Len(taken'), j \in 1 .. n' : taken'[i] < Contents'[j]
      BY SMTT(30), <1>0, <1>1, <2>2, <2>4, <3>1, <3>4 DEF Ordered
    <3>6. \A m \in missing' \cup reported' \cup issued' : m < next'
      BY SMTT(30), <1>0, <1>1, <2>5, <2>6 DEF Ordered, TypeOK
    <3>7. \A j \in 1 .. n' : Contents[1] < Contents'[j]
      <4>1. TAKE j \in 1 .. n'
      <4>2. CASE j = n BY SMTT(30), <4>2, <2>4, <2>5, <2>2
      <4>3. CASE j # n
        <5>1. j + 1 \in 1 .. n /\ 1 \in 1 .. n /\ 1 < j + 1 /\ j \in 1 .. n - 1
          BY SMTT(30), <4>3, <2>1, <2>2
        <5>2. QED BY <5>1, <2>4, <1>0 DEF Ordered
      <4>4. QED BY <4>2, <4>3
    <3>8. ~closed' => \A m \in missing' \cup reported', j \in 1 .. n' : m < Contents'[j]
      BY <1>0, <1>1, <2>4, <2>6, <3>1, <3>7 DEF Ordered
    <3>9. QED BY <3>2, <3>3, <3>5, <3>6, <3>8 DEF Ordered
  <2>9. QED BY <2>7, <2>8 DEF Base
<1>5. QED BY <1>1, <1>2, <1>3, <1>4 DEF Put

\* Taking the oldest event keeps the numbers in order.
LEMMA BasePop == ASSUME Base, popLocked,
                        UNCHANGED <<closed, wait, overflow, stream, reported>>,
                        notify' \in Nat, waiters' \in Nat,
                        pc' \in [Consumers -> {"out", "loop", "parked", "ErrClosed"}]
                 PROVE  Base'
<1> USE CapacityAssumption, MaxSeqAssumption
<1>0. TypeOK /\ Ordered /\ RingOK BY TypeGivesRing DEF Base
<1>1. /\ RingOK' /\ n > 0 /\ n' = n - 1 /\ n \in Nat /\ next \in Nat
      /\ Contents \in Seq(0 .. MaxSeq) /\ Len(Contents) = n /\ Contents # <<>>
      /\ Contents' = Tail(Contents) /\ taken' = Append(taken, Contents[1])
  BY SMTT(60), <1>0, PopStep DEF RingOK, TypeOK
<1>2. UNCHANGED <<closed, wait, dropped, firstMissing, lastMissing, missing, next, issued, reported>>
  BY DEF overflow, stream
<1>3. \A i \in 1 .. n' : Contents'[i] = Contents[i + 1] /\ i + 1 \in 1 .. n
  BY SMTT(30), <1>1, HeadTailProperties
<1>4. Contents[1] \in 1 .. next - 1 BY SMTT(30), <1>0, <1>1 DEF Ordered
<1>5. Contents[1] \in 1 .. MaxSeq BY SMTT(30), <1>0, <1>1, <1>4 DEF TypeOK
<1>6. taken \in Seq(1 .. MaxSeq) BY <1>0 DEF TypeOK
<1>7. /\ taken' \in Seq(1 .. MaxSeq) /\ Len(taken') = Len(taken) + 1 /\ Len(taken) \in Nat
      /\ \A i \in 1 .. Len(taken) : taken'[i] = taken[i] /\ taken[i] \in 1 .. MaxSeq
      /\ taken'[Len(taken) + 1] = Contents[1]
  BY SMTT(30), <1>1, <1>5, <1>6, AppendProperties, LenProperties
<1>8. \A i \in 1 .. Len(taken') : i \in 1 .. Len(taken) \/ i = Len(taken) + 1 BY SMTT(30), <1>7
<1>9. TypeOK' BY <1>0, <1>1, <1>2, <1>7 DEF TypeOK, RingOK
<1>10. Ordered'
  <2>1. \A i \in 1 .. n' : Contents'[i] \in 1 .. next' - 1
    BY <1>0, <1>2, <1>3 DEF Ordered
  <2>2. \A i, j \in 1 .. n' : i < j => Contents'[i] < Contents'[j]
    <3>1. TAKE i, j \in 1 .. n'
    <3>2. HAVE i < j
    <3>3. i + 1 < j + 1 BY SMTT(30), <3>2, <1>1
    <3>4. QED BY <3>3, <1>0, <1>3 DEF Ordered
  <2>3. \A i \in 1 .. Len(taken') : taken'[i] < next'
    BY SMTT(30), <1>0, <1>1, <1>2, <1>4, <1>7, <1>8 DEF Ordered
  <2>4. \A i, j \in 1 .. Len(taken') : i < j => taken'[i] < taken'[j]
    <3>1. TAKE i, j \in 1 .. Len(taken')
    <3>2. HAVE i < j
    <3>3. i \in 1 .. Len(taken) BY SMTT(30), <3>2, <1>7
    <3>4. CASE j = Len(taken) + 1
      BY SMTT(60), <3>3, <3>4, <1>0, <1>1, <1>7 DEF Ordered
    <3>5. CASE j # Len(taken) + 1
      BY <3>2, <3>3, <3>5, <1>0, <1>7, <1>8 DEF Ordered
    <3>6. QED BY <3>4, <3>5
  <2>5. \A i \in 1 .. Len(taken'), j \in 1 .. n' : taken'[i] < Contents'[j]
    <3>1. TAKE i \in 1 .. Len(taken'), j \in 1 .. n'
    <3>2. j + 1 \in 1 .. n /\ 1 \in 1 .. n /\ 1 < j + 1 /\ Contents'[j] = Contents[j + 1]
      BY SMTT(30), <1>1, <1>3
    <3>3. CASE i = Len(taken) + 1
      BY <3>2, <3>3, <1>0, <1>7 DEF Ordered
    <3>4. CASE i # Len(taken) + 1
      BY <3>2, <3>4, <1>0, <1>7, <1>8 DEF Ordered
    <3>5. QED BY <3>3, <3>4
  <2>6. \A m \in missing' \cup reported' \cup issued' : m < next'
    BY <1>0, <1>2 DEF Ordered
  <2>7. ~closed' => \A m \in missing' \cup reported', j \in 1 .. n' : m < Contents'[j]
    BY SMTT(30), <1>0, <1>2, <1>3 DEF Ordered
  <2>8. QED BY <2>1, <2>2, <2>3, <2>4, <2>5, <2>6, <2>7 DEF Ordered
<1>11. QED BY <1>9, <1>10 DEF Base

(***************************************************************************)
(* Steps that leave the ring and the stream alone.                         *)
(***************************************************************************)
LEMMA BaseQuiet ==
  ASSUME Base, UNCHANGED <<ring, issued, taken>>, TypeOK',
         next <= next', closed => closed', missing' \subseteq missing,
         reported' \subseteq reported \cup missing
  PROVE  Base'
<1>1. /\ TypeOK /\ Ordered /\ Contents' = Contents /\ n' = n /\ issued' = issued
      /\ taken' = taken
  BY DEF Base, ring, Contents
<1>2. /\ next \in Nat /\ next' \in Nat
      /\ \A i \in 1 .. Len(taken) : taken[i] \in Int
      /\ \A m \in missing \cup reported \cup issued : m \in Int
  BY SMTT(60), <1>1, MaxSeqAssumption DEF TypeOK
<1>3. \A i \in 1 .. n' : Contents'[i] \in 1 .. next' - 1
  BY SMTT(30), <1>1, <1>2 DEF Ordered
<1>4. /\ \A i, j \in 1 .. n' : i < j => Contents'[i] < Contents'[j]
      /\ \A i \in 1 .. Len(taken') : taken'[i] < next'
      /\ \A i, j \in 1 .. Len(taken') : i < j => taken'[i] < taken'[j]
      /\ \A i \in 1 .. Len(taken'), j \in 1 .. n' : taken'[i] < Contents'[j]
  BY SMTT(30), <1>1, <1>2 DEF Ordered
<1>5. \A m \in missing' \cup reported' \cup issued' : m < next'
  BY SMTT(30), <1>1, <1>2 DEF Ordered
<1>6. ~closed' => \A m \in missing' \cup reported', j \in 1 .. n' : m < Contents'[j]
  BY <1>1, <1>2 DEF Ordered
<1>7. QED BY <1>3, <1>4, <1>5, <1>6 DEF Base, Ordered

(***************************************************************************)
(* The wake-up bookkeeping: waiters counts the goroutines inside Get's     *)
(* select, nobody waits on a channel that does not exist yet, and whoever  *)
(* waits on the current channel has nothing to miss.                       *)
(***************************************************************************)
Parked == {c \in Consumers : pc[c] = "parked"}

Waiting ==
  /\ waiters = Cardinality(Parked)
  /\ \A c \in Consumers : wait[c] <= notify
  /\ NoLostWakeup

\* The parked consumers can be counted.
LEMMA ParkedFinite == IsFiniteSet(Parked) /\ Cardinality(Parked) \in Nat
BY ConsumersAssumption, FS_Subset, FS_CardinalityType DEF Parked

\* At the start nobody waits.
LEMMA WaitingInit == Init => Waiting
<1> SUFFICES ASSUME Init PROVE Waiting OBVIOUS
<1>1. Parked = {} BY DEF Init, Parked
<1>2. waiters = Cardinality(Parked) BY <1>1, FS_EmptySet DEF Init
<1>3. \A c \in Consumers : wait[c] <= notify BY SMTT(30) DEF Init
<1>4. NoLostWakeup BY DEF Init, NoLostWakeup
<1>5. QED BY <1>2, <1>3, <1>4 DEF Waiting

\* No step of Submit, Get or Close strands a parked consumer.
LEMMA WaitingStep == ASSUME TypeOK, Waiting, [Next]_vars
                     PROVE  Waiting' /\ waiters' \in Nat /\ wait' \in [Consumers -> Nat]
<1> USE CapacityAssumption
<1>0. /\ waiters = Cardinality(Parked) /\ NoLostWakeup
      /\ wait \in [Consumers -> Nat] /\ notify \in Nat /\ waiters \in Nat /\ n \in Nat
      /\ \A c \in Consumers : wait[c] <= notify
      /\ pc \in [Consumers -> {"out", "loop", "parked", "ErrClosed"}]
  BY SMTT(30) DEF Waiting, TypeOK
<1>1. CASE Submit
  <2>1. UNCHANGED <<pc, wait, waiters, closed>> BY <1>1 DEF Submit, Put, consumer
  <2>2. /\ Parked' = Parked /\ waiters' \in Nat
        /\ wait' \in [Consumers -> Nat]
    BY <2>1, <1>0 DEF Parked
  <2>3. CASE PutClosed(next)
    BY <2>1, <2>2, <2>3, <1>0 DEF PutClosed, ring, Waiting, NoLostWakeup
  <2>4. CASE wakeLocked
    <3>1. CASE waiters = 0
      <4>1. Parked = {} BY <3>1, <1>0, ParkedFinite, FS_EmptySet
      <4>2. QED BY <4>1, <3>1, <2>1, <2>2, <2>4, <1>0
              DEF wakeLocked, Waiting, NoLostWakeup, Parked
    <3>2. CASE waiters # 0
      <4>1. notify' = notify + 1 BY <3>2, <2>4 DEF wakeLocked
      <4>2. \A c \in Consumers : wait'[c] <= notify' /\ wait'[c] # notify'
        BY SMTT(30), <4>1, <2>1, <1>0
      <4>3. QED BY <4>2, <2>1, <2>2, <1>0 DEF Waiting, NoLostWakeup
    <3>3. QED BY <3>1, <3>2
  <2>5. QED BY <2>3, <2>4, <1>1 DEF Submit, Put, PutRoom, PutFull
<1>2. CASE Close
  <2>1. /\ UNCHANGED <<pc, wait, waiters>> /\ notify' = notify + 1
    BY <1>2 DEF Close, consumer
  <2>2. Parked' = Parked BY <2>1 DEF Parked
  <2>3. \A c \in Consumers : wait'[c] <= notify' /\ wait'[c] # notify'
    BY SMTT(30), <2>1, <1>0
  <2>4. QED BY <2>1, <2>2, <2>3, <1>0 DEF Waiting, NoLostWakeup
<1>3. CASE (\E h \in 1 .. MaxSeq : ResumeNumbering(h)) \/ DrainOverflow \/ UNCHANGED vars
  <2>1. UNCHANGED <<pc, wait, waiters, notify, n, closed>>
    BY <1>3 DEF ResumeNumbering, DrainOverflow, vars, consumer, ring
  <2>2. Parked' = Parked BY <2>1 DEF Parked
  <2>3. QED BY <2>1, <2>2, <1>0 DEF Waiting, NoLostWakeup
<1>4. CASE TryGet
  <2>1. UNCHANGED <<pc, wait, waiters, notify, closed>> /\ n > 0
    BY <1>4 DEF TryGet, consumer, popLocked
  <2>2. Parked' = Parked BY <2>1 DEF Parked
  <2>3. QED BY SMTT(30), <2>1, <2>2, <1>0 DEF Waiting, NoLostWakeup
<1>5. ASSUME NEW c \in Consumers, GetPop(c) \/ GetClosed(c)
      PROVE  Waiting' /\ waiters' \in Nat /\ wait' \in [Consumers -> Nat]
  <2>1. /\ pc[c] # "parked" /\ pc'[c] # "parked"
        /\ \A d \in Consumers \ {c} : pc'[d] = pc[d]
        /\ UNCHANGED <<wait, waiters, notify, closed>>
        /\ n > 0 \/ UNCHANGED n
    BY <1>5, <1>0 DEF GetPop, GetClosed, popLocked, ring
  <2>2. Parked' = Parked BY <2>1 DEF Parked
  <2>3. QED BY SMTT(30), <2>1, <2>2, <1>0 DEF Waiting, NoLostWakeup
<1>6. ASSUME NEW c \in Consumers, GetPark(c)
      PROVE  Waiting' /\ waiters' \in Nat /\ wait' \in [Consumers -> Nat]
  <2>1. /\ pc[c] # "parked" /\ pc'[c] = "parked"
        /\ \A d \in Consumers \ {c} : pc'[d] = pc[d] /\ wait'[d] = wait[d]
        /\ wait' \in [Consumers -> Nat] /\ wait'[c] = notify
        /\ waiters' = waiters + 1 /\ n = 0 /\ ~closed /\ UNCHANGED <<notify, closed, n>>
    BY <1>6, <1>0 DEF GetPark, ring
  <2>2. Parked' = Parked \cup {c} /\ c \notin Parked BY SMTT(30), <2>1 DEF Parked
  <2>3. Cardinality(Parked') = Cardinality(Parked) + 1
    BY <2>2, ParkedFinite, FS_AddElement
  <2>4. QED BY SMTT(30), <2>1, <2>3, <1>0 DEF Waiting, NoLostWakeup
<1>7. ASSUME NEW c \in Consumers, GetWoken(c) \/ GetCancelled(c)
      PROVE  Waiting' /\ waiters' \in Nat /\ wait' \in [Consumers -> Nat]
  <2>1. /\ pc[c] = "parked" /\ pc'[c] # "parked"
        /\ \A d \in Consumers \ {c} : pc'[d] = pc[d]
        /\ waiters' = waiters - 1 /\ UNCHANGED <<wait, notify, closed, n>>
    BY <1>7, <1>0 DEF GetWoken, GetCancelled, ring
  <2>2. Parked' = Parked \ {c} /\ c \in Parked BY <2>1 DEF Parked
  <2>3. Cardinality(Parked') = Cardinality(Parked) - 1 /\ Cardinality(Parked') \in Nat
    <3>1. IsFiniteSet(Parked) BY ParkedFinite
    <3>2. IsFiniteSet(Parked \ {c}) /\ Cardinality(Parked \ {c}) = Cardinality(Parked) - 1
      BY <3>1, <2>2, FS_RemoveElement
    <3>3. QED BY <3>2, <2>2, FS_CardinalityType
  <2>4. QED BY <2>1, <2>3, <1>0 DEF Waiting, NoLostWakeup
<1>8. QED BY <1>1, <1>2, <1>3, <1>4, <1>5, <1>6, <1>7 DEF Next

\* Every step keeps the types and the order.
LEMMA BaseStep == ASSUME Base, Waiting, [Next]_vars PROVE Base'
<1> USE MaxSeqAssumption
<1>0. TypeOK BY DEF Base
<1>1. CASE Submit BY <1>1, BaseSubmit
<1>2. CASE TryGet
  BY <1>2, <1>0, BasePop DEF TryGet, consumer, TypeOK
<1>3. CASE DrainOverflow
  <2>1. TypeOK' BY SMTT(30), <1>3, <1>0 DEF DrainOverflow, TypeOK, ring, consumer, stream
  <2>2. QED BY SMTT(60), <1>3, <2>1, <1>0, BaseQuiet DEF DrainOverflow, stream, TypeOK
<1>4. CASE Close
  <2>1. TypeOK' BY SMTT(30), <1>4, <1>0 DEF Close, TypeOK, ring, consumer, stream, overflow
  <2>2. QED BY SMTT(60), <1>4, <2>1, <1>0, BaseQuiet DEF Close, stream, overflow, TypeOK
<1>5. ASSUME NEW h \in 1 .. MaxSeq, ResumeNumbering(h) PROVE Base'
  <2>1. TypeOK' BY SMTT(30), <1>5, <1>0 DEF ResumeNumbering, TypeOK, ring, consumer, overflow
  <2>2. QED BY SMTT(60), <1>5, <2>1, <1>0, BaseQuiet DEF ResumeNumbering, overflow, TypeOK
<1>6. ASSUME NEW c \in Consumers, GetPop(c) PROVE Base'
  BY <1>6, <1>0, BasePop DEF GetPop, TypeOK
<1>7. ASSUME NEW c \in Consumers, GetClosed(c) \/ GetPark(c) \/ GetWoken(c) \/ GetCancelled(c)
      PROVE  Base'
  <2>1. UNCHANGED <<ring, closed, notify, overflow, stream, taken, reported>>
    BY <1>7 DEF GetClosed, GetPark, GetWoken, GetCancelled
  <2>2. pc' \in [Consumers -> {"out", "loop", "parked", "ErrClosed"}]
    BY <1>7, <1>0 DEF GetClosed, GetPark, GetWoken, GetCancelled, TypeOK
  <2>3. waiters' \in Nat /\ wait' \in [Consumers -> Nat] BY <1>0, WaitingStep
  <2>4. TypeOK' BY <2>1, <2>2, <2>3, <1>0 DEF TypeOK, ring, overflow, stream
  <2>5. QED BY SMTT(60), <2>1, <2>4, <1>0, BaseQuiet DEF stream, overflow, TypeOK
<1>8. CASE UNCHANGED vars
  <2>1. TypeOK' BY <1>8, <1>0 DEF vars, TypeOK, ring, consumer, stream, overflow
  <2>2. QED BY SMTT(60), <1>8, <2>1, <1>0, BaseQuiet DEF vars, stream, overflow, TypeOK
<1>9. QED BY <1>1, <1>2, <1>3, <1>4, <1>5, <1>6, <1>7, <1>8 DEF Next

(***************************************************************************)
(* The agent's queue never leaves its types, in particular the ring index  *)
(* and count stay in bounds and waiters never goes below zero.             *)
(***************************************************************************)
THEOREM QueueTyped == Spec => []TypeOK
<1>1. Init => Base /\ Waiting BY BaseInit, WaitingInit
<1>2. Base /\ Waiting /\ [Next]_vars => (Base /\ Waiting)'
  BY BaseStep, WaitingStep DEF Base
<1>3. Base => TypeOK BY DEF Base
<1>4. QED BY <1>1, <1>2, <1>3, PTL DEF Spec

(***************************************************************************)
(* No consumer sleeps through a Put or a Close: wakeLocked (queue.go:275)  *)
(* may skip the wake-up when waiters is zero because waiters counts every  *)
(* goroutine from its park to its wake-up.                                 *)
(***************************************************************************)
THEOREM WakeupsKept == Spec => []NoLostWakeup
<1>1. Init => Base /\ Waiting BY BaseInit, WaitingInit
<1>2. Base /\ Waiting /\ [Next]_vars => (Base /\ Waiting)'
  BY BaseStep, WaitingStep DEF Base
<1>3. Waiting => NoLostWakeup BY DEF Waiting
<1>4. QED BY <1>1, <1>2, <1>3, PTL DEF Spec
-----------------------------------------------------------------------------
(***************************************************************************)
(* What the queue does with the stream of events, for every capacity: it   *)
(* is a FIFO that accounts for every number it gives up.  Rests on the     *)
(* inductive invariant Base /\ Waiting.                                    *)
(***************************************************************************)

(***************************************************************************)
(* The overflow counters describe the set of losses since the last drain;  *)
(* an empty set leaves the range at its zero value (queue.go:213), and a   *)
(* drained number is never dropped again.                                  *)
(***************************************************************************)
Accounted ==
  /\ OverflowNamed
  /\ missing = {} => firstMissing = 0 /\ lastMissing = 0
  /\ missing \cap reported = {}

\* The lost events can be counted.
LEMMA LossesFinite ==
  ASSUME NEW S \in SUBSET (1 .. MaxSeq)
  PROVE  IsFiniteSet(S) /\ Cardinality(S) \in Nat
<1>1. IsFiniteSet(1 .. MaxSeq) BY SMTT(30), MaxSeqAssumption, FS_Interval
<1>2. QED BY <1>1, FS_Subset, FS_CardinalityType

(***************************************************************************)
(* recordDropLocked on a number not yet among the losses.                  *)
(***************************************************************************)
LEMMA DropAccounted ==
  ASSUME TypeOK, Accounted, NEW s \in 1 .. MaxSeq, recordDropLocked(s),
         s \notin missing, s \notin reported, reported' = reported
  PROVE  Accounted'
<1>0. /\ missing \in SUBSET (1 .. MaxSeq) /\ dropped \in Nat /\ MaxSeq \in Nat
      /\ firstMissing \in 0 .. MaxSeq /\ lastMissing \in 0 .. MaxSeq
      /\ dropped = Cardinality(missing)
      /\ missing = {} => firstMissing = 0 /\ lastMissing = 0
      /\ missing # {} => /\ {firstMissing, lastMissing} \subseteq missing
                         /\ \A m \in missing : firstMissing <= m /\ m <= lastMissing
  BY MaxSeqAssumption DEF TypeOK, Accounted, OverflowNamed
<1>1. /\ dropped' = dropped + 1 /\ missing' = missing \cup {s}
      /\ firstMissing' = IF firstMissing = 0 \/ s < firstMissing THEN s ELSE firstMissing
      /\ lastMissing' = IF s > lastMissing THEN s ELSE lastMissing
  BY SMTT(30) DEF recordDropLocked
<1>2. Cardinality(missing') = Cardinality(missing) + 1
  BY <1>0, <1>1, LossesFinite, FS_AddElement
<1>3. CASE missing = {}
  BY SMTT(30), <1>0, <1>1, <1>2, <1>3 DEF Accounted, OverflowNamed
<1>4. CASE missing # {}
  <2>1. firstMissing # 0 /\ firstMissing \in missing /\ lastMissing \in missing BY SMTT(30), <1>0, <1>4
  <2>2. {firstMissing', lastMissing'} \subseteq missing' BY <1>1, <2>1
  <2>3. \A m \in missing' : firstMissing' <= m /\ m <= lastMissing'
    BY SMTT(30), <1>0, <1>1, <1>4, <2>1
  <2>4. QED BY <1>0, <1>1, <1>2, <2>2, <2>3 DEF Accounted, OverflowNamed
<1>5. QED BY <1>3, <1>4

\* At the start nothing is missing.
LEMMA AccountedInit == Init => Accounted
<1> SUFFICES ASSUME Init PROVE Accounted OBVIOUS
<1>1. Cardinality(missing) = 0 BY FS_EmptySet DEF Init
<1>2. QED BY <1>1 DEF Init, Accounted, OverflowNamed

\* recordDropLocked and DrainOverflow keep the account of the lost events.
LEMMA AccountedStep == ASSUME Base, Accounted, [Next]_vars PROVE Accounted'
<1> USE CapacityAssumption, MaxSeqAssumption
<1>0. TypeOK /\ Ordered /\ RingOK BY TypeGivesRing DEF Base
<1>1. CASE Submit
  <2>1. next \in 1 .. MaxSeq /\ Put(next) /\ reported' = reported
    BY SMTT(30), <1>1, <1>0 DEF Submit, Put, TypeOK
  <2>2. CASE PutClosed(next)
    <3>1. next \notin missing /\ next \notin reported BY SMTT(30), <1>0 DEF Ordered, TypeOK
    <3>2. QED BY <2>1, <2>2, <3>1, <1>0, DropAccounted DEF PutClosed
  <2>3. CASE PutRoom(next)
    BY <2>1, <2>3 DEF PutRoom, overflow, Accounted, OverflowNamed
  <2>4. CASE PutFull(next)
    <3>1. n > 0 /\ buf[head] = Contents[1]
      BY <1>0, <2>1, <2>4, PutFullStep
    <3>2. 1 \in 1 .. n /\ ~closed BY SMTT(30), <3>1, <1>0, <2>4 DEF PutFull, TypeOK
    <3>3. Contents[1] \in 1 .. next - 1 BY <3>2, <1>0 DEF Ordered
    <3>4. Contents[1] \in 1 .. MaxSeq BY SMTT(30), <3>3, <2>1
    <3>5. \A m \in missing \cup reported : m < Contents[1] BY <3>2, <1>0 DEF Ordered
    <3>6. Contents[1] \notin missing /\ Contents[1] \notin reported BY SMTT(30), <3>4, <3>5
    <3>7. recordDropLocked(Contents[1]) BY <3>1, <2>4 DEF PutFull
    <3>8. QED BY <2>1, <3>4, <3>6, <3>7, <1>0, DropAccounted
  <2>5. QED BY <2>1, <2>2, <2>3, <2>4 DEF Put
<1>2. CASE DrainOverflow
  <2>1. Cardinality({}) = 0 BY FS_EmptySet
  <2>2. QED BY <1>2, <2>1 DEF DrainOverflow, Accounted, OverflowNamed
<1>3. CASE UNCHANGED <<overflow, reported>>
  BY <1>3 DEF overflow, Accounted, OverflowNamed
<1>4. QED
  BY <1>1, <1>2, <1>3 DEF Next, TryGet, Close, ResumeNumbering, GetPop, GetClosed,
     GetPark, GetWoken, GetCancelled, vars

\* Appending adds one element.
LEMMA ElementsAppend ==
  ASSUME NEW S, NEW q \in Seq(S), NEW e \in S
  PROVE  Elements(Append(q, e)) = Elements(q) \cup {e}
BY SMTT(30), AppendProperties, LenProperties DEF Elements

\* Taking the head leaves the other elements.
LEMMA ElementsTail ==
  ASSUME NEW S, NEW q \in Seq(S), q # <<>>
  PROVE  Elements(q) = {q[1]} \cup Elements(Tail(q))
<1>1. /\ Len(q) \in Nat /\ Len(q) > 0 /\ DOMAIN q = 1 .. Len(q)
      /\ DOMAIN Tail(q) = 1 .. Len(q) - 1
      /\ \A i \in 1 .. Len(q) - 1 : Tail(q)[i] = q[i + 1]
  BY SMTT(30), HeadTailProperties, LenProperties, EmptySeq
<1>2. \A j \in 1 .. Len(q) : j = 1 \/ (j - 1 \in 1 .. Len(q) - 1 /\ q[j] = Tail(q)[j - 1])
  BY SMTT(30), <1>1
<1>3. Elements(q) \subseteq {q[1]} \cup Elements(Tail(q))
  <2>1. ASSUME NEW j \in 1 .. Len(q) PROVE q[j] \in {q[1]} \cup Elements(Tail(q))
    <3>1. CASE j = 1 BY <3>1
    <3>2. CASE j # 1
      <4>1. j - 1 \in DOMAIN Tail(q) /\ q[j] = Tail(q)[j - 1] BY <1>1, <1>2, <3>2
      <4>2. QED BY <4>1 DEF Elements
    <3>3. QED BY <3>1, <3>2
  <2>2. QED BY <2>1, <1>1 DEF Elements
<1>4. {q[1]} \cup Elements(Tail(q)) \subseteq Elements(q) BY SMTT(30), <1>1 DEF Elements
<1>5. QED BY <1>3, <1>4

(***************************************************************************)
(* What a step does to the stream, in the terms of the abstract FIFO.      *)
(***************************************************************************)
Numbered ==
  /\ next \in 1 .. MaxSeq /\ issued' = issued \cup {next}
  /\ Fifo!Accept(next) \/ Fifo!Displace(next) \/ Fifo!Refuse(next)

Unnumbered ==
  /\ issued' = issued
  /\ Fifo!Take \/ Fifo!Report \/ Fifo!Shut \/ UNCHANGED Fifo!abstractVars

\* What any step does, told without the ring: it numbers a new event, or none.
LEMMA Effect == ASSUME Base, Accounted, [Next]_vars PROVE Numbered \/ Unnumbered
<1> USE CapacityAssumption, MaxSeqAssumption
<1>0. TypeOK /\ Ordered /\ RingOK BY TypeGivesRing DEF Base
<1>1. CASE Submit
  <2>1. /\ next \in 1 .. MaxSeq /\ issued' = issued \cup {next} /\ Put(next)
        /\ UNCHANGED <<closed, taken, reported>>
    BY SMTT(30), <1>1, <1>0 DEF Submit, Put, TypeOK
  <2>2. CASE PutClosed(next)
    BY <2>1, <2>2 DEF PutClosed, ring, Contents, recordDropLocked, Numbered, Fifo!Refuse
  <2>3. CASE PutRoom(next)
    <3>1. /\ Len(Contents) = n /\ Contents' = Append(Contents, next)
      BY <1>0, <2>1, <2>3, PutRoomStep
    <3>2. QED BY <2>1, <2>3, <3>1 DEF PutRoom, overflow, Numbered, Fifo!Accept
  <2>4. CASE PutFull(next)
    <3>1. /\ Len(Contents) = n /\ Contents' = Append(Tail(Contents), next)
          /\ buf[head] = Contents[1] /\ Contents \in Seq(0 .. MaxSeq) /\ Contents # <<>>
      BY <1>0, <2>1, <2>4, PutFullStep
    <3>2. Head(Contents) = Contents[1] BY SMTT(30), <3>1, HeadTailProperties
    <3>3. QED BY <2>1, <2>4, <3>1, <3>2 DEF PutFull, recordDropLocked, Numbered, Fifo!Displace
  <2>5. QED BY <2>1, <2>2, <2>3, <2>4 DEF Put
<1>2. CASE popLocked /\ UNCHANGED <<closed, overflow, stream, reported>>
  <2>1. /\ Contents # <<>> /\ Contents' = Tail(Contents) /\ Contents \in Seq(0 .. MaxSeq)
        /\ taken' = Append(taken, Contents[1])
    BY <1>0, <1>2, PopStep
  <2>2. Head(Contents) = Contents[1] BY SMTT(30), <2>1, HeadTailProperties
  <2>3. QED BY <1>2, <2>1, <2>2 DEF overflow, stream, Unnumbered, Fifo!Take
<1>3. CASE DrainOverflow
  <2>1. missing # {} BY <1>3, FS_EmptySet DEF DrainOverflow, Accounted, OverflowNamed
  <2>2. QED BY <1>3, <2>1 DEF DrainOverflow, ring, stream, Contents, Unnumbered, Fifo!Report
<1>4. CASE Close
  BY <1>4 DEF Close, ring, overflow, stream, Contents, Unnumbered, Fifo!Shut
<1>5. CASE UNCHANGED <<ring, closed, overflow, issued, taken, reported>>
  BY <1>5 DEF ring, overflow, Contents, Unnumbered, Fifo!abstractVars
<1>6. QED
  BY <1>1, <1>2, <1>3, <1>4, <1>5 DEF Next, TryGet, ResumeNumbering, GetPop, GetClosed,
     GetPark, GetWoken, GetCancelled, vars, consumer, stream

(***************************************************************************)
(* The two halves of the conservation law, over the abstract contents.     *)
(***************************************************************************)
Sound ==
  /\ NothingVanishes
  /\ Cardinality(issued) =
       Len(Contents) + Len(taken) + Cardinality(missing) + Cardinality(reported)

\* The window of the ring as a sequence.
LEMMA ContentsTyped == TypeOK => Contents \in Seq(0 .. MaxSeq) /\ Len(Contents) = n
BY WindowIsSeq DEF TypeOK, Contents

\* At the start no number was issued.
LEMMA SoundInit == Init => Sound
<1> SUFFICES ASSUME Init PROVE Sound OBVIOUS
<1>1. Base BY BaseInit
<1>2. Contents = <<>> /\ Len(Contents) = 0
  BY <1>1, ContentsTyped, EmptySeq DEF Base, Init
<1>3. Len(taken) = 0 /\ Elements(<<>>) = {} BY SMTT(30), EmptySeq DEF Init, Elements
<1>4. Cardinality({}) = 0 BY FS_EmptySet
<1>5. QED BY SMTT(30), <1>2, <1>3, <1>4 DEF Init, Sound, NothingVanishes

\* Every step keeps each issued number in exactly one place.
LEMMA SoundStep ==
  ASSUME Base, Accounted, Sound, [Next]_vars
  PROVE  Sound'
<1> USE MaxSeqAssumption
<1>0. TypeOK /\ Ordered BY DEF Base
<1>1. /\ Contents \in Seq(0 .. MaxSeq) /\ Len(Contents) = n /\ n \in Nat
      /\ taken \in Seq(0 .. MaxSeq) /\ Len(taken) \in Nat
      /\ missing \in SUBSET (1 .. MaxSeq) /\ reported \in SUBSET (1 .. MaxSeq)
      /\ issued \in SUBSET (1 .. MaxSeq)
  BY SMTT(30), <1>0, ContentsTyped DEF TypeOK
<1>2. /\ IsFiniteSet(missing) /\ IsFiniteSet(reported) /\ IsFiniteSet(issued)
      /\ Cardinality(missing) \in Nat /\ Cardinality(reported) \in Nat
      /\ Cardinality(issued) \in Nat
  BY <1>1, LossesFinite
<1>3. /\ issued = Elements(Contents) \cup Elements(taken) \cup missing \cup reported
      /\ Cardinality(issued) =
           Len(Contents) + Len(taken) + Cardinality(missing) + Cardinality(reported)
  BY DEF Sound, NothingVanishes
<1>4. Contents # <<>> =>
        /\ Elements(Contents) = {Head(Contents)} \cup Elements(Tail(Contents))
        /\ Tail(Contents) \in Seq(0 .. MaxSeq) /\ Len(Tail(Contents)) = Len(Contents) - 1
        /\ Head(Contents) = Contents[1] /\ Head(Contents) \in 0 .. MaxSeq
  BY SMTT(30), <1>1, ElementsTail, HeadTailProperties
<1>5. CASE Numbered
  <2>1. next \in 1 .. MaxSeq /\ next \in 0 .. MaxSeq /\ issued' = issued \cup {next}
        /\ next \notin issued /\ next \notin missing
    BY SMTT(30), <1>0, <1>5 DEF Numbered, Ordered, TypeOK
  <2>2. Cardinality(issued') = Cardinality(issued) + 1 BY <2>1, <1>2, FS_AddElement
  <2>3. CASE Fifo!Accept(next)
    <3>1. Contents' = Append(Contents, next) /\ UNCHANGED <<taken, missing, reported>>
      BY <2>3 DEF Fifo!Accept
    <3>2. Elements(Contents') = Elements(Contents) \cup {next} /\ Len(Contents') = Len(Contents) + 1
      BY SMTT(30), <3>1, <2>1, <1>1, ElementsAppend, AppendProperties
    <3>3. QED BY SMTT(30), <3>1, <3>2, <2>1, <2>2, <1>1, <1>2, <1>3 DEF Sound, NothingVanishes
  <2>4. CASE Fifo!Displace(next)
    <3>1. /\ Contents' = Append(Tail(Contents), next) /\ UNCHANGED <<taken, reported>>
          /\ missing' = missing \cup {Head(Contents)} /\ ~closed /\ Len(Contents) = Capacity
      BY <2>4 DEF Fifo!Displace
    <3>2. Contents # <<>> /\ 1 \in 1 .. n
      BY SMTT(30), <3>1, <1>1, EmptySeq, CapacityAssumption
    <3>3. /\ Elements(Contents') = Elements(Tail(Contents)) \cup {next}
          /\ Len(Contents') = Len(Contents)
      <4>1. Tail(Contents) \in Seq(0 .. MaxSeq) /\ Len(Tail(Contents)) = Len(Contents) - 1
        BY <3>2, <1>4
      <4>2. \A t \in Seq(0 .. MaxSeq) : Elements(Append(t, next)) = Elements(t) \cup {next}
        BY SMTT(30), <2>1, ElementsAppend
      <4>3. Len(Append(Tail(Contents), next)) = Len(Tail(Contents)) + 1
        BY <4>1, <2>1, AppendProperties
      <4>4. Elements(Contents') = Elements(Tail(Contents)) \cup {next}
        BY <4>1, <4>2, <3>1, Zenon
      <4>5. QED BY SMTT(30), <4>1, <4>3, <4>4, <3>1, <1>1
    <3>4. \A m \in missing : m < Contents[1] BY <3>1, <3>2, <1>0 DEF Ordered
    <3>5. Head(Contents) \notin missing BY SMTT(30), <3>2, <3>4, <1>1, <1>4
    <3>6. Cardinality(missing') = Cardinality(missing) + 1
      BY <3>1, <3>5, <1>2, FS_AddElement
    <3>7. NothingVanishes' BY <3>1, <3>2, <3>3, <2>1, <1>3, <1>4, Zenon DEF NothingVanishes
    <3>8. /\ Len(Contents') = Len(Contents) /\ Len(taken') = Len(taken)
          /\ Cardinality(reported') = Cardinality(reported)
      BY <3>1, <3>3
    <3>9. Cardinality(issued') =
            Len(Contents') + Len(taken') + Cardinality(missing') + Cardinality(reported')
      BY SMTT(30), <3>6, <3>8, <2>2, <1>1, <1>2, <1>3
    <3>10. QED BY <3>7, <3>9 DEF Sound
  <2>5. CASE Fifo!Refuse(next)
    <3>1. missing' = missing \cup {next} /\ Contents' = Contents /\ UNCHANGED <<taken, reported>>
      BY <2>5 DEF Fifo!Refuse
    <3>2. Cardinality(missing') = Cardinality(missing) + 1
      BY <3>1, <2>1, <1>2, FS_AddElement
    <3>3. QED BY SMTT(30), <3>1, <3>2, <2>1, <2>2, <1>1, <1>2, <1>3 DEF Sound, NothingVanishes
  <2>6. QED BY <1>5, <2>3, <2>4, <2>5 DEF Numbered
<1>6. CASE Unnumbered
  <2>1. issued' = issued BY <1>6 DEF Unnumbered
  <2>2. CASE Fifo!Take
    <3>1. /\ Contents # <<>> /\ Contents' = Tail(Contents) /\ UNCHANGED <<missing, reported>>
          /\ taken' = Append(taken, Head(Contents))
      BY <2>2 DEF Fifo!Take
    <3>2. Elements(taken') = Elements(taken) \cup {Head(Contents)} /\ Len(taken') = Len(taken) + 1
      BY SMTT(30), <3>1, <1>1, <1>4, ElementsAppend, AppendProperties
    <3>3. NothingVanishes' BY <3>1, <3>2, <2>1, <1>3, <1>4, Zenon DEF NothingVanishes
    <3>4. /\ Len(Contents') = Len(Contents) - 1 /\ missing' = missing /\ reported' = reported
      BY <3>1, <1>4
    <3>5. Cardinality(issued') =
            Len(Contents') + Len(taken') + Cardinality(missing') + Cardinality(reported')
      BY SMTT(30), <3>2, <3>4, <2>1, <1>1, <1>2, <1>3
    <3>6. QED BY <3>3, <3>5 DEF Sound
  <2>3. CASE Fifo!Report
    <3>1. /\ reported' = reported \cup missing /\ missing' = {}
          /\ Contents' = Contents /\ taken' = taken
      BY <2>3 DEF Fifo!Report
    <3>2. Cardinality(reported') = Cardinality(reported) + Cardinality(missing)
      <4>1. reported \cap missing = {} BY DEF Accounted
      <4>2. Cardinality(reported \cap missing) = 0 BY <4>1, FS_EmptySet
      <4>3. Cardinality(reported \cup missing) =
              Cardinality(reported) + Cardinality(missing) - Cardinality(reported \cap missing)
        BY <1>2, FS_Union
      <4>4. QED BY SMTT(30), <3>1, <4>2, <4>3, <1>2
    <3>3. Cardinality(missing') = 0 BY <3>1, FS_EmptySet
    <3>4. QED BY SMTT(30), <3>1, <3>2, <3>3, <2>1, <1>1, <1>2, <1>3 DEF Sound, NothingVanishes
  <2>4. CASE Fifo!Shut \/ UNCHANGED Fifo!abstractVars
    <3>1. Contents' = Contents /\ UNCHANGED <<taken, missing, reported>>
      BY <2>4 DEF Fifo!Shut, Fifo!abstractVars
    <3>2. QED BY <3>1, <2>1, <1>3 DEF Sound, NothingVanishes
  <2>5. QED BY <1>6, <2>2, <2>3, <2>4 DEF Unnumbered
<1>7. QED BY <1>5, <1>6, Effect

(***************************************************************************)
(* The inductive invariant of the queue, and what follows from it.         *)
(***************************************************************************)
QueueInv == Base /\ Waiting /\ Accounted /\ Sound

\* The inductive invariant of the queue holds for every capacity, every set of
\* consumers and every number of events.
LEMMA QueueInvariant == Spec => []QueueInv
<1>1. Init => QueueInv BY BaseInit, WaitingInit, AccountedInit, SoundInit DEF QueueInv
<1>2. QueueInv /\ [Next]_vars => QueueInv'
  BY BaseStep, WaitingStep, AccountedStep, SoundStep DEF QueueInv, Base
<1>3. QED BY <1>1, <1>2, PTL DEF Spec

(***************************************************************************)
(* A loss report drained from the queue (DrainOverflow, queue.go:213) has  *)
(* the exact count and the exact lowest and highest lost number.           *)
(***************************************************************************)
THEOREM LossesNamed == Spec => []OverflowNamed
<1>1. QueueInv => OverflowNamed BY DEF QueueInv, Accounted
<1>2. QED BY <1>1, QueueInvariant, PTL

(***************************************************************************)
(* Every number submit issued is queued, handed out, or accounted as lost. *)
(***************************************************************************)
THEOREM NothingLostSilently == Spec => []NothingVanishes
<1>1. QueueInv => NothingVanishes BY DEF QueueInv, Sound
<1>2. QED BY <1>1, QueueInvariant, PTL

(***************************************************************************)
(* ... and is in exactly one of those places.                              *)
(***************************************************************************)
THEOREM LostOrDeliveredOnce == Spec => []CountedOnce
<1>1. QueueInv => CountedOnce
  BY ContentsTyped DEF QueueInv, Base, Sound, CountedOnce
<1>2. QED BY <1>1, QueueInvariant, PTL

(***************************************************************************)
(* Consumers see the numbers in increasing order, whatever Put displaces   *)
(* and wherever ResumeNumbering jumps.                                     *)
(***************************************************************************)
THEOREM OrderKept == Spec => []StreamOrdered
<1>1. QueueInv => StreamOrdered
  <2> SUFFICES ASSUME QueueInv PROVE StreamOrdered OBVIOUS
  <2> DEFINE all == taken \o Contents
  <2>0. TypeOK /\ Ordered BY DEF QueueInv, Base
  <2>1. /\ Contents \in Seq(0 .. MaxSeq) /\ Len(Contents) = n /\ n \in Nat
        /\ taken \in Seq(0 .. MaxSeq) /\ Len(taken) \in Nat
    BY SMTT(30), <2>0, ContentsTyped, MaxSeqAssumption DEF TypeOK
  <2>2. /\ Len(all) = Len(taken) + n
        /\ \A i \in 1 .. Len(taken) + n :
             all[i] = IF i <= Len(taken) THEN taken[i] ELSE Contents[i - Len(taken)]
    BY <2>1, ConcatProperties
  <2>3. ASSUME NEW i \in 1 .. Len(all), NEW j \in 1 .. Len(all), i < j
        PROVE  all[i] < all[j]
    <3>1. CASE j <= Len(taken)
      BY SMTT(30), <3>1, <2>0, <2>1, <2>2, <2>3 DEF Ordered
    <3>2. CASE i <= Len(taken) /\ j > Len(taken)
      <4>1. j - Len(taken) \in 1 .. n BY SMTT(30), <3>2, <2>1, <2>2
      <4>2. QED BY SMTT(30), <3>2, <4>1, <2>0, <2>1, <2>2 DEF Ordered
    <3>3. CASE i > Len(taken)
      <4>1. /\ i - Len(taken) \in 1 .. n /\ j - Len(taken) \in 1 .. n
            /\ i - Len(taken) < j - Len(taken)
        BY SMTT(30), <3>3, <2>1, <2>2, <2>3
      <4>2. QED BY SMTT(30), <3>3, <4>1, <2>0, <2>1, <2>2, <2>3 DEF Ordered
    <3>4. QED BY SMTT(30), <3>1, <3>2, <3>3, <2>1, <2>2
  <2>4. QED BY <2>3 DEF StreamOrdered
<1>2. QED BY <1>1, QueueInvariant, PTL

(***************************************************************************)
(* The account Put, popLocked and recordDropLocked keep of the numbers:    *)
(* the four properties above, for every capacity and every set of callers. *)
(***************************************************************************)
THEOREM NumbersStayAccounted == Spec => []NumbersAccounted
<1>1. OverflowNamed /\ NothingVanishes /\ CountedOnce /\ StreamOrdered => NumbersAccounted
  BY DEF NumbersAccounted
<1>2. QED
  BY <1>1, LossesNamed, NothingLostSilently, LostOrDeliveredOnce, OrderKept, PTL

(***************************************************************************)
(* The ring with its consumers and wake-ups implements the lossy FIFO.     *)
(***************************************************************************)
THEOREM RingIsFifo == Spec => ImplementsFifo
<1>1. Init => Fifo!AbstractInit
  <2> SUFFICES ASSUME Init PROVE Fifo!AbstractInit OBVIOUS
  <2>1. Contents = <<>>
    BY BaseInit, ContentsTyped, EmptySeq DEF Base, Init
  <2>2. QED BY <2>1 DEF Init, Fifo!AbstractInit
<1>2. QueueInv /\ [Next]_vars => [Fifo!AbstractNext]_(Fifo!abstractVars)
  BY Effect DEF QueueInv, Numbered, Unnumbered, Fifo!AbstractNext
<1>3. QED
  BY <1>1, <1>2, QueueInvariant, PTL DEF Spec, ImplementsFifo, Fifo!AbstractSpec
=============================================================================
