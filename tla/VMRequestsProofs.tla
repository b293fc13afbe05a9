-------------------------- MODULE VMRequestsProofs --------------------------
(***************************************************************************)
(* Proofs about VMLifecycle, continued: the per-name locks, and the steps  *)
(* of a goroutine that is not at work on a machine. A goroutine asks for a *)
(* name, gets or gives up its lock, and returns; the process starts,       *)
(* recovers and crashes; a guest shuts itself down. Each lemma ...Safe     *)
(* shows that such a step keeps the invariant Safe.                        *)
(***************************************************************************)
EXTENDS VMStepsProofs, FiniteSetTheorems

\* The default prover is Zenon; SMT is cited where a leaf needs arithmetic or
\* the fields of a record.
USE ZenonT(40)

(* Per-name locks: MutexInv is inductive together with the types.          *)

\* waiters never counts an entry's references wrongly: adding one goroutine to
\* the referring set adds one, removing one takes one away.
LEMMA CountStep ==
  ASSUME NEW S, IsFiniteSet(S), NEW g
  PROVE /\ Cardinality(S) \in Nat
        /\ g \notin S => Cardinality(S \cup {g}) = Cardinality(S) + 1
        /\ g \in S => Cardinality(S \ {g}) = Cardinality(S) - 1
        /\ S # {} => Cardinality(S) # 0
  BY FS_CardinalityType, FS_AddElement, FS_RemoveElement, FS_EmptySet

\* Only goroutines refer to an entry, so the references can be counted.
LEMMA ReferringFinite ==
  \A e : IsFiniteSet(Referring(e)) /\ Referring(e) \subseteq Procs
  BY KeyedMutexAssumption, FS_Subset DEF Referring

\* Each step of LockContext and releaseReference keeps the state well typed.
LEMMA MutexTypes == MutexTypeOK /\ MutexInv /\ [MutexNext]_mutexVars => MutexTypeOK'
<1> SUFFICES ASSUME MutexTypeOK, MutexInv, [MutexNext]_mutexVars PROVE MutexTypeOK'
  OBVIOUS
<1> USE DEF MutexTypeOK
<1>1. CASE UNCHANGED mutexVars
  BY <1>1 DEF mutexVars
<1>2. ASSUME NEW g \in Procs, NEW k \in Keys, Refer(g, k) PROVE MutexTypeOK'
  <2>1. CASE locks[k] # Nil
    BY SMTT(30), <1>2, <2>1 DEF Refer
  <2>2. CASE locks[k] = Nil
    <3>1. PICK e \in Entries :
            /\ locks' = [locks EXCEPT ![k] = e] /\ entry' = [entry EXCEPT ![g] = e]
            /\ waiters' = [waiters EXCEPT ![e] = 1] /\ held' = [held EXCEPT ![e] = FALSE]
      BY <1>2, <2>2 DEF Refer
    <3> QED BY <1>2, <3>1 DEF Refer
  <2> QED BY <2>1, <2>2
<1>3. ASSUME NEW g \in Procs, Acquire(g) PROVE MutexTypeOK'
  BY <1>3 DEF Acquire
<1>4. ASSUME NEW g \in Procs, Cancel(g) PROVE MutexTypeOK'
  BY <1>4 DEF Cancel
<1>5. ASSUME NEW g \in Procs, Release(g) PROVE MutexTypeOK'
  BY <1>5 DEF Release
<1>6. ASSUME NEW g \in Procs, Leave(g) PROVE MutexTypeOK'
  <2>1. turn[g] # "out" /\ locks[want[g]] = entry[g] /\ entry[g] \in Entries
    BY <1>6 DEF Leave, MutexInv
  <2>2. waiters[entry[g]] = Cardinality(Referring(entry[g])) /\ Referring(entry[g]) # {}
    BY SMTT(30), <2>1, KeyedMutexAssumption DEF MutexInv
  <2>3. IsFiniteSet(Referring(entry[g]))
    BY ReferringFinite
  <2>4. waiters[entry[g]] \in Nat /\ waiters[entry[g]] # 0
    BY <2>2, <2>3, CountStep
  <2>5. waiters[entry[g]] - 1 \in Nat
    BY SMTT(30), <2>4
  <2> QED BY <1>6, <2>5 DEF Leave
<1> QED BY <1>1, <1>2, <1>3, <1>4, <1>5, <1>6 DEF MutexNext

\* A goroutine that joins an entry the map has is counted in it.
LEMMA ReferShared ==
  ASSUME MutexTypeOK, MutexInv, NEW g \in Procs, NEW k \in Keys, Refer(g, k), locks[k] # Nil
  PROVE MutexInv'
<1> USE DEF MutexTypeOK
<1>0. /\ turn[g] = "out" /\ locks' = locks /\ held' = held
      /\ turn' = [turn EXCEPT ![g] = "waiting"] /\ want' = [want EXCEPT ![g] = k]
      /\ entry' = [entry EXCEPT ![g] = locks[k]]
      /\ waiters' = [waiters EXCEPT ![locks[k]] = @ + 1] /\ locks[k] \in Entries
  BY DEF Refer
<1>1. \A h \in Procs : turn'[h] # "out" =>
        want'[h] \in Keys /\ entry'[h] \in Entries /\ locks'[want'[h]] = entry'[h]
  BY <1>0 DEF MutexInv
<1>2. \A j, l \in Keys : locks'[j] # Nil /\ locks'[j] = locks'[l] => j = l
  BY <1>0 DEF MutexInv
<1>3. Referring(locks[k])' = Referring(locks[k]) \cup {g} /\ g \notin Referring(locks[k])
  BY <1>0 DEF Referring
<1>4. \A j \in Keys : locks[j] # locks[k] => Referring(locks[j])' = Referring(locks[j])
  BY <1>0 DEF Referring
<1>5. ASSUME NEW j \in Keys, locks'[j] # Nil
      PROVE Referring(locks[j])' # {} /\ waiters'[locks[j]] = Cardinality(Referring(locks[j])')
  <2>1. Referring(locks[j]) # {} /\ waiters[locks[j]] = Cardinality(Referring(locks[j]))
    BY <1>0, <1>5 DEF MutexInv
  <2>2. CASE locks[j] = locks[k]
    <3>1. waiters'[locks[k]] = waiters[locks[k]] + 1
      BY <1>0
    <3>2. Cardinality(Referring(locks[k]) \cup {g}) = Cardinality(Referring(locks[k])) + 1
      BY <1>3, ReferringFinite, CountStep
    <3>3. Referring(locks[j])' = Referring(locks[k]) \cup {g}
      BY <1>0, <1>3, <2>2 DEF Referring
    <3> QED BY <2>1, <2>2, <3>1, <3>2, <3>3
  <2>3. CASE locks[j] # locks[k]
    <3>1. waiters'[locks[j]] = waiters[locks[j]]
      BY <1>0, <1>5, <2>3
    <3> QED BY <1>4, <2>1, <2>3, <3>1
  <2> QED BY <2>2, <2>3
<1>6. \A h \in Procs : turn'[h] = "holding" => held'[entry'[h]]
  BY <1>0 DEF MutexInv
<1>7. \A h, i \in Procs :
        turn'[h] = "holding" /\ turn'[i] = "holding" /\ entry'[h] = entry'[i] => h = i
  BY <1>0 DEF MutexInv
<1>8. \A j \in Keys : locks'[j] = locks[j]
  BY <1>0
<1> QED BY <1>0, <1>1, <1>2, <1>5, <1>6, <1>7 DEF MutexInv, Referring

\* A goroutine that makes a new entry is the only one that refers to it.
LEMMA ReferNew ==
  ASSUME MutexTypeOK, MutexInv, NEW g \in Procs, NEW k \in Keys, Refer(g, k), locks[k] = Nil
  PROVE MutexInv'
<1> USE DEF MutexTypeOK
<1>0. PICK e \in Entries :
        /\ Referring(e) = {} /\ \A j \in Keys : locks[j] # e
        /\ locks' = [locks EXCEPT ![k] = e] /\ entry' = [entry EXCEPT ![g] = e]
        /\ waiters' = [waiters EXCEPT ![e] = 1] /\ held' = [held EXCEPT ![e] = FALSE]
  BY DEF Refer
<1>1. /\ turn[g] = "out" /\ turn' = [turn EXCEPT ![g] = "waiting"]
      /\ want' = [want EXCEPT ![g] = k] /\ e # Nil
  BY KeyedMutexAssumption DEF Refer
<1>2. \A h \in Procs : turn[h] # "out" => want[h] # k /\ entry[h] # e
  <2>1. \A h \in Procs : turn[h] # "out" =>
          want[h] \in Keys /\ entry[h] \in Entries /\ locks[want[h]] = entry[h]
    BY DEF MutexInv
  <2> QED BY <1>0, <2>1, KeyedMutexAssumption
<1>3. \A h \in Procs : turn'[h] # "out" =>
        want'[h] \in Keys /\ entry'[h] \in Entries /\ locks'[want'[h]] = entry'[h]
  <2>1. \A h \in Procs : turn[h] # "out" =>
          want[h] \in Keys /\ entry[h] \in Entries /\ locks[want[h]] = entry[h]
    BY DEF MutexInv
  <2> QED BY <1>0, <1>1, <1>2, <2>1
<1>4. \A j, l \in Keys : locks'[j] # Nil /\ locks'[j] = locks'[l] => j = l
  BY <1>0, <1>1 DEF MutexInv
<1>5. Referring(e)' = {g}
  BY <1>0, <1>1, <1>2 DEF Referring
<1>7. ASSUME NEW j \in Keys, locks'[j] # Nil
      PROVE Referring(locks[j])' # {} /\ waiters'[locks'[j]] = Cardinality(Referring(locks[j])')
  <2>1. CASE j = k
    <3>1. locks'[j] = e /\ waiters'[e] = 1
      BY <1>0, <2>1
    <3>2. Cardinality({g}) = 1
      BY FS_Singleton
    <3>3. Referring(locks[j])' = {g}
      BY <1>5, <3>1 DEF Referring
    <3> QED BY <3>1, <3>2, <3>3
  <2>2. CASE j # k
    <3>1. locks'[j] = locks[j] /\ locks[j] # e /\ locks[j] # Nil /\ locks[j] \in Entries
      BY <1>0, <1>7, <2>2
    <3>2. Referring(locks[j]) # {} /\ waiters[locks[j]] = Cardinality(Referring(locks[j]))
      BY <3>1 DEF MutexInv
    <3>3. Referring(locks[j])' = Referring(locks[j])
      BY <1>0, <1>1, <3>1 DEF Referring
    <3>4. waiters'[locks'[j]] = waiters[locks[j]]
      BY <1>0, <3>1
    <3> QED BY <3>2, <3>3, <3>4
  <2> QED BY <2>1, <2>2
<1>8. \A h \in Procs : turn'[h] = "holding" => held'[entry'[h]]
  <2>1. \A h \in Procs : turn[h] = "holding" => held[entry[h]]
    BY DEF MutexInv
  <2> QED BY SMTT(30), <1>0, <1>1, <1>2, <2>1
<1>9. \A h, i \in Procs :
        turn'[h] = "holding" /\ turn'[i] = "holding" /\ entry'[h] = entry'[i] => h = i
  <2>1. \A h, i \in Procs :
          turn[h] = "holding" /\ turn[i] = "holding" /\ entry[h] = entry[i] => h = i
    BY DEF MutexInv
  <2> QED BY <1>0, <1>1, <2>1
<1> QED BY <1>3, <1>4, <1>7, <1>8, <1>9 DEF MutexInv

\* Waiting, holding and letting go change nobody's reference; only an empty
\* channel is filled, so the one that fills it is alone.
LEMMA ChannelStep ==
  ASSUME MutexTypeOK, MutexInv, NEW g \in Procs, Acquire(g) \/ Cancel(g) \/ Release(g)
  PROVE MutexInv'
<1> USE DEF MutexTypeOK
<1>0. /\ locks' = locks /\ waiters' = waiters /\ want' = want /\ entry' = entry
      /\ turn[g] # "out" /\ \A h \in Procs : turn'[h] = "out" <=> turn[h] = "out"
  BY DEF Acquire, Cancel, Release
<1>2. \A k \in Keys : (Referring(locks[k]))' = Referring(locks[k])
  BY <1>0 DEF Referring
<1>3. /\ \A h \in Procs : turn'[h] # "out" =>
        want'[h] \in Keys /\ entry'[h] \in Entries /\ locks'[want'[h]] = entry'[h]
      /\ \A j, k \in Keys : locks'[j] # Nil /\ locks'[j] = locks'[k] => j = k
      /\ \A k \in Keys : locks'[k] # Nil =>
           /\ Referring(locks[k])' # {}
           /\ waiters'[locks'[k]] = Cardinality(Referring(locks[k])')
  BY SMTT(30), <1>0, <1>2 DEF MutexInv
<1>4. /\ entry[g] \in Entries
      /\ \A h \in Procs : turn[h] = "holding" => entry[h] \in Entries /\ held[entry[h]]
      /\ \A h, i \in Procs :
           turn[h] = "holding" /\ turn[i] = "holding" /\ entry[h] = entry[i] => h = i
  BY <1>0 DEF MutexInv
<1>5. /\ \A h \in Procs : turn'[h] = "holding" => held'[entry'[h]]
      /\ \A h, i \in Procs :
           turn'[h] = "holding" /\ turn'[i] = "holding" /\ entry'[h] = entry'[i] => h = i
  <2>1. CASE Acquire(g)
    BY SMTT(30), <1>4, <2>1 DEF Acquire
  <2>2. CASE Cancel(g)
    BY <1>4, <2>2 DEF Cancel
  <2>3. CASE Release(g)
    BY <1>4, <2>3 DEF Release
  <2> QED BY <2>1, <2>2, <2>3
<1> QED BY <1>3, <1>5 DEF MutexInv

\* releaseReference takes the entry out of the map with its last reference, and
\* not before.
LEMMA LeaveStep ==
  ASSUME MutexTypeOK, MutexInv, NEW g \in Procs, Leave(g) PROVE MutexInv'
<1> USE DEF MutexTypeOK
<1> DEFINE e == entry[g]
<1> DEFINE k == want[g]
<1>0. /\ turn[g] = "leaving" /\ turn' = [turn EXCEPT ![g] = "out"]
      /\ waiters' = [waiters EXCEPT ![e] = @ - 1]
      /\ locks' = IF waiters[e] = 1 THEN [locks EXCEPT ![k] = Nil] ELSE locks
      /\ held' = held /\ e \in Entries /\ k \in Keys
      /\ want' = [want EXCEPT ![g] = Nil] /\ entry' = [entry EXCEPT ![g] = Nil]
  BY DEF Leave, MutexInv
<1>1. locks[k] = e /\ e # Nil
  BY <1>0, KeyedMutexAssumption DEF MutexInv
<1>2. waiters[e] = Cardinality(Referring(e)) /\ g \in Referring(e) /\ IsFiniteSet(Referring(e))
  <2>1. waiters[locks[k]] = Cardinality(Referring(locks[k]))
    BY <1>0, <1>1 DEF MutexInv
  <2>2. g \in Referring(e)
    BY <1>0 DEF Referring
  <2> QED BY <1>1, <2>1, <2>2, ReferringFinite
<1>3. Cardinality(Referring(e) \ {g}) = waiters[e] - 1 /\ waiters[e] \in Nat
  BY <1>2, CountStep
<1>4. waiters[e] = 1 => Referring(e) = {g}
  <2> SUFFICES ASSUME waiters[e] = 1 PROVE Referring(e) = {g}
    OBVIOUS
  <2>1. Cardinality(Referring(e) \ {g}) = 0
    BY SMTT(30), <1>3
  <2>2. IsFiniteSet(Referring(e) \ {g})
    BY <1>2, FS_RemoveElement
  <2>3. Referring(e) \ {g} = {}
    BY <2>1, <2>2, FS_EmptySet
  <2> QED BY <1>2, <2>3
<1>5. \A j \in Keys : locks'[j] # Nil => locks'[j] = locks[j]
  <2>1. CASE waiters[e] = 1
    BY <1>0, <2>1
  <2>2. CASE waiters[e] # 1
    BY <1>0, <2>2
  <2> QED BY <2>1, <2>2
<1>6. \A h \in Procs : turn'[h] # "out" =>
        want'[h] \in Keys /\ entry'[h] \in Entries /\ locks'[want'[h]] = entry'[h]
  <2> SUFFICES ASSUME NEW h \in Procs, turn'[h] # "out"
               PROVE want'[h] \in Keys /\ entry'[h] \in Entries /\ locks'[want'[h]] = entry'[h]
    OBVIOUS
  <2>1. h # g /\ turn[h] # "out" /\ want'[h] = want[h] /\ entry'[h] = entry[h]
    BY <1>0
  <2>2. want[h] \in Keys /\ entry[h] \in Entries /\ locks[want[h]] = entry[h]
    BY <2>1 DEF MutexInv
  <2>3. CASE waiters[e] = 1
    <3>1. entry[h] # e
      BY <1>4, <2>1, <2>3 DEF Referring
    <3>2. want[h] # k
      BY <1>1, <2>2, <3>1
    <3> QED BY <1>0, <2>1, <2>2, <2>3, <3>2
  <2>4. CASE waiters[e] # 1
    BY <1>0, <2>1, <2>2, <2>4
  <2> QED BY <2>3, <2>4
<1>7. \A j, l \in Keys : locks'[j] # Nil /\ locks'[j] = locks'[l] => j = l
  BY SMTT(30), <1>5 DEF MutexInv
<1>8. ASSUME NEW j \in Keys, locks'[j] # Nil
      PROVE Referring(locks[j])' # {} /\ waiters'[locks'[j]] = Cardinality(Referring(locks[j])')
  <2>1. locks'[j] = locks[j] /\ locks[j] # Nil /\ locks[j] \in Entries
    BY <1>5, <1>8
  <2>2. Referring(locks[j]) # {} /\ waiters[locks[j]] = Cardinality(Referring(locks[j]))
    BY <2>1 DEF MutexInv
  <2>3. CASE j = k
    <3>1. waiters[e] # 1 /\ locks[j] = e
      BY <1>0, <1>1, <1>8, <2>3
    <3>2. Referring(locks[j])' = Referring(e) \ {g}
      BY <1>0, <2>1, <3>1 DEF Referring
    <3>3. waiters'[e] = waiters[e] - 1
      BY <1>0
    <3>4. Cardinality(Referring(e) \ {g}) # 0
      BY SMTT(30), <1>3, <3>1
    <3>5. Referring(e) \ {g} # {}
      BY <3>4, FS_EmptySet
    <3> QED BY <1>3, <2>1, <3>1, <3>2, <3>3, <3>5
  <2>4. CASE j # k
    <3>1. locks[j] # e
      BY SMTT(30), <1>0, <1>1, <2>4 DEF MutexInv
    <3>2. Referring(locks[j])' = Referring(locks[j])
      BY <1>0, <2>1, <3>1 DEF Referring
    <3>3. waiters'[locks'[j]] = waiters[locks[j]]
      BY <1>0, <2>1, <3>1
    <3> QED BY <2>2, <3>2, <3>3
  <2> QED BY <2>3, <2>4
<1>9. /\ \A h \in Procs : turn'[h] = "holding" => held'[entry'[h]]
      /\ \A h, i \in Procs :
           turn'[h] = "holding" /\ turn'[i] = "holding" /\ entry'[h] = entry'[i] => h = i
  BY <1>0 DEF MutexInv
<1> QED BY <1>6, <1>7, <1>8, <1>9 DEF MutexInv

\* Every step of the mutex keeps types and references in order.
LEMMA MutexKept ==
  ASSUME MutexTypeOK, MutexInv, [MutexNext]_mutexVars
  PROVE  MutexTypeOK' /\ MutexInv'
<1> SUFFICES MutexInv'
  BY MutexTypes
<1>1. CASE UNCHANGED mutexVars
  <2>1. \A k \in Keys : Referring(locks[k])' = Referring(locks[k])
    BY <1>1 DEF mutexVars, Referring
  <2> QED BY <1>1, <2>1 DEF mutexVars, MutexInv
<1>2. CASE MutexNext
  <2>1. PICK g \in Procs :
          (\E k \in Keys : Refer(g, k)) \/ Acquire(g) \/ Cancel(g) \/ Release(g) \/ Leave(g)
    BY <1>2 DEF MutexNext
  <2>2. CASE Acquire(g) \/ Cancel(g) \/ Release(g)
    BY <2>2, ChannelStep
  <2>3. CASE Leave(g)
    BY <2>3, LeaveStep
  <2>4. ASSUME NEW k \in Keys, Refer(g, k) PROVE MutexInv'
    BY <2>4, ReferShared, ReferNew
  <2> QED BY <2>1, <2>2, <2>3, <2>4
<1> QED BY <1>1, <1>2

\* The inductive invariant holds of every behaviour of the mutex.
THEOREM MutexSafe == MutexSpec => [](MutexTypeOK /\ MutexInv)
<1>1. MutexInit => MutexTypeOK /\ MutexInv
  BY SMTT(30) DEF MutexInit, MutexTypeOK, MutexInv
<1>2. MutexTypeOK /\ MutexInv /\ [MutexNext]_mutexVars => (MutexTypeOK /\ MutexInv)'
  BY MutexKept
<1> QED BY <1>1, <1>2, PTL DEF MutexSpec

\* Two goroutines never hold one key of the keyed mutex: for every number of
\* goroutines, keys and entries.
THEOREM NameLockExcludes == MutexSpec => []MutualExclusion
<1>1. MutexTypeOK /\ MutexInv => MutualExclusion
  BY SMTT(30) DEF MutexTypeOK, MutexInv, MutualExclusion
<1> QED BY <1>1, MutexSafe, PTL

\* The map of the keyed mutex keeps an entry exactly for the keys in use.
THEOREM EntriesReclaimed == MutexSpec => []Reclaimed
<1>1. MutexTypeOK /\ MutexInv => Reclaimed
  <2> SUFFICES ASSUME MutexTypeOK, MutexInv, NEW k \in Keys
               PROVE locks[k] # Nil <=> \E g \in Procs : turn[g] # "out" /\ want[g] = k
    BY DEF Reclaimed
  <2>1. ASSUME locks[k] # Nil PROVE \E g \in Procs : turn[g] # "out" /\ want[g] = k
    <3>1. PICK g \in Procs : turn[g] # "out" /\ entry[g] = locks[k]
      <4>1. Referring(locks[k]) # {}
        BY <2>1 DEF MutexInv
      <4> QED BY <4>1 DEF Referring
    <3>2. want[g] \in Keys /\ locks[want[g]] = locks[k]
      BY <3>1 DEF MutexInv, MutexTypeOK
    <3> QED BY <2>1, <3>1, <3>2 DEF MutexInv
  <2>2. ASSUME NEW g \in Procs, turn[g] # "out", want[g] = k PROVE locks[k] # Nil
    BY SMTT(30), <2>2, KeyedMutexAssumption DEF MutexInv, MutexTypeOK
  <2> QED BY <2>1, <2>2
<1> QED BY <1>1, MutexSafe, PTL

-----------------------------------------------------------------------------
\* A nonempty set of numbers has its minimum.
LEMMA MinIn ==
  ASSUME NEW S \in SUBSET Nat, S # {}
  PROVE  Min(S) \in S
<1>1. \E x \in S : \A y \in S : ~(<<y, x>> \in OpToRel(<, Nat))
  BY NatLessThanWellFounded, WFMin
<1>2. PICK x \in S : \A y \in S : ~(<<y, x>> \in OpToRel(<, Nat))
  BY <1>1
<1>3. ASSUME NEW y \in S PROVE x <= y
  <2>1. x \in Nat /\ y \in Nat
    OBVIOUS
  <2>2. <<y, x>> \in Nat \X Nat /\ <<y, x>>[1] = y /\ <<y, x>>[2] = x
    BY SMTT(30), <2>1
  <2>3. ~(y < x)
    BY <1>2, <2>2 DEF OpToRel
  <2> QED BY SMTT(30), <2>1, <2>3
<1> QED BY <1>3 DEF Min

\* Fewer names count less.
LEMMA Fewer ==
  ASSUME NEW T \in SUBSET Keys, NEW S \in SUBSET T
  PROVE  Cardinality(S) \in Nat /\ Cardinality(T) \in Nat /\ Cardinality(S) <= Cardinality(T)
<1>1. IsFiniteSet(T) /\ IsFiniteSet(S)
  BY VMAssumption, FS_Subset
<1> QED BY <1>1, FS_Subset, FS_CardinalityType

-----------------------------------------------------------------------------
(* Steps that only move a goroutine between rest, lock and work.           *)

\* Goroutine p comes, waits, locks or leaves: the host stays what it is.
Shifts(p) ==
  /\ req' \in [Procs -> Goroutines] /\ \A q \in Procs \ {p} : req'[q] = req[q]
  /\ \A q \in Procs \ {p} : turn'[q] = turn[q] /\ want'[q] = want[q]
  /\ UNCHANGED <<host, inflight, created, removed, troubled, phase>> /\ todo' \subseteq todo
  /\ plan' \in Courses /\ plan'.requests <= plan.requests /\ plan'.foreign = plan.foreign
  /\ [MutexNext]_mutexVars

\* It stands where its turn at the lock says it stands.
Placed(p) ==
  /\ turn'[p] = "out" <=> req'[p].pc = "idle"
  /\ turn'[p] = "waiting" <=> req'[p].pc = "lock"
  /\ turn'[p] = "leaving" <=> req'[p].pc = "leave"
  /\ req'[p].pc # "idle" => want'[p] = req'[p].name

\* It is there only in its phase.
Timely(p) ==
  /\ req'[p].pc # "idle" => phase = IF p = Boot THEN "booting" ELSE "up"
  /\ req'[p].op = "recover" => p = Boot
  /\ p = Boot /\ req'[p].pc # "idle" => req'[p].op = "recover"

\* A name it no longer works on is in order.
Leaves(p) ==
  \A n \in Keys \ todo' :
    ~Busy(p, n)' => (n \notin todo /\ ~Busy(p, n)) \/ host[n].dom.state = "ready" \/ troubled

\* Its creation has an identity nobody else has.
Unique(p) ==
  req'[p].op = "create" /\ req'[p].pc # "idle" =>
    /\ req'[p].id > plan'.requests
    /\ \A q \in Procs \ {p} : Creating(q) => req[q].id # req'[p].id
    /\ \A n \in Keys : host[n].dom.id = req'[p].id => n = req'[p].name

\* It holds no slot and decides nothing, before and after.
Slotless(r) == ~Reserves(r) /\ r.pc # "decide"

\* Such a step takes nothing from the quota.
LEMMA QuotaShifts ==
  ASSUME Safe, NEW p \in Procs, Shifts(p), Slotless(req[p]), Slotless(req'[p])
  PROVE  QuotaInv'
<1>1. host' = host /\ inflight' = inflight /\ \A q \in Procs : q # p => req'[q] = req[q]
  BY DEF Shifts
<1>2. Existing' = Existing
  BY <1>1 DEF Existing
<1>3. Reserved' = Reserved
  <2>1. ASSUME NEW n \in Keys
        PROVE  (\E q \in Procs : Reserves(req'[q]) /\ req'[q].name = n)
                 <=> (\E q \in Procs : Reserves(req[q]) /\ req[q].name = n)
    BY <1>1 DEF Slotless
  <2> QED BY <2>1 DEF Reserved, Name
<1>4. \A o \in DOMAIN inflight' :
        /\ inflight'[o] = Cardinality(OwnedBy(o) \cap Reserved')
        /\ Cardinality(OwnedBy(o) \cap (Existing' \cup Reserved')) <= Limit
  BY <1>1, <1>2, <1>3 DEF Safe, QuotaInv
<1>5. ASSUME NEW q \in Procs, At(q, "decide")' PROVE Counted(q)' /\ q # p /\ At(q, "decide")
  <2>1. q # p /\ req'[q] = req[q]
    BY <1>1, <1>5 DEF Slotless, At
  <2>2. Counted(q) /\ At(q, "decide")
    BY <1>5, <2>1 DEF Safe, QuotaInv, At
  <2> QED BY <1>2, <1>3, <2>1, <2>2 DEF Counted, Mine, Name
<1>6. ASSUME NEW q \in Procs, NEW r \in Procs, At(q, "decide")', At(r, "decide")',
          Owner[Name(q)'] = Owner[Name(r)']
      PROVE  q = r
  <2>1. req'[q] = req[q] /\ req'[r] = req[r] /\ At(q, "decide") /\ At(r, "decide")
    BY <1>1, <1>5, <1>6
  <2> QED BY <1>6, <2>1 DEF Safe, QuotaInv, Name
<1> QED BY <1>4, <1>5, <1>6 DEF QuotaInv, OwnedBy

\* ... and keeps every other goroutine and every name in order.
LEMMA LifeShifts ==
  ASSUME Safe, NEW p \in Procs, Shifts(p), Placed(p), Timely(p), Leaves(p), Unique(p), Local(p)'
  PROVE  LifeInv'
<1>1. /\ \A q \in Procs : q # p => req'[q] = req[q] /\ turn'[q] = turn[q] /\ want'[q] = want[q]
      /\ host' = host /\ created' = created /\ removed' = removed /\ troubled' = troubled /\ phase' = phase
      /\ todo' \subseteq todo /\ plan'.foreign = plan.foreign
  BY DEF Shifts
<1>2. Live' = Live
  BY <1>1 DEF Live
<1>3. Linked'
  <2> SUFFICES ASSUME NEW q \in Procs
               PROVE  /\ turn'[q] = "out" <=> req'[q].pc = "idle"
                      /\ turn'[q] = "waiting" <=> req'[q].pc = "lock"
                      /\ turn'[q] = "leaving" <=> req'[q].pc = "leave"
                      /\ req'[q].pc # "idle" => want'[q] = req'[q].name
    BY DEF Linked, At, Name
  <2>1. CASE q = p
    BY <2>1 DEF Placed
  <2>2. CASE q # p
    <3>1. /\ turn[q] = "out" <=> At(q, "idle")
          /\ turn[q] = "waiting" <=> At(q, "lock")
          /\ turn[q] = "leaving" <=> At(q, "leave")
          /\ ~At(q, "idle") => want[q] = Name(q)
      BY DEF Safe, LifeInv, Linked
    <3> QED BY <1>1, <2>2, <3>1 DEF At, Name
  <2> QED BY <2>1, <2>2
<1>4. Phases'
  <2>1. Phases
    BY DEF Safe, LifeInv
  <2>2. phase' # "up" => \A q \in Requests : req'[q].pc = "idle"
    BY <1>1, <2>1 DEF Phases, At, Requests, Timely
  <2>3. phase' # "booting" => req'[Boot].pc = "idle" /\ todo' = {}
    BY <1>1, <2>1, VMAssumption DEF Phases, At, Timely
  <2>4. \A q \in Procs : req'[q].op = "recover" => q = Boot
    BY <1>1, <2>1 DEF Phases, Timely
  <2>5. req'[Boot].pc # "idle" => req'[Boot].op = "recover"
    BY <1>1, <2>1, VMAssumption DEF Phases, At, Timely
  <2> QED BY <2>2, <2>3, <2>4, <2>5 DEF Phases, At, Requests
<1>5. Rest'
  <2> SUFFICES ASSUME phase' # "down", ~troubled', NEW n \in Keys \ todo', \A q \in Procs : ~Busy(q, n)'
               PROVE  host'[n].dom.state = "ready"
    BY DEF Rest
  <2>1. \A q \in Procs : q # p => ~Busy(q, n)
    BY <1>1 DEF Busy, At, Name
  <2>2. (n \notin todo /\ ~Busy(p, n)) \/ host[n].dom.state = "ready"
    BY <1>1 DEF Leaves
  <2> QED BY <1>1, <2>1, <2>2 DEF Safe, LifeInv, Rest
<1>6. Survivors' /\ \A n \in Keys : Named(n)'
  BY <1>1, <1>2 DEF Safe, LifeInv, Survivors, Named
<1>7. \A q \in Procs : Local(q)'
  <2> SUFFICES ASSUME NEW q \in Procs, q # p PROVE Local(q)'
    OBVIOUS
  <2>1. Local(q)
    BY DEF Safe, LifeInv
  <2> QED BY <1>1, <1>2, <2>1 DEF Local, At, Name, Here
<1>8. Ids'
  <2>1. plan.requests \in Nat /\ plan'.requests \in Nat /\ plan'.requests <= plan.requests
    BY SMTT(30) DEF Safe, VMTyped, Courses, Shifts
  <2>2. Ids
    BY DEF Safe, LifeInv
  <2>3. \A i \in Nat : i > plan.requests => i > plan'.requests
    BY SMTT(30), <2>1
  <2>4. \A q \in Procs : Creating(q) => req[q].id > plan'.requests
    <3>1. \A q \in Procs : req[q].id \in Nat
      BY SMTT(30) DEF Safe, VMTyped, Goroutines
    <3> QED BY <2>2, <2>3, <3>1 DEF Ids
  <2>5. \A n \in Keys : host[n].dom.id # 0 => host[n].dom.id > plan'.requests
    <3>1. \A n \in Keys : host[n].dom.id \in Nat
      BY SMTT(30) DEF Safe, VMTyped, Hosts, Domains
    <3> QED BY <2>2, <2>3, <3>1 DEF Ids
  <2>6. \A i \in created : i \in Nat /\ i > plan'.requests
    BY <2>2, <2>3 DEF Ids
  <2>7. \A q \in Procs : q # p => (Creating(q)' <=> Creating(q))
    BY <1>1 DEF Creating, At
  <2>8. Creating(p)' => req'[p].op = "create" /\ req'[p].pc # "idle"
    BY DEF Creating, At
  <2>9. \A q \in Procs : Creating(q)' => req'[q].id > plan'.requests
    BY <1>1, <2>4, <2>7, <2>8 DEF Unique
  <2>10. \A q, r \in Procs : Creating(q)' /\ Creating(r)' /\ req'[q].id = req'[r].id => q = r
    <3> SUFFICES ASSUME NEW q \in Procs, NEW r \in Procs, Creating(q)', Creating(r)',
            req'[q].id = req'[r].id, q # r
                 PROVE  FALSE
      OBVIOUS
    <3>1. CASE q = p
      BY <1>1, <2>7, <2>8, <3>1 DEF Unique
    <3>2. CASE r = p
      BY <1>1, <2>7, <2>8, <3>2 DEF Unique
    <3>3. CASE q # p /\ r # p
      BY <1>1, <2>2, <2>7, <3>3 DEF Ids
    <3> QED BY <3>1, <3>2, <3>3
  <2>11. \A q \in Procs, n \in Keys : Creating(q)' /\ host[n].dom.id = req'[q].id => n = req'[q].name
    BY <1>1, <2>2, <2>7, <2>8 DEF Unique, Ids, Name
  <2> QED BY <1>1, <2>5, <2>6, <2>9, <2>10, <2>11 DEF Ids, Name
<1> QED BY <1>3, <1>4, <1>5, <1>6, <1>7, <1>8 DEF LifeInv

\* Together.
LEMMA Shifted ==
  ASSUME Safe, NEW p \in Procs, Shifts(p), Placed(p), Timely(p), Leaves(p), Unique(p), Local(p)',
         Slotless(req[p]), Slotless(req'[p])
  PROVE  Safe'
<1>1. VMTyped'
  BY DEF Safe, VMTyped, Shifts
<1>2. MutexTypeOK' /\ MutexInv'
  BY MutexKept DEF Safe, Shifts
<1> QED BY <1>1, <1>2, QuotaShifts, LifeShifts DEF Safe


\* The record of a goroutine at rest.
LEMMA Idler ==
  Idle \in Goroutines /\ Idle.op = "none" /\ Idle.pc = "idle" /\ ~Idle.own /\ Idle.id = 0
BY SMTT(30) DEF Idle, Goroutines

\* What the goroutines do, and the record of one that arrives at the lock of a
\* name; a creation has its identity too.
Errands == {"create", "start", "restart", "stop", "remove", "recover"}
Asking(o, n) == [Idle EXCEPT !.op = o, !.pc = "lock", !.name = n]
AskingAs(o, n, i) == [Idle EXCEPT !.op = o, !.pc = "lock", !.name = n, !.id = i]
Asks(s, o, n, i) ==
  s \in Goroutines /\ s.op = o /\ s.pc = "lock" /\ s.name = n /\ s.id = i /\ ~s.own

\* They are records of goroutines.
LEMMA Askers ==
  ASSUME NEW o \in Errands, NEW n \in Keys, NEW i \in Nat
  PROVE  Asks(Asking(o, n), o, n, 0) /\ Asks(AskingAs(o, n, i), o, n, i)
<1>1. PICK s : s = AskingAs(o, n, i)
  OBVIOUS
<1>2. PICK a : a = [Idle EXCEPT !.op = o]
  OBVIOUS
<1>3. Idle \in Goroutines /\ ~Idle.own /\ Idle.id = 0
  BY Idler
<1>4. a \in Goroutines /\ a.op = o /\ ~a.own /\ a.id = 0
  BY SMTT(30), <1>2, <1>3 DEF Goroutines, Errands
<1>5. PICK b : b = [a EXCEPT !.pc = "lock"]
  OBVIOUS
<1>6. b \in Goroutines /\ b.op = o /\ b.pc = "lock" /\ ~b.own /\ b.id = 0
  BY SMTT(30), <1>4, <1>5 DEF Goroutines
<1>7. PICK c : c = [b EXCEPT !.name = n]
  OBVIOUS
<1>8. c \in Goroutines /\ c.op = o /\ c.pc = "lock" /\ c.name = n /\ ~c.own /\ c.id = 0
  BY SMTT(30), <1>6, <1>7 DEF Goroutines
<1>9. s = [c EXCEPT !.id = i] /\ c = Asking(o, n)
  BY <1>1, <1>2, <1>5, <1>7 DEF Asking, AskingAs
<1>10. s \in Goroutines /\ s.op = o /\ s.pc = "lock" /\ s.name = n /\ s.id = i /\ ~s.own
  BY SMTT(30), <1>8, <1>9 DEF Goroutines
<1> QED BY <1>1, <1>8, <1>9, <1>10 DEF Asks

\* Where nobody holds a slot: at rest, at the lock and at the ends of the work.
LEMMA Outside ==
  ASSUME NEW r
  PROVE  /\ r.pc = "idle" \/ r.pc = "lock" \/ r.pc = "leave" => Slotless(r) /\ r.pc \notin Work
         /\ r.pc = "unlock" \/ r.pc = "recover" \/ r.pc = "mark" \/ r.pc = "power" => Slotless(r)
BY SMTT(30) DEF Slotless, Reserves, Making, Building, Undoing, Work, Deciding

\* A goroutine has its phase.
LEMMA InPhase ==
  ASSUME Safe, NEW p \in Procs, ~At(p, "idle")
  PROVE  /\ phase = IF p = Boot THEN "booting" ELSE "up"
         /\ p = Boot <=> req[p].op = "recover"
<1>1. Phases
  BY DEF Safe, LifeInv
<1> QED BY <1>1 DEF Phases, Requests

\* A goroutine that stays with its request keeps its phase and its identity.
LEMMA Staying ==
  ASSUME Safe, NEW p \in Procs, Shifts(p), ~At(p, "idle"),
         req'[p].op = req[p].op, req'[p].name = req[p].name, req'[p].id = req[p].id, plan' = plan
  PROVE  Timely(p) /\ Unique(p)
<1>1. Timely(p)
  BY InPhase DEF Timely
<1>2. ASSUME req[p].op = "create"
      PROVE  /\ req[p].id > plan.requests
             /\ \A q \in Procs \ {p} : Creating(q) => req[q].id # req[p].id
             /\ \A n \in Keys : host[n].dom.id = req[p].id => n = req[p].name
  <2>1. Creating(p)
    BY <1>2 DEF Creating
  <2> QED BY <2>1 DEF Safe, LifeInv, Ids, Name
<1> QED BY <1>1, <1>2 DEF Unique

\* A label is all that changes.
LEMMA Relabels ==
  ASSUME Safe, NEW p \in Procs, NEW label \in Work \cup {"leave"}, Goto(p, label), NEW g, g = mutexVars,
         UNCHANGED <<host, plan, phase, todo, bootFailed, troubled>>, Still,
         Acquire(p) \/ Cancel(p) \/ Release(p)
  PROVE  /\ Shifts(p) /\ req'[p].pc = label /\ req'[p].name = req[p].name /\ Same(req'[p], req[p])
<1>1. req \in [Procs -> Goroutines] /\ plan \in Courses /\ req[p] \in Goroutines
  BY DEF Safe, VMTyped
<1>2. req' = [req EXCEPT ![p] = [req[p] EXCEPT !.pc = label]]
  BY <1>1 DEF Goto
<1>3. req'[p] = [req[p] EXCEPT !.pc = label] /\ \A q \in Procs \ {p} : req'[q] = req[q]
  BY <1>1, <1>2
<1>4. /\ req'[p] \in Goroutines /\ Same(req'[p], req[p]) /\ req'[p].pc = label /\ req'[p].name = req[p].name
  BY SMTT(30), <1>1, <1>3 DEF Goroutines, Same
<1>5. req' \in [Procs -> Goroutines]
  BY <1>1, <1>2, <1>3, <1>4
<1>6. \A q \in Procs \ {p} : turn'[q] = turn[q] /\ want'[q] = want[q]
  BY DEF Safe, MutexTypeOK, Acquire, Cancel, Release
<1>7. plan'.requests <= plan.requests
  <2>1. plan.requests \in Nat /\ plan' = plan
    BY SMTT(30), <1>1 DEF Courses
  <2> QED BY SMTT(30), <2>1
<1>8. MutexNext
  BY DEF MutexNext
<1> QED BY <1>1, <1>3, <1>4, <1>5, <1>6, <1>7, <1>8 DEF Shifts, Still

\* A creation whose context ends while it waits.
LEMMA GiveUpSafe ==
  ASSUME Safe, NEW p \in Procs, GiveUp(p)
  PROVE  Safe'
<1>1. /\ Shifts(p) /\ req'[p].pc = "leave" /\ req'[p].name = req[p].name /\ Same(req'[p], req[p])
  BY Relabels DEF GiveUp
<1>2. /\ req[p].pc = "lock" /\ req[p].op = "create" /\ turn'[p] = "leaving" /\ want'[p] = want[p]
      /\ plan' = plan /\ todo' = todo
  BY DEF GiveUp, At, Cancel, Safe, MutexTypeOK
<1>3. Slotless(req[p]) /\ Slotless(req'[p]) /\ req'[p].pc \notin Work
  BY <1>1, <1>2, Outside
<1>4. Placed(p)
  <2>1. want[p] = Name(p)
    BY <1>2 DEF Safe, LifeInv, Linked, At
  <2> QED BY <1>1, <1>2, <2>1 DEF Placed, Name
<1>5. Timely(p) /\ Unique(p)
  BY <1>1, <1>2, Staying DEF At, Same
<1>6. Leaves(p)
  <2>1. \A n \in Keys : ~Busy(p, n)
    <3>1. req[p].pc \notin Work /\ req[p].op # "recover"
      BY <1>2, Outside
    <3> QED BY <3>1 DEF Busy
  <2> QED BY <1>2, <2>1 DEF Leaves
<1>7. Local(p)'
  <2>1. Duty(req[p])
    BY DEF Safe, LifeInv, Local
  <2>2. Duty(req'[p])
    BY SMTT(30), <1>1, <1>2, <2>1 DEF Duty, Same, Deciding, Making, Building, Undoing
  <2> QED BY <1>1, <1>2, <1>3, <2>2 DEF Local, At, Same
<1> QED BY <1>1, <1>3, <1>4, <1>5, <1>6, <1>7, Shifted

\* The name lock is released.
LEMMA UnlockSafe ==
  ASSUME Safe, NEW p \in Procs, Unlock(p)
  PROVE  Safe'
<1>1. /\ Shifts(p) /\ req'[p].pc = "leave" /\ req'[p].name = req[p].name /\ Same(req'[p], req[p])
  BY Relabels DEF Unlock
<1>2. /\ req[p].pc = "unlock" /\ turn'[p] = "leaving" /\ want'[p] = want[p]
      /\ plan' = plan /\ todo' = todo
  BY DEF Unlock, At, Release, Safe, MutexTypeOK
<1>3. Slotless(req[p]) /\ Slotless(req'[p]) /\ req'[p].pc \notin Work
  BY <1>1, <1>2, Outside
<1>4. "unlock" \in Work /\ ~At(p, "idle")
  BY <1>2, Labels DEF At
<1>5. Placed(p)
  <2>1. want[p] = Name(p)
    BY <1>4 DEF Safe, LifeInv, Linked
  <2> QED BY <1>1, <1>2, <2>1 DEF Placed, Name
<1>6. Timely(p) /\ Unique(p)
  BY <1>1, <1>2, <1>4, Staying DEF Same
<1>7. Duty(req[p]) /\ (troubled \/ Tidy(req[p], Here(p)))
  BY <1>2, <1>4 DEF Safe, LifeInv, Local, Fits
<1>8. Leaves(p)
  <2> SUFFICES ASSUME NEW n \in Keys \ todo', Busy(p, n), ~troubled PROVE host[n].dom.state = "ready"
    BY <1>2 DEF Leaves
  <2>1. Here(p) = host[n] /\ Tidy(req[p], Here(p))
    BY <1>7 DEF Busy, Here
  <2> QED BY <1>2, <2>1 DEF Tidy
<1>9. Local(p)'
  <2>1. Duty(req'[p])
    BY SMTT(30), <1>1, <1>2, <1>7 DEF Duty, Same, Deciding, Making, Building, Undoing
  <2>2. req[p].op = "remove" => Name(p) \notin plan.foreign
    BY <1>4 DEF Safe, LifeInv, Local
  <2> QED BY <1>1, <1>2, <1>3, <2>1, <2>2 DEF Local, At, Same, Name
<1> QED BY <1>1, <1>3, <1>5, <1>6, <1>8, <1>9, Shifted


\* A goroutine is done, and at rest.
LEMMA ReturnSafe ==
  ASSUME Safe, NEW p \in Procs, Return(p)
  PROVE  Safe'
<1>1. req \in [Procs -> Goroutines] /\ plan \in Courses
  BY DEF Safe, VMTyped
<1>2. /\ req[p].pc = "leave" /\ turn'[p] = "out" /\ plan' = plan /\ todo' = todo
      /\ \A q \in Procs \ {p} : turn'[q] = turn[q] /\ want'[q] = want[q]
  BY DEF Return, At, Leave, Safe, MutexTypeOK
<1>3. req'[p] = Idle /\ req' \in [Procs -> Goroutines] /\ \A q \in Procs \ {p} : req'[q] = req[q]
  BY <1>1, Idler DEF Return
<1>4. plan'.requests <= plan.requests
  <2>1. plan.requests \in Nat
    BY SMTT(30), <1>1 DEF Courses
  <2> QED BY SMTT(30), <1>2, <2>1
<1>5. MutexNext
  BY DEF MutexNext, Return
<1>6. Shifts(p)
  BY <1>1, <1>2, <1>3, <1>4, <1>5 DEF Shifts, Return, Still
<1>7. req'[p].op = "none" /\ req'[p].pc = "idle" /\ ~req'[p].own
  BY <1>3, Idler
<1>8. Slotless(req[p]) /\ Slotless(req'[p]) /\ req'[p].pc \notin Work /\ req[p].pc \notin Work
  BY <1>2, <1>7, Outside
<1>9. Placed(p) /\ Timely(p) /\ Unique(p)
  BY <1>2, <1>7 DEF Placed, Timely, Unique
<1>10. Leaves(p)
  BY <1>2, <1>8 DEF Leaves, Busy, At
<1>11. Local(p)'
  <2>1. Duty(req'[p])
    BY SMTT(30), <1>7 DEF Duty, Deciding, Making, Building, Undoing
  <2> QED BY <1>7, <1>8, <2>1 DEF Local, At
<1> QED BY <1>6, <1>8, <1>9, <1>10, <1>11, Shifted

\* A goroutine arrives at the lock of a name.
LEMMA AskSafe ==
  ASSUME Safe, NEW p \in Procs, NEW o, NEW n \in Keys, NEW i, NEW s, Asks(s, o, n, i),
         req[p].pc = "idle", Refer(p, n), req' = [req EXCEPT ![p] = s],
         UNCHANGED <<host, phase, troubled>>, Still, todo' \subseteq todo,
         \A m \in todo \ todo' : o = "recover" /\ m = n,
         plan' \in Courses, plan'.requests <= plan.requests, plan'.foreign = plan.foreign,
         o = "recover" <=> p = Boot, phase = IF p = Boot THEN "booting" ELSE "up",
         o = "remove" => n \notin plan.foreign,
         o = "create" => /\ i > plan'.requests /\ i \notin created
                         /\ \A q \in Procs : Creating(q) => req[q].id # i
                         /\ \A m \in Keys : host[m].dom.id # i
  PROVE  Safe'
<1>1. req \in [Procs -> Goroutines]
  BY DEF Safe, VMTyped
<1>2. s \in Goroutines /\ s.op = o /\ s.pc = "lock" /\ s.name = n /\ s.id = i /\ ~s.own
  BY DEF Asks
<1>3. req'[p] = s /\ req' \in [Procs -> Goroutines] /\ \A q \in Procs \ {p} : req'[q] = req[q]
  BY <1>1, <1>2
<1>4. /\ req'[p].op = o /\ req'[p].pc = "lock" /\ req'[p].name = n /\ req'[p].id = i /\ ~req'[p].own
  BY <1>2, <1>3
<1>5. /\ turn'[p] = "waiting" /\ want'[p] = n
      /\ \A q \in Procs \ {p} : turn'[q] = turn[q] /\ want'[q] = want[q]
  BY DEF Refer, Safe, MutexTypeOK
<1>6. MutexNext
  BY DEF MutexNext
<1>7. Shifts(p)
  BY <1>3, <1>5, <1>6 DEF Shifts, Still
<1>8. Slotless(req[p]) /\ Slotless(req'[p]) /\ req'[p].pc \notin Work /\ req[p].pc \notin Work
  BY <1>4, Outside
<1>9. Placed(p) /\ Timely(p)
  BY <1>4, <1>5 DEF Placed, Timely
<1>10. Unique(p)
  BY <1>4 DEF Unique
<1>11. Leaves(p)
  <2> SUFFICES ASSUME NEW m \in Keys \ todo', ~Busy(p, m)' PROVE m \notin todo /\ ~Busy(p, m)
    BY DEF Leaves
  <2>1. ~Busy(p, m)
    BY <1>8 DEF Busy, At
  <2>2. m \in todo => Busy(p, m)'
    BY <1>4 DEF Busy, At, Name
  <2> QED BY <2>1, <2>2
<1>12. Local(p)'
  <2>1. Duty(req'[p])
    BY SMTT(30), <1>4 DEF Duty, Deciding, Making, Building, Undoing
  <2>2. created' = created
    BY DEF Still
  <2>3. plan'.foreign = plan.foreign
    OBVIOUS
  <2>4. req'[p].op = "remove" => req'[p].name \notin plan'.foreign
    BY <1>4, <2>3
  <2>5. req'[p].op = "create" => req'[p].id \notin created'
    BY <1>4, <2>2
  <2> QED BY <1>8, <2>1, <2>4, <2>5 DEF Local, Name
<1> QED BY <1>7, <1>8, <1>9, <1>10, <1>11, <1>12, Shifted

\* A request less is a course too.
LEMMA Asked ==
  ASSUME NEW c \in Courses, c.requests > 0, NEW d, d = [c EXCEPT !.requests = @ - 1]
  PROVE  /\ d \in Courses /\ d.requests < c.requests /\ d.requests <= c.requests /\ d.foreign = c.foreign
         /\ c.requests \in Nat
BY SMTT(30) DEF Courses

\* A request arrives; its creation takes the next identity.
LEMMA ArriveSafe ==
  ASSUME Safe, NEW p \in Requests, Arrive(p)
  PROVE  Safe'
<1>1. PICK o \in plan.ops, n \in plan.names :
        /\ o = "create" \/ host[n].dom.id # 0
        /\ Refer(p, n)
        /\ req' = [req EXCEPT ![p] = [Idle EXCEPT
             !.op = o, !.pc = "lock", !.name = n,
             !.id = IF o = "create" THEN plan.requests ELSE 0]]
  BY DEF Arrive
<1>2. PICK i : i = IF o = "create" THEN plan.requests ELSE 0
  OBVIOUS
<1>3. req' = [req EXCEPT ![p] = AskingAs(o, n, i)]
  BY <1>1, <1>2 DEF AskingAs
<1>4. plan \in Courses /\ plan.requests > 0 /\ plan' = [plan EXCEPT !.requests = @ - 1]
  BY DEF Safe, VMTyped, Arrive
<1>5. /\ plan' \in Courses /\ plan'.requests < plan.requests /\ plan'.requests <= plan.requests
      /\ plan'.foreign = plan.foreign /\ plan.requests \in Nat
  BY <1>4, Asked
<1>6. /\ o \in {"create", "start", "restart", "stop", "remove"} /\ n \in Keys
  BY SMTT(30), <1>4 DEF Courses
<1>7. o \in Errands /\ o # "recover"
  BY <1>6 DEF Errands
<1>8. i \in Nat
  BY SMTT(30), <1>2, <1>5
<1>9. ASSUME o = "create"
      PROVE  /\ i > plan'.requests /\ i \notin created
             /\ \A q \in Procs : Creating(q) => req[q].id # i
             /\ \A m \in Keys : host[m].dom.id # i
  <2>1. i = plan.requests
    BY <1>2, <1>9
  <2>2. /\ \A q \in Procs : Creating(q) => req[q].id > plan.requests
        /\ \A m \in Keys : host[m].dom.id # 0 => host[m].dom.id > plan.requests
        /\ \A j \in created : j \in Nat /\ j > plan.requests
    BY DEF Safe, LifeInv, Ids
  <2>3. ~(i > plan.requests) /\ i # 0 /\ plan'.requests \in Nat
    BY SMTT(30), <1>4, <1>5, <2>1 DEF Courses
  <2>4. i > plan'.requests
    BY SMTT(30), <1>5, <2>1, <2>3
  <2> QED BY <2>2, <2>3, <2>4
<1>10. o = "remove" => n \notin plan.foreign
  <2>1. o = "remove" => host[n].dom.id # 0
    BY <1>1
  <2> QED BY <1>6, <2>1 DEF Safe, LifeInv, Named, Keeps
<1>11. p \in Procs /\ p # Boot /\ phase = "up" /\ req[p].pc = "idle"
  BY DEF Requests, Arrive, At
<1>12. UNCHANGED <<host, phase, troubled>> /\ Still /\ todo' = todo
  BY DEF Arrive
<1>13. Asks(AskingAs(o, n, i), o, n, i)
  BY <1>6, <1>7, <1>8, Askers
<1> QED BY <1>1, <1>3, <1>5, <1>6, <1>7, <1>9, <1>10, <1>11, <1>12, <1>13, AskSafe

\* The recovery at boot turns to the next name.
LEMMA VisitSafe ==
  ASSUME Safe, VisitName
  PROVE  Safe'
<1>1. todo # {} /\ todo \in SUBSET Nat /\ todo \subseteq Keys
  BY VMAssumption DEF VisitName, Safe, VMTyped
<1>2. PICK n : n = Min(todo)
  OBVIOUS
<1>3. n \in todo /\ n \in Keys
  BY <1>1, <1>2, MinIn
<1>4. /\ Refer(Boot, n) /\ todo' = todo \ {n} /\ phase = "booting" /\ req[Boot].pc = "idle"
      /\ req' = [req EXCEPT ![Boot] = [Idle EXCEPT !.op = "recover", !.pc = "lock", !.name = n]]
      /\ UNCHANGED <<host, phase, troubled>> /\ Still /\ plan' = plan
  BY <1>2 DEF VisitName, At
<1>5. req' = [req EXCEPT ![Boot] = Asking("recover", n)]
  BY <1>4 DEF Asking
<1>6. plan' \in Courses /\ plan'.requests <= plan.requests
  <2>1. plan \in Courses
    BY DEF Safe, VMTyped
  <2>2. plan.requests \in Nat
    BY SMTT(30), <2>1 DEF Courses
  <2> QED BY SMTT(30), <1>4, <2>1, <2>2
<1>7. Asks(Asking("recover", n), "recover", n, 0)
  <2>1. 0 \in Nat /\ "recover" \in Errands
    BY SMTT(30) DEF Errands
  <2> QED BY <1>3, <2>1, Askers
<1> QED BY <1>3, <1>4, <1>5, <1>6, <1>7, AskSafe, VMAssumption


\* A name nobody has locked is in order when a request locks it.
LEMMA LockFinds ==
  ASSUME Safe, NEW p \in Procs, At(p, "lock"), Acquire(p), req[p].op # "recover", ~troubled
  PROVE  Here(p).dom.state = "ready"
<1>1. ~At(p, "idle")
  BY DEF At
<1>2. phase = "up" /\ p # Boot /\ want[p] = Name(p) /\ todo = {}
  BY <1>1, InPhase DEF Safe, LifeInv, Linked, Phases
<1>3. turn[p] # "out" /\ want[p] \in Keys /\ locks[want[p]] = entry[p] /\ ~held[entry[p]]
  BY DEF Acquire, Safe, MutexInv
<1>4. ASSUME NEW q \in Procs, Busy(q, Name(p)) PROVE FALSE
  <2>1. CASE req[q].pc \in Work
    <3>1. turn[q] = "holding" /\ want[q] = Name(q) /\ Name(q) \in Keys
      BY <2>1, Holds
    <3>2. locks[want[q]] = entry[q] /\ held[entry[q]]
      BY <3>1 DEF Safe, MutexInv
    <3>3. want[q] = want[p]
      BY <1>2, <1>4, <3>1 DEF Busy
    <3> QED BY <1>3, <3>2, <3>3
  <2>2. CASE At(q, "lock") /\ req[q].op = "recover"
    BY <1>2, <2>2, InPhase DEF At
  <2> QED BY <1>4, <2>1, <2>2 DEF Busy
<1>5. \A q \in Procs : ~Busy(q, Name(p))
  BY <1>4
<1>6. Rest /\ phase # "down" /\ Name(p) \in Keys \ todo
  BY <1>2, <1>3 DEF Safe, LifeInv
<1> QED BY <1>5, <1>6 DEF Rest, Here

\* Who locked a name begins: recovery, removal or power.
LEMMA Begins ==
  ASSUME NEW r \in Goroutines, r.pc = "lock", Duty(r), NEW s, Same(s, r), s.pc = First(r.op), NEW h,
         NEW made, NEW live, NEW trouble, r.op = "create" => r.id \notin made,
         r.op = "recover" \/ trouble \/ h.dom.state = "ready"
  PROVE  Duty(s) /\ Fits(s, h, made, live, trouble) /\ s.pc \in {"recover", "mark", "power"}
<1>1. /\ s.op = "create" => s.pc = "recover"
      /\ s.op = "recover" => s.pc = "recover"
      /\ s.op = "remove" => s.pc = "mark"
      /\ s.op \notin {"create", "recover", "remove"} => s.pc = "power"
  BY SMTT(30) DEF First, Same, Goroutines
<1>2. s.pc \in {"recover", "mark", "power"} /\ ~s.own /\ (s.op = "create" => s.id \notin made)
  BY SMTT(30), <1>1 DEF Same, Duty
<1>3. Duty(s)
  BY SMTT(30), <1>1, <1>2 DEF Duty, Deciding, Making, Building, Undoing
<1>4. Progress(s, h)
  BY SMTT(30), <1>2 DEF Progress, Building
<1>5. Spares(s, h, made, live)
  BY SMTT(30), <1>2 DEF Spares, Undoing
<1>6. trouble \/ Tidy(s, h)
  <2>1. s.op = "recover" \/ h.dom.state = "ready" => Tidy(s, h)
    BY SMTT(30), <1>1, <1>2 DEF Tidy, Deciding
  <2> QED BY <2>1 DEF Same
<1> QED BY <1>2, <1>3, <1>4, <1>5, <1>6 DEF Fits

\* A goroutine has the lock of its name.
LEMMA LockSafe ==
  ASSUME Safe, NEW p \in Procs, Lock(p)
  PROVE  Safe'
<1>1. /\ req[p] \in Goroutines /\ req[p].pc = "lock" /\ Duty(req[p]) /\ Name(p) = want[p] /\ ~At(p, "idle")
      /\ req[p].op = "create" => req[p].id \notin created
      /\ req[p].op = "remove" => Name(p) \notin plan.foreign
  BY DEF Safe, VMTyped, LifeInv, Local, Lock, At, Linked
<1>2. First(req[p].op) \in Work \cup {"leave"}
  <2>1. First(req[p].op) \in {"recover", "mark", "power"}
    BY SMTT(30) DEF First
  <2> QED BY SMTT(30), <2>1 DEF Work
<1>3. /\ Shifts(p) /\ req'[p].pc = First(req[p].op) /\ req'[p].name = req[p].name /\ Same(req'[p], req[p])
  BY <1>2, Relabels DEF Lock
<1>4. /\ turn'[p] = "holding" /\ want'[p] = want[p] /\ plan' = plan /\ todo' = todo
      /\ host' = host /\ created' = created /\ removed' = removed /\ troubled' = troubled
  BY DEF Lock, Acquire, Safe, MutexTypeOK, Still
<1>5. req[p].op = "recover" \/ troubled \/ Here(p).dom.state = "ready"
  BY LockFinds DEF Lock
<1>6. /\ Duty(req'[p]) /\ Fits(req'[p], Here(p), created, Live, troubled)
      /\ req'[p].pc \in {"recover", "mark", "power"}
  BY <1>1, <1>3, <1>5, Begins
<1>7. /\ req'[p].pc = "recover" \/ req'[p].pc = "mark" \/ req'[p].pc = "power"
      /\ req'[p].pc # "idle" /\ req'[p].pc # "lock" /\ req'[p].pc # "leave"
  BY SMTT(30), <1>6
<1>8. Slotless(req[p]) /\ Slotless(req'[p]) /\ req[p].pc \notin Work
  BY <1>1, <1>7, Outside
<1>9. req'[p].pc \in Work
  BY SMTT(30), <1>6 DEF Work
<1>10. Placed(p)
  BY <1>1, <1>3, <1>4, <1>7 DEF Placed, Name
<1>11. Timely(p) /\ Unique(p)
  BY <1>1, <1>3, <1>4, Staying DEF Same
<1>12. Leaves(p)
  <2> SUFFICES ASSUME NEW n \in Keys \ todo', ~Busy(p, n)' PROVE n \notin todo /\ ~Busy(p, n)
    BY DEF Leaves
  <2>1. Name(p) # n
    BY <1>3, <1>9 DEF Busy, Name
  <2> QED BY <1>4, <2>1 DEF Busy
<1>13. Local(p)'
  <2>1. Live' = Live /\ Here(p)' = Here(p) /\ Name(p)' = Name(p) /\ req'[p].op = req[p].op
    BY <1>3, <1>4 DEF Live, Here, Name, Same
  <2> QED BY <1>1, <1>4, <1>6, <1>7, <2>1 DEF Local, At
<1> QED BY <1>3, <1>8, <1>10, <1>11, <1>12, <1>13, Shifted

-----------------------------------------------------------------------------
(* Boot, crash and guest.                                                  *)

\* What the invariant says as long as the machines, the goroutines and the
\* locks stay what they are.
LEMMA Undisturbed ==
  ASSUME Safe, UNCHANGED <<host, req, inflight, plan, created, removed, troubled>>, UNCHANGED mutexVars,
         phase' \in {"down", "booting", "up"}, todo' \subseteq Keys, Phases', Rest'
  PROVE  Safe'
<1>1. /\ host' = host /\ req' = req /\ inflight' = inflight /\ plan' = plan /\ created' = created
      /\ removed' = removed /\ troubled' = troubled
  OBVIOUS
<1>2. VMTyped'
  BY <1>1 DEF Safe, VMTyped
<1>3. MutexTypeOK' /\ MutexInv'
  BY MutexKept DEF Safe
<1>4. Live' = Live /\ turn' = turn /\ want' = want
  BY DEF Live, mutexVars
<1>5. Linked'
  BY <1>1, <1>4 DEF Safe, LifeInv, Linked, At, Name
<1>6. Ids'
  BY <1>1 DEF Safe, LifeInv, Ids, Creating, At, Name
<1>7. Survivors' /\ \A n \in Keys : Named(n)'
  BY <1>1, <1>4 DEF Safe, LifeInv, Survivors, Named
<1>8. \A p \in Procs : Local(p)'
  <2> SUFFICES ASSUME NEW p \in Procs PROVE Local(p)'
    OBVIOUS
  <2>1. Local(p)
    BY DEF Safe, LifeInv
  <2> QED BY <1>1, <1>4, <2>1 DEF Local, At, Name, Here
<1>9. QuotaInv'
  <2>1. Existing' = Existing /\ Reserved' = Reserved
    BY <1>1 DEF Existing, Reserved, Name
  <2>2. QuotaInv
    BY DEF Safe
  <2>3. \A o \in DOMAIN inflight' :
          /\ inflight'[o] = Cardinality(OwnedBy(o) \cap Reserved')
          /\ Cardinality(OwnedBy(o) \cap (Existing' \cup Reserved')) <= Limit
    BY <1>1, <2>1, <2>2 DEF QuotaInv
  <2>4. \A p \in Procs : At(p, "decide")' => Counted(p)'
    BY <1>1, <2>1, <2>2 DEF QuotaInv, At, Counted, Mine, Name
  <2>5. \A p, q \in Procs : At(p, "decide")' /\ At(q, "decide")' /\ Owner[Name(p)'] = Owner[Name(q)'] => p = q
    BY <1>1, <2>2 DEF QuotaInv, At, Name
  <2> QED BY <2>3, <2>4, <2>5 DEF QuotaInv, OwnedBy
<1> QED BY <1>2, <1>3, <1>5, <1>6, <1>7, <1>8, <1>9 DEF Safe, LifeInv

\* A step that changes nothing.
LEMMA StutterSafe ==
  ASSUME Safe, UNCHANGED vars
  PROVE  Safe'
<1>1. /\ UNCHANGED <<host, req, inflight, plan, created, removed, troubled>> /\ UNCHANGED mutexVars
      /\ phase' = phase /\ todo' = todo
  BY DEF vars, vmVars
<1>2. Phases' /\ Rest'
  BY <1>1 DEF Safe, LifeInv, Phases, Rest, Busy, At, Name
<1> QED BY <1>1, <1>2, Undisturbed DEF Safe, VMTyped

\* The process starts and lists the domains; a name without one has no record.
LEMMA StartSafe ==
  ASSUME Safe, StartGateway
  PROVE  Safe'
<1>1. /\ UNCHANGED <<host, req, inflight, plan, created, removed, troubled>> /\ UNCHANGED mutexVars
      /\ phase = "down" /\ phase' = "booting" /\ todo' = {n \in Keys : host[n].dom.id # 0}
  BY DEF StartGateway, Still, mutexVars
<1>2. Phases'
  BY <1>1 DEF Safe, LifeInv, Phases, At
<1>3. Rest'
  <2>1. ASSUME NEW n \in Keys \ todo' PROVE host[n].dom.state = "ready"
    <3>1. host[n].dom = NoDomain
      BY <1>1 DEF Safe, LifeInv, Named, Keeps, Sound
    <3> QED BY SMTT(30), <3>1 DEF NoDomain
  <2> QED BY <1>1, <2>1 DEF Rest
<1>4. phase' \in {"down", "booting", "up"} /\ todo' \subseteq Keys
  BY <1>1
<1> QED BY <1>1, <1>2, <1>3, <1>4, Undisturbed

\* Every name was visited.
LEMMA FinishSafe ==
  ASSUME Safe, FinishBoot
  PROVE  Safe'
<1>1. /\ UNCHANGED <<host, req, inflight, plan, created, removed, troubled>> /\ UNCHANGED mutexVars
      /\ phase = "booting" /\ phase' \in {"down", "up"} /\ At(Boot, "idle") /\ todo' = todo /\ todo = {}
  BY DEF FinishBoot, Still, mutexVars
<1>2. Phases'
  BY <1>1 DEF Safe, LifeInv, Phases, At
<1>3. Rest'
  BY <1>1 DEF Safe, LifeInv, Rest, Busy, At, Name
<1>4. phase' \in {"down", "booting", "up"} /\ todo' \subseteq Keys
  BY <1>1
<1> QED BY <1>1, <1>2, <1>3, <1>4, Undisturbed

\* One crash less is a course too.
LEMMA Crashed ==
  ASSUME NEW c \in Courses, c.crashes > 0, NEW d, d = [c EXCEPT !.crashes = @ - 1]
  PROVE  d \in Courses /\ d.requests = c.requests /\ d.foreign = c.foreign
BY SMTT(30) DEF Courses

\* Where all goroutines are at rest, the locks and the quota are as at first.
LEMMA Quiet ==
  ASSUME NEW q, q = [p \in Procs |-> Idle], NEW p \in Procs
  PROVE  /\ q[p] \in Goroutines /\ q[p].op = "none" /\ q[p].pc = "idle" /\ q[p].pc \notin Work
         /\ Duty(q[p]) /\ ~Reserves(q[p])
<1>1. q[p] = Idle
  OBVIOUS
<1>2. Idle \in Goroutines /\ Idle.op = "none" /\ Idle.pc = "idle" /\ ~Idle.own
  BY Idler
<1>3. Idle.pc \notin Work /\ ~Reserves(Idle)
  BY <1>2, Outside DEF Slotless
<1>4. Duty(Idle)
  BY SMTT(30), <1>2 DEF Duty, Deciding, Making, Building, Undoing
<1> QED BY <1>1, <1>2, <1>3, <1>4

\* The process dies: requests, locks and slots are gone, libvirt keeps its own.
LEMMA CrashSafe ==
  ASSUME Safe, Crash
  PROVE  Safe'
<1>1. /\ host' = host /\ req' = [p \in Procs |-> Idle] /\ inflight' = [o \in DOMAIN inflight |-> 0]
      /\ phase' = "down" /\ todo' = {} /\ troubled' = troubled /\ created' = created /\ removed' = removed
      /\ turn' = [p \in Procs |-> "out"]
  BY DEF Crash
<1>2. plan' \in Courses /\ plan'.requests = plan.requests /\ plan'.foreign = plan.foreign
  BY Crashed DEF Crash, Safe, VMTyped
<1>3. \A p \in Procs : /\ req'[p] \in Goroutines /\ req'[p].op = "none" /\ req'[p].pc = "idle"
                       /\ req'[p].pc \notin Work /\ Duty(req'[p]) /\ ~Reserves(req'[p])
  BY <1>1, Quiet
<1>4. DOMAIN inflight = {Owner[n] : n \in Keys} /\ DOMAIN inflight' = DOMAIN inflight
  BY <1>1 DEF Safe, VMTyped
<1>5. VMTyped'
  <2>1. req' \in [Procs -> Goroutines]
    BY <1>1, <1>3
  <2>2. inflight' \in [{Owner[n] : n \in Keys} -> Nat]
    <3>1. 0 \in Nat
      BY SMTT(30)
    <3> QED BY <1>1, <1>4, <3>1
  <2> QED BY <1>1, <1>2, <2>1, <2>2 DEF Safe, VMTyped
<1>6. MutexTypeOK' /\ MutexInv'
  BY SMTT(30) DEF Crash, MutexTypeOK, MutexInv
<1>7. Live' = Live
  BY <1>1 DEF Live
<1>8. Linked'
  <2>1. \A p \in Procs : turn'[p] = "out" /\ req'[p].pc = "idle"
    BY <1>1, <1>3
  <2> QED BY <2>1 DEF Linked, At
<1>9. Phases' /\ Rest'
  BY <1>1, <1>3, VMAssumption DEF Phases, Rest, At, Requests
<1>10. Ids'
  <2>1. \A p \in Procs : ~Creating(p)'
    BY <1>3 DEF Creating
  <2> QED BY <1>1, <1>2, <2>1 DEF Safe, LifeInv, Ids
<1>11. Survivors' /\ \A n \in Keys : Named(n)'
  BY <1>1, <1>2, <1>7 DEF Safe, LifeInv, Survivors, Named
<1>12. \A p \in Procs : Local(p)'
  BY <1>3 DEF Local
<1>13. QuotaInv'
  <2>1. Reserved' = {} /\ Existing' = Existing
    BY <1>1, <1>3 DEF Reserved, Existing
  <2>2. \A p \in Procs : ~At(p, "decide")'
    BY <1>3 DEF At
  <2>3. ASSUME NEW o \in DOMAIN inflight'
        PROVE  /\ inflight'[o] = Cardinality(OwnedBy(o) \cap Reserved')
               /\ Cardinality(OwnedBy(o) \cap (Existing' \cup Reserved')) <= Limit
    <3>1. OwnedBy(o) \cap Reserved' = {} /\ Cardinality({}) = 0 /\ inflight'[o] = 0
      BY <1>1, <1>4, <2>1, <2>3, FS_EmptySet
    <3>2. OwnedBy(o) \cap (Existing' \cup Reserved') \subseteq OwnedBy(o) \cap (Existing \cup Reserved)
      BY <2>1
    <3>3. OwnedBy(o) \cap (Existing \cup Reserved) \in SUBSET Keys
      BY DEF OwnedBy
    <3>4. /\ Cardinality(OwnedBy(o) \cap (Existing' \cup Reserved'))
                <= Cardinality(OwnedBy(o) \cap (Existing \cup Reserved))
          /\ Cardinality(OwnedBy(o) \cap (Existing' \cup Reserved')) \in Nat
          /\ Cardinality(OwnedBy(o) \cap (Existing \cup Reserved)) \in Nat
      BY <3>2, <3>3, Fewer
    <3>5. Cardinality(OwnedBy(o) \cap (Existing \cup Reserved)) <= Limit /\ Limit \in Nat
      BY <1>4, <2>3, VMAssumption DEF Safe, QuotaInv
    <3>6. Cardinality(OwnedBy(o) \cap (Existing' \cup Reserved')) <= Limit
      BY SMTT(30), <3>4, <3>5
    <3> QED BY <3>1, <3>6
  <2> QED BY <2>2, <2>3 DEF QuotaInv, OwnedBy
<1> QED BY <1>5, <1>6, <1>8, <1>9, <1>10, <1>11, <1>12, <1>13 DEF Safe, LifeInv


\* The same machine, stopped.
Off(g, h) ==
  /\ g \in Hosts /\ g.dom.id = h.dom.id /\ g.dom.state = h.dom.state /\ g.disk = h.disk /\ g.seed = h.seed
  /\ g.net = h.net /\ g.dom.full = h.dom.full /\ g.dom.deleting = h.dom.deleting /\ ~g.dom.active
  /\ h.dom # NoDomain

\* That is what a guest that powers off leaves.
LEMMA Stopped ==
  ASSUME NEW h \in Hosts, h.dom.active, NEW b \in BOOLEAN, ~b, NEW g, g = [h EXCEPT !.dom.active = b]
  PROVE  Off(g, h)
<1>1. g \in Hosts
  BY Machines, Empties
<1>2. /\ g.dom.id = h.dom.id /\ g.dom.state = h.dom.state /\ g.disk = h.disk /\ g.seed = h.seed
      /\ g.net = h.net /\ g.dom.full = h.dom.full /\ g.dom.deleting = h.dom.deleting /\ g.dom.active = b
  BY SMTT(30) DEF Hosts, Domains
<1>3. h.dom # NoDomain
  BY SMTT(30) DEF NoDomain
<1> QED BY <1>1, <1>2, <1>3 DEF Off

\* It breaks nothing its name or its goroutine relies on.
LEMMA StoppedKeeps ==
  ASSUME NEW h \in Hosts, NEW g, Off(g, h),
         NEW live, NEW foreign, Keeps(h, live, foreign)
  PROVE  /\ Keeps(g, live, foreign)
         /\ \A r, made, trouble : Fits(r, h, made, live, trouble) => Fits(r, g, made, live, trouble)
<1>1. Sound(g)
  <2>1. Complete(h) => Complete(g)
    BY DEF Complete, Off
  <2> QED BY <2>1 DEF Keeps, Sound, Off
<1>2. Keeps(g, live, foreign)
  BY <1>1 DEF Keeps, Off
<1>3. \A r : Progress(r, h) => Progress(r, g)
  <2> SUFFICES ASSUME NEW r, Progress(r, h) PROVE Progress(r, g)
    OBVIOUS
  <2> QED BY SMTT(30) DEF Progress, Off
<1>4. \A r, made : Spares(r, h, made, live) => Spares(r, g, made, live)
  BY DEF Spares, Off
<1>5. \A r : Tidy(r, h) => Tidy(r, g)
  BY DEF Tidy, Off
<1> QED BY <1>2, <1>3, <1>4, <1>5 DEF Fits

\* A guest powers off, whoever is at work on its name.
LEMMA GuestSafe ==
  ASSUME Safe, NEW n \in Keys, GuestStops(n)
  PROVE  Safe'
<1>1. /\ req' = req /\ inflight' = inflight /\ plan' = plan /\ created' = created /\ removed' = removed
      /\ troubled' = troubled /\ phase' = phase /\ todo' = todo /\ UNCHANGED mutexVars
  BY DEF GuestStops, Still, mutexVars
<1>2. host \in [Keys -> Hosts] /\ host[n] \in Hosts /\ host[n].dom.active
          /\ host' = [host EXCEPT ![n].dom.active = FALSE]
  BY DEF Safe, VMTyped, GuestStops
<1>3. host'[n] = [host[n] EXCEPT !.dom.active = FALSE] /\ \A m \in Keys \ {n} : host'[m] = host[m]
  BY <1>2
<1>4. PICK g : g = host'[n]
  OBVIOUS
<1>5. Off(g, host[n])
  <2>1. PICK b : b = FALSE
    OBVIOUS
  <2>2. b \in BOOLEAN /\ ~b /\ g = [host[n] EXCEPT !.dom.active = b]
    BY <1>3, <1>4, <2>1
  <2> QED BY <1>2, <2>2, Stopped
<1>6. Keeps(host[n], Live, n \in plan.foreign)
  BY DEF Safe, LifeInv, Named
<1>7. /\ Keeps(g, Live, n \in plan.foreign)
      /\ \A r, made, trouble : Fits(r, host[n], made, Live, trouble) => Fits(r, g, made, Live, trouble)
  BY <1>2, <1>5, <1>6, StoppedKeeps
<1>8. host' \in [Keys -> Hosts]
  <2>1. host' = [host EXCEPT ![n] = g]
    BY <1>2, <1>3, <1>4
  <2> QED BY <1>2, <1>5, <2>1 DEF Off
<1>9. \A m \in Keys : host'[m].dom.id = host[m].dom.id /\ host'[m].dom.state = host[m].dom.state
  BY <1>3, <1>4, <1>5 DEF Off
<1>10. VMTyped'
  BY <1>1, <1>8 DEF Safe, VMTyped
<1>11. MutexTypeOK' /\ MutexInv'
  BY <1>1, MutexKept DEF Safe
<1>12. Live' = Live /\ turn' = turn /\ want' = want
  BY <1>1 DEF Live, mutexVars
<1>13. Linked' /\ Phases'
  BY <1>1, <1>12 DEF Safe, LifeInv, Linked, Phases, At, Name
<1>14. Rest'
  BY <1>1, <1>9 DEF Safe, LifeInv, Rest, Busy, At, Name
<1>15. Ids'
  BY <1>1, <1>9 DEF Safe, LifeInv, Ids, Creating, At, Name
<1>16. Survivors'
  BY <1>9, <1>12 DEF Safe, LifeInv, Survivors
<1>17. \A m \in Keys : Named(m)'
  BY <1>1, <1>3, <1>4, <1>7, <1>12 DEF Safe, LifeInv, Named
<1>18. ASSUME NEW p \in Procs PROVE Local(p)'
  <2>1. Local(p)
    BY DEF Safe, LifeInv
  <2>2. req[p].pc \in Work => Fits(req[p], host'[Name(p)], created, Live, troubled)
    <3> SUFFICES ASSUME req[p].pc \in Work PROVE Fits(req[p], host'[Name(p)], created, Live, troubled)
      OBVIOUS
    <3>1. Fits(req[p], host[Name(p)], created, Live, troubled) /\ Name(p) \in Keys
      BY <2>1, Holds DEF Local, Here
    <3>2. CASE Name(p) = n
      BY <1>4, <1>7, <3>1, <3>2
    <3>3. CASE Name(p) # n
      BY <1>3, <3>1, <3>3
    <3> QED BY <3>2, <3>3
  <2> QED BY <1>1, <1>12, <2>1, <2>2 DEF Local, At, Name, Here
<1>19. QuotaInv'
  <2>1. Existing' = Existing /\ Reserved' = Reserved
    BY <1>1, <1>9 DEF Existing, Reserved, Name
  <2>2. QuotaInv
    BY DEF Safe
  <2>3. \A o \in DOMAIN inflight' :
          /\ inflight'[o] = Cardinality(OwnedBy(o) \cap Reserved')
          /\ Cardinality(OwnedBy(o) \cap (Existing' \cup Reserved')) <= Limit
    BY <1>1, <2>1, <2>2 DEF QuotaInv
  <2>4. \A p \in Procs : At(p, "decide")' => Counted(p)'
    BY <1>1, <2>1, <2>2 DEF QuotaInv, At, Counted, Mine, Name
  <2>5. \A p, q \in Procs : At(p, "decide")' /\ At(q, "decide")' /\ Owner[Name(p)'] = Owner[Name(q)'] => p = q
    BY <1>1, <2>2 DEF QuotaInv, At, Name
  <2> QED BY <2>3, <2>4, <2>5 DEF QuotaInv, OwnedBy
<1> QED BY <1>10, <1>11, <1>13, <1>14, <1>15, <1>16, <1>17, <1>18, <1>19 DEF Safe, LifeInv
=============================================================================
