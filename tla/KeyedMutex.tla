----------------------------- MODULE KeyedMutex -----------------------------
(***************************************************************************)
(* internal/virt/namelock.go: one mutex per key, in a map whose entries are *)
(* counted references.  An entry is an object: when its last reference is   *)
(* dropped it leaves the map, and the next goroutine that wants the key     *)
(* makes another.                                                          *)
(***************************************************************************)
EXTENDS Naturals, FiniteSets

CONSTANTS Procs, Keys, Entries, Nil

ASSUME KeyedMutexAssumption ==
  IsFiniteSet(Procs) /\ Nil \notin Entries

VARIABLES
  locks,       \* keyedMutex.locks: key -> entry, or Nil
  waiters,     \* keyedMutexEntry.waiters
  held,        \* whether the channel keyedMutexEntry.held is full
  turn,        \* where a goroutine is: out, waiting, holding or leaving
  want,        \* the key a goroutine asked for, Nil when it is out
  entry        \* the entry it references, Nil when it is out

mutexVars == <<locks, waiters, held, turn, want, entry>>

Referring(e) == {g \in Procs : turn[g] # "out" /\ entry[g] = e}

MutexInit ==
  /\ locks = [k \in Keys |-> Nil]
  /\ waiters = [e \in Entries |-> 0] /\ held = [e \in Entries |-> FALSE]
  /\ turn = [g \in Procs |-> "out"]
  /\ want = [g \in Procs |-> Nil] /\ entry = [g \in Procs |-> Nil]

\* LockContext up to the wait: find the key's entry or make one, and count.
Refer(g, k) ==
  /\ turn[g] = "out"
  /\ turn' = [turn EXCEPT ![g] = "waiting"] /\ want' = [want EXCEPT ![g] = k]
  /\ \/ /\ locks[k] # Nil
        /\ entry' = [entry EXCEPT ![g] = locks[k]]
        /\ waiters' = [waiters EXCEPT ![locks[k]] = @ + 1]
        /\ UNCHANGED <<locks, held>>
     \/ /\ locks[k] = Nil
        /\ \E e \in Entries :
             /\ Referring(e) = {} /\ \A j \in Keys : locks[j] # e
             /\ locks' = [locks EXCEPT ![k] = e] /\ entry' = [entry EXCEPT ![g] = e]
             /\ waiters' = [waiters EXCEPT ![e] = 1] /\ held' = [held EXCEPT ![e] = FALSE]

Acquire(g) ==
  /\ turn[g] = "waiting" /\ ~held[entry[g]]
  /\ held' = [held EXCEPT ![entry[g]] = TRUE] /\ turn' = [turn EXCEPT ![g] = "holding"]
  /\ UNCHANGED <<locks, waiters, want, entry>>

\* The context of a waiting goroutine is done.
Cancel(g) ==
  /\ turn[g] = "waiting" /\ turn' = [turn EXCEPT ![g] = "leaving"]
  /\ UNCHANGED <<locks, waiters, held, want, entry>>

\* release, also of a goroutine cancelled as it acquired: empty the channel ...
Release(g) ==
  /\ turn[g] = "holding" /\ turn' = [turn EXCEPT ![g] = "leaving"]
  /\ held' = [held EXCEPT ![entry[g]] = FALSE]
  /\ UNCHANGED <<locks, waiters, want, entry>>

\* ... and drop the reference (releaseReference).
\* Faulty variant: the entry leaves the map with its first reference.
FaultyLeave(g) ==
  /\ turn[g] = "leaving" /\ turn' = [turn EXCEPT ![g] = "out"]
  /\ waiters' = [waiters EXCEPT ![entry[g]] = @ - 1]
  /\ locks' = [locks EXCEPT ![want[g]] = Nil]
  /\ want' = [want EXCEPT ![g] = Nil] /\ entry' = [entry EXCEPT ![g] = Nil]
  /\ UNCHANGED held

Leave(g) ==
  /\ turn[g] = "leaving" /\ turn' = [turn EXCEPT ![g] = "out"]
  /\ waiters' = [waiters EXCEPT ![entry[g]] = @ - 1]
  /\ locks' = IF waiters[entry[g]] = 1 THEN [locks EXCEPT ![want[g]] = Nil] ELSE locks
  /\ want' = [want EXCEPT ![g] = Nil] /\ entry' = [entry EXCEPT ![g] = Nil]
  /\ UNCHANGED held

MutexNext ==
  \E g \in Procs :
    (\E k \in Keys : Refer(g, k)) \/ Acquire(g) \/ Cancel(g) \/ Release(g) \/ Leave(g)

MutexTypeOK ==
  /\ locks \in [Keys -> Entries \cup {Nil}]
  /\ waiters \in [Entries -> Nat] /\ held \in [Entries -> BOOLEAN]
  /\ turn \in [Procs -> {"out", "waiting", "holding", "leaving"}]
  /\ want \in [Procs -> Keys \cup {Nil}] /\ entry \in [Procs -> Entries \cup {Nil}]

MutexSpec == MutexInit /\ [][MutexNext]_mutexVars
-----------------------------------------------------------------------------
\* Two goroutines never hold one key, whatever entries came and went for it
\* while they waited.
MutualExclusion ==
  \A g, h \in Procs :
    turn[g] = "holding" /\ turn[h] = "holding" /\ want[g] = want[h] => g = h

\* The map has an entry exactly for the keys somebody holds, waits for or is
\* leaving, so it does not grow with the names that come and go.
Reclaimed ==
  \A k \in Keys : locks[k] # Nil <=> \E g \in Procs : turn[g] # "out" /\ want[g] = k

\* What makes both inductive: a reference is to the entry in the map, entries
\* are not shared between keys, waiters counts the references and held says
\* whether one of them holds.
MutexInv ==
  /\ \A g \in Procs : turn[g] # "out" =>
       want[g] \in Keys /\ entry[g] \in Entries /\ locks[want[g]] = entry[g]
  /\ \A j, k \in Keys : locks[j] # Nil /\ locks[j] = locks[k] => j = k
  /\ \A k \in Keys : locks[k] # Nil =>
       /\ Referring(locks[k]) # {}
       /\ waiters[locks[k]] = Cardinality(Referring(locks[k]))
  /\ \A g \in Procs : turn[g] = "holding" => held[entry[g]]
  /\ \A g, h \in Procs :
       turn[g] = "holding" /\ turn[h] = "holding" /\ entry[g] = entry[h] => g = h
=============================================================================
