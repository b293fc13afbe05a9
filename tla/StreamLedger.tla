---------------------------- MODULE StreamLedger ----------------------------
(***************************************************************************)
(* SauronAgent/internal/host/dedup.go and arrival.go: what the collector   *)
(* remembers of one guest event stream, as operators on a stream record.   *)
(* Each is one critical section of dedup.mu, or a part of one.             *)
(*                                                                         *)
(* The sorted lists of ranges (pending, missing) are sets of numbers: the  *)
(* code merges ranges that touch, so its ranges are the maximal runs of    *)
(* the set.  Entries of missing below the watermark have no effect in the  *)
(* code and are not kept.                                                  *)
(***************************************************************************)
EXTENDS Integers, FiniteSets, FiniteSetsExt, Sequences, SequencesExt

CONSTANTS Window,     \* limits.dedup_window
          MaxRanges   \* maxMissingRanges

ASSUME BoundsAssumption == Window \in Nat \ {0} /\ MaxRanges \in Nat \ {0}

\* A new dedupStream.  claim: who is publishing a gap of it; src: whether
\* gapSource is set; arrivals: number -> reservations (0 is kept, see release).
NewStream(id) ==
  [id |-> id, written |-> 0, ahead |-> {}, missing |-> {}, pending |-> {},
   gen |-> 0, src |-> FALSE, claim |-> "none", highest |-> 0,
   arrivals |-> <<>>, overflow |-> FALSE]

Ranges(S) == Cardinality({n \in S : n - 1 \notin S})
RunFrom(S, lo) == {n \in S : lo <= n /\ lo .. n \subseteq S}

\* excludePending: a number inside a range splits it, if a range is free.
excludePending(p, n) ==
  IF {n - 1, n, n + 1} \subseteq p /\ Ranges(p) >= MaxRanges THEN p ELSE p \ {n}

\* excludeArrivals ranges over a map, so in any order.
Exclusions(p, A) ==
  {q \in SUBSET p :
     /\ p \ q \subseteq A
     /\ \E order \in SetToSeqs(A) : q = FoldLeft(excludePending, p, order)}

\* Drops the reservations nobody holds whose number is no longer pending.
excludeArrivals(st) ==
  {LET kept == {n \in DOMAIN st.arrivals : st.arrivals[n] > 0 \/ n \in q} IN
   [st EXCEPT !.pending = q, !.src = @ /\ q # {},
              !.arrivals = [n \in kept |-> st.arrivals[n]]]
     : q \in Exclusions(st.pending, DOMAIN st.arrivals)}

prunePending(st) ==
  excludeArrivals([st EXCEPT !.pending = {n \in @ : n > st.written}])

\* queueMissing, and whether it refuses.  A new generation starts when
\* nothing was pending.
Fits(st, S) == Ranges(st.pending \cup S) <= MaxRanges
queueMissing(st, S) ==
  LET new == {n \in S : n > st.written} IN
  IF new = {} \/ ~Fits(st, new) THEN st
  ELSE [st EXCEPT !.pending = @ \cup new,
                  !.gen = IF st.pending = {} THEN @ + 1 ELSE @,
                  !.src = @ /\ st.pending # {}]

\* queueReplayMissing: the runs of S = what neither end has, lowest first,
\* up to the first one that does not fit.
Unheld(st, last) ==
  (st.written + 1 .. last) \ (st.missing \cup st.ahead \cup DOMAIN st.arrivals)
Refused(st, S) ==
  {lo \in S : lo - 1 \notin S /\ ~Fits(st, {n \in S : n < lo} \cup RunFrom(S, lo))}
queueReplayMissing(st, last) ==
  LET S == Unheld(st, last)
  IN  queueMissing(st, IF Refused(st, S) = {} THEN S ELSE {n \in S : n < Min(Refused(st, S))})

\* safeGapPart: the first part of range r without a received event.
Safe(st, r, exclude) ==
  LET free == r \ (DOMAIN st.arrivals \cup exclude)
  IN  IF st.overflow \/ free = {} THEN {} ELSE RunFrom(free, Min(free))
safePendingGap(st, exclude) == Safe(st, st.pending, exclude)

coversArrival(st, g) == st.overflow \/ g \cap DOMAIN st.arrivals # {}

canPublishGap(st, g) ==
  /\ ~coversArrival(st, g)
  /\ Ranges(st.pending \ g) <= MaxRanges
  /\ (\A n \in g : n <= st.written) \/ (\E n \in g : n <= st.written + 1)
       \/ Ranges(st.missing \cup g) <= MaxRanges

\* nextPublishableGap, once arrivals are excluded: the first pending range
\* whose first safe part can be published.
Publishable(st) ==
  {g \in {Safe(st, RunFrom(st.pending, lo), {}) : lo \in {n \in st.pending : n - 1 \notin st.pending}} :
     g # {} /\ canPublishGap(st, g)}
nextPublishableGap(st) ==
  IF Publishable(st) = {} THEN {} ELSE CHOOSE g \in Publishable(st) :
    \A h \in Publishable(st) : Min(g) <= Min(h)

\* absorb: over everything accounted for directly above the watermark.  A
\* range of missing is consumed whole, which strands what ahead has in it.
Watermark(st) ==
  Max({st.written} \cup {n \in st.ahead \cup st.missing :
                           st.written + 1 .. n \subseteq st.ahead \cup st.missing})
absorb(st) ==
  LET w == Watermark(st)
      skipped == {n \in st.ahead : \E j \in st.missing \ st.ahead :
                    st.written < j /\ j < n /\ j .. n \subseteq st.missing}
  IN  [st EXCEPT !.written = w,
                 !.ahead = {n \in @ : n > w \/ n <= st.written \/ n \in skipped},
                 !.missing = {n \in @ : n > w}]

\* noteMissing, and whether the ledger of accepted losses has room.
HasRoom(st, g) ==
  Ranges(st.missing \cup {n \in g : n > st.written}) <= MaxRanges \/ st.written + 1 \in g
noteMissing(st, g) == absorb([st EXCEPT !.missing = @ \cup {n \in g : n > st.written}])

\* trim drops the lowest of a set that outgrew the window.
trim(st) ==
  LET k == Cardinality(st.ahead)
      drop == Min({k, k - Window + (Window \div 4)})
      low == {n \in st.ahead : Cardinality({m \in st.ahead : m < n}) < drop}
  IN  IF k <= Window THEN st ELSE [st EXCEPT !.ahead = @ \ low]
-----------------------------------------------------------------------------
(* The operations of dedup on a stream that is in the table.               *)

\* check: what the arrival of n means, and the stream after it.
Anchored(st, n) == IF st.highest = 0 /\ n > 0 THEN [st EXCEPT !.written = n - 1] ELSE st
check(st, n) ==
  LET a == Anchored(st, n)
      p == excludePending(a.pending, n)
      e == [a EXCEPT !.pending = p, !.src = @ /\ p # {}]
      skipped == IF e.highest # 0 THEN e.highest + 1 .. n - 1 ELSE {}
      new == {m \in skipped : m > e.written}
      q == [queueMissing(e, skipped) EXCEPT !.highest = Max({@, n})]
  IN  IF st.overflow THEN [st |-> st, gap |-> {}, blocked |-> TRUE, dup |-> FALSE]
      ELSE IF n \in p
      THEN [st |-> e, gap |-> safePendingGap(e, {n}), blocked |-> TRUE, dup |-> FALSE]
      ELSE IF new # {} /\ ~Fits(e, new)
      THEN [st |-> e, gap |-> safePendingGap(e, {}), blocked |-> TRUE, dup |-> FALSE]
      ELSE [st |-> q, gap |-> safePendingGap(q, {}), blocked |-> FALSE,
            dup |-> n <= q.written \/ n \in q.ahead]

\* reserveArrival's effect on a stream with room for the reservation.
HasPlace(st, n) == n \in DOMAIN st.arrivals \/ Cardinality(DOMAIN st.arrivals) < Window
reserved(st, n) ==
  LET a == [m \in DOMAIN st.arrivals \cup {n} |->
              (IF m \in DOMAIN st.arrivals THEN st.arrivals[m] ELSE 0) + (IF m = n THEN 1 ELSE 0)]
      c == check([st EXCEPT !.arrivals = a], n).st
  IN  [c EXCEPT !.src = c.pending # {}]

release(st, n) == excludeArrivals([st EXCEPT !.arrivals[n] = @ - 1])

\* Commit: the streams it may leave (prunePending excludes in any order).
\* Faulty variant: the watermark follows the highest committed number.
FaultyCommit(st, n) ==
  IF n <= st.written THEN {st} ELSE prunePending([st EXCEPT !.written = n])
Commit(st, n) ==
  IF n <= st.written THEN {st}
  ELSE {trim(s) : s \in prunePending(absorb([st EXCEPT !.ahead = @ \cup {n}]))}

\* CheckReplay on a stream that is known.
CheckReplay(st, first) ==
  LET S == Unheld(st, first - 1)
      q == IF first - st.written > 1 THEN queueReplayMissing(st, first - 1) ELSE st
  IN  [st |-> q, gap |-> safePendingGap(q, {}), dup |-> FALSE,
       blocked |-> first - st.written > 1 /\ Refused(st, S) # {}]

\* finishGap: a publication of gap g is accounted for only if the evidence
\* it was taken from is still there and nothing in it arrived meanwhile.
\* Faulty variant: it only checks that the sink accepted the report.
FaultyAccountable(st, g, gen) == HasRoom(st, g)
Accountable(st, g, gen) ==
  /\ ~coversArrival(st, g) /\ st.gen = gen /\ g \subseteq st.pending
  /\ Ranges(st.pending \ g) <= MaxRanges /\ HasRoom(st, g)
accounted(st, g) ==
  LET m == noteMissing(st, g)
  IN  prunePending([m EXCEPT !.pending = @ \ g, !.highest = Max({@} \cup g)])
=============================================================================
