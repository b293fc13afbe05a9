------------------------------ MODULE FileSink ------------------------------
(***************************************************************************)
(* SauronAgent/internal/output/file.go: the event log of the collector,    *)
(* rotated by size.  Everything happens under mu; what can go wrong is an  *)
(* operation that fails, the end of the process and a power cut, between   *)
(* any two operations on the file system.                                  *)
(*                                                                         *)
(* Name 0 is the live file, name i is path.i.  A directory maps names to   *)
(* files (0: no such name).  A power cut undoes changes of names since the *)
(* last sync of the directory (fdisk.pending): any of them with            *)
(* syncOnWrite, the last ones without, and it may cut off the end of a     *)
(* file that was not synced.  A record is the number of writes left, so a  *)
(* smaller one is later.                                                   *)
(***************************************************************************)
EXTENDS Integers, Sequences, FiniteSets, FiniteSetsExt, SequencesExt, TLC

CONSTANTS MaxFiles,    \* maxFiles, at least 1
          FilePlans    \* bounds: maxSize, syncOnWrite, writes, faults

VARIABLES fplan,   \* maxSize, sync, writes, flushes, faults, kinds, kills, cuts, stops
          fdisk,   \* dir, stable and pending, files
          fsink,   \* the struct: f, dirsPending, closed
          fjob,    \* the operation under way
          fgot     \* ghosts: accepted, promised and pruned records

fvars == <<fplan, fdisk, fsink, fjob, fgot>>

ASSUME FileBounds == MaxFiles \in Nat \ {0}

Names == 0 .. MaxFiles
NoJob == [pc |-> "idle", rec |-> 0, name |-> 0]

FInit ==
  /\ fplan \in FilePlans
  /\ fdisk = [dir |-> [n \in Names |-> 0], stable |-> [n \in Names |-> 0], pending |-> <<>>, files |-> <<>>]
  /\ fsink = [f |-> 0, dirsPending |-> FALSE, closed |-> FALSE]
  /\ fjob = [NoJob EXCEPT !.pc = "open"]
  /\ fgot = [accepted |-> {}, promised |-> {}, pruned |-> {}]

FFaults == IF fplan.faults > 0 THEN fplan.kinds ELSE {}
FPay(f) == fplan' = IF f = "none" THEN fplan ELSE [fplan EXCEPT !.faults = @ - 1]
FEither(kinds) == {"none"} \cup (FFaults \cap kinds)

\* Names are changed, as by one create, remove or rename.
Over(dir, change) == [n \in Names |-> IF n \in DOMAIN change THEN change[n] ELSE dir[n]]
Renamed(d, change) ==
  [d EXCEPT !.dir = Over(d.dir, change), !.pending = Append(@, change)]
DirSynced(d) == [d EXCEPT !.stable = d.dir, !.pending = <<>>]
Survivors(d) ==
  LET left(S) == FoldLeftDomain(LAMBDA dir, i : IF i \in S THEN Over(dir, d.pending[i]) ELSE dir,
                                d.stable, d.pending)
  IN  {left(S) : S \in IF fplan.sync THEN SUBSET DOMAIN d.pending
                       ELSE {1 .. k : k \in 0 .. Len(d.pending)}}
FileSynced(d, f) == [d EXCEPT !.files[f].synced = Len(d.files[f].recs)]

\* What no power cut takes away any more.
Promise(g) == [g EXCEPT !.promised = g.accepted]

\* syncLocked: the file, then the directory if it changed.
syncLocked(d) ==
  LET e == IF fsink.f = 0 THEN d ELSE FileSynced(d, fsink.f)
  IN  IF fsink.dirsPending THEN DirSynced(e) ELSE e
-----------------------------------------------------------------------------
\* Write: reopen after a rotation that failed, rotate if the record would not fit.
\* The record is a unit of size, and an empty file takes it whatever maxSize is.
Full(f) == LET n == Len(fdisk.files[f].recs) IN fplan.maxSize > 0 /\ n > 0 /\ n + 1 > fplan.maxSize
AfterOpen(f) == IF Full(f) THEN "sync" ELSE "append"

FileWrite ==
  /\ fjob.pc = "idle" /\ fplan.writes > 0 /\ ~fsink.closed
  /\ fplan' = [fplan EXCEPT !.writes = @ - 1]
  /\ fjob' = [pc |-> IF fsink.f = 0 THEN "open" ELSE AfterOpen(fsink.f),
              rec |-> fplan.writes, name |-> 0]
  /\ UNCHANGED <<fdisk, fsink, fgot>>

prepareDirectory(d) == IF fplan.sync THEN DirSynced(d) ELSE d

\* openLocked.  With syncOnWrite what a rotation left is made stable first, and
\* then the new file.
FileOpen ==
  /\ fjob.pc = "open"
  /\ \E f \in FEither({"open", "opensync"}) :
       LET d == prepareDirectory(fdisk)
           new == d.dir[0] = 0
           n == IF new THEN Len(d.files) + 1 ELSE d.dir[0]
           e == IF new THEN [Renamed(d, 0 :> n) EXCEPT
                               !.files = Append(@, [recs |-> <<>>, synced |-> 0])]
                ELSE d
       IN  /\ FPay(f)
           /\ fdisk' = IF f = "open" THEN fdisk ELSE IF f = "opensync" \/ ~fplan.sync THEN e
                       ELSE DirSynced(FileSynced(e, n))
           /\ IF f = "none"
              THEN /\ fsink' = [fsink EXCEPT !.f = n, !.dirsPending = ~fplan.sync]
                   /\ fjob' = IF fjob.rec = 0 THEN NoJob
                              ELSE [fjob EXCEPT !.pc = IF fjob.name = 1 \/ new THEN "append"
                                                       ELSE AfterOpen(n)]
              ELSE fjob' = NoJob /\ UNCHANGED fsink
  /\ UNCHANGED fgot

firstMissingGeneration(dir) ==
  LET gaps == {i \in 1 .. MaxFiles : dir[i] = 0} IN IF gaps = {} THEN 0 ELSE Min(gaps)

\* rotateLocked up to the first change of a name.  name is the next one to move.
RotateBegins ==
  /\ fjob.pc = "sync"
  /\ \E f \in FEither({"sync", "close"}) :
       LET slot == firstMissingGeneration(fdisk.dir) IN
       /\ FPay(f)
       /\ fdisk' = IF f = "sync" THEN fdisk ELSE syncLocked(fdisk)
       /\ fgot' = IF f = "sync" THEN fgot ELSE Promise(fgot)
       /\ fsink' = IF f = "sync" THEN fsink
                   ELSE [fsink EXCEPT !.f = 0, !.dirsPending = f = "none"]
       /\ fjob' = CASE f # "none" -> NoJob
                    [] f = "none" /\ slot = 0 -> [fjob EXCEPT !.pc = "remove", !.name = MaxFiles]
                    [] f = "none" /\ slot > 0 -> [fjob EXCEPT !.pc = "move", !.name = slot - 1]

Generation(n) == IF fdisk.dir[n] = 0 THEN {} ELSE Range(fdisk.files[fdisk.dir[n]].recs)

RotateRemove ==
  /\ fjob.pc = "remove"
  /\ \E f \in FEither({"name"}) :
       /\ FPay(f)
       /\ fdisk' = IF f = "none" THEN Renamed(fdisk, MaxFiles :> 0) ELSE fdisk
       /\ fgot' = IF f = "none" THEN [fgot EXCEPT !.pruned = @ \cup Generation(MaxFiles)] ELSE fgot
       /\ fjob' = IF f = "none" THEN [fjob EXCEPT !.pc = "dirsync"] ELSE NoJob
  /\ UNCHANGED fsink

\* renameIfExists, from the oldest name down to the live file.
RotateMove ==
  /\ fjob.pc = "move"
  /\ \E f \in FEither({"name"}) :
       LET n == fjob.name IN
       /\ FPay(f)
       /\ fdisk' = IF f = "none" /\ fdisk.dir[n] # 0
                   THEN Renamed(fdisk, (n + 1 :> fdisk.dir[n]) @@ (n :> 0))
                   ELSE fdisk
       /\ fjob' = IF f = "none" THEN [fjob EXCEPT !.pc = "dirsync"] ELSE NoJob
  /\ UNCHANGED <<fsink, fgot>>

\* Faulty variant: the renames are left to the next sync.
FaultyRotationDir(d) == d

\* syncRotationDir.
syncRotationDir(d) == IF fplan.sync THEN DirSynced(d) ELSE d

RotateSync ==
  /\ fjob.pc = "dirsync"
  /\ \E f \in FEither(IF fplan.sync THEN {"dirsync"} ELSE {}) :
       /\ FPay(f)
       /\ fdisk' = IF f = "none" THEN syncRotationDir(fdisk) ELSE fdisk
       /\ fjob' = IF f # "none" THEN NoJob
                  ELSE IF fjob.name > 0 THEN [fjob EXCEPT !.pc = "move", !.name = @ - 1]
                  ELSE [fjob EXCEPT !.pc = "open", !.name = 1]
  /\ UNCHANGED <<fsink, fgot>>

\* The append.  A short write is rolled back; a sync that fails leaves the record
\* in the file and reports an error.
FileAppend ==
  /\ fjob.pc = "append" /\ fjob' = NoJob
  /\ \E f \in FEither({"write"} \cup (IF fplan.sync THEN {"sync"} ELSE {})) :
       LET d == [fdisk EXCEPT !.files[fsink.f].recs = Append(@, fjob.rec)]
           got == [fgot EXCEPT !.accepted = @ \cup {fjob.rec}]
       IN  /\ FPay(f)
           /\ fdisk' = IF f = "write" THEN fdisk
                       ELSE IF f = "none" /\ fplan.sync THEN syncLocked(d) ELSE d
           /\ fgot' = IF f # "none" THEN fgot ELSE IF fplan.sync THEN Promise(got) ELSE got
           /\ fsink' = [fsink EXCEPT !.dirsPending = @ /\ ~(f = "none" /\ fplan.sync)]

\* Flush; and Close, which drops the file whether or not the sync worked.
FileFlush ==
  /\ fjob.pc = "idle" /\ fplan.flushes > 0 /\ ~fsink.closed
  /\ \E f \in FEither({"sync"}) :
       /\ fplan' = [fplan EXCEPT !.flushes = @ - 1, !.faults = IF f = "none" THEN @ ELSE @ - 1]
       /\ fdisk' = IF f = "none" THEN syncLocked(fdisk) ELSE fdisk
       /\ fgot' = IF f = "none" THEN Promise(fgot) ELSE fgot
       /\ fsink' = IF f = "none" THEN [fsink EXCEPT !.dirsPending = FALSE] ELSE fsink
  /\ UNCHANGED fjob
FileClose ==
  /\ fjob.pc = "idle" /\ fplan.stops /\ ~fsink.closed
  /\ \E f \in FEither({"sync"}) :
       /\ FPay(f)
       /\ fdisk' = IF f = "none" THEN syncLocked(fdisk) ELSE fdisk
       /\ fgot' = IF f = "none" THEN Promise(fgot) ELSE fgot
       /\ fsink' = [f |-> 0, closed |-> TRUE, dirsPending |-> fsink.dirsPending /\ f # "none"]
  /\ UNCHANGED fjob

\* The next process, on the disk as it is or as a power cut left it.
Restarted ==
  /\ fsink' = [f |-> 0, dirsPending |-> FALSE, closed |-> FALSE]
  /\ fjob' = [NoJob EXCEPT !.pc = "open"]
FileKilled ==
  /\ fplan.kills > 0 /\ fplan' = [fplan EXCEPT !.kills = @ - 1]
  /\ Restarted /\ UNCHANGED <<fdisk, fgot>>
FilePowerCut ==
  /\ fplan.cuts > 0 /\ fplan' = [fplan EXCEPT !.cuts = @ - 1]
  /\ \E dir \in Survivors(fdisk) :
     \E kept \in {k \in [DOMAIN fdisk.files -> 0 .. 3] :
                    \A n \in DOMAIN k : k[n] \in fdisk.files[n].synced .. Len(fdisk.files[n].recs)} :
       fdisk' = [dir |-> dir, stable |-> dir, pending |-> <<>>,
                 files |-> [n \in DOMAIN kept |->
                   [recs |-> SubSeq(fdisk.files[n].recs, 1, kept[n]), synced |-> kept[n]]]]
  /\ fgot' = [fgot EXCEPT !.accepted = fgot.promised]
  /\ Restarted

FileNext ==
  \/ FileWrite \/ FileOpen \/ RotateBegins \/ RotateRemove \/ RotateMove \/ RotateSync
  \/ FileAppend \/ FileFlush \/ FileClose \/ FileKilled \/ FilePowerCut
-----------------------------------------------------------------------------
\* An accepted record is in a file that has a name or was pruned: rotations that
\* fail or stop half way lose nothing, and neither does a power cut, of what was
\* flushed or was written with syncOnWrite.
AcceptedNamed ==
  fgot.accepted \subseteq UNION {Generation(n) : n \in Names} \cup fgot.pruned

\* Retention: what was pruned is older than everything accepted that is left, and
\* there are still MaxFiles files, however many rotations failed on the way.
PrunedLast ==
  LET left == UNION {Generation(n) : n \in Names}
      lost == (fgot.pruned \cap fgot.accepted) \ left
  IN  lost # {} => /\ Cardinality({n \in Names : fdisk.dir[n] # 0}) >= MaxFiles
                   /\ \A r \in lost, q \in left : r > q
=============================================================================
