------------------------------ MODULE AuditFile ------------------------------
(***************************************************************************)
(* internal/audit/file.go: the audit log of a gateway without a collector. *)
(* One write at a time, each synced.  Another program rotates the file     *)
(* whenever it likes, by renaming it, and may create the next one.         *)
(***************************************************************************)
EXTENDS Integers, Sequences, FiniteSets, SequencesExt

CONSTANTS LogPlans   \* bounds: writes, rotations, faults, kills, cuts, stops

VARIABLES lplan,    \* writes, rotations, faults, cuts, stops
          lpath,    \* the file at path, or 0
          llog,     \* the struct: file, pc and record of a Write, closed
          lfiles,   \* every file: records, is its name stable, late appends
          lacc      \* records Write accepted

lvars == <<lplan, lpath, llog, lfiles, lacc>>

NewFile(named) == [recs |-> {}, named |-> named, late |-> 0]

LInit ==
  /\ lplan \in LogPlans
  /\ lpath = 1 /\ lfiles = <<NewFile(TRUE)>> /\ lacc = {}
  /\ llog = [file |-> 1, rec |-> 0, closed |-> FALSE]

LEither == {FALSE} \cup {lplan.faults > 0}
LPay(err) == lplan' = IF err THEN [lplan EXCEPT !.faults = @ - 1] ELSE lplan

\* reopenRotated: SameFile, or not.
RotatedAway == lpath # llog.file

\* openAuditFile syncs the directory also for a file it found.
Named(files, n) == [files EXCEPT ![n].named = TRUE]

\* Write up to the append.
LogOpens ==
  LET n == IF lpath = 0 THEN Len(lfiles) + 1 ELSE lpath
      made == IF lpath = 0 THEN Append(lfiles, NewFile(FALSE)) ELSE lfiles
  IN  /\ llog.rec = 0 /\ lplan.writes > 0 /\ ~llog.closed
      /\ \E err \in IF RotatedAway THEN LEither ELSE {FALSE} :
           /\ lplan' = [lplan EXCEPT !.writes = @ - 1, !.faults = IF err THEN @ - 1 ELSE @]
           /\ llog' = [llog EXCEPT !.rec = IF err THEN 0 ELSE lplan.writes,
                                   !.file = IF RotatedAway /\ ~err THEN n ELSE @]
           /\ lpath' = IF RotatedAway THEN n ELSE lpath
           /\ lfiles' = IF ~RotatedAway THEN lfiles ELSE IF err THEN made ELSE Named(made, n)
      /\ UNCHANGED lacc

\* The append and its fsync.
LogAppends ==
  /\ llog.rec # 0
  /\ \E err \in LEither :
       /\ LPay(err)
       /\ lfiles' = IF err THEN lfiles
                    ELSE [lfiles EXCEPT ![llog.file].recs = @ \cup {llog.rec},
                            ![llog.file].late = IF lpath = llog.file THEN @ ELSE @ + 1]
       /\ lacc' = IF err THEN lacc ELSE lacc \cup {llog.rec}
  /\ llog' = [llog EXCEPT !.rec = 0]
  /\ UNCHANGED lpath

\* External: rename, and perhaps create.
LogRotated ==
  /\ lplan.rotations > 0 /\ lpath # 0 /\ lplan' = [lplan EXCEPT !.rotations = @ - 1]
  /\ \E create \in BOOLEAN :
       /\ lfiles' = IF create THEN Append(lfiles, NewFile(FALSE)) ELSE lfiles
       /\ lpath' = IF create THEN Len(lfiles) + 1 ELSE 0
  /\ UNCHANGED <<llog, lacc>>

LogCloses ==
  /\ lplan.stops /\ llog.rec = 0 /\ ~llog.closed /\ llog' = [llog EXCEPT !.closed = TRUE]
  /\ UNCHANGED <<lplan, lpath, lfiles, lacc>>

\* A power cut takes the files whose names are not stable; Configure opens path.
LogPowerCut ==
  LET left == [n \in DOMAIN lfiles |-> IF lfiles[n].named THEN lfiles[n] ELSE NewFile(FALSE)]
      path == IF lpath # 0 /\ lfiles[lpath].named THEN lpath ELSE Len(lfiles) + 1
  IN  /\ lplan.cuts > 0 /\ lplan' = [lplan EXCEPT !.cuts = @ - 1]
      /\ lpath' = path /\ lfiles' = Named(IF path > Len(left) THEN Append(left, NewFile(FALSE)) ELSE left, path)
      /\ llog' = [file |-> path, rec |-> 0, closed |-> FALSE]
      /\ UNCHANGED lacc

LogNext == LogOpens \/ LogAppends \/ LogRotated \/ LogCloses \/ LogPowerCut
-----------------------------------------------------------------------------
\* An accepted record survives a power cut, in whatever file a rotation that ran
\* at the same time made it land.
LoggedKept == lacc \subseteq UNION {lfiles[n].recs : n \in DOMAIN lfiles}

\* At most one append lands in a file after it was renamed.
OneLateAppend == \A n \in DOMAIN lfiles : lfiles[n].late <= 1
=============================================================================
