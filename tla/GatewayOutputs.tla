--------------------------- MODULE GatewayOutputs ---------------------------
(***************************************************************************)
(* Where the gateway's records end up: guest events (GuestOutput and the   *)
(* event log, FileSink), and the gateway's own audit records (AuditOutput  *)
(* with a collector, AuditFile without).  They share code, DeliverySpool   *)
(* and SplunkHec, and no state; a behaviour therefore exercises one part,  *)
(* the one whose plan has work, and leaves the others alone.               *)
(***************************************************************************)
EXTENDS GuestOutput, AuditOutput, FileSink, AuditFile

VARIABLE part   \* "guest", "audit", "file" or "log"

ovars == <<part, gvars, avars, fvars, lvars>>

Init ==
  /\ part \in {"guest", "audit", "file", "log"}
  /\ GInit /\ (gplan.sends # <<>> <=> part = "guest")
  /\ AInit /\ (aplan.ops # <<>> <=> part = "audit")
  /\ FInit /\ (fplan.writes > 0 <=> part = "file")
  /\ LInit /\ (lplan.writes > 0 <=> part = "log")

Guest(A) == part = "guest" /\ A /\ UNCHANGED <<part, avars, fvars, lvars>>
Audit(A) == part = "audit" /\ A /\ UNCHANGED <<part, gvars, fvars, lvars>>
Next ==
  \/ Guest(GuestNext) \/ Audit(AuditNext)
  \/ part = "file" /\ FileNext /\ UNCHANGED <<part, gvars, avars, lvars>>
  \/ part = "log" /\ LogNext /\ UNCHANGED <<part, gvars, avars, fvars>>

\* The goroutines run and the timers fire; faults, crashes and shutdown need not come.
Spec == Init /\ [][Next]_ovars
FairSpec == Spec /\ WF_ovars(Guest(GuestWork) \/ Audit(AuditWork))

(* Forwarders and health: a record is given up only when Splunk refused it   *)
(* by itself, none is sent again once its batch was confirmed, and health    *)
(* tells of every record that was refused or not written.                    *)
VerdictsObserved ==
    /\ GuestTypeOK /\ DroppedOnVerdict /\ NotSentAgain /\ HealthyMeansAccepted
    /\ SetAsideOnVerdict /\ AuditNotSentAgain /\ LoggedOrLatched

(* File sink and audit file: accepted records keep a name over rotations     *)
(* that fail, the oldest are pruned first, and a file that was rotated away  *)
(* gets one record more at most.                                             *)
FilesKept == AcceptedNamed /\ PrunedLast /\ LoggedKept /\ OneLateAppend

(* Forwarders: delivery catches up, admission opens again, and Close ends.   *)
OutputsProgress == GuestsCatchUp /\ OutputsClose /\ AuditRecovers /\ AuditCloseEnds
=============================================================================
