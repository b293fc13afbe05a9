----------------------------- MODULE LossyFifo -----------------------------
(***************************************************************************)
(* What the agent's bounded event queue promises its callers, with no ring *)
(* and no consumer bookkeeping: a FIFO of sequence numbers that, when full, *)
(* gives up its oldest element, and that never loses a number without      *)
(* putting it in the set of losses still to be reported.                   *)
(***************************************************************************)
EXTENDS Naturals, Sequences

CONSTANTS Capacity, Numbers

VARIABLES items,    \* the queued sequence numbers, oldest first
          taken,    \* the sequence numbers handed to consumers, in order
          missing,  \* the numbers dropped and not yet reported
          reported, \* the numbers dropped and handed to the loss reporter
          shut      \* no further number is stored

abstractVars == <<items, taken, missing, reported, shut>>

AbstractInit ==
  /\ items = <<>> /\ taken = <<>>
  /\ missing = {} /\ reported = {}
  /\ shut = FALSE

Accept(s) ==
  /\ ~shut /\ Len(items) < Capacity
  /\ items' = Append(items, s)
  /\ UNCHANGED <<taken, missing, reported, shut>>

Displace(s) ==
  /\ ~shut /\ Len(items) = Capacity
  /\ items' = Append(Tail(items), s)
  /\ missing' = missing \cup {Head(items)}
  /\ UNCHANGED <<taken, reported, shut>>

Refuse(s) ==
  /\ shut
  /\ missing' = missing \cup {s}
  /\ UNCHANGED <<items, taken, reported, shut>>

Take ==
  /\ items # <<>>
  /\ items' = Tail(items)
  /\ taken' = Append(taken, Head(items))
  /\ UNCHANGED <<missing, reported, shut>>

Report ==
  /\ missing # {}
  /\ reported' = reported \cup missing
  /\ missing' = {}
  /\ UNCHANGED <<items, taken, shut>>

Shut ==
  /\ shut' = TRUE
  /\ UNCHANGED <<items, taken, missing, reported>>

AbstractNext ==
  \/ \E s \in Numbers : Accept(s) \/ Displace(s) \/ Refuse(s)
  \/ Take \/ Report \/ Shut

AbstractSpec == AbstractInit /\ [][AbstractNext]_abstractVars
=============================================================================
