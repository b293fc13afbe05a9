---------------------------- MODULE MCHostStream ----------------------------
(***************************************************************************)
(* Small instances of HostStream for TLC: a table of one stream, and lists *)
(* of one range and one out-of-order number.                               *)
(***************************************************************************)
EXTENDS HostStream, TLC

Budget(streams, sessions, seqs, lost, refused, events, ticks, connects, stops) ==
  [streams |-> streams, sessions |-> sessions, seq |-> seqs, losses |-> lost,
   refusals |-> refused, events |-> events, ticks |-> ticks,
   reconnects |-> connects, restarts |-> stops]

\* Copies on two connections, with a refusing sink, with a loss and with both;
\* two losses against lists that are full; two streams competing for the table
\* during a restart; and a stream with unreported evidence while another wants
\* its place.
HostBudgets ==
  { Budget({"boot1"}, 2, 3, 0, 1, TRUE, FALSE, 2, 0),
    Budget({"boot1"}, 2, 3, 1, 0, TRUE, FALSE, 2, 0),
    Budget({"boot1"}, 2, 2, 1, 1, TRUE, FALSE, 2, 0),
    Budget({"boot1"}, 1, 4, 2, 1, FALSE, FALSE, 1, 0),
    Budget({"boot1"}, 1, 3, 2, 1, FALSE, FALSE, 2, 0),
    Budget({"boot1", "boot2"}, 2, 2, 0, 1, FALSE, TRUE, 2, 1),
    Budget({"boot1", "boot2"}, 1, 2, 1, 1, FALSE, TRUE, 2, 1),
    Budget({"boot1", "boot2"}, 1, 2, 1, 2, FALSE, TRUE, 3, 0) }

\* A sink that refuses an event while two streams compete for the table.
EvictBudgets == { Budget({"boot1", "boot2"}, 2, 2, 0, 1, TRUE, TRUE, 2, 0) }

Symmetry == Permutations(Sessions)
=============================================================================
