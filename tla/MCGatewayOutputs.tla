-------------------------- MODULE MCGatewayOutputs --------------------------
(***************************************************************************)
(* Instances of GatewayOutputs.  Each plan is aimed at one hazard; the     *)
(* last plan of each set is the part at rest.                              *)
(***************************************************************************)
EXTENDS GatewayOutputs

R(i, size, bad) == [id |-> i, size |-> size, bad |-> bad]
a == R(1, 1, FALSE)
b == R(2, 1, FALSE)
c == R(3, 1, FALSE)
x == R(4, 1, TRUE)
d == R(5, 2, FALSE)
e == R(6, 3, FALSE)
g == R(7, 9, FALSE)

G(max, sends, keep, bytes, faults, kinds, kills, cuts, stops, ticks) ==
  [max |-> max, sends |-> sends, keep |-> keep, keepBytes |-> bytes, faults |-> faults,
   kinds |-> kinds, kills |-> kills, cuts |-> cuts, stops |-> stops, ticks |-> ticks]
NoGuests == G(8, <<>>, 1, 1, 0, {}, 0, 0, FALSE, 0)

\* In turn: group commit and a power cut; with rotation; a bad record among good
\* ones; a crash and a power cut around a lost answer; a full spool; reclaimed
\* segments; a stale success, twice; superseded and overflowing retries; Close.
MCGuestPlans == {
  G(8, <<a, b, c>>, 2, 3, 0, {}, 0, 1, FALSE, 0),
  G(4, <<a, b, c>>, 2, 3, 0, {}, 0, 1, FALSE, 0),
  G(8, <<a, x, b>>, 2, 3, 1, {"index", "lost", "toolarge", "save"}, 0, 0, FALSE, 0),
  G(8, <<a, b>>, 2, 3, 1, {"unreached", "unconfirmed", "save"}, 1, 1, FALSE, 0),
  G(2, <<a, b, c>>, 2, 3, 1, {"remove", "create", "fsync"}, 0, 0, FALSE, 0),
  G(4, <<a, b, d>>, 2, 3, 1, {"save", "remove"}, 0, 0, FALSE, 0),
  G(8, <<a, a>>, 2, 3, 2, {"log"}, 0, 0, FALSE, 1),
  G(8, <<a, a, b>>, 2, 3, 1, {"log", "flush"}, 0, 0, FALSE, 0),
  G(8, <<a, b>>, 2, 1, 2, {"log"}, 0, 0, FALSE, 1),
  G(8, <<a, b>>, 1, 1, 2, {"write", "fsync"}, 0, 0, FALSE, 1),
  G(8, <<a, b>>, 1, 1, 1, {"log", "busy", "save"}, 0, 0, TRUE, 1),
  NoGuests}

O(rec, gate) == [rec |-> rec, gate |-> gate]
A(max, ops, faults, kinds, down, kills, cuts, stops) ==
  [max |-> max, ops |-> ops, faults |-> faults, kinds |-> kinds, down |-> down,
   kills |-> kills, cuts |-> cuts, stops |-> stops]
NoAudit == A(8, <<>>, 0, {}, FALSE, 0, 0, FALSE)

\* In turn: a power cut and failed writes; a bad record, with a crash; the same with
\* a power cut; a full spool that recovers; the same with a crash; a spool with its
\* last tenth left; Close with a collector that answers, and with one that does not.
MCAuditPlans == {
  A(8, <<O(a, TRUE), O(b, FALSE)>>, 1, {"write", "fsync", "unreached", "save"}, FALSE, 0, 1, FALSE),
  A(8, <<O(a, TRUE), O(x, TRUE), O(b, TRUE)>>, 1, {"index", "toolarge", "reject"}, FALSE, 1, 0, FALSE),
  A(8, <<O(x, TRUE), O(a, TRUE)>>, 1, {"save", "unconfirmed"}, FALSE, 0, 1, FALSE),
  A(3, <<O(e, TRUE), O(a, TRUE), O(c, FALSE)>>, 1, {"remove", "save"}, FALSE, 0, 0, FALSE),
  A(3, <<O(a, TRUE), O(d, FALSE), O(e, TRUE)>>, 0, {}, FALSE, 1, 0, FALSE),
  A(10, <<O(g, TRUE), O(a, TRUE), O(b, FALSE)>>, 1, {"save"}, FALSE, 0, 0, FALSE),
  A(8, <<O(a, TRUE), O(x, TRUE)>>, 1, {"busy", "reject", "save"}, FALSE, 0, 0, TRUE),
  A(8, <<O(a, TRUE), O(b, TRUE)>>, 1, {"fsync"}, TRUE, 0, 0, TRUE),
  NoAudit}

F(size, sync, writes, flushes, faults, kinds, kills, cuts, stops) ==
  [maxSize |-> size, sync |-> sync, writes |-> writes, flushes |-> flushes, faults |-> faults,
   kinds |-> kinds, kills |-> kills, cuts |-> cuts, stops |-> stops]
FileFaults == {"open", "opensync", "sync", "close", "name", "dirsync", "write"}
NoFile == F(1, FALSE, 0, 0, 0, {}, 0, 0, FALSE)

\* With and without syncOnWrite; without rotation.
MCFilePlans == {
  F(1, TRUE, 5, 0, 1, FileFaults, 1, 0, FALSE),
  F(1, TRUE, 4, 0, 1, FileFaults, 0, 1, FALSE),
  F(1, FALSE, 5, 1, 1, FileFaults, 0, 1, TRUE),
  F(2, TRUE, 5, 0, 2, {"name", "dirsync", "opensync"}, 0, 0, FALSE),
  F(2, FALSE, 5, 1, 1, {"sync", "name"}, 1, 1, FALSE),
  F(0, FALSE, 3, 1, 1, {"sync"}, 0, 1, TRUE),
  NoFile}

L(writes, rotations) ==
  [writes |-> writes, rotations |-> rotations, faults |-> 1, cuts |-> 1, stops |-> TRUE]
MCLogPlans == {L(3, 2), L(0, 0)}

\* Three starts on one spool: enough for a checkpoint of lost records to come back.
CheckpointPlans == {G(8, <<a, b>>, 2, 3, 0, {}, 2, 1, FALSE, 0)}
\* A first attempt to set a record aside that fails, and a power cut.
RejectedPlans == {A(8, <<O(x, TRUE)>>, 1, {"reject"}, FALSE, 0, 1, FALSE), NoAudit}
RestingGuests == {NoGuests}
RestingAudit == {NoAudit}
RestingFile == {NoFile}
RestingLog == {L(0, 0)}
=============================================================================
