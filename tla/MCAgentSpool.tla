---------------------------- MODULE MCAgentSpool ----------------------------
(***************************************************************************)
(* Small instances of AgentSpool for TLC.                                  *)
(***************************************************************************)
EXTENDS AgentSpool

DiskFaults == {"stub", "fsync", "create", "dirsync", "remove", "checkpoint"}

\* A power loss after a failed sync of the directory may undo any rename and
\* unlink before it; nothing is claimed for that case.
PowerFaults == DiskFaults \ {"dirsync"}

Environment(sync, crash, most, faulty, top) ==
  [sync |-> sync, crash |-> crash, crashes |-> most, faults |-> faulty, last |-> top]

\* A crash of the agent, with every fault and with the ones that keep old
\* segments; two power losses, with faults and without; SyncOnWrite.
AgentEnvironments ==
  { Environment(FALSE, "process", 1, DiskFaults, 3),
    Environment(FALSE, "process", 1, {"remove", "checkpoint"}, 4),
    Environment(FALSE, "power", 2, {"stub", "fsync"}, 3),
    Environment(FALSE, "power", 2, {}, 4),
    Environment(TRUE, "power", 1, PowerFaults, 4) }

\* A short write that stops behind the header of the record.
FragmentEnvironments == {Environment(FALSE, "process", 1, {"fragment"}, 4)}
=============================================================================
