--------------------------- MODULE MCVMLifecycle ---------------------------
EXTENDS VMLifecycle

Course(kinds, vms, total, failing, crashing, others) ==
  [ops |-> kinds, names |-> vms, requests |-> total, faults |-> failing,
   crashes |-> crashing, foreign |-> others]

Owners == [n \in Keys |-> IF n = 3 THEN "bob" ELSE "alice"]

\* VMs 1 and 2 share a quota of one, 1 and 3 the only address.  In the last
\* plan a volume the gateway did not make has the name of VM 3.
VMPlans ==
  { Course({"create", "remove"}, {1}, 3, 0, 1, {}),
    Course({"create", "remove"}, {1}, 2, 1, 1, {}),
    Course({"create", "start", "restart", "stop", "remove"}, {1}, 3, 1, 0, {}),
    Course({"create", "remove"}, {1, 2}, 3, 0, 0, {}),
    Course({"create"}, {1, 2}, 2, 0, 1, {}),
    Course({"create"}, {1, 3}, 2, 0, 0, {}),
    Course({"create"}, {3}, 1, 1, 1, {3}) }
=============================================================================
