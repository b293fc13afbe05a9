------------------------ MODULE MCGatewaySessions ---------------------------
EXTENDS GatewaySessions, TLC

CONSTANTS alice, bob, vm1, vm2

Plan(kinds, requests, users, tokens, grants, ends) ==
  [kinds |-> kinds, requests |-> requests, users |-> users, sessions |-> tokens,
   grants |-> grants, time |-> 2, shutdown |-> ends]

\* Consoles against logouts and new logins; RDP tokens against each other and
\* logouts; ends of sessions against saves and the shutdown; connections
\* against the shutdown.
SessionPlans == {
  Plan({"login", "logout", "console"}, 4, {alice}, 2, 0, FALSE),
  Plan({"login", "logout", "grant", "rdp"}, 5, {alice}, 1, 2, FALSE),
  Plan({"login", "roam", "grant"}, 4, {alice}, 2, 1, TRUE),
  Plan({"login", "console"}, 4, {alice}, 2, 0, TRUE),
  Plan({"login", "console"}, 3, {alice, bob}, 2, 0, TRUE),
  Plan({"login", "grant", "rdp"}, 3, {alice}, 1, 1, TRUE)
}
=============================================================================
