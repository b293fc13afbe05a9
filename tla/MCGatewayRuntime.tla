------------------------- MODULE MCGatewayRuntime -------------------------
(* Small plans for the parts of the running gateway.  The first plan of each *)
(* set is the one of a part that is left alone.                              *)
EXTENDS GatewayRuntime

M(n, u) == [name |-> n, uuid |-> u]
a1 == M("a", 1)
a2 == M("a", 2)
b3 == M("b", 3)
MCMachines == {a1, a2, b3}
CP(x, y, z, unk, st, sp, di, fa, ki, la, en) ==
    [up |-> [m \in MCMachines |-> IF m = a1 THEN x ELSE IF m = a2 THEN y ELSE z],
     unknown |-> unk, starts |-> st, stops |-> sp, dials |-> di, faults |-> fa, kinds |-> ki, late |-> la, ends |-> en]
MCCollectorPlans == {
    CP(0, 0, 0, TRUE, {}, 0, 0, 0, {}, 0, FALSE),
    CP(3, 0, 0, TRUE, {<<a2, 3>>}, 1, 2, 0, {}, 0, FALSE),
    CP(3, 0, 0, TRUE, {<<b3, 3>>}, 1, 1, 0, {}, 0, FALSE),
    CP(3, 0, 0, TRUE, {<<a1, 4>>}, 1, 2, 0, {}, 0, FALSE),
    CP(3, 0, 0, TRUE, {<<a1, 4>>}, 1, 1, 1, {"xml"}, 0, FALSE),
    CP(3, 0, 0, TRUE, {}, 0, 2, 1, {"drop", "list"}, 0, FALSE),
    CP(3, 0, 0, TRUE, {}, 0, 2, 1, {"connect", "uuid", "list", "xml", "inventory"}, 0, FALSE),
    CP(3, 0, 0, FALSE, {}, 0, 2, 1, {"connect", "uuid", "inventory"}, 0, TRUE),
    CP(3, 0, 0, TRUE, {}, 0, 1, 1, {"accept", "fail", "slow"}, 1, FALSE),
    CP(3, 0, 0, TRUE, {}, 1, 1, 1, {"accept", "fail", "slow"}, 0, TRUE),
    CP(3, 0, 4, TRUE, {}, 0, 2, 0, {}, 0, FALSE),
    CP(3, 0, 4, TRUE, {}, 0, 1, 1, {"fail"}, 0, FALSE)}

K(k, s) == [kind |-> k, src |-> s]
FP(mo, mp, cs, req, lv, fa, ki, la, st) ==
    [maxOpen |-> mo, maxPer |-> mp, conns |-> cs, requests |-> req, leaves |-> lv, faults |-> fa, kinds |-> ki,
     late |-> la, overdue |-> FALSE, stop |-> st]
MCFrontPlans == {
    FP(1, 1, <<>>, 0, 0, 0, {}, 0, "no"),
    FP(2, 2, <<K("rdp", "p"), K("serial", "q")>>, 1, 1, 1, {"denied", "backend", "upgrade", "limit", "pressure"}, 0, "cancel"),
    FP(2, 2, <<K("vnc", "p"), K("web", "q")>>, 3, 1, 1, {"denied", "backend", "upgrade", "limit"}, 0, "collector"),
    FP(2, 2, <<K("serial", "p"), K("vnc", "q")>>, 1, 1, 0, {}, 1, "cancel"),
    FP(2, 1, <<K("web", "p"), K("rdp", "p"), K("rdp", "q")>>, 1, 1, 1, {"emfile", "accept"}, 0, "no"),
    FP(1, 1, <<K("web", "p"), K("rdp", "p"), K("rdp", "q")>>, 1, 2, 0, {}, 0, "cancel"),
    FP(2, 2, <<K("web", "p"), K("serial", "q")>>, 1, 0, 1, {"emfile"}, 2, "cancel")}

L(user, ip, good) == [user |-> user, ip |-> ip, valid |-> TRUE, good |-> good]
Bad(ip) == [user |-> "?", ip |-> ip, valid |-> FALSE, good |-> FALSE]
LP(max, maxIP, window, lockout, ls, last) ==
    [max |-> max, maxIP |-> maxIP, window |-> window, lockout |-> lockout, logins |-> ls, last |-> last]
MCLoginPlans == {
    LP(0, 0, 1, 1, <<>>, 0),
    LP(2, 3, 1, 2, <<L("u", "p", FALSE), L("u", "p", FALSE), L("u", "p", FALSE)>>, 4),
    LP(1, 3, 2, 2, <<L("u", "p", FALSE), L("u", "p", TRUE), L("u", "p", FALSE)>>, 4),
    LP(2, 2, 2, 2, <<L("u", "p", FALSE), L("v", "p", FALSE), L("v", "p", TRUE)>>, 3),
    LP(2, 2, 1, 1, <<L("u", "p", FALSE), Bad("p"), Bad("p")>>, 3),
    LP(2, 0, 1, 1, <<L("u", "p", FALSE), L("u", "q", FALSE), L("u", "p", FALSE)>>, 3),
    LP(0, 2, 1, 1, <<L("u", "p", FALSE), L("u", "p", TRUE), Bad("p")>>, 2)}

Dom(state, owned, stored, obeys) ==
    [state |-> state, owned |-> owned, stored |-> stored, born |-> 0, obeys |-> obeys, pressed |-> 0]
IP(vms, opens, ms, powers, faults, kinds, last) ==
    [idle |-> 3, grace |-> 1, vms |-> vms, opens |-> opens, marks |-> ms, powers |-> powers,
     faults |-> faults, kinds |-> kinds, last |-> last]
One(d) == [v \in {"v"} |-> d]
Two(d, e) == [v \in {"v", "w"} |-> IF v = "v" THEN d ELSE e]
MCIdlePlans == {
    IP([v \in {} |-> v], 0, 0, 0, 0, {}, 0),
    IP(One(Dom("running", TRUE, 1, FALSE)), 2, 1, 0, 0, {}, 9),
    IP(One(Dom("running", TRUE, 0, TRUE)), 0, 1, 1, 1, {"load", "stop", "late"}, 7),
    IP(One(Dom("running", TRUE, 1, FALSE)), 1, 0, 1, 1, {"crash", "persist"}, 7),
    IP(One(Dom("running", TRUE, 1, FALSE)), 1, 1, 0, 2, {"crash", "persist"}, 6),
    IP(One(Dom("none", TRUE, 0, FALSE)), 1, 1, 1, 0, {}, 7),
    IP(Two(Dom("running", TRUE, 1, FALSE), Dom("running", FALSE, 0, FALSE)), 1, 0, 0, 1, {"omit", "persist"}, 7),
    IP(One(Dom("running", TRUE, 1, FALSE)), 0, 0, 2, 1, {"stale", "empty", "omit", "late"}, 7)}

VM(name, owner, st, on) == [name |-> name, owner |-> owner, stage |-> st, on |-> on]
WP(ds, bs, change, faults, kinds) ==
    [doms |-> ds, boards |-> bs, change |-> change, faults |-> faults, kinds |-> kinds, moves |-> {}, up |-> {},
     spare |-> "u1", power |-> FALSE, port |-> FALSE, slow |-> 0, polls |-> 0, extra |-> 0, quiet |-> 0,
     leave |-> 0]
Single(v) == [h1 |-> [u1 |-> v], h2 |-> [u1 |-> v]]
Owners == [h1 |-> [u1 |-> VM("a", "ann", 2, TRUE)], h2 |-> [u1 |-> VM("a", "bob", 2, TRUE)]]
MCInventoryPlans == {
    WP(Owners, [b \in {} |-> b], 0, 0, {}),
    [WP(Owners, [b |-> "ann"], 1, 1, {"error"}) EXCEPT !.moves = {"h1", "h2"}, !.leave = 1],
    [WP(Owners, [b |-> "ann"], 2, 0, {}) EXCEPT !.moves = {"h1", "h2"}],
    WP(Single(VM("a", "ann", 1, FALSE)), [b |-> Admin], 0, 1, {"meta", "uuid", "state"}),
    [WP(Single(VM("a", "ann", 2, FALSE)), [b |-> Admin], 1, 1, {"hang"}) EXCEPT !.power = TRUE],
    [WP(Single(VM("a", "ann", 2, FALSE)), [b |-> Admin], 0, 2, {"hang"}) EXCEPT !.power = TRUE],
    [WP(Single(VM("a", "ann", 2, FALSE)), [b |-> Admin], 1, 0, {}) EXCEPT !.power = TRUE, !.slow = 1, !.extra = 1],
    [WP(Single(VM("a", "ann", 2, FALSE)), [b |-> Admin], 0, 0, {}) EXCEPT !.extra = 1, !.quiet = 2],
    [WP(Single(VM("a", "ann", 2, FALSE)), [b |-> Admin], 1, 0, {}) EXCEPT !.power = TRUE, !.slow = 2],
    [WP(Single(VM("a", "ann", 2, TRUE)), [b |-> "ann"], 2, 0, {}) EXCEPT !.power = TRUE, !.polls = 1, !.up = {"a"}],
    [WP(Single(VM("a", "ann", 2, TRUE)), [b |-> "ann"], 1, 0, {}) EXCEPT !.up = {"a"}, !.spare = "u2"],
    [WP(Single(VM("a", "ann", 2, TRUE)), [b |-> "ann"], 1, 0, {}) EXCEPT !.port = TRUE],
    [WP(Single(VM("a", "ann", 2, TRUE)), [b |-> "ann", c |-> "ann"], 0, 0, {}) EXCEPT !.port = TRUE]}

SP(version, changes, pings, beats, ends) ==
    [version |-> version, changes |-> changes, pings |-> pings, beats |-> beats, ends |-> ends]
MCSocketPlans == {
    SP(0, 0, 0, 0, 0), SP(1, 1, 1, 1, 1), SP(1, 3, 1, 0, 0), SP(1, 1, 3, 0, 1), SP(1, 0, 1, 2, 2)}

R(n, id) == [n |-> n, id |-> id, eoe |-> FALSE, form |-> "ok"]
E(n, id) == [R(n, id) EXCEPT !.eoe = TRUE]
D(rs) == [msgs |-> rs, tail |-> "ok"]
KP(emit, fail, stop, late) == [emit |-> emit, fail |-> fail, stop |-> stop, late |-> late, overdue |-> FALSE]
MCCollectionPlans == {
  KP(<<>>, FALSE, FALSE, 0),
  KP(<<D(<<R(1, 1), R(2, 2)>>), D(<<E(3, 1)>>), D(<<R(4, 3)>>)>>, FALSE, TRUE, 0),
  KP(<<D(<<R(1, 1)>>), D(<<R(2, 1)>>), D(<<R(3, 1)>>), D(<<E(4, 1)>>)>>, FALSE, FALSE, 1),
  KP(<<D(<<R(1, 1), R(2, 2)>>), [msgs |-> <<R(4, 0), [R(5, 1) EXCEPT !.form = "garbled"]>>, tail |-> "bad"],
       [msgs |-> <<>>, tail |-> "foreign"]>>, TRUE, FALSE, 0),
  KP(<<D(<<R(1, 1), R(2, 2), R(3, 3)>>), [msgs |-> <<R(4, 0)>>, tail |-> "bad"]>>, TRUE, FALSE, 0),
  KP(<<[msgs |-> <<[R(1, 1) EXCEPT !.form = "excluded"], R(2, 1)>>, tail |-> "ok"], [msgs |-> <<>>, tail |-> "bad"],
       D(<<R(3, 2), R(4, 3)>>)>>, FALSE, TRUE, 1)}
=============================================================================
