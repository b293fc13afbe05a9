-------------------------- MODULE MCAgentDelivery --------------------------
EXTENDS AgentDelivery

\* A spool of so many events (0: none), the queue's capacity, what is collected,
\* how often and how links and appends fail, restarts, whether a restart loses
\* the numbering, whether the agent is stopped, the size of loss reports.
Course(disk, capacity, events, failures, ways, again, numberless, stop, report, polls) ==
  [spool |-> disk > 0, room |-> disk, queue |-> capacity, kinds |-> events,
   faults |-> failures, errors |-> ways, restarts |-> again, loses |-> numberless,
   stops |-> stop, note |-> report, ticks |-> polls]

DeliveryPlans ==
  { Course(9, 9, <<"big">>, 1, {"link"}, 0, FALSE, FALSE, "note", 1),
    Course(9, 9, <<"plain">>, 0, {}, 1, FALSE, FALSE, "note", 1),
    Course(9, 9, <<"plain">>, 0, {}, 1, TRUE, FALSE, "note", 1),
    Course(9, 9, <<>>, 1, {"link"}, 1, TRUE, FALSE, "note", 0),
    Course(2, 1, <<"plain">>, 0, {}, 0, FALSE, FALSE, "bignote", 1),
    Course(2, 9, <<"big">>, 0, {}, 0, FALSE, FALSE, "bignote", 1),
    Course(9, 2, <<>>, 1, {}, 0, FALSE, FALSE, "note", 1),
    Course(0, 2, <<"big", "plain">>, 0, {}, 0, FALSE, FALSE, "note", 1),
    Course(0, 9, <<"plain">>, 0, {}, 1, FALSE, FALSE, "note", 1),
    Course(0, 9, <<>>, 0, {}, 0, FALSE, TRUE, "note", 1),
    Course(9, 2, <<"plain">>, 0, {}, 0, FALSE, TRUE, "note", 0),
    Course(9, 9, <<>>, 1, {"link"}, 0, FALSE, TRUE, "note", 1),
    Course(9, 9, <<>>, 1, {"link", "fatal", "protocol"}, 0, FALSE, FALSE, "note", 1),
    Course(9, 9, <<>>, 2, {"link", "protocol"}, 0, FALSE, FALSE, "note", 0) }
=============================================================================
