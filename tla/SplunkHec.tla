------------------------------ MODULE SplunkHec ------------------------------
(***************************************************************************)
(* internal/splunkhec: what one Post of a batch can come to.  The          *)
(* collector is external; a reply stands for a status and a HEC code:      *)
(*   ok           200 and code 0, confirmed where ACKs are asked for       *)
(*   unconfirmed  200 and code 0, and no ACK within ackTimeout             *)
(*   garbled      200 and no code, or a truncated body                     *)
(*   toolarge     413                malformed  400 and code 6             *)
(*   index        400 and code 7     busy       503                        *)
(*   denied       403                                                      *)
(*   unreached    no reply, the request not received                       *)
(*   lost         no reply, the request received                           *)
(*   cancelled    the context of the request ended                         *)
(***************************************************************************)
EXTENDS Integers, Sequences, FiniteSets

Status == [ok |-> 200, unconfirmed |-> 200, garbled |-> 200, toolarge |-> 413,
           malformed |-> 400, index |-> 400, busy |-> 503, denied |-> 403,
           unreached |-> 0, lost |-> 0, cancelled |-> 0]
replyCode == [ok |-> 0, unconfirmed |-> 0, garbled |-> -1, toolarge |-> -1,
              malformed |-> 6, index |-> 7, busy |-> 9, denied |-> 4,
              unreached |-> -1, lost |-> -1, cancelled |-> -1]

retryableStatus(status) ==
  \/ status \in {401, 403, 408, 429}
  \/ status >= 300 /\ status < 400
  \/ status >= 500

\* post returns a rejectedError for these.
Rejected(reply) ==
  LET status == Status[reply]
  IN  status # 0 /\ ~(status >= 200 /\ status < 300) /\ ~retryableStatus(status)

IsInvalidEvent(reply) ==
  /\ Rejected(reply)
  /\ \/ Status[reply] = 413
     \/ Status[reply] = 400 /\ replyCode[reply] \in {6, 12, 13, 15}

\* waitACK: without a confirmation the events count as not delivered.
waitACK(reply) == reply # "unconfirmed"

\* Post: "ok", "invalid" or "error".
Post(reply) ==
  IF Status[reply] = 200 /\ replyCode[reply] = 0 /\ waitACK(reply) THEN "ok"
  ELSE IF IsInvalidEvent(reply) THEN "invalid" ELSE "error"

\* External: the replies the collector may give to the records of q, and the
\* ones of them it gives without a fault.
Expected(q) == IF \E i \in DOMAIN q : q[i].rec.bad THEN "malformed" ELSE "ok"
Replies(q, faults) ==
  {Expected(q)} \cup (faults \cap (IF Len(q) > 1 THEN DOMAIN Status ELSE DOMAIN Status \ {"toolarge"}))

\* External: what it keeps of them.
Indexed(q, reply) ==
  IF reply \in {"ok", "unconfirmed", "garbled", "lost"} THEN {q[i].rec.id : i \in DOMAIN q} ELSE {}
=============================================================================
