--------------------------- MODULE DashboardSocket ---------------------------
(* One dashboard connection: the reader of the browser's pings, the writer,  *)
(* the publisher of the data, the goroutine that closes the socket at the    *)
(* session's deadline, the keepalive with its control frames, and the queue  *)
(* between reader, publisher and writer.  The data is a version, 0 for none; *)
(* 0 in the queue is a pong.                                                 *)
EXTENDS Naturals, Sequences

CONSTANTS QueueCap,   \* dashboardOutboundQueue
          SocketPlans \* [version, changes, pings, beats, ends]: the first data, and the budgets

ASSUME SocketAssumption ==
    /\ QueueCap \in Nat \ {0}
    /\ SocketPlans \subseteq [version : Nat, changes : Nat, pings : Nat, beats : Nat, ends : Nat]

VARIABLES splan,   \* the plan, its budgets counted down
          sock,    \* [open, cancelled, peer]: the websocket, the context, the browser
          data,    \* [version, told, joined]: the inventory's data, the subscription
          out,     \* the outbound queue
          reader, writer, publisher, closer, keeper, \* what each goroutine does
          shown    \* the version the browser shows

socketVars == <<splan, sock, data, out, reader, writer, publisher, closer, keeper, shown>>

SocketInit ==
    /\ splan \in SocketPlans
    /\ sock = [open |-> TRUE, cancelled |-> FALSE, peer |-> "ok"]
    /\ data = [version |-> splan.version, told |-> FALSE, joined |-> FALSE]
    /\ out = <<>>
    /\ reader = "read" /\ closer = "wait" /\ keeper = "wait" /\ shown = 0
    /\ writer = [pc |-> "idle", message |-> 0]
    /\ publisher = [pc |-> "subscribe", message |-> 0]

-----------------------------------------------------------------------------
(* The inventory, the browser and the session.                               *)
InventoryChanges ==
    /\ splan.changes > 0
    /\ splan' = [splan EXCEPT !.changes = @ - 1]
    /\ data' = [data EXCEPT !.version = @ + 1, !.told = data.joined]
    /\ UNCHANGED <<sock, out, reader, writer, publisher, closer, keeper, shown>>

(* The browser stops reading and pinging or goes away, the session is        *)
(* revoked and its callback closes the socket, or its deadline passes.       *)
Ending(s) ==
    {[s EXCEPT !.peer = "stuck"], [s EXCEPT !.peer = "gone"], [s EXCEPT !.open = FALSE], [s EXCEPT !.cancelled = TRUE]}
ConnectionEnds ==
    /\ splan.ends > 0
    /\ splan' = [splan EXCEPT !.ends = @ - 1]
    /\ sock' \in Ending(sock)
    /\ UNCHANGED <<data, out, reader, writer, publisher, closer, keeper, shown>>

-----------------------------------------------------------------------------
Room == Len(out) < QueueCap
GivesUp == sock.cancelled

(* The reader. *)
ReadPing ==
    /\ reader = "read" /\ sock.open /\ sock.peer = "ok" /\ splan.pings > 0
    /\ splan' = [splan EXCEPT !.pings = @ - 1] /\ reader' = "pong"
    /\ UNCHANGED <<sock, data, out, writer, publisher, closer, keeper, shown>>

QueuePong ==
    /\ reader = "pong" /\ Room
    /\ out' = Append(out, 0) /\ reader' = "read"
    /\ UNCHANGED <<splan, sock, data, writer, publisher, closer, keeper, shown>>

(* A read fails on a closed socket, and on a browser that is silent for the  *)
(* read deadline; the deferred calls cancel, close and wait.                 *)
ReaderStopsUncancelled ==
    /\ \/ reader = "read" /\ ~(sock.open /\ sock.peer = "ok")
       \/ reader = "pong" /\ GivesUp
    /\ reader' = "join" /\ sock' = [sock EXCEPT !.open = FALSE]
    /\ UNCHANGED <<splan, data, out, writer, publisher, closer, keeper, shown>>
ReaderStops ==
    /\ \/ reader = "read" /\ ~(sock.open /\ sock.peer = "ok")
       \/ reader = "pong" /\ GivesUp
    /\ reader' = "join" /\ sock' = [sock EXCEPT !.open = FALSE, !.cancelled = TRUE]
    /\ UNCHANGED <<splan, data, out, writer, publisher, closer, keeper, shown>>

Joins == writer.pc = "done" /\ closer = "done" /\ publisher.pc = "done"

HandlerReturns ==
    /\ reader = "join" /\ Joins
    /\ reader' = "returned"
    /\ UNCHANGED <<splan, sock, data, out, writer, publisher, closer, keeper, shown>>

-----------------------------------------------------------------------------
(* The writer and the closer. *)
TakeMessage ==
    /\ writer.pc = "idle" /\ out # <<>>
    /\ writer' = [pc |-> "write", message |-> Head(out)] /\ out' = Tail(out)
    /\ UNCHANGED <<splan, sock, data, reader, publisher, closer, keeper, shown>>

WriteJSON ==
    /\ writer.pc = "write" /\ sock.open /\ sock.peer = "ok"
    /\ shown' = IF writer.message = 0 THEN shown ELSE writer.message
    /\ writer' = [pc |-> "idle", message |-> 0]
    /\ UNCHANGED <<splan, sock, data, out, reader, publisher, closer, keeper>>

(* A write fails, at its deadline at the latest. *)
WriteFails ==
    /\ writer.pc = "write" /\ ~(sock.open /\ sock.peer = "ok")
    /\ writer' = [pc |-> "done", message |-> 0]
    /\ sock' = [sock EXCEPT !.open = FALSE, !.cancelled = TRUE]
    /\ UNCHANGED <<splan, data, out, reader, publisher, closer, keeper, shown>>

WriterStops ==
    /\ writer.pc = "idle" /\ sock.cancelled
    /\ writer' = [pc |-> "done", message |-> 0]
    /\ UNCHANGED <<splan, sock, data, out, reader, publisher, closer, keeper, shown>>

CloseSocketWhenDone ==
    /\ closer = "wait" /\ sock.cancelled
    /\ closer' = "done" /\ sock' = [sock EXCEPT !.open = FALSE]
    /\ UNCHANGED <<splan, data, out, reader, writer, publisher, keeper, shown>>

-----------------------------------------------------------------------------
(* The keepalive: a ping is due, which may be even after the handler told it *)
(* to stop.  The write succeeds while the socket takes it, whatever became   *)
(* of the browser; when it fails it closes the socket, and cancels nothing.  *)
PingDue ==
    /\ keeper = "wait" /\ splan.beats > 0
    /\ splan' = [splan EXCEPT !.beats = @ - 1] /\ keeper' = "ping"
    /\ UNCHANGED <<sock, data, out, reader, writer, publisher, closer, shown>>

WriteControl ==
    /\ keeper = "ping" /\ sock.open
    /\ keeper' = "wait"
    /\ UNCHANGED <<splan, sock, data, out, reader, writer, publisher, closer, shown>>

PingFails ==
    /\ keeper = "ping" /\ ~(sock.open /\ sock.peer = "ok")
    /\ keeper' = "done" /\ sock' = [sock EXCEPT !.open = FALSE]
    /\ UNCHANGED <<splan, data, out, reader, writer, publisher, closer, shown>>

(* The deferred calls of the handler closed keepaliveDone. *)
KeepaliveStops ==
    /\ keeper = "wait" /\ reader \in {"join", "returned"}
    /\ keeper' = "done"
    /\ UNCHANGED <<splan, sock, data, out, reader, writer, publisher, closer, shown>>

-----------------------------------------------------------------------------
(* The publisher. *)
Publisher(p, d) ==
    /\ publisher' = p /\ data' = d
    /\ UNCHANGED <<splan, sock, reader, writer, closer, keeper, shown>>

Subscribe ==
    /\ publisher.pc = "subscribe"
    /\ Publisher([publisher EXCEPT !.pc = "read"], [data EXCEPT !.joined = TRUE]) /\ UNCHANGED out

ReadData ==
    /\ publisher.pc = "read"
    /\ Publisher([pc |-> "queue", message |-> data.version], data) /\ UNCHANGED out

(* The notification was taken before the data was read. *)
QueueUpdateAndDrain ==
    /\ publisher.pc = "queue" /\ Room
    /\ out' = Append(out, publisher.message)
    /\ Publisher([pc |-> "idle", message |-> 0], [data EXCEPT !.told = FALSE])
QueueUpdate ==
    /\ publisher.pc = "queue" /\ Room
    /\ out' = Append(out, publisher.message)
    /\ Publisher([pc |-> "idle", message |-> 0], data)

ReceiveUpdate ==
    /\ publisher.pc = "idle" /\ data.told
    /\ Publisher([publisher EXCEPT !.pc = "read"], [data EXCEPT !.told = FALSE]) /\ UNCHANGED out

PublisherStops ==
    /\ publisher.pc \in {"idle", "queue"} /\ sock.cancelled
    /\ Publisher([pc |-> "done", message |-> 0], [data EXCEPT !.joined = FALSE, !.told = FALSE]) /\ UNCHANGED out

SocketWork ==
    \/ QueuePong \/ ReaderStops \/ HandlerReturns \/ TakeMessage \/ WriteJSON \/ WriteFails
    \/ WriterStops \/ CloseSocketWhenDone \/ Subscribe \/ ReadData \/ QueueUpdate \/ ReceiveUpdate
    \/ PublisherStops \/ WriteControl \/ PingFails \/ KeepaliveStops

SocketNext == SocketWork \/ InventoryChanges \/ ConnectionEnds \/ ReadPing \/ PingDue
SocketSpec == SocketInit /\ [][SocketNext]_socketVars

-----------------------------------------------------------------------------
(* The queue holds dashboardOutboundQueue messages at most, and the browser  *)
(* never shows data that was not there.                                      *)
SocketTypeOK == Len(out) <= QueueCap /\ shown <= data.version

(* outbound: whatever is on its way to the browser (being written, queued,   *)
(* about to be queued) is a pong or no older than what went before it, so    *)
(* the browser's view never goes back.                                       *)
Follows(m, v) == m = 0 \/ v <= m
ViewInOrder ==
    /\ \A k \in 1..Len(out) :
          Follows(out[k], shown) /\ Follows(out[k], writer.message) /\ Follows(publisher.message, out[k])
    /\ \A j, k \in 1..Len(out) : j < k => Follows(out[k], out[j])
    /\ Follows(writer.message, shown) /\ Follows(publisher.message, shown)
    /\ Follows(publisher.message, writer.message)

(* publishDashboardVMUpdates: when the publisher waits and no notification   *)
(* does, the current data is shown or on its way, as long as there is a      *)
(* writer: no change falls between the subscription, the reads and the       *)
(* notifications.                                                            *)
NothingMissed ==
    publisher.pc = "idle" /\ ~data.told /\ writer.pc # "done" =>
        \/ shown = data.version \/ writer.message = data.version
        \/ \E k \in 1..Len(out) : out[k] = data.version

(* bridgeDashboardControlSocketForView: the handler returns, which takes the *)
(* connection off the session's list, only when the socket is closed, the    *)
(* subscription gone, and no goroutine is left that could read, queue or     *)
(* write data.  The keepalive it does not wait for: a late ping finds the    *)
(* socket closed.                                                            *)
NothingLeft ==
    reader = "returned" =>
        publisher.pc = "done" /\ writer.pc = "done" /\ closer = "done" /\ ~data.joined /\ ~sock.open

Ended == ~sock.open \/ sock.cancelled \/ sock.peer # "ok"

(* Every way a connection can end, with the queue full or not, ends all five *)
(* goroutines, the handler and the keepalive it leaves running included.     *)
SocketEnds == <>[](Ended => reader = "returned" /\ keeper = "done")

(* queueDashboardDataUpdate: the browser comes to show the current data,     *)
(* however notifications and reads interleave, unless the connection ends.   *)
BrowserCatchesUp == <>[](Ended \/ shown = data.version)

(* Dashboard connection: the queue keeps its limit, the browser's view comes *)
(* from the data and never goes back, no change is missed, and a handler     *)
(* that has returned leaves nothing but a keepalive that can write nothing.  *)
ConnectionSound == SocketTypeOK /\ ViewInOrder /\ NothingMissed /\ NothingLeft
=============================================================================
