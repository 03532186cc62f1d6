----------------------------- MODULE Connection -----------------------------
(***************************************************************************)
(* The server transport: ConnectionManager (sda-comms/src/connection.rs)   *)
(* behind one tokio Mutex, shared by the keepalive loop (keepalive.rs) and *)
(* by the forward loop, the receive loop and the start-up and shutdown     *)
(* code of sda-agent/src/main.rs, over TCP connections that break.         *)
(*                                                                         *)
(* A write to a connection whose peer is gone fails, or succeeds in the    *)
(* kernel and reaches nobody.  A frame the server sends arrives in two     *)
(* pieces, its length prefix and its body.  Encryption and the wire format *)
(* are abstracted; time-outs and back-off delays are nondeterministic.     *)
(***************************************************************************)
EXTENDS Integers, Sequences, FiniteSets, Functions

CONSTANTS
  MaxEvents,     \* bound: server-bound events
  MaxTicks,      \* bound: keepalive ticks
  MaxCommands,   \* bound: frames the server sends
  MaxBreaks      \* bound: broken connections and server outages

ASSUME ConnectionAssumption ==
  MaxEvents \in Nat /\ MaxTicks \in Nat /\ MaxCommands \in Nat /\ MaxBreaks \in Nat

VARIABLES
  pc,         \* pc[t]: where task t is
  msg,        \* msg[t]: the message t is sending
  waiters,    \* the mutex: its holder, then the tasks waiting, in FIFO order
  stream,     \* self.stream: "none", "up", or "dead" (peer gone, not noticed)
  wire,       \* frame pieces that have arrived on stream and are not read
  aligned,    \* whether the next byte to be read starts a frame
  serverUp, breaks,
  queued,     \* events put in the server channel so far
  taken,      \* events the forward loop has received from it
  ticks,
  got,        \* messages the server has received, in order
  failed,     \* messages whose send returned an error
  swallowed,  \* messages written to a dead connection
  sentCmds,   \* frames the server has begun to send
  half,       \* the frame whose body it has still to send, or 0
  published,  \* commands published on the event bus, in order
  shutdown

tasks == <<pc, msg, waiters>>
link == <<stream, wire, aligned>>
server == <<serverUp, breaks, sentCmds, half>>
counts == <<queued, taken, ticks>>
results == <<got, failed, swallowed, published>>
vars == <<tasks, link, server, counts, results, shutdown>>

Tasks == {"main", "keepalive", "forward", "receive"}

(* Messages: events are their numbers. *)
Startup == 0
Keepalive == -1
ShutdownMsg == -2
Messages == {Startup, Keepalive, ShutdownMsg} \cup 1..MaxEvents

holds(t) == waiters # <<>> /\ Head(waiters) = t

TypeOK ==
  /\ pc \in [Tasks -> {"off", "boot", "idle", "want", "lock", "send", "reconnect", "resend",
                       "readlen", "readbody", "join", "done", "failed"}]
  /\ msg \in [Tasks -> Messages]
  /\ waiters \in Seq(Tasks) /\ IsInjective(waiters)
  /\ \A t \in Tasks : pc[t] \in {"boot", "send", "reconnect", "resend", "readlen", "readbody"} => holds(t)
  /\ stream \in {"none", "up", "dead"}
  /\ wire \in Seq({"len", "body"} \X (1..MaxCommands))
  /\ aligned \in BOOLEAN /\ serverUp \in BOOLEAN /\ shutdown \in BOOLEAN
  /\ breaks \in 0..MaxBreaks /\ ticks \in 0..MaxTicks
  /\ queued \in 0..MaxEvents /\ taken \in 0..queued
  /\ sentCmds \in 0..MaxCommands /\ half \in 0..sentCmds
  /\ got \in Seq(Messages) /\ published \in Seq(1..MaxCommands)
  /\ failed \subseteq Messages /\ swallowed \subseteq Messages

Init ==
  /\ pc = [t \in Tasks |-> IF t = "main" THEN "boot" ELSE "off"]
  /\ msg = [t \in Tasks |-> IF t = "main" THEN Startup ELSE Keepalive]
  /\ waiters = <<"main">>
  /\ stream = "none" /\ wire = <<>> /\ aligned = TRUE
  /\ serverUp \in BOOLEAN /\ breaks = 0 /\ half = 0
  /\ queued = 0 /\ taken = 0 /\ ticks = 0
  /\ got = <<>> /\ failed = {} /\ swallowed = {}
  /\ sentCmds = 0 /\ published = <<>> /\ shutdown = FALSE

-----------------------------------------------------------------------------
goto(t, where) == pc' = [pc EXCEPT ![t] = where]
release == waiters' = Tail(waiters)

(* conn.lock().await: a task decides to use the connection ("want"), joins the
   queue of the mutex and is served in turn. *)
Lock(t) ==
  /\ pc[t] = "want"
  /\ goto(t, "lock")
  /\ waiters' = Append(waiters, t)
  /\ UNCHANGED <<msg, link, server, counts, results, shutdown>>

Acquire(t) ==
  /\ pc[t] = "lock" /\ holds(t)
  /\ goto(t, IF t = "receive" THEN "readlen" ELSE "send")
  /\ UNCHANGED <<msg, waiters, link, server, counts, results, shutdown>>

(* connect succeeds while the server is up; otherwise connect_with_retry goes
   on for ever, under the mutex and deaf to the shutdown signal. *)
Connect(t) ==
  /\ pc[t] \in {"boot", "reconnect"} /\ serverUp
  /\ stream' = "up" /\ wire' = <<>> /\ aligned' = TRUE /\ half' = 0
  /\ goto(t, IF pc[t] = "boot" THEN "send" ELSE "resend")
  /\ UNCHANGED <<msg, waiters, serverUp, breaks, sentCmds, counts, results, shutdown>>

(* What the caller of send does with its result, and with the guard: main
   spawns the tasks after the startup message (or gives up if it failed) and
   disconnects after the shutdown message; the loops go on either way. *)
sent(t, ok) ==
  /\ release
  /\ \/ /\ msg[t] = Startup
        /\ pc' = IF ok THEN [u \in Tasks |-> "idle"] ELSE [pc EXCEPT ![t] = "failed"]
        /\ UNCHANGED link
     \/ /\ msg[t] = ShutdownMsg
        /\ goto(t, "join")
        /\ stream' = "none" /\ wire' = <<>> /\ UNCHANGED aligned
     \/ /\ msg[t] \notin {Startup, ShutdownMsg}
        /\ goto(t, "idle")
        /\ UNCHANGED link

(* send_raw, on a connection that is up or seems to be. *)
write(t) ==
  \/ /\ stream = "up"
     /\ got' = Append(got, msg[t])
     /\ UNCHANGED swallowed
  \/ /\ stream = "dead"
     /\ swallowed' = swallowed \cup {msg[t]}
     /\ UNCHANGED got

(* send: the first attempt. *)
Send(t) ==
  /\ pc[t] = "send"
  /\ write(t)
  /\ sent(t, TRUE)
  /\ UNCHANGED <<msg, server, counts, failed, published, shutdown>>

(* Mutation: the first attempt is retried although it was written. *)
SendFails_AfterWrite(t) ==
  /\ pc[t] = "send"
  /\ write(t)
  /\ stream' = "none"
  /\ goto(t, "reconnect")
  /\ UNCHANGED <<msg, waiters, wire, aligned, server, counts, failed, published, shutdown>>

(* send: the first attempt fails, disconnect. *)
SendFails(t) ==
  /\ pc[t] = "send" /\ stream # "up"
  /\ stream' = "none"
  /\ goto(t, "reconnect")
  /\ UNCHANGED <<msg, waiters, wire, aligned, server, counts, results, shutdown>>

(* send: the second attempt, after connect_with_retry. *)
Resend(t) ==
  /\ pc[t] = "resend"
  /\ \/ write(t) /\ sent(t, TRUE) /\ UNCHANGED failed
     \/ /\ stream = "dead"
        /\ failed' = failed \cup {msg[t]}
        /\ sent(t, FALSE)
        /\ UNCHANGED <<got, swallowed>>
  /\ UNCHANGED <<msg, server, counts, published, shutdown>>

-----------------------------------------------------------------------------
(* run_keepalive_loop: its select is not biased. *)
KeepaliveTick ==
  /\ pc["keepalive"] = "idle" /\ ticks < MaxTicks
  /\ ticks' = ticks + 1
  /\ goto("keepalive", "want")
  /\ UNCHANGED <<msg, waiters, link, server, queued, taken, results, shutdown>>

KeepaliveStop ==
  /\ pc["keepalive"] = "idle" /\ shutdown
  /\ goto("keepalive", "done")
  /\ UNCHANGED <<msg, waiters, link, server, counts, results, shutdown>>

(* Mutation: the forward loop waits for its channel to be empty. *)
ForwardStop_WaitsForQueue ==
  /\ pc["forward"] = "idle" /\ shutdown /\ taken = queued
  /\ goto("forward", "done")
  /\ UNCHANGED <<msg, waiters, link, server, counts, results, shutdown>>

(* The forward loop: biased select; map_event_to_message may map to nothing. *)
ForwardTake ==
  /\ pc["forward"] = "idle" /\ ~shutdown /\ taken < queued
  /\ taken' = taken + 1
  /\ \/ goto("forward", "want") /\ msg' = [msg EXCEPT !["forward"] = taken + 1]
     \/ UNCHANGED <<pc, msg>>
  /\ UNCHANGED <<waiters, link, server, queued, ticks, results, shutdown>>

ForwardStop ==
  /\ pc["forward"] = "idle" /\ shutdown
  /\ goto("forward", "done")
  /\ UNCHANGED <<msg, waiters, link, server, counts, results, shutdown>>

Publish ==
  /\ queued < MaxEvents
  /\ queued' = queued + 1
  /\ UNCHANGED <<tasks, link, server, taken, ticks, results, shutdown>>

(* The receive loop: lock, then receive under a one-second timeout. *)
ReceiveAgain ==
  /\ pc["receive"] = "idle" /\ ~shutdown
  /\ goto("receive", "want")
  /\ UNCHANGED <<msg, waiters, link, server, counts, results, shutdown>>

(* receive returns: the guard goes, the loop sleeps and starts again. *)
received == goto("receive", "idle") /\ release

ReceiveLen ==
  /\ pc["receive"] = "readlen"
  /\ wire # <<>> /\ aligned /\ Head(wire)[1] = "len"
  /\ wire' = Tail(wire)
  /\ goto("receive", "readbody")
  /\ UNCHANGED <<msg, waiters, stream, aligned, server, counts, results, shutdown>>

(* Mutation: the body stays in the buffer and is read again. *)
ReceiveBody_Again ==
  /\ pc["receive"] = "readbody"
  /\ wire # <<>>
  /\ published' = Append(published, Head(wire)[2])
  /\ received
  /\ wire' = <<<<"len", Head(wire)[2]>>>> \o wire
  /\ UNCHANGED <<msg, stream, aligned, server, counts, got, failed, swallowed, shutdown>>

(* The frames of the server are commands: an empty one, or one that is not UTF-8,
   would be read in the same way and not published. *)
ReceiveBody ==
  /\ pc["receive"] = "readbody"
  /\ wire # <<>>
  /\ published' = Append(published, Head(wire)[2])
  /\ wire' = Tail(wire)
  /\ received
  /\ UNCHANGED <<msg, stream, aligned, server, counts, got, failed, swallowed, shutdown>>

(* Four bytes that are no length prefix: too large, or a frame that does not
   decrypt.  What is read may end on a frame boundary by chance. *)
ReceiveGarbage ==
  /\ pc["receive"] = "readlen"
  /\ wire # <<>> /\ (~aligned \/ Head(wire)[1] = "body")
  /\ wire' = Tail(wire)
  /\ aligned' \in BOOLEAN
  /\ received
  /\ UNCHANGED <<msg, stream, server, counts, results, shutdown>>

(* No stream, or the end of a dead one: an error, logged; nobody reconnects. *)
ReceiveFails ==
  /\ pc["receive"] \in {"readlen", "readbody"}
  /\ stream = "none" \/ (stream = "dead" /\ wire = <<>>)
  /\ received
  /\ UNCHANGED <<msg, link, server, counts, results, shutdown>>

(* Mutation: receive is awaited without a timeout. *)
ReceiveTimeout_Never == FALSE

(* The timeout drops the receive future wherever it is. *)
ReceiveTimeout ==
  /\ pc["receive"] \in {"readlen", "readbody"}
  /\ wire = <<>> /\ stream # "none"
  /\ received
  /\ UNCHANGED <<msg, link, server, counts, results, shutdown>>

(* The shutdown branch of the select drops the lock or receive future, and with it
   the place of the task in the queue of the mutex. *)
ReceiveStop ==
  /\ pc["receive"] \in {"idle", "want", "lock", "readlen", "readbody"} /\ shutdown
  /\ goto("receive", "done")
  /\ IF pc["receive"] \in {"idle", "want"}
     THEN UNCHANGED waiters
     ELSE \E i \in 1..Len(waiters) :
            /\ waiters[i] = "receive"
            /\ waiters' = SubSeq(waiters, 1, i - 1) \o SubSeq(waiters, i + 1, Len(waiters))
  /\ UNCHANGED <<msg, link, server, counts, results, shutdown>>

(* main: wait_for_shutdown returns; the tasks are joined after the disconnect. *)
Shutdown ==
  /\ pc["main"] = "idle"
  /\ shutdown' = TRUE
  /\ goto("main", "want")
  /\ msg' = [msg EXCEPT !["main"] = ShutdownMsg]
  /\ UNCHANGED <<waiters, link, server, counts, results>>

Join ==
  /\ pc["main"] = "join"
  /\ \A t \in Tasks \ {"main"} : pc[t] = "done"
  /\ goto("main", "done")
  /\ UNCHANGED <<msg, waiters, link, server, counts, results, shutdown>>

-----------------------------------------------------------------------------
(* The server and the network. *)
ServerSendsLen ==
  /\ stream = "up" /\ half = 0 /\ sentCmds < MaxCommands
  /\ sentCmds' = sentCmds + 1 /\ half' = sentCmds + 1
  /\ wire' = Append(wire, <<"len", sentCmds + 1>>)
  /\ UNCHANGED <<tasks, stream, aligned, serverUp, breaks, counts, results, shutdown>>

ServerSendsBody ==
  /\ stream = "up" /\ half # 0
  /\ wire' = Append(wire, <<"body", half>>) /\ half' = 0
  /\ UNCHANGED <<tasks, stream, aligned, serverUp, breaks, sentCmds, counts, results, shutdown>>

(* The connection breaks, because the server goes down or by itself. *)
Break ==
  /\ breaks < MaxBreaks /\ serverUp
  /\ breaks' = breaks + 1
  /\ serverUp' \in BOOLEAN
  /\ stream' = IF stream = "up" THEN "dead" ELSE stream
  /\ UNCHANGED <<tasks, wire, aligned, sentCmds, half, counts, results, shutdown>>

Recover ==
  /\ ~serverUp
  /\ serverUp' = TRUE
  /\ UNCHANGED <<tasks, link, breaks, sentCmds, half, counts, results, shutdown>>

send(t) == Lock(t) \/ Acquire(t) \/ Connect(t) \/ Send(t) \/ SendFails(t) \/ Resend(t)

Receiver ==
  ReceiveLen \/ ReceiveBody \/ ReceiveGarbage \/ ReceiveFails \/ ReceiveTimeout \/ ReceiveStop

Next ==
  \/ \E t \in Tasks : send(t)
  \/ KeepaliveTick \/ KeepaliveStop \/ ForwardTake \/ ForwardStop \/ Publish
  \/ ReceiveAgain \/ Receiver
  \/ Shutdown \/ Join
  \/ ServerSendsLen \/ ServerSendsBody \/ Break \/ Recover

(* Every task that can run is polled, and a peer that has sent half a frame
   sends the rest; nobody is obliged to publish, to shut down, to break a
   connection, or to bring the server back. *)
TaskFairness ==
  /\ \A t \in Tasks : WF_vars(send(t))
  /\ WF_vars(KeepaliveStop) /\ WF_vars(ForwardTake \/ ForwardStop)
  /\ WF_vars(ReceiveAgain) /\ WF_vars(Receiver) /\ WF_vars(Join)
  /\ WF_vars(ServerSendsBody)

Spec == Init /\ [][Next]_vars
FairSpec == Spec /\ TaskFairness /\ WF_vars(Recover)
OutageSpec == Spec /\ TaskFairness

-----------------------------------------------------------------------------
isEvent(m) == m > 0

(* However the connection breaks, the server receives the events in the order of the
   server channel and none twice, since send retries only what was not written; "reconnects
   once and retries the send" (connection.rs, send): one break costs at most one message
   an error; and after the shutdown message at most one event reaches the server, the one
   the forward loop held while it waited for the mutex (main.rs, forward loop). *)
EventsInOrderOnce ==
  /\ \A i, j \in 1..Len(got) : i < j /\ isEvent(got[i]) /\ isEvent(got[j]) => got[i] < got[j]
  /\ Cardinality(failed) <= breaks
  /\ \A i \in 1..Len(got) : got[i] = ShutdownMsg =>
       Cardinality({j \in (i + 1)..Len(got) : isEvent(got[j])}) <= 1

(* The receive loop publishes a server command at most once and never out of
   order, although time-outs cut frames in two and garbage is read. *)
CommandsInOrderOnce ==
  \A i, j \in 1..Len(published) : i < j => published[i] < published[j]

(* No task waits for the connection mutex for ever: the receive loop's timeout
   "so the connection mutex is released periodically, allowing the keepalive
   and forward tasks to send" (main.rs). *)
NobodyStarves == \A t \in Tasks : pc[t] = "lock" ~> pc[t] # "lock"

(* The shutdown sequence of main runs to its end. *)
ShutdownCompletes == shutdown ~> pc["main"] = "done"

(* The receive loop "reads incoming frames from the Wazuh server, parses them,
   and publishes them" (main.rs): on an unbroken connection none is skipped. *)
NoFrameSkipped ==
  breaks = 0 /\ ~shutdown => \A i \in 1..Len(published) : published[i] = i

(* "Send shutdown message, disconnect, shut down agent" (main.rs): the shutdown
   message is the last event traffic. *)
ShutdownIsLast ==
  \A i, j \in 1..Len(got) : got[i] = ShutdownMsg /\ isEvent(got[j]) => j < i
=============================================================================
