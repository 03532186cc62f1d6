------------------------------ MODULE EventBus ------------------------------
(***************************************************************************)
(* The event bus of crates/sda-event-bus/src/bus.rs: a broadcast channel   *)
(* that every module may subscribe to, and a bounded mpsc channel for the  *)
(* events that main.rs forwards to the server.                             *)
(*                                                                         *)
(* publish_to_server is two steps (try_send on the server channel, then    *)
(* the broadcast) and the runtime is multi-threaded, so the calls of two   *)
(* publishers interleave.  An event is its creation number: Event::new     *)
(* gives every event a fresh id.                                           *)
(*                                                                         *)
(* tokio's broadcast ring is the last Capacity entries of log (tokio       *)
(* rounds the capacity up to a power of two; Capacity is the rounded one). *)
(* The broadcast channel itself never closes: the agent keeps a sender.    *)
(***************************************************************************)
EXTENDS Integers, Sequences

CONSTANTS
  Publishers,        \* tasks that hold a clone of the bus
  Subscribers,       \* EventReceiver handles
  Capacity,          \* size of the broadcast ring
  ServerQueueSize,   \* size of the server mpsc channel
  MaxEvents          \* bound: number of publish calls

ASSUME BusAssumption ==
  /\ Capacity \in Nat \ {0}
  /\ ServerQueueSize \in Nat \ {0}
  /\ MaxEvents \in Nat

VARIABLES
  events,      \* events[e]: who published event e and what try_send answered
  calls,       \* calls[p]: the event of p's unfinished publish_to_server, or 0
  log,         \* broadcast order; the ring holds its last Capacity entries
  next,        \* next[s]: the position s reads next; 0 while s has no receiver
  from,        \* from[s]: the position s subscribed at
  since,       \* since[s]: the number of events created before s subscribed
  got,         \* got[s]: the positions delivered to s since it subscribed
  serverQ,     \* the server channel
  serverOpen,  \* FALSE once server_rx has been dropped
  taken        \* the events the forward loop has received, in order

vars == <<events, calls, log, next, from, since, got, serverQ, serverOpen, taken>>

NoCall == 0
Answers == {"local", "ok", "closed", "full"}
Issued == 1..Len(events)

subscribed(s) == next[s] # 0
Receivers == {s \in Subscribers : subscribed(s)}

(* The oldest position still in the ring. *)
Oldest == IF Len(log) > Capacity THEN Len(log) - Capacity + 1 ELSE 1

TypeOK ==
  /\ events \in Seq([by : Publishers, answer : Answers])
  /\ calls \in [Publishers -> {NoCall} \cup Issued]
  /\ log \in Seq(Issued)
  /\ next \in [Subscribers -> 0..Len(log) + 1]
  /\ from \in [Subscribers -> Nat]
  /\ since \in [Subscribers -> 0..Len(events)]
  /\ got \in [Subscribers -> SUBSET (1..Len(log))]
  /\ serverQ \in Seq(Issued)
  /\ Len(serverQ) <= ServerQueueSize
  /\ serverOpen \in BOOLEAN
  /\ taken \in Seq(Issued)

Init ==
  /\ events = <<>>
  /\ calls = [p \in Publishers |-> NoCall]
  /\ log = <<>>
  /\ next = [s \in Subscribers |-> 0]
  /\ from = [s \in Subscribers |-> 0]
  /\ since = [s \in Subscribers |-> 0]
  /\ got = [s \in Subscribers |-> {}]
  /\ serverQ = <<>>
  /\ serverOpen = TRUE
  /\ taken = <<>>

-----------------------------------------------------------------------------
(* broadcast::Sender::send: without a receiver the event is dropped. *)
broadcast(e) == log' = IF Receivers = {} THEN log ELSE Append(log, e)

NewEvent == Len(events) + 1
create(p, answer) == events' = Append(events, [by |-> p, answer |-> answer])

(* EventBus::subscribe *)
Subscribe(s) ==
  /\ ~subscribed(s)
  /\ next' = [next EXCEPT ![s] = Len(log) + 1]
  /\ from' = [from EXCEPT ![s] = Len(log) + 1]
  /\ since' = [since EXCEPT ![s] = Len(events)]
  /\ got' = [got EXCEPT ![s] = {}]
  /\ UNCHANGED <<events, calls, log, serverQ, serverOpen, taken>>

(* The module's task ends and drops its EventReceiver. *)
DropReceiver(s) ==
  /\ subscribed(s)
  /\ next' = [next EXCEPT ![s] = 0]
  /\ UNCHANGED <<events, calls, log, from, since, got, serverQ, serverOpen, taken>>

(* EventBus::publish called by itself (the receive loop's ServerCommand). *)
Publish(p) ==
  /\ calls[p] = NoCall
  /\ Len(events) < MaxEvents
  /\ create(p, "local")
  /\ broadcast(NewEvent)
  /\ UNCHANGED <<calls, next, from, since, got, serverQ, serverOpen, taken>>

has_room == Len(serverQ) < ServerQueueSize

(* Mutation: a full channel makes room by dropping its oldest event. *)
TrySend_DropsOldest(p) ==
  /\ calls[p] = NoCall
  /\ Len(events) < MaxEvents
  /\ calls' = [calls EXCEPT ![p] = NewEvent]
  /\ serverQ' = Append(IF has_room THEN serverQ ELSE Tail(serverQ), NewEvent)
  /\ create(p, "ok")
  /\ UNCHANGED <<log, next, from, since, got, serverOpen, taken>>

(* publish_to_server, first half: server_tx.try_send. *)
TrySend(p) ==
  /\ calls[p] = NoCall
  /\ Len(events) < MaxEvents
  /\ calls' = [calls EXCEPT ![p] = NewEvent]
  /\ \/ /\ serverOpen
        /\ has_room
        /\ serverQ' = Append(serverQ, NewEvent)
        /\ create(p, "ok")
     \/ /\ serverOpen
        /\ ~has_room
        /\ create(p, "full")
        /\ UNCHANGED serverQ
     \/ /\ ~serverOpen
        /\ create(p, "closed")
        /\ UNCHANGED serverQ
  /\ UNCHANGED <<log, next, from, since, got, serverOpen, taken>>

(* publish_to_server, second half: the unconditional local broadcast; the
   call returns server_result. *)
Broadcast(p) ==
  /\ calls[p] # NoCall
  /\ broadcast(calls[p])
  /\ calls' = [calls EXCEPT ![p] = NoCall]
  /\ UNCHANGED <<events, next, from, since, got, serverQ, serverOpen, taken>>

(* Mutation: the receiver resumes one position too late. *)
Lagged_SkipsOne(s) ==
  /\ subscribed(s)
  /\ next[s] < Oldest
  /\ next' = [next EXCEPT ![s] = Oldest + 1]
  /\ UNCHANGED <<events, calls, log, from, since, got, serverQ, serverOpen, taken>>

(* Mutation: a lagged receiver is treated as finished. *)
Lagged_GivesUp(s) == FALSE /\ UNCHANGED vars

(* EventReceiver::recv, the Lagged arm: skip what the ring has overwritten
   and receive again. *)
Lagged(s) ==
  /\ subscribed(s)
  /\ next[s] < Oldest
  /\ next' = [next EXCEPT ![s] = Oldest]
  /\ UNCHANGED <<events, calls, log, from, since, got, serverQ, serverOpen, taken>>

(* EventReceiver::recv, the Ok arm. *)
Recv(s) ==
  /\ subscribed(s)
  /\ next[s] \in Oldest..Len(log)
  /\ got' = [got EXCEPT ![s] = @ \cup {next[s]}]
  /\ next' = [next EXCEPT ![s] = @ + 1]
  /\ UNCHANGED <<events, calls, log, from, since, serverQ, serverOpen, taken>>

(* The forward loop's server_rx.recv(). *)
ServerRecv ==
  /\ serverOpen
  /\ serverQ # <<>>
  /\ taken' = Append(taken, Head(serverQ))
  /\ serverQ' = Tail(serverQ)
  /\ UNCHANGED <<events, calls, log, next, from, since, got, serverOpen>>

(* server_rx is dropped: the forward loop has ended, or the build has no
   legacy-siem transport.  What is still queued goes with it. *)
DropServerRx ==
  /\ serverOpen
  /\ serverOpen' = FALSE
  /\ serverQ' = <<>>
  /\ UNCHANGED <<events, calls, log, next, from, since, got, taken>>

Next ==
  \/ \E s \in Subscribers :
       Subscribe(s) \/ DropReceiver(s) \/ Lagged(s) \/ Recv(s)
  \/ \E p \in Publishers : Publish(p) \/ TrySend(p) \/ Broadcast(p)
  \/ ServerRecv
  \/ DropServerRx

(* A started call runs to its end and a subscribed module keeps receiving;
   nothing obliges anyone to publish, to subscribe or to stop. *)
Fairness ==
  /\ \A p \in Publishers : WF_vars(Broadcast(p))
  /\ \A s \in Subscribers : WF_vars(Lagged(s) \/ Recv(s))
  /\ WF_vars(ServerRecv)

Spec == Init /\ [][Next]_vars
FairSpec == Spec /\ Fairness

-----------------------------------------------------------------------------
(* Between its subscription and its cursor a receiver has been handed every
   broadcast position, except those the ring had already overwritten when it
   asked: a slow consumer "will skip oldest events rather than block
   producers" (bus.rs, EventBus), and skips nothing else. *)
NoGapUnlessOverwritten ==
  \A s \in Subscribers : subscribed(s) =>
    /\ got[s] \subseteq from[s]..(next[s] - 1)
    /\ \A i \in from[s]..(next[s] - 1) : i \in got[s] \/ i < Oldest

(* "Local broadcast is unconditional" (publish_to_server): once the call that
   created an event has returned, the event lies ahead of every receiver that
   was subscribed before the call, whatever try_send answered. *)
LocalBroadcastUnconditional ==
  \A s \in Subscribers : subscribed(s) =>
    \A e \in Issued :
      e > since[s] /\ (\A p \in Publishers : calls[p] # e)
        => \E i \in from[s]..Len(log) : log[i] = e

(* An event is broadcast at most once, and the events of one publisher are
   broadcast in the order it published them, although the try_send and the
   broadcast of different publishers interleave. *)
BroadcastOrder ==
  \A i, j \in 1..Len(log) : i < j =>
    /\ log[i] # log[j]
    /\ events[log[i]].by = events[log[j]].by => log[i] < log[j]

(* The server channel: the forward loop receives, in try_send order and at
   most once, only events that were answered Ok; and while server_rx lives
   every event answered Ok has been received or is still queued.  A caller
   told ChannelFull may therefore retry without creating a duplicate, and one
   told Ok has nothing to retry. *)
ServerFifo ==
  LET stream == taken \o serverQ IN
  /\ \A i, j \in 1..Len(stream) : i < j => stream[i] < stream[j]
  /\ \A i \in 1..Len(stream) : events[stream[i]].answer = "ok"
  /\ serverOpen =>
       \A e \in Issued : events[e].answer = "ok" =>
         \E i \in 1..Len(stream) : stream[i] = e

(* A receiver that keeps calling recv catches up with the broadcast, lagged or
   not, or is dropped; and the forward loop receives what publish_to_server
   answered Ok, unless server_rx is dropped first. *)
ReceiversCatchUp ==
  /\ \A s \in Subscribers : subscribed(s) ~> (~subscribed(s) \/ next[s] = Len(log) + 1)
  /\ \A e \in 1..MaxEvents :
       (e \in Issued /\ events[e].answer = "ok") ~> (~serverOpen \/ \E i \in 1..Len(taken) : taken[i] = e)
=============================================================================
