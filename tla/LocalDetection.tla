--------------------------- MODULE LocalDetection ---------------------------
(***************************************************************************)
(* The delivery path of a local detection: sda-local-detection's run loop  *)
(* (lib.rs) with its SQLite offline queue (offline_queue.rs), the server   *)
(* channel of the event bus it publishes to, and the forward loop that     *)
(* drains that channel, across crashes, shutdowns and restarts.            *)
(*                                                                         *)
(* An alert is its number in the order raised.  An alert is inserted in    *)
(* the queue at most once and in that order, so the number also stands for *)
(* the row's AUTOINCREMENT id: the oldest row is the smallest number.      *)
(* Rule matching is abstracted to how many alerts an event raises.         *)
(***************************************************************************)
EXTENDS Integers, Sequences, FiniteSets

CONSTANTS
  QueueCapacity,     \* offline_queue_max, after .max(1)
  DrainBatch,        \* offline_drain_batch, after .max(1)
  ServerQueueSize,   \* capacity of the bus's server channel
  MaxAlerts,         \* bound: alerts raised
  MaxEvents,         \* bound: events received from the bus
  MaxOthers,         \* bound: server-bound events of the other modules
  MaxFaults,         \* bound: SQLite statements and payloads that go bad
  MaxCrashes         \* bound: crashes and shutdowns

ASSUME QueueAssumption ==
  /\ QueueCapacity \in Nat \ {0}
  /\ DrainBatch \in Nat \ {0}
  /\ ServerQueueSize \in Nat \ {0}
  /\ MaxAlerts \in Nat /\ MaxEvents \in Nat /\ MaxOthers \in Nat
  /\ MaxFaults \in Nat /\ MaxCrashes \in Nat

VARIABLES
  pc,          \* where the LDE task is; "down" while no process runs
  inbox,       \* events waiting in the task's EventReceiver
  todo,        \* alerts the current event has still to raise after this one
  raised,      \* alerts raised so far; the one being handled is the last
  disk, mem,   \* rows of the SQLite file, and of the in-memory fallback
  store,       \* which of the two OfflineQueue has open
  batch,       \* rows peeked by the drain tick and not yet handled
  corrupt,     \* rows whose payload no longer parses
  serverQ,     \* the server channel: alerts, or Other
  serverOpen,  \* FALSE once the forward loop has ended
  shutdown,    \* the shutdown signal
  forwarded,   \* alerts the forward loop has received
  spooled,     \* alerts ever inserted in the SQLite file
  copies,      \* copies[a]: how often try_send has accepted a
  evicted, refused, discarded, dropped,  \* alerts lost, by cause
  arrived, others, faults, crashes       \* counters for the bounds

lde == <<pc, todo, raised, batch>>
rowsOf == <<disk, mem, store, corrupt, spooled>>
channel == <<serverQ, serverOpen, forwarded, copies>>
losses == <<evicted, refused, discarded, dropped>>
vars == <<lde, inbox, rowsOf, channel, losses, shutdown, arrived, others, faults, crashes>>

Alerts == 1..MaxAlerts
Other == 0
rows == IF store = "disk" THEN disk ELSE mem
set_rows(R) == IF store = "disk" THEN disk' = R /\ mem' = mem
                                 ELSE mem' = R /\ disk' = disk
InQueue == {serverQ[i] : i \in 1..Len(serverQ)} \ {Other}
Handling == {"respond", "publish", "insert"}

TypeOK ==
  /\ pc \in Handling \cup {"idle", "evict", "replay", "ack", "stopped", "down"}
  /\ inbox \in Nat
  /\ raised \in 0..MaxAlerts
  /\ todo \in 0..MaxAlerts /\ raised + todo <= MaxAlerts
  /\ disk \subseteq Alerts /\ mem \subseteq Alerts
  /\ store \in {"disk", "memory"}
  /\ batch \subseteq Alerts /\ corrupt \subseteq Alerts
  /\ serverQ \in Seq(Alerts \cup {Other}) /\ Len(serverQ) <= ServerQueueSize
  /\ serverOpen \in BOOLEAN /\ shutdown \in BOOLEAN
  /\ forwarded \subseteq Alerts /\ spooled \subseteq Alerts
  /\ copies \in [Alerts -> Nat]
  /\ evicted \subseteq Alerts /\ refused \subseteq Alerts
  /\ discarded \subseteq Alerts /\ dropped \subseteq Alerts
  /\ arrived \in 0..MaxEvents /\ others \in 0..MaxOthers
  /\ faults \in 0..MaxFaults /\ crashes \in 0..MaxCrashes

Init ==
  /\ pc = "idle" /\ inbox = 0 /\ todo = 0 /\ raised = 0
  /\ disk = {} /\ mem = {} /\ store = "disk" /\ batch = {} /\ corrupt = {}
  /\ serverQ = <<>> /\ serverOpen = TRUE /\ shutdown = FALSE
  /\ forwarded = {} /\ spooled = {} /\ copies = [a \in Alerts |-> 0]
  /\ evicted = {} /\ refused = {} /\ discarded = {} /\ dropped = {}
  /\ arrived = 0 /\ others = 0 /\ faults = 0 /\ crashes = 0

-----------------------------------------------------------------------------
oldest(a, S) == a \in S /\ \A b \in S : a <= b
older(S, a) == Cardinality({b \in S : b < a})
newer(S, a) == Cardinality({b \in S : b > a})

fault == faults < MaxFaults /\ faults' = faults + 1
no_fault == UNCHANGED faults

has_room == Len(serverQ) < ServerQueueSize

(* publish_to_server answers Ok: the alert is queued, or the channel is closed
   and the alert goes nowhere. *)
answer_ok(a) ==
  \/ /\ serverOpen /\ has_room
     /\ serverQ' = Append(serverQ, a)
     /\ copies' = [copies EXCEPT ![a] = @ + 1]
     /\ UNCHANGED dropped
  \/ /\ ~serverOpen
     /\ dropped' = dropped \cup {a}
     /\ UNCHANGED <<serverQ, copies>>
answer_full == serverOpen /\ ~has_room

(* The loops of handle_event over the hits of an event. *)
next_alert ==
  IF todo = 0 THEN pc' = "idle" /\ UNCHANGED <<todo, raised>>
              ELSE pc' = "respond" /\ todo' = todo - 1 /\ raised' = raised + 1

(* The select loop of run is biased: shutdown, then events, then the drain. *)
Receive(k) ==
  /\ pc = "idle" /\ ~shutdown /\ inbox > 0
  /\ raised + k <= MaxAlerts
  /\ inbox' = inbox - 1
  /\ IF k = 0 THEN UNCHANGED lde
              ELSE /\ pc' = "respond" /\ todo' = k - 1 /\ raised' = raised + 1
                   /\ UNCHANGED batch
  /\ UNCHANGED <<rowsOf, channel, losses, shutdown, arrived, others, faults, crashes>>

(* maybe_respond comes before the alert is published; its outcome is only logged. *)
maybe_respond ==
  /\ pc = "respond"
  /\ pc' = "publish"
  /\ UNCHANGED <<inbox, todo, raised, batch, rowsOf, channel, losses, shutdown,
                 arrived, others, faults, crashes>>

publish_alert ==
  /\ pc = "publish"
  /\ \/ answer_ok(raised) /\ next_alert
     \/ /\ answer_full
        /\ pc' = "insert"
        /\ UNCHANGED <<todo, raised, serverQ, copies, dropped>>
  /\ UNCHANGED <<inbox, batch, rowsOf, serverOpen, forwarded, evicted, refused,
                 discarded, shutdown, arrived, others, faults, crashes>>

(* enqueue_at is one autocommitted INSERT and then one autocommitted DELETE. *)
enqueue_insert ==
  /\ pc = "insert"
  /\ \/ /\ no_fault
        /\ set_rows(rows \cup {raised})
        /\ spooled' = spooled \cup (disk' \ disk)
        /\ pc' = "evict"
        /\ UNCHANGED <<todo, raised, refused>>
     \/ /\ fault
        /\ refused' = refused \cup {raised}
        /\ next_alert
        /\ UNCHANGED <<disk, mem, spooled>>
  /\ UNCHANGED <<inbox, batch, store, corrupt, channel, evicted, discarded, dropped,
                 shutdown, arrived, others, crashes>>

(* The rows that stay when the oldest count - capacity are deleted. *)
kept == {a \in rows : newer(rows, a) < QueueCapacity}

enqueue_evict ==
  /\ pc = "evict"
  /\ \/ /\ no_fault
        /\ set_rows(kept)
        /\ evicted' = evicted \cup (rows \ kept)
     \/ /\ fault
        /\ UNCHANGED <<disk, mem, evicted>>
  /\ next_alert
  /\ UNCHANGED <<inbox, batch, store, corrupt, spooled, channel, refused, discarded, dropped,
                 shutdown, arrived, others, crashes>>

(* Mutation: ORDER BY id DESC in the SELECT. *)
peek_batch_Newest == {a \in rows : newer(rows, a) < DrainBatch}

peek_batch == {a \in rows : older(rows, a) < DrainBatch}

(* Mutation: the destructive OfflineQueue::drain instead of peek_batch. *)
DrainTick_Destructive ==
  /\ pc = "idle" /\ ~shutdown /\ inbox = 0
  /\ rows # {}
  /\ batch' = peek_batch
  /\ set_rows(rows \ peek_batch)
  /\ pc' = "replay"
  /\ UNCHANGED <<inbox, todo, raised, store, corrupt, spooled, channel, losses, shutdown,
                 arrived, others, faults, crashes>>

(* Mutation: the drain waits until it can fill a batch. *)
DrainTick_FullBatch ==
  /\ pc = "idle" /\ ~shutdown /\ inbox = 0
  /\ Cardinality(rows) >= DrainBatch
  /\ batch' = peek_batch
  /\ pc' = "replay"
  /\ UNCHANGED <<inbox, todo, raised, rowsOf, channel, losses, shutdown,
                 arrived, others, faults, crashes>>

DrainTick ==
  /\ pc = "idle" /\ ~shutdown /\ inbox = 0
  /\ rows # {}
  /\ batch' = peek_batch
  /\ pc' = "replay"
  /\ UNCHANGED <<inbox, todo, raised, rowsOf, channel, losses, shutdown,
                 arrived, others, faults, crashes>>

(* The next item of the batch, or the end of the drain. *)
next_item(a) ==
  /\ batch' = batch \ {a}
  /\ pc' = IF batch = {a} THEN "idle" ELSE "replay"

ack(a) == (no_fault /\ set_rows(rows \ {a})) \/ (fault /\ UNCHANGED <<disk, mem>>)

(* drain_offline_queue, one item up to its publish. *)
ReplayItem(a) ==
  /\ pc = "replay" /\ oldest(a, batch)
  /\ a \notin corrupt
  /\ \/ answer_ok(a) /\ pc' = "ack" /\ UNCHANGED batch
     \/ /\ answer_full
        /\ pc' = "idle" /\ batch' = {}
        /\ UNCHANGED <<serverQ, copies, dropped>>
  /\ UNCHANGED <<inbox, todo, raised, rowsOf, serverOpen, forwarded, evicted, refused,
                 discarded, shutdown, arrived, others, faults, crashes>>

(* drain_offline_queue, an item whose payload does not parse. *)
DiscardItem(a) ==
  /\ pc = "replay" /\ oldest(a, batch)
  /\ a \in corrupt
  /\ ack(a)
  /\ discarded' = discarded \cup {a}
  /\ next_item(a)
  /\ UNCHANGED <<inbox, todo, raised, store, corrupt, spooled, channel, evicted, refused,
                 dropped, shutdown, arrived, others, crashes>>

(* Mutation: the ack is forgotten. *)
AckItem_Forgotten(a) ==
  /\ pc = "ack" /\ oldest(a, batch)
  /\ next_item(a)
  /\ UNCHANGED <<inbox, todo, raised, rowsOf, channel, losses,
                 shutdown, arrived, others, faults, crashes>>

(* drain_offline_queue, the ack after a publish. *)
AckItem(a) ==
  /\ pc = "ack" /\ oldest(a, batch)
  /\ ack(a)
  /\ next_item(a)
  /\ UNCHANGED <<inbox, todo, raised, store, corrupt, spooled, channel, losses,
                 shutdown, arrived, others, crashes>>

-----------------------------------------------------------------------------
(* The rest of the agent: events for the task, the other modules that share
   the server channel, and the forward loop of main.rs. *)
Arrive ==
  /\ pc # "down" /\ arrived < MaxEvents
  /\ inbox' = inbox + 1 /\ arrived' = arrived + 1
  /\ UNCHANGED <<lde, rowsOf, channel, losses, shutdown, others, faults, crashes>>

OtherPublish ==
  /\ pc # "down" /\ serverOpen /\ has_room /\ others < MaxOthers
  /\ serverQ' = Append(serverQ, Other) /\ others' = others + 1
  /\ UNCHANGED <<lde, inbox, rowsOf, serverOpen, forwarded, copies, losses,
                 shutdown, arrived, faults, crashes>>

Forward ==
  /\ serverOpen /\ serverQ # <<>>
  /\ forwarded' = forwarded \cup ({Head(serverQ)} \ {Other})
  /\ serverQ' = Tail(serverQ)
  /\ UNCHANGED <<lde, inbox, rowsOf, serverOpen, copies, losses,
                 shutdown, arrived, others, faults, crashes>>

Shutdown ==
  /\ pc # "down" /\ ~shutdown /\ crashes < MaxCrashes
  /\ shutdown' = TRUE
  /\ crashes' = crashes + 1
  /\ UNCHANGED <<lde, inbox, rowsOf, channel, losses, arrived, others, faults>>

(* The forward loop sees the signal, ends and drops server_rx. *)
ForwardStops ==
  /\ shutdown /\ serverOpen
  /\ serverOpen' = FALSE
  /\ dropped' = dropped \cup InQueue
  /\ serverQ' = <<>>
  /\ UNCHANGED <<lde, inbox, rowsOf, forwarded, copies, evicted, refused, discarded,
                 shutdown, arrived, others, faults, crashes>>

(* run sees the signal between two events. *)
Stop ==
  /\ pc = "idle" /\ shutdown
  /\ pc' = "stopped"
  /\ UNCHANGED <<inbox, todo, raised, batch, rowsOf, channel, losses, shutdown,
                 arrived, others, faults, crashes>>

(* The process ends: everything that is not in the SQLite file is gone. *)
die ==
  /\ pc' = "down" /\ todo' = 0 /\ batch' = {} /\ inbox' = 0
  /\ serverQ' = <<>> /\ serverOpen' = FALSE /\ mem' = {}
  /\ dropped' = dropped \cup InQueue \cup mem \cup (IF pc \in Handling THEN {raised} ELSE {})
  /\ UNCHANGED <<raised, disk, store, corrupt, spooled, forwarded, copies, evicted, refused,
                 discarded, shutdown, arrived, others, faults>>

Exit == pc = "stopped" /\ die /\ UNCHANGED crashes
Crash == pc # "down" /\ crashes < MaxCrashes /\ die /\ crashes' = crashes + 1

(* DetectionPipeline::new: the file opens, or the queue falls back to memory;
   a row may have gone bad in the meantime. *)
Restart ==
  /\ pc = "down"
  /\ pc' = "idle" /\ serverOpen' = TRUE /\ shutdown' = FALSE
  /\ \/ no_fault /\ store' = "disk" /\ UNCHANGED corrupt
     \/ fault /\ store' = "memory" /\ UNCHANGED corrupt
     \/ fault /\ store' = "disk" /\ \E a \in disk : corrupt' = corrupt \cup {a}
  /\ UNCHANGED <<inbox, todo, raised, batch, disk, mem, spooled, serverQ, forwarded, copies, losses,
                 arrived, others, crashes>>

Process ==
  \/ \E k \in 0..MaxAlerts : Receive(k)
  \/ maybe_respond \/ publish_alert \/ enqueue_insert \/ enqueue_evict
  \/ DrainTick
  \/ \E a \in Alerts : ReplayItem(a) \/ DiscardItem(a) \/ AckItem(a)
  \/ Stop

Next ==
  \/ Process
  \/ Arrive \/ OtherPublish \/ Forward \/ Shutdown \/ ForwardStops \/ Exit \/ Crash \/ Restart

(* The runtime keeps polling the task and the forward loop, main returns after
   a shutdown, and the service manager restarts the agent. *)
Fairness ==
  WF_vars(Process) /\ WF_vars(Forward) /\ WF_vars(ForwardStops) /\ WF_vars(Exit) /\ WF_vars(Restart)

Spec == Init /\ [][Next]_vars
FairSpec == Spec /\ Fairness

-----------------------------------------------------------------------------
(* No detection disappears silently: every alert raised is being handled, is in
   the queue's file or memory, is in the server channel, has been forwarded, or
   was lost in one of the ways the code logs or cannot avoid (evicted at
   capacity, refused by SQLite, discarded as unreadable, dropped with the
   memory of the process or a closed channel).  In particular a row is acked
   only once its alert is somewhere else (drain_offline_queue). *)
NoSilentLoss ==
  \A a \in 1..raised :
    \/ a = raised /\ pc \in Handling
    \/ a \in disk \cup mem \cup InQueue \cup forwarded
    \/ a \in evicted \cup refused \cup discarded \cup dropped

(* "strict FIFO semantics preserved across batches" (drain_offline_queue): when
   the drain hands an alert to the server channel, every older row of the open
   queue is unreadable or was handed over before it (its ack failed). *)
ReplayFifo ==
  [][\A a \in rows : copies'[a] > copies[a] =>
       \A b \in rows : b < a => b \in corrupt \/ copies[b] > 0]_vars

(* What exceeds the plan has a cause.  "Duplicate delivery is strictly preferable to
   silent loss" (the ack of drain_offline_queue), but an alert enters the server channel
   once, plus once for each failed ack or crash; and the queue outgrows its capacity only
   by the rows whose DELETE a fault or a crash has prevented, and by the one row between
   INSERT and DELETE (offline_queue.rs, enqueue_at). *)
ExcessHasACause ==
  /\ \A a \in Alerts : copies[a] <= 1 + faults + crashes
  /\ Cardinality(rows) <= QueueCapacity + faults + crashes + (IF pc = "evict" THEN 1 ELSE 0)

(* A spooled alert does not stay on disk for ever: the drain forwards it, or it
   is lost for a recorded reason, unless the queue file could not be opened. *)
SpooledEventuallyLeaves ==
  \A a \in Alerts :
    a \in rows ~> (a \in forwarded \cup evicted \cup discarded \cup dropped \/ store = "memory")

(* offline_queue.rs on ack: a row is deleted "once its payload has been durably
   handled (e.g. published to the server)".  Stated as: an alert that was once
   in the file is still there, on its way in a running process, forwarded,
   evicted or unreadable. *)
SpooledIsDurable ==
  spooled \subseteq disk \cup InQueue \cup forwarded \cup evicted \cup discarded

(* offline_queue.rs on enqueue: "the oldest N entries are dropped before
   insertion", so that no interruption leaves the file over capacity. *)
NeverOverCapacity == pc \in {"idle", "down"} => Cardinality(disk) <= QueueCapacity
=============================================================================
