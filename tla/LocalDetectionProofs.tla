------------------------ MODULE LocalDetectionProofs ------------------------
(***************************************************************************)
(* Proofs about LocalDetection, for every capacity, batch size and bound.  *)
(***************************************************************************)
EXTENDS LocalDetection, FiniteSetTheorems, TLAPS

(* How a send, a receive and a drop change the set of queued alerts. *)
LEMMA QueueFacts ==
  ASSUME TypeOK
  PROVE  /\ \A a \in Alerts \cup {Other} :
              serverQ' = Append(serverQ, a) =>
                /\ serverQ' \in Seq(Alerts \cup {Other})
                /\ Len(serverQ') = Len(serverQ) + 1
                /\ InQueue' = InQueue \cup ({a} \ {Other})
         /\ serverQ # <<>> /\ serverQ' = Tail(serverQ) =>
                /\ serverQ' \in Seq(Alerts \cup {Other})
                /\ Len(serverQ') <= Len(serverQ)
                /\ Head(serverQ) \in Alerts \cup {Other}
                /\ InQueue \subseteq InQueue' \cup ({Head(serverQ)} \ {Other})
         /\ serverQ' = <<>> =>
                /\ serverQ' \in Seq(Alerts \cup {Other})
                /\ Len(serverQ') = 0
         /\ serverQ' = serverQ => InQueue' = InQueue
         /\ InQueue \subseteq Alerts
         /\ Len(serverQ) \in Nat
<1> DEFINE E == Alerts \cup {Other}
<1>0. serverQ \in Seq(E) /\ Len(serverQ) \in Nat /\ DOMAIN serverQ = 1..Len(serverQ)
      /\ \A i \in 1..Len(serverQ) : serverQ[i] \in E
  BY DEF TypeOK
<1>1. ASSUME NEW a \in E, serverQ' = Append(serverQ, a)
      PROVE  /\ serverQ' \in Seq(E)
             /\ Len(serverQ') = Len(serverQ) + 1
             /\ InQueue' = InQueue \cup ({a} \ {Other})
  <2>1. /\ serverQ' \in Seq(E)
        /\ Len(serverQ') = Len(serverQ) + 1
        /\ \A i \in 1..Len(serverQ) : serverQ'[i] = serverQ[i]
        /\ serverQ'[Len(serverQ) + 1] = a
    BY <1>0, <1>1
  <2> HIDE DEF E
  <2>2. QED  BY <1>0, <2>1 DEF InQueue
<1>2. ASSUME serverQ # <<>>, serverQ' = Tail(serverQ)
      PROVE  /\ serverQ' \in Seq(E)
             /\ Len(serverQ') <= Len(serverQ)
             /\ Head(serverQ) \in E
             /\ InQueue \subseteq InQueue' \cup ({Head(serverQ)} \ {Other})
  <2>1. /\ serverQ' \in Seq(E)
        /\ Head(serverQ) \in E
        /\ Len(serverQ') = Len(serverQ) - 1
        /\ \A i \in 1..Len(serverQ') : serverQ'[i] = serverQ[i + 1]
    BY <1>0, <1>2
  <2>2. Head(serverQ) = serverQ[1]  OBVIOUS
  <2> HIDE DEF E
  <2>3. ASSUME NEW i \in 1..Len(serverQ), serverQ[i] # serverQ[1]
        PROVE  i - 1 \in 1..Len(serverQ') /\ serverQ'[i - 1] = serverQ[i]
    BY <1>0, <2>1, <2>3
  <2>4. QED  BY <1>0, <2>1, <2>2, <2>3 DEF InQueue
<1>3. serverQ' = <<>> => serverQ' \in Seq(E) /\ Len(serverQ') = 0
  OBVIOUS
<1>4. serverQ' = serverQ => InQueue' = InQueue
  BY DEF InQueue
<1>5. InQueue \subseteq Alerts
  BY <1>0 DEF InQueue
<1>6. QED  BY <1>0, <1>1, <1>2, <1>3, <1>4, <1>5

(* The rows belong to raised alerts, and the alert being published is not one
   of them yet. *)
RowsInv ==
  /\ disk \cup mem \subseteq 1..raised
  /\ pc \in Handling => raised # 0 /\ raised \notin disk \cup mem
  /\ pc = "evict" => raised # 0

(* The counters. *)
NumOK ==
  /\ inbox \in Nat
  /\ raised \in 0..MaxAlerts
  /\ todo \in 0..MaxAlerts /\ raised + todo <= MaxAlerts
  /\ arrived \in 0..MaxEvents /\ others \in 0..MaxOthers
  /\ faults \in 0..MaxFaults /\ crashes \in 0..MaxCrashes

(* The initial state has its type. *)
LEMMA TypeInit == Init => TypeOK /\ NumOK /\ RowsInv
<1> SUFFICES ASSUME Init PROVE TypeOK /\ NumOK /\ RowsInv
  OBVIOUS
<1>1. NumOK /\ RowsInv
  BY QueueAssumption DEF Init, NumOK, RowsInv, Handling
<1>2. copies \in [Alerts -> Nat] /\ Len(serverQ) <= ServerQueueSize
      /\ serverQ \in Seq(Alerts \cup {Other})
  BY QueueAssumption DEF Init
<1>3. QED
  BY <1>1, <1>2, Zenon DEF Init, NumOK, TypeOK, Handling

(* Every step keeps the counters in range. *)
LEMMA NumNext == NumOK /\ [Next]_vars => NumOK'
<1> SUFFICES ASSUME NumOK, [Next]_vars PROVE NumOK'
  OBVIOUS
<1> USE QueueAssumption DEF lde, rowsOf, channel, losses
<1>1. ASSUME NEW k \in 0..MaxAlerts, Receive(k) PROVE NumOK'
  BY <1>1 DEF NumOK, Receive
<1>2. CASE maybe_respond
  BY <1>2 DEF NumOK, maybe_respond
<1>3. CASE publish_alert
  BY <1>3 DEF NumOK, publish_alert, answer_ok, answer_full, has_room, next_alert
<1>4. CASE enqueue_insert
  BY <1>4 DEF NumOK, enqueue_insert, set_rows, fault, no_fault, next_alert
<1>5. CASE enqueue_evict
  BY <1>5 DEF NumOK, enqueue_evict, kept, set_rows, fault, no_fault, next_alert
<1>6. CASE DrainTick
  BY <1>6 DEF NumOK, DrainTick, peek_batch
<1>7. ASSUME NEW a \in Alerts, ReplayItem(a) PROVE NumOK'
  BY <1>7 DEF NumOK, ReplayItem, oldest, answer_ok, answer_full, has_room
<1>8. ASSUME NEW a \in Alerts, DiscardItem(a) PROVE NumOK'
  BY <1>8 DEF NumOK, DiscardItem, oldest, ack, next_item, set_rows, fault, no_fault
<1>9. ASSUME NEW a \in Alerts, AckItem(a) PROVE NumOK'
  BY <1>9 DEF NumOK, AckItem, oldest, ack, next_item, set_rows, fault, no_fault
<1>10. CASE Stop
  BY <1>10 DEF NumOK, Stop
<1>11. CASE Arrive
  BY <1>11 DEF NumOK, Arrive
<1>12. CASE OtherPublish
  BY <1>12 DEF NumOK, OtherPublish, has_room
<1>13. CASE Forward
  BY <1>13 DEF NumOK, Forward
<1>14. CASE Shutdown
  BY <1>14 DEF NumOK, Shutdown
<1>15. CASE ForwardStops
  BY <1>15 DEF NumOK, ForwardStops
<1>16. CASE Exit
  BY <1>16 DEF NumOK, Exit, die
<1>17. CASE Crash
  BY <1>17 DEF NumOK, Crash, die
<1>18. CASE Restart
  BY <1>18 DEF NumOK, Restart, fault, no_fault
<1>19. CASE UNCHANGED vars
  BY <1>19 DEF NumOK, vars
<1>20. QED
  BY <1>1, <1>2, <1>3, <1>4, <1>5, <1>6, <1>7, <1>8, <1>9, <1>10,
     <1>11, <1>12, <1>13, <1>14, <1>15, <1>16, <1>17, <1>18, <1>19 DEF Next, Process

(* Every step keeps the rows among the alerts raised before the one being handled. *)
LEMMA RowsNext == NumOK /\ RowsInv /\ [Next]_vars => RowsInv'
<1> SUFFICES ASSUME NumOK, RowsInv, [Next]_vars PROVE RowsInv'
  OBVIOUS
<1> USE QueueAssumption DEF lde, rowsOf, channel, losses
<1>1. ASSUME NEW k \in 0..MaxAlerts, Receive(k) PROVE RowsInv'
  BY <1>1 DEF NumOK, RowsInv, Handling, rows, Alerts, Receive
<1>2. CASE maybe_respond
  BY <1>2 DEF NumOK, RowsInv, Handling, rows, Alerts, maybe_respond
<1>3. CASE publish_alert
  BY <1>3 DEF NumOK, RowsInv, Handling, rows, Alerts, publish_alert, answer_ok, answer_full,
     has_room, next_alert
<1>4. CASE enqueue_insert
  BY <1>4 DEF NumOK, RowsInv, Handling, rows, Alerts, enqueue_insert, set_rows, fault, no_fault,
     next_alert
<1>5. CASE enqueue_evict
  BY <1>5 DEF NumOK, RowsInv, Handling, rows, Alerts, enqueue_evict, kept, set_rows, fault,
     no_fault, next_alert
<1>6. CASE DrainTick
  BY <1>6 DEF NumOK, RowsInv, Handling, rows, Alerts, DrainTick, peek_batch
<1>7. ASSUME NEW a \in Alerts, ReplayItem(a) PROVE RowsInv'
  BY <1>7 DEF NumOK, RowsInv, Handling, rows, Alerts, ReplayItem, oldest, answer_ok, answer_full,
     has_room
<1>8. ASSUME NEW a \in Alerts, DiscardItem(a) PROVE RowsInv'
  BY <1>8 DEF NumOK, RowsInv, Handling, rows, Alerts, DiscardItem, oldest, ack, next_item,
     set_rows, fault, no_fault
<1>9. ASSUME NEW a \in Alerts, AckItem(a) PROVE RowsInv'
  BY <1>9 DEF NumOK, RowsInv, Handling, rows, Alerts, AckItem, oldest, ack, next_item, set_rows,
     fault, no_fault
<1>10. CASE Stop
  BY <1>10 DEF NumOK, RowsInv, Handling, rows, Alerts, Stop
<1>11. CASE Arrive
  BY <1>11 DEF NumOK, RowsInv, Handling, rows, Alerts, Arrive
<1>12. CASE OtherPublish
  BY <1>12 DEF NumOK, RowsInv, Handling, rows, Alerts, OtherPublish, has_room
<1>13. CASE Forward
  BY <1>13 DEF NumOK, RowsInv, Handling, rows, Alerts, Forward
<1>14. CASE Shutdown
  BY <1>14 DEF NumOK, RowsInv, Handling, rows, Alerts, Shutdown
<1>15. CASE ForwardStops
  BY <1>15 DEF NumOK, RowsInv, Handling, rows, Alerts, ForwardStops
<1>16. CASE Exit
  BY <1>16 DEF NumOK, RowsInv, Handling, rows, Alerts, Exit, die
<1>17. CASE Crash
  BY <1>17 DEF NumOK, RowsInv, Handling, rows, Alerts, Crash, die
<1>18. CASE Restart
  BY <1>18 DEF NumOK, RowsInv, Handling, rows, Alerts, Restart, fault, no_fault
<1>19. CASE UNCHANGED vars
  BY <1>19 DEF NumOK, RowsInv, Handling, rows, Alerts, vars
<1>20. QED
  BY <1>1, <1>2, <1>3, <1>4, <1>5, <1>6, <1>7, <1>8, <1>9, <1>10,
     <1>11, <1>12, <1>13, <1>14, <1>15, <1>16, <1>17, <1>18, <1>19 DEF Next, Process

(* The server channel never exceeds its capacity. *)
QueueOK == serverQ \in Seq(Alerts \cup {Other}) /\ Len(serverQ) <= ServerQueueSize

(* The last alert raised is an alert. *)
LEMMA RaisedAlert == NumOK /\ raised # 0 => raised \in Alerts
  BY QueueAssumption DEF NumOK, Alerts

(* Every step keeps the server channel within its capacity. *)
LEMMA QueueNext == TypeOK /\ NumOK /\ QueueOK /\ RowsInv /\ [Next]_vars => QueueOK'
<1> SUFFICES ASSUME TypeOK, NumOK, QueueOK, RowsInv, [Next]_vars PROVE QueueOK'
  OBVIOUS
<1> USE QueueAssumption DEF lde, rowsOf, channel, losses
<1>1. ASSUME NEW k \in 0..MaxAlerts, Receive(k) PROVE QueueOK'
  BY <1>1 DEF QueueOK, Alerts, Other, Receive
<1>2. CASE maybe_respond
  BY <1>2 DEF QueueOK, Alerts, Other, maybe_respond
<1>3. CASE publish_alert
  BY <1>3, QueueFacts, RaisedAlert DEF QueueOK, RowsInv, Handling, publish_alert, answer_ok,
     answer_full, has_room, next_alert
<1>4. CASE enqueue_insert
  BY <1>4 DEF QueueOK, Alerts, Other, enqueue_insert, set_rows, fault, no_fault, next_alert
<1>5. CASE enqueue_evict
  BY <1>5 DEF QueueOK, Alerts, Other, enqueue_evict, kept, set_rows, fault, no_fault, next_alert
<1>6. CASE DrainTick
  BY <1>6 DEF QueueOK, Alerts, Other, DrainTick, peek_batch
<1>7. ASSUME NEW a \in Alerts, ReplayItem(a) PROVE QueueOK'
  BY <1>7, QueueFacts, RaisedAlert DEF QueueOK, RowsInv, Handling, ReplayItem, oldest, answer_ok,
     answer_full, has_room
<1>8. ASSUME NEW a \in Alerts, DiscardItem(a) PROVE QueueOK'
  BY <1>8 DEF QueueOK, Alerts, Other, DiscardItem, oldest, ack, next_item, set_rows, fault, no_fault
<1>9. ASSUME NEW a \in Alerts, AckItem(a) PROVE QueueOK'
  BY <1>9 DEF QueueOK, Alerts, Other, AckItem, oldest, ack, next_item, set_rows, fault, no_fault
<1>10. CASE Stop
  BY <1>10 DEF QueueOK, Alerts, Other, Stop
<1>11. CASE Arrive
  BY <1>11 DEF QueueOK, Alerts, Other, Arrive
<1>12. CASE OtherPublish
  BY <1>12, QueueFacts, RaisedAlert DEF QueueOK, RowsInv, Handling, OtherPublish, has_room
<1>13. CASE Forward
  BY <1>13, QueueFacts, RaisedAlert DEF QueueOK, RowsInv, Handling, Forward, has_room
<1>14. CASE Shutdown
  BY <1>14 DEF QueueOK, Alerts, Other, Shutdown
<1>15. CASE ForwardStops
  BY <1>15, QueueFacts, RaisedAlert DEF QueueOK, RowsInv, Handling, ForwardStops, has_room
<1>16. CASE Exit
  BY <1>16, QueueFacts, RaisedAlert DEF QueueOK, RowsInv, Handling, Exit, die
<1>17. CASE Crash
  BY <1>17, QueueFacts, RaisedAlert DEF QueueOK, RowsInv, Handling, Crash, die
<1>18. CASE Restart
  BY <1>18 DEF QueueOK, Alerts, Other, Restart, fault, no_fault
<1>19. CASE UNCHANGED vars
  BY <1>19 DEF QueueOK, Alerts, Other, vars
<1>20. QED
  BY <1>1, <1>2, <1>3, <1>4, <1>5, <1>6, <1>7, <1>8, <1>9, <1>10,
     <1>11, <1>12, <1>13, <1>14, <1>15, <1>16, <1>17, <1>18, <1>19 DEF Next, Process

(* Every step keeps the types. *)
LEMMA TypeNext == TypeOK /\ NumOK /\ RowsInv /\ NumOK' /\ QueueOK' /\ RowsInv' /\ [Next]_vars => TypeOK'
<1> SUFFICES ASSUME TypeOK, NumOK, RowsInv, NumOK', QueueOK', RowsInv', [Next]_vars PROVE TypeOK'
  OBVIOUS
<1> USE QueueAssumption DEF lde, rowsOf, channel, losses
<1>1. ASSUME NEW k \in 0..MaxAlerts, Receive(k) PROVE TypeOK'
  BY <1>1, Zenon DEF TypeOK, NumOK, QueueOK, RowsInv, Handling, rows, Alerts, Other, Receive
<1>2. CASE maybe_respond
  BY <1>2, Zenon DEF TypeOK, NumOK, QueueOK, RowsInv, Handling, rows, Alerts, Other, maybe_respond
<1>3. CASE publish_alert
  <2>1. copies \in [Alerts -> Nat] /\ dropped \subseteq Alerts
    BY DEF TypeOK
  <2>2. raised \in Alerts
    BY <1>3, RaisedAlert DEF RowsInv, Handling, publish_alert
  <2>3. /\ copies' = copies \/ copies' = [copies EXCEPT ![raised] = copies[raised] + 1]
        /\ dropped' = dropped \/ dropped' = dropped \cup {raised}
    BY <1>3 DEF publish_alert, answer_ok, answer_full
  <2>4. copies' \in [Alerts -> Nat] /\ dropped' \subseteq Alerts
    BY <2>1, <2>2, <2>3
  <2>5. QED  BY <1>3, <2>4, Zenon DEF TypeOK, NumOK, QueueOK, RowsInv, Handling, rows, Alerts, Other,
  publish_alert, answer_ok, answer_full, has_room, next_alert
<1>4. CASE enqueue_insert
  <2>1. raised # 0 => raised \in Alerts  BY RaisedAlert
  <2>2. QED  BY <1>4, <2>1, Zenon DEF TypeOK, NumOK, QueueOK, RowsInv, Handling, rows, Alerts, Other,
  enqueue_insert, set_rows, fault, no_fault, next_alert
<1>5. CASE enqueue_evict
  BY <1>5, Zenon DEF TypeOK, NumOK, QueueOK, RowsInv, Handling, rows, Alerts, Other, enqueue_evict,
     kept, set_rows, fault, no_fault, next_alert
<1>6. CASE DrainTick
  BY <1>6, Zenon DEF TypeOK, NumOK, QueueOK, RowsInv, Handling, rows, Alerts, Other, DrainTick, peek_batch
<1>7. ASSUME NEW a \in Alerts, ReplayItem(a) PROVE TypeOK'
  <2>1. copies \in [Alerts -> Nat] /\ dropped \subseteq Alerts
    BY DEF TypeOK
  <2>2. a \in Alerts
    BY <1>7, RaisedAlert DEF RowsInv, Handling, ReplayItem
  <2>3. /\ copies' = copies \/ copies' = [copies EXCEPT ![a] = copies[a] + 1]
        /\ dropped' = dropped \/ dropped' = dropped \cup {a}
    BY <1>7 DEF ReplayItem, answer_ok, answer_full
  <2>4. copies' \in [Alerts -> Nat] /\ dropped' \subseteq Alerts
    BY <2>1, <2>2, <2>3
  <2>5. QED  BY <1>7, <2>4, Zenon DEF TypeOK, NumOK, QueueOK, RowsInv, Handling, rows, Alerts, Other,
  ReplayItem, oldest, answer_ok, answer_full, has_room
<1>8. ASSUME NEW a \in Alerts, DiscardItem(a) PROVE TypeOK'
  BY <1>8 DEF TypeOK, NumOK, QueueOK, RowsInv, Handling, rows, Alerts, Other, DiscardItem,
     oldest, ack, next_item, set_rows, fault, no_fault
<1>9. ASSUME NEW a \in Alerts, AckItem(a) PROVE TypeOK'
  BY <1>9, Zenon DEF TypeOK, NumOK, QueueOK, RowsInv, Handling, rows, Alerts, Other, AckItem, oldest,
     ack, next_item, set_rows, fault, no_fault
<1>10. CASE Stop
  BY <1>10 DEF TypeOK, NumOK, QueueOK, RowsInv, Handling, rows, Alerts, Other, Stop
<1>11. CASE Arrive
  BY <1>11 DEF TypeOK, NumOK, QueueOK, RowsInv, Handling, rows, Alerts, Other, Arrive
<1>12. CASE OtherPublish
  BY <1>12, Zenon DEF TypeOK, NumOK, QueueOK, RowsInv, Handling, rows, Alerts, Other, OtherPublish,
     has_room
<1>13. CASE Forward
  <2>1. forwarded' \subseteq Alerts  BY <1>13, QueueFacts DEF TypeOK, Forward
  <2>2. QED  BY <1>13, <2>1 DEF TypeOK, NumOK, QueueOK, RowsInv, Handling, rows, Alerts, Other,
  Forward
<1>14. CASE Shutdown
  BY <1>14 DEF TypeOK, NumOK, QueueOK, RowsInv, Handling, rows, Alerts, Other, Shutdown
<1>15. CASE ForwardStops
  <2>1. InQueue \subseteq Alerts  BY QueueFacts
  <2>2. QED  BY <1>15, <2>1, Zenon DEF TypeOK, NumOK, QueueOK, RowsInv, Handling, rows, Alerts, Other,
  ForwardStops
<1>16. CASE Exit
  <2>1. InQueue \subseteq Alerts  BY QueueFacts
  <2>2. raised # 0 => raised \in Alerts  BY RaisedAlert
  <2>3. QED  BY <1>16, <2>1, <2>2, Zenon DEF TypeOK, NumOK, QueueOK, RowsInv, Handling, rows, Alerts,
  Other, Exit, die
<1>17. CASE Crash
  <2>1. InQueue \subseteq Alerts  BY QueueFacts
  <2>2. raised # 0 => raised \in Alerts  BY RaisedAlert
  <2>3. QED  BY <1>17, <2>1, <2>2, Zenon DEF TypeOK, NumOK, QueueOK, RowsInv, Handling, rows, Alerts,
  Other, Crash, die
<1>18. CASE Restart
  BY <1>18, Zenon DEF TypeOK, NumOK, QueueOK, RowsInv, Handling, rows, Alerts, Other, Restart, fault,
     no_fault
<1>19. CASE UNCHANGED vars
  BY <1>19, Zenon DEF TypeOK, NumOK, QueueOK, RowsInv, Handling, rows, Alerts, Other, vars
<1>20. QED
  BY <1>1, <1>2, <1>3, <1>4, <1>5, <1>6, <1>7, <1>8, <1>9, <1>10,
     <1>11, <1>12, <1>13, <1>14, <1>15, <1>16, <1>17, <1>18, <1>19 DEF Next, Process

(* The drain: its batch holds rows of the open queue; the row it is about to ack
   is somewhere else already; and the rows it has passed over have been handed
   to the channel or cannot be read. *)
BatchInv ==
  /\ batch \subseteq rows
  /\ pc \notin {"replay", "ack"} => batch = {}

AckInv ==
  pc = "ack" => \A a \in batch : oldest(a, batch) =>
    /\ a \in InQueue \cup forwarded \cup dropped
    /\ serverOpen => copies[a] > 0

PassedInv ==
  serverOpen => \A a \in batch, b \in rows \ batch :
    b < a => b \in corrupt \/ copies[b] > 0

(* Every step keeps the batch of the drain among the rows. *)
LEMMA BatchNext == TypeOK /\ BatchInv /\ [Next]_vars => BatchInv'
<1> SUFFICES ASSUME TypeOK, BatchInv, [Next]_vars PROVE BatchInv'
  OBVIOUS
<1> USE DEF lde, rowsOf, channel, losses
<1>1. ASSUME NEW k \in 0..MaxAlerts, Receive(k) PROVE BatchInv'
  BY <1>1 DEF BatchInv, rows, Handling, Receive
<1>2. CASE maybe_respond
  BY <1>2 DEF BatchInv, rows, Handling, maybe_respond
<1>3. CASE publish_alert
  BY <1>3 DEF BatchInv, rows, Handling, publish_alert, answer_ok, answer_full, has_room, next_alert
<1>4. CASE enqueue_insert
  BY <1>4 DEF BatchInv, rows, Handling, enqueue_insert, set_rows, fault, no_fault, next_alert
<1>5. CASE enqueue_evict
  BY <1>5 DEF BatchInv, rows, Handling, enqueue_evict, kept, set_rows, fault, no_fault, next_alert
<1>6. CASE DrainTick
  BY <1>6 DEF BatchInv, rows, Handling, DrainTick, peek_batch
<1>7. ASSUME NEW a \in Alerts, ReplayItem(a) PROVE BatchInv'
  BY <1>7 DEF BatchInv, rows, Handling, ReplayItem, oldest, answer_ok, answer_full, has_room
<1>8. ASSUME NEW a \in Alerts, DiscardItem(a) PROVE BatchInv'
  BY <1>8 DEF BatchInv, rows, Handling, DiscardItem, oldest, ack, next_item, set_rows, fault,
     no_fault
<1>9. ASSUME NEW a \in Alerts, AckItem(a) PROVE BatchInv'
  BY <1>9 DEF BatchInv, rows, Handling, AckItem, oldest, ack, next_item, set_rows, fault, no_fault
<1>10. CASE Stop
  BY <1>10 DEF BatchInv, rows, Handling, Stop
<1>11. CASE Arrive
  BY <1>11 DEF BatchInv, rows, Handling, Arrive
<1>12. CASE OtherPublish
  BY <1>12 DEF BatchInv, rows, Handling, OtherPublish, has_room
<1>13. CASE Forward
  BY <1>13 DEF BatchInv, rows, Handling, Forward
<1>14. CASE Shutdown
  BY <1>14 DEF BatchInv, rows, Handling, Shutdown
<1>15. CASE ForwardStops
  BY <1>15 DEF BatchInv, rows, Handling, ForwardStops
<1>16. CASE Exit
  BY <1>16 DEF BatchInv, rows, Handling, Exit, die
<1>17. CASE Crash
  BY <1>17 DEF BatchInv, rows, Handling, Crash, die
<1>18. CASE Restart
  BY <1>18 DEF BatchInv, rows, Handling, Restart, fault, no_fault
<1>19. CASE UNCHANGED vars
  BY <1>19 DEF BatchInv, rows, Handling, vars
<1>20. QED
  BY <1>1, <1>2, <1>3, <1>4, <1>5, <1>6, <1>7, <1>8, <1>9, <1>10,
     <1>11, <1>12, <1>13, <1>14, <1>15, <1>16, <1>17, <1>18, <1>19 DEF Next, Process

(* No copy is ever taken back. *)
LEMMA CopiesGrow ==
  TypeOK /\ RowsInv /\ NumOK /\ [Next]_vars => \A a \in Alerts : copies'[a] \in Nat /\ copies'[a] >= copies[a]
<1> SUFFICES ASSUME TypeOK, RowsInv, NumOK, [Next]_vars, NEW a \in Alerts
             PROVE  copies'[a] \in Nat /\ copies'[a] >= copies[a]
  OBVIOUS
<1>1. copies \in [Alerts -> Nat]  BY DEF TypeOK
<1>2. \/ copies' = copies
      \/ \E b \in Alerts : copies' = [copies EXCEPT ![b] = copies[b] + 1]
  <2>1. CASE publish_alert
    BY <2>1, RaisedAlert DEF publish_alert, answer_ok, RowsInv, Handling
  <2>2. ASSUME NEW b \in Alerts, ReplayItem(b)
        PROVE  copies' = copies \/ copies' = [copies EXCEPT ![b] = copies[b] + 1]
    BY <2>2 DEF ReplayItem, answer_ok
  <2>3. CASE ~publish_alert /\ \A b \in Alerts : ~ReplayItem(b)
    BY <2>3, Zenon DEF Next, Process, vars, channel, Receive, maybe_respond, enqueue_insert, enqueue_evict,
       DrainTick, DiscardItem, AckItem, Stop, Arrive, OtherPublish, Forward, Shutdown,
       ForwardStops, Exit, Crash, die, Restart
  <2>4. QED  BY <2>1, <2>2, <2>3
<1>3. QED  BY <1>1, <1>2

(* What has left the queue for the channel stays accounted for. *)
Handed == InQueue \cup forwarded \cup dropped

(* What was handed to the server channel stays so. *)
LEMMA HandedGrows == TypeOK /\ NumOK /\ RowsInv /\ [Next]_vars => Handed \subseteq Handed'
<1> SUFFICES ASSUME TypeOK, NumOK, RowsInv, [Next]_vars PROVE Handed \subseteq Handed'
  OBVIOUS
<1> USE DEF lde, rowsOf, channel, losses
<1>1. ASSUME NEW k \in 0..MaxAlerts, Receive(k) PROVE Handed \subseteq Handed'
  BY <1>1, Zenon DEF Handed, InQueue, Other, Receive
<1>2. CASE maybe_respond
  BY <1>2, Zenon DEF Handed, InQueue, Other, maybe_respond
<1>3. CASE publish_alert
  BY <1>3, QueueFacts, RaisedAlert DEF RowsInv, Handling, Handed, publish_alert, answer_ok,
     answer_full, has_room, next_alert
<1>4. CASE enqueue_insert
  BY <1>4 DEF Handed, InQueue, Other, enqueue_insert, set_rows, fault, no_fault, next_alert
<1>5. CASE enqueue_evict
  BY <1>5 DEF Handed, InQueue, Other, enqueue_evict, kept, set_rows, fault, no_fault, next_alert
<1>6. CASE DrainTick
  BY <1>6 DEF Handed, InQueue, Other, DrainTick, peek_batch
<1>7. ASSUME NEW a \in Alerts, ReplayItem(a) PROVE Handed \subseteq Handed'
  BY <1>7, QueueFacts, RaisedAlert DEF RowsInv, Handling, Handed, ReplayItem, oldest, answer_ok,
     answer_full, has_room
<1>8. ASSUME NEW a \in Alerts, DiscardItem(a) PROVE Handed \subseteq Handed'
  BY <1>8 DEF Handed, InQueue, Other, DiscardItem, oldest, ack, next_item, set_rows, fault, no_fault
<1>9. ASSUME NEW a \in Alerts, AckItem(a) PROVE Handed \subseteq Handed'
  BY <1>9 DEF Handed, InQueue, Other, AckItem, oldest, ack, next_item, set_rows, fault, no_fault
<1>10. CASE Stop
  BY <1>10 DEF Handed, InQueue, Other, Stop
<1>11. CASE Arrive
  BY <1>11 DEF Handed, InQueue, Other, Arrive
<1>12. CASE OtherPublish
  BY <1>12, QueueFacts, RaisedAlert DEF RowsInv, Handling, Handed, OtherPublish, has_room
<1>13. CASE Forward
  BY <1>13, QueueFacts, RaisedAlert DEF RowsInv, Handling, Handed, Forward, has_room
<1>14. CASE Shutdown
  BY <1>14 DEF Handed, InQueue, Other, Shutdown
<1>15. CASE ForwardStops
  BY <1>15 DEF Handed, ForwardStops, has_room
<1>16. CASE Exit
  BY <1>16 DEF Handed, Exit, die
<1>17. CASE Crash
  BY <1>17 DEF Handed, Crash, die
<1>18. CASE Restart
  BY <1>18 DEF Handed, InQueue, Other, Restart, fault, no_fault
<1>19. CASE UNCHANGED vars
  BY <1>19 DEF Handed, InQueue, Other, vars
<1>20. QED
  BY <1>1, <1>2, <1>3, <1>4, <1>5, <1>6, <1>7, <1>8, <1>9, <1>10,
     <1>11, <1>12, <1>13, <1>14, <1>15, <1>16, <1>17, <1>18, <1>19 DEF Next, Process

(* The oldest row of a batch is acknowledged only when it was handed over. *)
LEMMA AckNext ==
  TypeOK /\ NumOK /\ RowsInv /\ BatchInv /\ AckInv /\ [Next]_vars => AckInv'
<1> SUFFICES ASSUME TypeOK, NumOK, RowsInv, BatchInv, AckInv, [Next]_vars, pc' = "ack",
                    NEW a \in batch', oldest(a, batch')
             PROVE  a \in Handed' /\ (serverOpen' => copies'[a] > 0)
  BY DEF AckInv, Handed, oldest
<1>1. Handed \subseteq Handed' /\ (\A b \in Alerts : copies'[b] \in Nat /\ copies'[b] >= copies[b])
  BY HandedGrows, CopiesGrow
<1>2. CASE \E b \in Alerts : ReplayItem(b)
  <2>1. PICK b \in Alerts : ReplayItem(b)
    BY <1>2
  <2>2. answer_ok(b) /\ batch' = batch /\ oldest(b, batch) /\ UNCHANGED serverOpen
    BY <2>1 DEF ReplayItem, answer_full
  <2>3. a = b
    BY <2>2, batch \subseteq Nat DEF oldest, TypeOK, Alerts
  <2>4. copies \in [Alerts -> Nat]
    BY DEF TypeOK
  <2>5. b \in Handed'
    BY <2>2, QueueFacts DEF answer_ok, Handed, Alerts, Other
  <2>6. serverOpen => copies'[b] = copies[b] + 1
    BY <2>2, <2>4 DEF answer_ok
  <2>7. QED
    BY <2>2, <2>3, <2>4, <2>5, <2>6
<1>3. CASE ~\E b \in Alerts : ReplayItem(b)
  <2>0. OtherPublish \/ Forward \/ ForwardStops \/ UNCHANGED <<pc, batch, serverOpen>>
    BY <1>3, Zenon DEF Next, Process, vars, lde, channel, Receive, maybe_respond, publish_alert,
       next_alert,
       enqueue_insert, enqueue_evict, DrainTick, DiscardItem, AckItem, next_item, Stop, Arrive,
       Shutdown, Exit, Crash, die, Restart
  <2>1. pc = "ack" /\ batch' = batch /\ (serverOpen' => serverOpen)
    BY <2>0 DEF OtherPublish, Forward, ForwardStops, lde
  <2>2. a \in Alerts
    BY <2>1 DEF TypeOK
  <2>3. a \in Handed /\ (serverOpen => copies[a] > 0) /\ copies[a] \in Nat
    BY <2>1, <2>2 DEF AckInv, Handed, oldest, TypeOK
  <2>4. QED
    BY <1>1, <2>1, <2>2, <2>3
<1>4. QED  BY <1>2, <1>3

(* peek_batch takes a prefix of the queue. *)
LEMMA PeekIsPrefix ==
  ASSUME TypeOK, NEW a \in peek_batch, NEW b \in rows, b < a
  PROVE  b \in peek_batch
<1> DEFINE A == {c \in rows : c < a}
<1> DEFINE B == {c \in rows : c < b}
<1>1. rows \in SUBSET Alerts /\ rows \subseteq Int /\ a \in rows
  BY QueueAssumption DEF TypeOK, rows, peek_batch, Alerts
<1>2. IsFiniteSet(rows)
  <2>1. IsFiniteSet(Alerts)  BY QueueAssumption, FS_Interval DEF Alerts
  <2>2. QED  BY <1>1, <2>1, FS_Subset, Zenon
<1>3. IsFiniteSet(A) /\ IsFiniteSet(B)
  BY <1>2, FS_Subset
<1>4. B \subseteq A
  <2>1. \A c \in rows : c < b => c < a  BY <1>1
  <2>2. QED  BY <2>1
<1>5. Cardinality(B) <= Cardinality(A) /\ Cardinality(A) \in Nat /\ Cardinality(B) \in Nat
  BY <1>3, <1>4, FS_Subset, FS_CardinalityType
<1>6. Cardinality(A) < DrainBatch
  BY DEF peek_batch, older
<1> HIDE DEF A
<1>7. Cardinality(B) < DrainBatch
  BY <1>5, <1>6, QueueAssumption
<1>8. QED
  BY <1>7 DEF peek_batch, older

(* The drain has passed what is older than its batch. *)
LEMMA PassedNext ==
  TypeOK /\ NumOK /\ RowsInv /\ BatchInv /\ AckInv /\ PassedInv /\ [Next]_vars => PassedInv'
<1> SUFFICES ASSUME TypeOK, NumOK, RowsInv, BatchInv, AckInv, PassedInv, [Next]_vars, serverOpen',
                    NEW a \in batch', NEW b \in rows', b \notin batch', b < a
             PROVE  b \in corrupt' \/ copies'[b] > 0
  BY DEF PassedInv
<1> DEFINE Drain == DrainTick \/ \E x \in Alerts : ReplayItem(x) \/ DiscardItem(x) \/ AckItem(x)
<1>0. /\ rows \subseteq Alerts /\ copies \in [Alerts -> Nat]
      /\ \A x \in Alerts : copies'[x] \in Nat /\ copies'[x] >= copies[x]
  BY CopiesGrow DEF TypeOK, rows
<1>1. CASE DrainTick
  BY <1>1, PeekIsPrefix DEF DrainTick, rowsOf, rows
<1>2. ASSUME NEW x \in Alerts, ReplayItem(x) PROVE b \in corrupt' \/ copies'[b] > 0
  <2>1. batch' = batch /\ rows' = rows /\ UNCHANGED <<corrupt, serverOpen>>
    BY <1>2, Zenon DEF ReplayItem, rowsOf, rows
  <2>2. QED  BY <1>0, <2>1 DEF PassedInv
<1>3. ASSUME NEW x \in Alerts, DiscardItem(x) \/ AckItem(x) PROVE b \in corrupt' \/ copies'[b] > 0
  <2>1. /\ oldest(x, batch) /\ batch' = batch \ {x}
        /\ rows' \subseteq rows /\ UNCHANGED <<corrupt, serverOpen, copies>>
    BY <1>3, Zenon DEF DiscardItem, AckItem, next_item, ack, set_rows, rows, channel
  <2>2. b = x => b \in corrupt \/ copies[b] > 0
    BY <1>3, <2>1 DEF DiscardItem, AckItem, AckInv, oldest
  <2>3. b # x => b \in corrupt \/ copies[b] > 0
    BY <2>1 DEF PassedInv
  <2>4. QED  BY <2>1, <2>2, <2>3
<1>4. CASE ~Drain
  <2>1. \/ batch = {} /\ batch' = batch
        \/ batch' = {}
        \/ Arrive \/ OtherPublish \/ Forward \/ Shutdown \/ ForwardStops \/ UNCHANGED vars
    BY <1>4, Zenon DEF Next, Process, BatchInv, lde, Receive, maybe_respond, publish_alert, enqueue_insert,
       enqueue_evict, Stop, Exit, Crash, die, Restart
  <2>2. Arrive \/ OtherPublish \/ Forward \/ Shutdown \/ ForwardStops \/ UNCHANGED vars
    BY <2>1
  <2>3. batch' = batch /\ rows' = rows /\ corrupt' = corrupt
    BY <2>2, Zenon DEF Arrive, OtherPublish, Forward, Shutdown, ForwardStops, vars, lde, rowsOf, rows
  <2>4. serverOpen
    BY <2>2, Zenon DEF Arrive, OtherPublish, Forward, Shutdown, ForwardStops, vars, channel
  <2>5. QED  BY <1>0, <2>3, <2>4 DEF PassedInv
<1>5. QED  BY <1>1, <1>2, <1>3, <1>4

(* No step loses an alert without a recorded reason. *)
LEMMA LossNext ==
  TypeOK /\ NumOK /\ RowsInv /\ BatchInv /\ AckInv /\ NoSilentLoss /\ [Next]_vars => NoSilentLoss'
<1> DEFINE Lost == evicted \cup refused \cup discarded
<1> DEFINE Known(a) == a \in disk \cup mem \/ a \in Handed \/ a \in Lost
<1> SUFFICES ASSUME TypeOK, NumOK, RowsInv, BatchInv, AckInv, NoSilentLoss, [Next]_vars,
                    NEW a \in 1..raised'
             PROVE  (a = raised' /\ pc' \in Handling) \/ Known(a)'
  BY DEF NoSilentLoss, Handed
<1>1. Handed \subseteq Handed'
  BY HandedGrows
<1>2. Lost \subseteq Lost'
  BY Zenon DEF Next, Process, vars, losses, Receive, maybe_respond, publish_alert, enqueue_insert,
     enqueue_evict, DrainTick, ReplayItem, DiscardItem, AckItem, Stop, Arrive, OtherPublish,
     Forward, Shutdown, ForwardStops, Exit, Crash, die, Restart
<1>3. a \in 1..raised => (a = raised /\ pc \in Handling) \/ Known(a)
  BY DEF NoSilentLoss, Handed
<1>4. raised' = raised \/ (raised' = raised + 1 /\ pc' \in Handling)
  BY Zenon DEF Next, Process, vars, lde, Receive, maybe_respond, publish_alert, next_alert,
     enqueue_insert,
     enqueue_evict, DrainTick, ReplayItem, DiscardItem, AckItem, Stop, Arrive, OtherPublish,
     Forward, Shutdown, ForwardStops, Exit, Crash, die, Restart, Handling
<1>5. ASSUME NEW x \in disk \cup mem PROVE Known(x)'
  <2>1. CASE enqueue_evict
    BY <1>5, <2>1 DEF enqueue_evict, kept, set_rows, rows
  <2>2. ASSUME NEW y \in Alerts, DiscardItem(y) PROVE Known(x)'
    BY <1>5, <2>2 DEF DiscardItem, ack, set_rows, rows
  <2>3. ASSUME NEW y \in Alerts, AckItem(y) PROVE Known(x)'
    <3>1. y \in Handed
      BY <2>3 DEF AckItem, AckInv, Handed, oldest
    <3>2. x = y \/ x \in (disk \cup mem)'
      BY <1>5, <2>3 DEF AckItem, ack, set_rows, rows
    <3>3. QED  BY <1>1, <3>1, <3>2
  <2>4. CASE Exit \/ Crash
    <3>1. disk' = disk /\ mem \subseteq dropped'
      BY <2>4 DEF Exit, Crash, die
    <3>2. QED  BY <1>5, <3>1 DEF Handed
  <2>5. CASE ~enqueue_evict /\ ~Exit /\ ~Crash /\ \A y \in Alerts : ~DiscardItem(y) /\ ~AckItem(y)
    <3>1. disk \subseteq disk' /\ mem \subseteq mem'
      BY <2>5, Zenon DEF Next, Process, vars, rowsOf, Receive, maybe_respond, publish_alert,
         enqueue_insert,
         set_rows, rows, DrainTick, ReplayItem, Stop, Arrive, OtherPublish, Forward, Shutdown,
         ForwardStops, Restart
    <3>2. QED  BY <1>5, <3>1
  <2>6. QED  BY <2>1, <2>2, <2>3, <2>4, <2>5
<1>6. ASSUME pc \in Handling, a = raised PROVE (a = raised' /\ pc' \in Handling) \/ Known(a)'
  <2>1. CASE publish_alert
    <3>1. answer_ok(a) \/ (raised' = raised /\ pc' = "insert")
      BY <1>6, <2>1 DEF publish_alert
    <3>2. answer_ok(a) => a \in Handed'
      BY <1>6, QueueFacts, RaisedAlert DEF answer_ok, Handed, RowsInv, Alerts, Other
    <3>3. QED  BY <1>6, <3>1, <3>2 DEF Handling
  <2>2. CASE enqueue_insert
    BY <1>6, <2>2 DEF enqueue_insert, set_rows, rows
  <2>3. CASE Exit \/ Crash
    BY <1>6, <2>3 DEF Exit, Crash, die, Handed
  <2>4. CASE ~publish_alert /\ ~enqueue_insert /\ ~Exit /\ ~Crash
    BY <1>6, <2>4, Zenon DEF Next, Process, vars, lde, Receive, maybe_respond, enqueue_evict, DrainTick,
       ReplayItem, DiscardItem, AckItem, Stop, Arrive, OtherPublish, Forward, Shutdown,
       ForwardStops, Restart, Handling
  <2>5. QED  BY <2>1, <2>2, <2>3, <2>4
<1>7. raised \in Nat  BY QueueAssumption DEF NumOK
<1>8. CASE a = raised + 1 /\ raised' = raised + 1
  BY <1>4, <1>7, <1>8
<1>9. CASE a \in 1..raised
  <2>1. CASE a \in Handed \/ a \in Lost
    BY <1>1, <1>2, <2>1
  <2>2. CASE a \in disk \cup mem
    BY <1>5, <2>2
  <2>3. QED  BY <1>3, <1>6, <1>9, <2>1, <2>2
<1>10. QED  BY <1>4, <1>7, <1>8, <1>9

(* The inductive invariant. *)
SpoolInv ==
  TypeOK /\ NumOK /\ QueueOK /\ RowsInv /\ BatchInv /\ AckInv /\ PassedInv /\ NoSilentLoss

(* SpoolInv holds in every reachable state of the detection pipeline (lib.rs, run;
   offline_queue.rs). *)
THEOREM SpoolInvariance == Spec => []SpoolInv
<1>1. Init => SpoolInv
  <2> SUFFICES ASSUME Init PROVE SpoolInv
    OBVIOUS
  <2>1. TypeOK /\ NumOK /\ RowsInv
    BY TypeInit
  <2>2. QueueOK
    BY <2>1 DEF TypeOK, QueueOK
  <2>3. BatchInv /\ AckInv /\ PassedInv
    BY DEF Init, BatchInv, AckInv, PassedInv
  <2>4. NoSilentLoss
    BY DEF Init, NoSilentLoss
  <2>5. QED  BY <2>1, <2>2, <2>3, <2>4 DEF SpoolInv
<1>2. SpoolInv /\ [Next]_vars => SpoolInv'
  BY NumNext, RowsNext, QueueNext, TypeNext, BatchNext, AckNext, PassedNext, LossNext DEF SpoolInv
<1>3. QED  BY <1>1, <1>2, PTL DEF Spec

(* The variables of the detection pipeline keep their types. *)
THEOREM TypeCorrect == Spec => []TypeOK
  BY SpoolInvariance, PTL DEF SpoolInv

(* No alert disappears silently on its way from a rule match to the forward loop
   (publish_alert, enqueue_at, drain_offline_queue), for every capacity, batch
   size, number of faults and number of crashes. *)
THEOREM NoSilentLossCorrect == Spec => []NoSilentLoss
  BY SpoolInvariance, PTL DEF SpoolInv

(* drain_offline_queue replays the rows of the open queue oldest first, across
   batches, broken-off drains, failed acks and restarts. *)
THEOREM ReplayFifoCorrect == Spec => ReplayFifo
<1> DEFINE Step == \A a \in rows : copies'[a] > copies[a] =>
                     \A b \in rows : b < a => b \in corrupt \/ copies[b] > 0
<1>1. SpoolInv /\ [Next]_vars => [Step]_vars
  <2> SUFFICES ASSUME SpoolInv, [Next]_vars, NEW a \in rows, copies'[a] > copies[a],
                      NEW b \in rows, b < a
               PROVE  b \in corrupt \/ copies[b] > 0
    OBVIOUS
  <2> USE DEF SpoolInv
  <2>1. copies \in [Alerts -> Nat] /\ rows \subseteq Alerts /\ a \in Alerts
    BY DEF TypeOK, rows
  <2>2. ~(copies' = copies)
    BY <2>1
  <2>3. ~publish_alert
    <3>1. publish_alert => raised \notin rows /\ raised \in Alerts
      BY RaisedAlert DEF publish_alert, RowsInv, Handling, rows
    <3>2. publish_alert => copies' = copies \/ copies' = [copies EXCEPT ![raised] = copies[raised] + 1]
      BY DEF publish_alert, answer_ok
    <3>3. QED  BY <2>1, <2>2, <3>1, <3>2
  <2>4. PICK x \in Alerts : ReplayItem(x)
    BY <2>2, <2>3, Zenon DEF Next, Process, vars, channel, Receive, maybe_respond, enqueue_insert,
       enqueue_evict, DrainTick, DiscardItem, AckItem, Stop, Arrive, OtherPublish, Forward,
       Shutdown, ForwardStops, Exit, Crash, die, Restart
  <2>5. /\ oldest(x, batch) /\ serverOpen
        /\ copies' = [copies EXCEPT ![x] = copies[x] + 1]
    BY <2>2, <2>4 DEF ReplayItem, answer_ok
  <2>6. a = x
    BY <2>1, <2>5
  <2>7. b \notin batch
    BY <2>1, <2>5, <2>6 DEF oldest, Alerts
  <2>8. QED  BY <2>5, <2>6, <2>7 DEF PassedInv, oldest
<1>2. QED
  BY <1>1, SpoolInvariance, PTL DEF Spec, ReplayFifo

-----------------------------------------------------------------------------
(* An alert that waits in a queue has been handed over only as often as an ack failed
   or the process died after the hand-over, but for the one whose ack is due; an alert
   that is still on its way to its first publish was never handed over. *)
CopiesInv ==
  /\ disk \cap mem = {}
  /\ \A a \in Alerts : copies[a] <= 1 + faults + crashes
  /\ \A a \in Alerts : a > raised \/ (a = raised /\ pc \in Handling) => copies[a] = 0
  /\ \A a \in disk \cup mem : ~(pc = "ack" /\ oldest(a, batch)) => copies[a] <= faults + crashes

(* Each of the two stores holds what it may, whichever of them is open. *)
allowed(s) == QueueCapacity + faults + crashes + (IF pc = "evict" /\ store = s THEN 1 ELSE 0)
SizeInv == Cardinality(disk) <= allowed("disk") /\ Cardinality(mem) <= allowed("memory")

(* The rows that survive an eviction fit the capacity: with the oldest of them, fewer
   than QueueCapacity are newer (offline_queue.rs, enqueue_at). *)
LEMMA KeptFits ==
  ASSUME TypeOK, IsFiniteSet(rows)
  PROVE  IsFiniteSet(kept) /\ Cardinality(kept) <= QueueCapacity
<1>1. kept \subseteq rows /\ rows \subseteq Nat
  BY DEF kept, rows, TypeOK, Alerts
<1>2. IsFiniteSet(kept)
  BY <1>1, FS_Subset, Zenon
<1>3. CASE kept = {}
  BY <1>2, <1>3, FS_EmptySet, QueueAssumption
<1>4. CASE kept # {}
  <2>1. \E m \in kept : \A y \in kept : ~(<<y, m>> \in OpToRel(<, Nat))
    BY <1>1, <1>4, WFMin, NatLessThanWellFounded, Zenon
  <2>2. PICK m \in kept : \A y \in kept : ~(y < m)
    BY <1>1, <2>1, Zenon DEF OpToRel
  <2> DEFINE N == {b \in rows : b > m}
  <2>3. kept \subseteq N \cup {m}
    BY <1>1, <2>2
  <2>4. IsFiniteSet(N) /\ Cardinality(N) \in Nat /\ Cardinality(N) < QueueCapacity
    <3>1. IsFiniteSet(N)  BY FS_Subset
    <3>2. newer(rows, m) < QueueCapacity  BY DEF kept
    <3>3. QED  BY <3>1, <3>2, FS_CardinalityType DEF newer
  <2> HIDE DEF N
  <2>5. IsFiniteSet(N \cup {m}) /\ Cardinality(N \cup {m}) <= Cardinality(N) + 1
    BY <2>4, FS_AddElement
  <2>6. Cardinality(kept) <= Cardinality(N \cup {m})
    BY <2>3, <2>5, FS_Subset
  <2>7. Cardinality(kept) \in Nat /\ Cardinality(N \cup {m}) \in Nat
    BY <1>2, <2>5, FS_CardinalityType
  <2>8. QED  BY <1>2, <2>4, <2>5, <2>6, <2>7, QueueAssumption
<1>5. QED  BY <1>3, <1>4

(* What an INSERT and a DELETE do to the size of a store. *)
LEMMA SizeFacts ==
  ASSUME TypeOK
  PROVE  /\ IsFiniteSet(disk) /\ IsFiniteSet(mem) /\ IsFiniteSet(rows)
         /\ \A a : Cardinality(rows \cup {a}) \in 0..Cardinality(rows) + 1
         /\ \A a : Cardinality(rows \ {a}) \in 0..Cardinality(rows)
         /\ Cardinality(kept) \in 0..QueueCapacity
<1>1. disk \subseteq 1..MaxAlerts /\ mem \subseteq 1..MaxAlerts /\ (rows = disk \/ rows = mem)
  BY DEF TypeOK, Alerts, rows
<1>2. IsFiniteSet(1..MaxAlerts)
  BY FS_Interval, QueueAssumption
<1>3. IsFiniteSet(disk) /\ IsFiniteSet(mem)
  BY <1>1, <1>2, FS_Subset, Zenon
<1>4. IsFiniteSet(rows) /\ Cardinality(rows) \in Nat
  BY <1>1, <1>3, FS_CardinalityType
<1>5. ASSUME NEW a PROVE /\ Cardinality(rows \cup {a}) \in 0..Cardinality(rows) + 1
                         /\ Cardinality(rows \ {a}) \in 0..Cardinality(rows)
  <2>1. IsFiniteSet(rows \cup {a}) /\ Cardinality(rows \cup {a}) <= Cardinality(rows) + 1
    BY <1>4, FS_AddElement
  <2>2. IsFiniteSet(rows \ {a}) /\ Cardinality(rows \ {a}) <= Cardinality(rows)
    BY <1>4, FS_RemoveElement
  <2>3. Cardinality(rows \cup {a}) \in Nat /\ Cardinality(rows \ {a}) \in Nat
    BY <2>1, <2>2, FS_CardinalityType
  <2>4. QED  BY <1>4, <2>1, <2>2, <2>3
<1>6. Cardinality(kept) \in 0..QueueCapacity
  <2>1. IsFiniteSet(kept) /\ Cardinality(kept) <= QueueCapacity
    BY <1>4, KeptFits
  <2>2. QED  BY <2>1, FS_CardinalityType, QueueAssumption
<1>7. QED  BY <1>3, <1>4, <1>5, <1>6, Zenon

(* Every step keeps CopiesInv. *)
LEMMA CopiesNext == TypeOK /\ NumOK /\ RowsInv /\ BatchInv /\ CopiesInv /\ [Next]_vars => CopiesInv'
<1> SUFFICES ASSUME TypeOK, NumOK, RowsInv, BatchInv, CopiesInv, [Next]_vars PROVE CopiesInv'
  OBVIOUS
<1> USE QueueAssumption DEF lde, rowsOf, channel, losses
<1>0. /\ copies \in [Alerts -> Nat] /\ faults \in Nat /\ crashes \in Nat /\ raised \in Nat
      /\ disk \subseteq Alerts /\ mem \subseteq Alerts /\ Alerts \subseteq Nat
      /\ batch \subseteq Nat /\ todo \in Nat /\ \A a \in Alerts : copies[a] \in Nat
  BY DEF TypeOK, NumOK, Alerts
<1>1. ASSUME NEW k \in 0..MaxAlerts, Receive(k) PROVE CopiesInv'
  BY <1>1, <1>0 DEF CopiesInv, RowsInv, Handling, Receive, oldest
<1>2. CASE maybe_respond
  BY <1>2, <1>0 DEF CopiesInv, RowsInv, Handling, maybe_respond, oldest
<1>3. CASE publish_alert
  <2>1. raised \in Alerts /\ raised \notin disk \cup mem /\ copies[raised] = 0
    BY <1>3, RaisedAlert DEF publish_alert, RowsInv, CopiesInv, Handling
  <2>2. CASE answer_ok(raised) /\ next_alert
    <3>1. copies' = copies \/ copies' = [copies EXCEPT ![raised] = copies[raised] + 1]
      BY <2>2 DEF answer_ok
    <3>2. /\ \A a \in Alerts : a # raised => copies'[a] = copies[a]
          /\ copies'[raised] \in {0, 1}
      BY <1>0, <2>1, <3>1
    <3>3. /\ (raised' = raised /\ pc' = "idle") \/ raised' = raised + 1
          /\ pc' \in {"idle", "respond"}
      BY <2>2 DEF next_alert
    <3>4. disk' = disk /\ mem' = mem /\ faults' = faults /\ crashes' = crashes
      BY <1>3 DEF publish_alert
    <3>5. ASSUME NEW a \in Alerts PROVE copies'[a] <= 1 + faults + crashes
      <4>1. CASE a = raised  BY <1>0, <3>2, <4>1
      <4>2. CASE a # raised  BY <3>2, <4>2 DEF CopiesInv
      <4>3. QED  BY <4>1, <4>2
    <3>6. ASSUME NEW a \in Alerts, a > raised PROVE copies'[a] = 0
      <4>1. a # raised  BY <1>0, <3>6
      <4>2. QED  BY <3>2, <3>6, <4>1 DEF CopiesInv
    <3>7. \A a \in disk \cup mem : copies'[a] <= faults + crashes
      BY <1>3, <1>0, <2>1, <3>2 DEF CopiesInv, publish_alert
    <3>8. \A a \in Alerts : a > raised' \/ (a = raised' /\ pc' \in Handling) => a > raised
      BY <1>0, <3>3 DEF Handling
    <3>9. QED  BY <3>4, <3>5, <3>6, <3>7, <3>8 DEF CopiesInv
  <2>3. CASE pc' = "insert" /\ UNCHANGED <<todo, raised, serverQ, copies, dropped>>
    BY <1>3, <1>0, <2>3 DEF CopiesInv, publish_alert, Handling
  <2>4. QED  BY <1>3, <2>2, <2>3 DEF publish_alert
<1>4. CASE enqueue_insert
  <2>1. raised \in Alerts /\ raised \notin disk \cup mem /\ copies[raised] = 0
    BY <1>4, RaisedAlert DEF enqueue_insert, RowsInv, CopiesInv, Handling
  <2>2. copies' = copies /\ crashes' = crashes
    BY <1>4 DEF enqueue_insert
  <2>3. CASE no_fault /\ set_rows(rows \cup {raised}) /\ pc' = "evict" /\ raised' = raised
    <3>1. faults' = faults /\ disk' \cup mem' = disk \cup mem \cup {raised} /\ disk' \cap mem' = {}
      BY <2>1, <2>3 DEF no_fault, set_rows, rows, CopiesInv
    <3>2. ASSUME NEW a \in disk' \cup mem' PROVE copies[a] <= faults + crashes
      <4>1. CASE a = raised  BY <1>0, <2>1, <4>1
      <4>2. CASE a # raised  BY <1>4, <3>1, <3>2, <4>2, Zenon DEF CopiesInv, enqueue_insert
      <4>3. QED  BY <4>1, <4>2
    <3>3. QED  BY <1>4, <2>2, <2>3, <3>1, <3>2 DEF CopiesInv, enqueue_insert, Handling
  <2>4. CASE fault /\ next_alert /\ UNCHANGED <<disk, mem>>
    BY <1>4, <1>0, <2>1, <2>2, <2>4, SMTT(20) DEF CopiesInv, fault, next_alert, enqueue_insert, Handling
  <2>5. QED  BY <1>4, <2>3, <2>4 DEF enqueue_insert
<1>5. CASE enqueue_evict
  <2>1. copies' = copies /\ crashes' = crashes /\ faults' \in {faults, faults + 1}
        /\ disk' \cup mem' \subseteq disk \cup mem /\ disk' \cap mem' = {}
    BY <1>5 DEF enqueue_evict, no_fault, fault, set_rows, kept, rows, CopiesInv
  <2>2. \A a \in Alerts : a > raised' \/ (a = raised' /\ pc' \in Handling) => a > raised
    BY <1>5, <1>0 DEF next_alert, enqueue_evict, Handling
  <2>3. \A a \in disk' \cup mem' : copies[a] <= faults + crashes
    BY <1>5, <2>1 DEF CopiesInv, enqueue_evict
  <2>4. CASE faults' = faults
    BY <2>1, <2>2, <2>3, <2>4 DEF CopiesInv
  <2>5. CASE faults' = faults + 1
    <3>1. \A a \in Alerts : copies[a] <= 1 + (faults + 1) + crashes
      BY <1>0 DEF CopiesInv
    <3>2. ASSUME NEW a \in disk' \cup mem' PROVE copies[a] <= (faults + 1) + crashes
      <4>1. copies[a] \in Nat /\ copies[a] <= faults + crashes  BY <1>0, <2>1, <2>3, <3>2, Zenon
      <4>2. QED  BY <1>0, <4>1
    <3>3. QED  BY <2>1, <2>2, <2>5, <3>1, <3>2 DEF CopiesInv
  <2>6. QED  BY <2>1, <2>4, <2>5
<1>6. CASE DrainTick
  BY <1>6, <1>0 DEF CopiesInv, RowsInv, Handling, DrainTick, peek_batch, oldest
<1>7. ASSUME NEW a \in Alerts, ReplayItem(a) PROVE CopiesInv'
  <2>1. oldest(a, batch) /\ a \in disk \cup mem /\ a \in Alerts /\ pc = "replay" /\ raised' = raised
        /\ disk' = disk /\ mem' = mem /\ faults' = faults /\ crashes' = crashes
    BY <1>7, <1>0 DEF ReplayItem, oldest, BatchInv, rows
  <2>2. CASE answer_ok(a) /\ pc' = "ack" /\ batch' = batch
    <3>1. copies' = copies \/ copies' = [copies EXCEPT ![a] = copies[a] + 1]
      BY <2>2 DEF answer_ok
    <3>2. /\ \A b \in Alerts : b # a => copies'[b] = copies[b]
          /\ copies'[a] \in {copies[a], copies[a] + 1}
      BY <1>0, <2>1, <3>1
    <3>3. copies[a] <= faults + crashes /\ a <= raised /\ oldest(a, batch)'
      BY <1>0, <2>1, <2>2 DEF CopiesInv, RowsInv, oldest
    <3>4. ASSUME NEW b \in Alerts PROVE copies'[b] <= 1 + faults + crashes
      <4>1. CASE b = a
        <5>1. copies[a] <= 1 + faults + crashes /\ copies[a] + 1 <= 1 + faults + crashes
          BY <1>0, <2>1, <3>3
        <5>2. QED  BY <3>2, <4>1, <5>1
      <4>2. CASE b # a  BY <3>2, <4>2 DEF CopiesInv
      <4>3. QED  BY <4>1, <4>2
    <3>5. \A b \in Alerts : b > raised => copies'[b] = 0
      BY <1>0, <3>2, <3>3 DEF CopiesInv
    <3>6. \A b \in disk \cup mem : b # a => copies'[b] <= faults + crashes
      BY <1>0, <2>1, <3>2 DEF CopiesInv
    <3>7. QED  BY <2>1, <2>2, <3>3, <3>4, <3>5, <3>6 DEF CopiesInv, Handling
  <2>3. CASE pc' = "idle" /\ UNCHANGED copies
    BY <1>0, <2>1, <2>3 DEF CopiesInv, Handling
  <2>4. QED  BY <1>7, <2>2, <2>3 DEF ReplayItem
<1>8. ASSUME NEW a \in Alerts, DiscardItem(a) PROVE CopiesInv'
  <2>1. oldest(a, batch) /\ a \in rows /\ batch' = batch \ {a} /\ pc' \in {"idle", "replay"}
        /\ copies' = copies /\ crashes' = crashes /\ raised' = raised
    BY <1>8 DEF DiscardItem, next_item, oldest, BatchInv
  <2>2. \A b : oldest(b, batch) => b = a
    BY <2>1, <1>0 DEF oldest, BatchInv
  <2>3. CASE no_fault /\ set_rows(rows \ {a})
    <3>1. faults' = faults /\ disk' \cup mem' \subseteq (disk \cup mem) \ {a} /\ disk' \cap mem' = {}
      BY <2>1, <2>3 DEF no_fault, set_rows, rows, CopiesInv
    <3>2. \A b \in disk' \cup mem' : copies[b] <= faults + crashes
      BY <2>1, <2>2, <3>1 DEF CopiesInv
    <3>3. QED  BY <1>8, <1>0, <2>1, <3>1, <3>2 DEF CopiesInv, DiscardItem, Handling
  <2>4. CASE fault /\ UNCHANGED <<disk, mem>>
    BY <1>8, <1>0, <2>1, <2>4, SMTT(20) DEF CopiesInv, fault, DiscardItem, Handling
  <2>5. QED  BY <1>8, <2>3, <2>4 DEF DiscardItem, ack
<1>9. ASSUME NEW a \in Alerts, AckItem(a) PROVE CopiesInv'
  <2>1. oldest(a, batch) /\ a \in rows /\ batch' = batch \ {a} /\ pc' \in {"idle", "replay"}
        /\ copies' = copies /\ crashes' = crashes /\ raised' = raised
    BY <1>9 DEF AckItem, next_item, oldest, BatchInv
  <2>2. \A b : oldest(b, batch) => b = a
    BY <2>1, <1>0 DEF oldest, BatchInv
  <2>3. CASE no_fault /\ set_rows(rows \ {a})
    <3>1. faults' = faults /\ disk' \cup mem' \subseteq (disk \cup mem) \ {a} /\ disk' \cap mem' = {}
      BY <2>1, <2>3 DEF no_fault, set_rows, rows, CopiesInv
    <3>2. \A b \in disk' \cup mem' : copies[b] <= faults + crashes
      BY <2>1, <2>2, <3>1 DEF CopiesInv
    <3>3. QED  BY <1>9, <1>0, <2>1, <3>1, <3>2, SMTT(20) DEF CopiesInv, AckItem, Handling
  <2>4. CASE fault /\ UNCHANGED <<disk, mem>>
    BY <1>9, <1>0, <2>1, <2>4, SMTT(20) DEF CopiesInv, fault, AckItem, Handling
  <2>5. QED  BY <1>9, <2>3, <2>4 DEF AckItem, ack
<1>10. CASE Stop
  BY <1>10, <1>0 DEF CopiesInv, RowsInv, Handling, Stop, oldest
<1>11. CASE Arrive
  BY <1>11, <1>0 DEF CopiesInv, RowsInv, Handling, Arrive, oldest
<1>12. CASE OtherPublish
  BY <1>12, <1>0 DEF CopiesInv, RowsInv, Handling, OtherPublish, has_room, oldest
<1>13. CASE Forward
  BY <1>13, <1>0 DEF CopiesInv, RowsInv, Handling, Forward, oldest
<1>14. CASE Shutdown
  BY <1>14, <1>0, SMTT(20) DEF CopiesInv, RowsInv, Handling, Shutdown, oldest
<1>15. CASE ForwardStops
  BY <1>15, <1>0 DEF CopiesInv, RowsInv, Handling, ForwardStops, oldest
<1>16. CASE Exit
  BY <1>16, <1>0 DEF CopiesInv, RowsInv, Handling, Exit, die, oldest
<1>17. CASE Crash
  BY <1>17, <1>0, SMTT(20) DEF CopiesInv, RowsInv, Handling, Crash, die, oldest
<1>18. CASE Restart
  BY <1>18, <1>0, SMTT(20) DEF CopiesInv, RowsInv, Handling, Restart, fault, no_fault, oldest
<1>19. CASE UNCHANGED vars
  BY <1>19 DEF CopiesInv, RowsInv, Handling, oldest, vars
<1>20. QED
  BY <1>1, <1>2, <1>3, <1>4, <1>5, <1>6, <1>7, <1>8, <1>9, <1>10,
     <1>11, <1>12, <1>13, <1>14, <1>15, <1>16, <1>17, <1>18, <1>19 DEF Next, Process

(* Every step keeps SizeInv. *)
LEMMA SizeNext == TypeOK /\ SizeInv /\ [Next]_vars => SizeInv'
<1> SUFFICES ASSUME TypeOK, SizeInv, [Next]_vars PROVE SizeInv'
  OBVIOUS
<1> USE QueueAssumption DEF lde, rowsOf, channel, losses
<1>0. /\ Cardinality(disk) \in Nat /\ Cardinality(mem) \in Nat /\ Cardinality(rows) \in Nat
      /\ faults \in Nat /\ crashes \in Nat /\ QueueCapacity \in Nat /\ store \in {"disk", "memory"}
  BY SizeFacts, FS_CardinalityType, SMTT(20) DEF TypeOK
<1>1. ASSUME NEW k \in 0..MaxAlerts, Receive(k) PROVE SizeInv'
  BY <1>1, <1>0 DEF SizeInv, allowed, Receive
<1>2. CASE maybe_respond
  BY <1>2, <1>0 DEF SizeInv, allowed, maybe_respond
<1>3. CASE publish_alert
  BY <1>3, <1>0 DEF SizeInv, allowed, publish_alert, next_alert
<1>4. CASE enqueue_insert
  <2> DEFINE C == rows \cup {raised}
             X == QueueCapacity + faults + crashes + 1
             Y == QueueCapacity + faults + crashes
  <2>1. CASE no_fault /\ set_rows(C) /\ pc' = "evict" /\ UNCHANGED <<store, crashes>>
    <3>1. Cardinality(C) \in 0..Cardinality(rows) + 1
      BY SizeFacts, Zenon
    <3> HIDE DEF C
    <3>2. Cardinality(C) <= X
      BY <1>4, <1>0, <3>1 DEF SizeInv, allowed, rows, enqueue_insert
    <3>3. CASE store = "disk"
      <4>1. disk' = C /\ mem' = mem /\ allowed("disk")' = X /\ allowed("memory")' = Y
        BY <1>0, <2>1, <3>3 DEF set_rows, no_fault, allowed
      <4>2. Cardinality(mem) <= Y
        BY <1>0, <3>3 DEF SizeInv, allowed
      <4>3. QED  BY <3>2, <4>1, <4>2 DEF SizeInv
    <3>4. CASE store = "memory"
      <4>1. mem' = C /\ disk' = disk /\ allowed("memory")' = X /\ allowed("disk")' = Y
        BY <1>0, <2>1, <3>4 DEF set_rows, no_fault, allowed
      <4>2. Cardinality(disk) <= Y
        BY <1>0, <3>4 DEF SizeInv, allowed
      <4>3. QED  BY <3>2, <4>1, <4>2 DEF SizeInv
    <3>5. QED  BY <1>0, <3>3, <3>4
  <2>2. CASE fault /\ UNCHANGED <<disk, mem>> /\ next_alert /\ UNCHANGED <<store, crashes>>
    <3>1. allowed("disk")' = Y + 1 /\ allowed("memory")' = Y + 1 /\ disk' = disk /\ mem' = mem
      BY <1>0, <2>2 DEF fault, allowed, next_alert
    <3>2. Cardinality(disk) <= Y + 1 /\ Cardinality(mem) <= Y + 1
      BY <1>0 DEF SizeInv, allowed
    <3>3. QED  BY <3>1, <3>2 DEF SizeInv
  <2>3. QED  BY <1>4, <2>1, <2>2 DEF enqueue_insert
<1>5. CASE enqueue_evict
  <2> DEFINE C == kept
             X == QueueCapacity + faults + crashes
             Y == QueueCapacity + faults + crashes
  <2>1. CASE no_fault /\ set_rows(C)
    <3>1. Cardinality(C) \in 0..QueueCapacity
      BY SizeFacts
    <3> HIDE DEF C
    <3>2. Cardinality(C) <= X
      BY <1>5, <1>0, <3>1 DEF SizeInv, allowed, rows, enqueue_evict
    <3>3. CASE store = "disk"
      <4>1. disk' = C /\ mem' = mem /\ allowed("disk")' = X /\ allowed("memory")' = Y
        BY <1>5, <1>0, <2>1, <3>3, SMTT(20) DEF enqueue_evict, next_alert, set_rows, no_fault, allowed
      <4>2. Cardinality(mem) <= Y
        BY <1>0, <3>3 DEF SizeInv, allowed
      <4>3. QED  BY <3>2, <4>1, <4>2 DEF SizeInv
    <3>4. CASE store = "memory"
      <4>1. mem' = C /\ disk' = disk /\ allowed("memory")' = X /\ allowed("disk")' = Y
        BY <1>5, <1>0, <2>1, <3>4, SMTT(20) DEF enqueue_evict, next_alert, set_rows, no_fault, allowed
      <4>2. Cardinality(disk) <= Y
        BY <1>0, <3>4 DEF SizeInv, allowed
      <4>3. QED  BY <3>2, <4>1, <4>2, SMTT(20) DEF SizeInv
    <3>5. QED  BY <1>0, <3>3, <3>4
  <2>2. CASE fault /\ UNCHANGED <<disk, mem>>
    <3>1. allowed("disk")' = Y + 1 /\ allowed("memory")' = Y + 1 /\ disk' = disk /\ mem' = mem
      BY <1>5, <1>0, <2>2 DEF fault, allowed, enqueue_evict, next_alert
    <3>2. Cardinality(disk) <= Y + 1 /\ Cardinality(mem) <= Y + 1
      BY <1>0 DEF SizeInv, allowed
    <3>3. QED  BY <3>1, <3>2 DEF SizeInv
  <2>3. QED  BY <1>5, <2>1, <2>2 DEF enqueue_evict
<1>6. CASE DrainTick
  BY <1>6, <1>0 DEF SizeInv, allowed, DrainTick
<1>7. ASSUME NEW a \in Alerts, ReplayItem(a) PROVE SizeInv'
  BY <1>7, <1>0 DEF SizeInv, allowed, ReplayItem
<1>8. ASSUME NEW a \in Alerts, DiscardItem(a) PROVE SizeInv'
  <2> DEFINE C == rows \ {a}
             X == QueueCapacity + faults + crashes
             Y == QueueCapacity + faults + crashes
  <2>1. CASE no_fault /\ set_rows(C)
    <3>1. Cardinality(C) \in 0..Cardinality(rows)
      BY SizeFacts
    <3> HIDE DEF C
    <3>2. Cardinality(C) <= X
      BY <1>8, <1>0, <3>1 DEF SizeInv, allowed, rows, DiscardItem
    <3>3. CASE store = "disk"
      <4>1. disk' = C /\ mem' = mem /\ allowed("disk")' = X /\ allowed("memory")' = Y
        BY <1>8, <1>0, <2>1, <3>3 DEF DiscardItem, next_item, set_rows, no_fault, allowed
      <4>2. Cardinality(mem) <= Y
        BY <1>0, <3>3 DEF SizeInv, allowed
      <4>3. QED  BY <3>2, <4>1, <4>2 DEF SizeInv
    <3>4. CASE store = "memory"
      <4>1. mem' = C /\ disk' = disk /\ allowed("memory")' = X /\ allowed("disk")' = Y
        BY <1>8, <1>0, <2>1, <3>4 DEF DiscardItem, next_item, set_rows, no_fault, allowed
      <4>2. Cardinality(disk) <= Y
        BY <1>0, <3>4 DEF SizeInv, allowed
      <4>3. QED  BY <3>2, <4>1, <4>2 DEF SizeInv
    <3>5. QED  BY <1>0, <3>3, <3>4
  <2>2. CASE fault /\ UNCHANGED <<disk, mem>>
    <3>1. allowed("disk")' = Y + 1 /\ allowed("memory")' = Y + 1 /\ disk' = disk /\ mem' = mem
      BY <1>8, <1>0, <2>2, SMTT(20) DEF fault, allowed, DiscardItem, next_item
    <3>2. Cardinality(disk) <= Y + 1 /\ Cardinality(mem) <= Y + 1
      BY <1>0 DEF SizeInv, allowed
    <3>3. QED  BY <3>1, <3>2 DEF SizeInv
  <2>3. QED  BY <1>8, <2>1, <2>2 DEF DiscardItem, ack
<1>9. ASSUME NEW a \in Alerts, AckItem(a) PROVE SizeInv'
  <2> DEFINE C == rows \ {a}
             X == QueueCapacity + faults + crashes
             Y == QueueCapacity + faults + crashes
  <2>1. CASE no_fault /\ set_rows(C)
    <3>1. Cardinality(C) \in 0..Cardinality(rows)
      BY SizeFacts
    <3> HIDE DEF C
    <3>2. Cardinality(C) <= X
      BY <1>9, <1>0, <3>1, SMTT(20) DEF SizeInv, allowed, rows, AckItem
    <3>3. CASE store = "disk"
      <4>1. disk' = C /\ mem' = mem /\ allowed("disk")' = X /\ allowed("memory")' = Y
        BY <1>9, <1>0, <2>1, <3>3, SMTT(20) DEF AckItem, next_item, set_rows, no_fault, allowed
      <4>2. Cardinality(mem) <= Y
        BY <1>0, <3>3 DEF SizeInv, allowed
      <4>3. QED  BY <3>2, <4>1, <4>2 DEF SizeInv
    <3>4. CASE store = "memory"
      <4>1. mem' = C /\ disk' = disk /\ allowed("memory")' = X /\ allowed("disk")' = Y
        BY <1>9, <1>0, <2>1, <3>4, SMTT(20) DEF AckItem, next_item, set_rows, no_fault, allowed
      <4>2. Cardinality(disk) <= Y
        BY <1>0, <3>4 DEF SizeInv, allowed
      <4>3. QED  BY <3>2, <4>1, <4>2 DEF SizeInv
    <3>5. QED  BY <1>0, <3>3, <3>4
  <2>2. CASE fault /\ UNCHANGED <<disk, mem>>
    <3>1. allowed("disk")' = Y + 1 /\ allowed("memory")' = Y + 1 /\ disk' = disk /\ mem' = mem
      BY <1>9, <1>0, <2>2, SMTT(20) DEF fault, allowed, AckItem, next_item
    <3>2. Cardinality(disk) <= Y + 1 /\ Cardinality(mem) <= Y + 1
      BY <1>0 DEF SizeInv, allowed
    <3>3. QED  BY <3>1, <3>2 DEF SizeInv
  <2>3. QED  BY <1>9, <2>1, <2>2, SMTT(20) DEF AckItem, ack
<1>10. CASE Stop
  BY <1>10, <1>0 DEF SizeInv, allowed, Stop
<1>11. CASE Arrive
  BY <1>11, <1>0 DEF SizeInv, allowed, Arrive
<1>12. CASE OtherPublish
  BY <1>12, <1>0 DEF SizeInv, allowed, OtherPublish
<1>13. CASE Forward
  BY <1>13, <1>0 DEF SizeInv, allowed, Forward
<1>14. CASE Shutdown
  BY <1>14, <1>0 DEF SizeInv, allowed, Shutdown
<1>15. CASE ForwardStops
  BY <1>15, <1>0 DEF SizeInv, allowed, ForwardStops
<1>16. CASE Exit
  <2> DEFINE X == QueueCapacity + faults + crashes
  <2>1. pc # "evict" => Cardinality(disk) <= X
    BY <1>0 DEF SizeInv, allowed
  <2>2. X \in Nat /\ Cardinality(disk) <= X + 1
    BY <1>0 DEF SizeInv, allowed
  <2>3. disk' = disk /\ mem' = {} /\ pc' = "down" /\ faults' = faults /\ crashes' = crashes
    BY <1>16 DEF Exit, die
  <2>4. allowed("disk")' = X /\ allowed("memory")' = X
    BY <1>0, <2>3 DEF allowed
  <2>5. Cardinality(mem') = 0 /\ Cardinality(disk') <= X
    BY <1>16, <1>0, <2>1, <2>2, <2>3, FS_EmptySet, SMTT(20) DEF Exit
  <2> QED
    BY <2>2, <2>4, <2>5 DEF SizeInv
<1>17. CASE Crash
  <2> DEFINE X == QueueCapacity + faults + crashes
  <2>1. pc # "evict" => Cardinality(disk) <= X
    BY <1>0 DEF SizeInv, allowed
  <2>2. X \in Nat /\ Cardinality(disk) <= X + 1
    BY <1>0 DEF SizeInv, allowed
  <2>3. disk' = disk /\ mem' = {} /\ pc' = "down" /\ faults' = faults /\ crashes' = crashes + 1
    BY <1>17 DEF Crash, die
  <2>4. allowed("disk")' = X + 1 /\ allowed("memory")' = X + 1
    BY <1>0, <2>3 DEF allowed
  <2>5. Cardinality(mem') = 0 /\ Cardinality(disk') <= X + 1
    BY <1>17, <1>0, <2>1, <2>2, <2>3, FS_EmptySet, SMTT(20) DEF Crash
  <2> QED
    BY <2>2, <2>4, <2>5, SMTT(20) DEF SizeInv
<1>18. CASE Restart
  BY <1>18, <1>0 DEF SizeInv, allowed, Restart, fault, no_fault
<1>19. CASE UNCHANGED vars
  BY <1>19 DEF SizeInv, allowed, vars
<1>20. QED
  BY <1>1, <1>2, <1>3, <1>4, <1>5, <1>6, <1>7, <1>8, <1>9, <1>10,
     <1>11, <1>12, <1>13, <1>14, <1>15, <1>16, <1>17, <1>18, <1>19 DEF Next, Process

(* An alert is handed over twice, and the queue outgrows its capacity, only as often as
   a fault or a crash explains (drain_offline_queue, enqueue_at), for every capacity,
   batch size and number of faults and crashes. *)
THEOREM ExcessHasACauseCorrect == Spec => []ExcessHasACause
<1>1. Init => CopiesInv /\ SizeInv
  BY FS_EmptySet, QueueAssumption DEF Init, CopiesInv, SizeInv, allowed, Alerts, Handling
<1>2. SpoolInv /\ CopiesInv /\ SizeInv /\ [Next]_vars => CopiesInv' /\ SizeInv'
  BY CopiesNext, SizeNext DEF SpoolInv
<1>3. SpoolInv /\ CopiesInv /\ SizeInv => ExcessHasACause
  BY DEF SpoolInv, TypeOK, CopiesInv, SizeInv, allowed, ExcessHasACause, rows
<1>4. QED  BY <1>1, <1>2, <1>3, SpoolInvariance, PTL DEF Spec

=============================================================================
