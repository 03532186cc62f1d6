--------------------------- MODULE EventBusProofs ---------------------------
(* TLAPS proofs about EventBus, for any publishers, subscribers, capacities
   and number of events. *)
EXTENDS EventBus, SequenceTheorems, TLAPS

(* A sequence over 1..n is one over 1..m for every larger m. *)
LEMMA SeqMono ==
  ASSUME NEW n \in Nat, NEW m \in Nat, n <= m, NEW q \in Seq(1..n)
  PROVE  q \in Seq(1..m)
BY 1..n \subseteq 1..m, SeqMonotonic

(* The initial state has its type. *)
LEMMA TypeInit == Init => TypeOK
BY BusAssumption, EmptySeq DEF Init, TypeOK, Issued, NoCall, Answers

(* Creating an event lengthens events by one entry and leaves the old ones. *)
LEMMA CreateType ==
  ASSUME TypeOK, NEW p \in Publishers, NEW a \in Answers, create(p, a)
  PROVE  /\ events' \in Seq([by : Publishers, answer : Answers])
         /\ Len(events') = Len(events) + 1
         /\ events'[Len(events) + 1] = [by |-> p, answer |-> a]
         /\ \A e \in Issued : events'[e] = events[e]
BY AppendProperties DEF TypeOK, create, Issued

(* A broadcast appends the event when someone listens. *)
LEMMA BroadcastType ==
  ASSUME TypeOK, NEW S, log \in Seq(S), NEW e \in S, broadcast(e)
  PROVE  /\ log' \in Seq(S)
         /\ Len(log') \in {Len(log), Len(log) + 1}
         /\ \A i \in 1..Len(log) : log'[i] = log[i]
         /\ Receivers # {} => Len(log') = Len(log) + 1 /\ log'[Len(log) + 1] = e
         /\ Receivers = {} => log' = log
BY AppendProperties DEF broadcast

(* The cursors and the delivered positions stay in range when the broadcast
   and the number of events grow. *)
LEMMA RangesGrow ==
  ASSUME TypeOK, Len(log') \in {Len(log), Len(log) + 1}, log' \in Seq(Issued'),
         Len(events') \in {Len(events), Len(events) + 1}
  PROVE  /\ next \in [Subscribers -> 0..Len(log') + 1]
         /\ got \in [Subscribers -> SUBSET (1..Len(log'))]
         /\ since \in [Subscribers -> 0..Len(events')]
         /\ calls \in [Publishers -> {NoCall} \cup Issued']
<1>1. Len(log) \in Nat /\ Len(events) \in Nat
  BY DEF TypeOK
<1>2. 1..Len(log) \subseteq 1..Len(log')
  BY <1>1
<1>3. got \in [Subscribers -> SUBSET (1..Len(log'))]
  BY <1>2 DEF TypeOK
<1> QED
  BY <1>1, <1>3 DEF TypeOK, Issued

(* Every step keeps the types. *)
LEMMA TypeNext == TypeOK /\ [Next]_vars => TypeOK'
<1> SUFFICES ASSUME TypeOK, [Next]_vars PROVE TypeOK'
  OBVIOUS
<1> USE BusAssumption
<1>1. ASSUME NEW s \in Subscribers, Subscribe(s) PROVE TypeOK'
  BY <1>1 DEF Subscribe, TypeOK, Issued, NoCall, Answers
<1>2. ASSUME NEW s \in Subscribers, DropReceiver(s) PROVE TypeOK'
  BY <1>2 DEF DropReceiver, TypeOK, Issued, NoCall, Answers
<1>3. ASSUME NEW s \in Subscribers, Lagged(s) PROVE TypeOK'
  <2>1. Len(log) \in Nat /\ Oldest \in 0..Len(log) + 1
    BY DEF TypeOK, Oldest
  <2>2. next' \in [Subscribers -> 0..Len(log) + 1]
    BY <1>3, <2>1 DEF Lagged, TypeOK
  <2> QED
    BY <1>3, <2>2 DEF Lagged, TypeOK, Issued, NoCall, Answers
<1>4. ASSUME NEW s \in Subscribers, Recv(s) PROVE TypeOK'
  <2>1. Len(log) \in Nat /\ next[s] \in 1..Len(log)
    BY <1>4 DEF Recv, Oldest, TypeOK
  <2>2. next' \in [Subscribers -> 0..Len(log) + 1]
    BY <1>4, <2>1 DEF Recv, TypeOK
  <2>3. got' \in [Subscribers -> SUBSET (1..Len(log))]
    BY <1>4, <2>1 DEF Recv, TypeOK
  <2> QED
    BY <1>4, <2>2, <2>3, Zenon DEF Recv, TypeOK, Issued, NoCall, Answers
<1>5. ASSUME NEW p \in Publishers, Publish(p) PROVE TypeOK'
  <2>1. /\ events' \in Seq([by : Publishers, answer : Answers])
        /\ Len(events') = Len(events) + 1
    BY <1>5, CreateType, Zenon DEF Publish, Answers
  <2>2. /\ log \in Seq(Issued') /\ serverQ \in Seq(Issued') /\ taken \in Seq(Issued')
        /\ Len(events) \in Nat /\ NewEvent \in Issued'
    BY <2>1, SeqMono DEF TypeOK, Issued, NewEvent
  <2>3. log' \in Seq(Issued') /\ Len(log') \in {Len(log), Len(log) + 1}
    BY <1>5, <2>2, BroadcastType DEF Publish
  <2> QED
    BY <1>5, <2>1, <2>2, <2>3, RangesGrow, Zenon DEF Publish, TypeOK, Issued, NoCall, Answers
<1>6. ASSUME NEW p \in Publishers, TrySend(p) PROVE TypeOK'
  <2>1. /\ events' \in Seq([by : Publishers, answer : Answers])
        /\ Len(events') = Len(events) + 1
    BY <1>6, CreateType, Zenon DEF TrySend, Answers
  <2>2. /\ log \in Seq(Issued') /\ serverQ \in Seq(Issued') /\ taken \in Seq(Issued')
        /\ Len(events) \in Nat /\ NewEvent \in Issued'
    BY <2>1, SeqMono DEF TypeOK, Issued, NewEvent
  <2>3. serverQ' \in Seq(Issued') /\ Len(serverQ') <= ServerQueueSize
    <3>1. \/ serverQ' = serverQ
          \/ Len(serverQ) < ServerQueueSize /\ serverQ' = Append(serverQ, NewEvent)
      BY <1>6 DEF TrySend, has_room
    <3>2. Len(serverQ) \in Nat /\ Len(serverQ) <= ServerQueueSize
      BY DEF TypeOK
    <3>3. CASE serverQ' = serverQ
      BY <2>2, <3>2, <3>3
    <3>4. CASE Len(serverQ) < ServerQueueSize /\ serverQ' = Append(serverQ, NewEvent)
      <4>1. serverQ' \in Seq(Issued') /\ Len(serverQ') = Len(serverQ) + 1
        BY <2>2, <3>4, AppendProperties
      <4> QED
        BY <3>2, <3>4, <4>1
    <3> QED
      BY <3>1, <3>3, <3>4
  <2>4. log' = log /\ log' \in Seq(Issued') /\ Len(events') \in {Len(events), Len(events) + 1}
    BY <1>6, <2>1, <2>2 DEF TrySend
  <2>5. /\ calls' \in [Publishers -> {NoCall} \cup Issued']
        /\ since' \in [Subscribers -> 0..Len(events')]
    BY <1>6, <2>2, <2>4, RangesGrow DEF TrySend
  <2> QED
    BY <1>6, <2>1, <2>2, <2>3, <2>5 DEF TrySend, TypeOK, Issued, NoCall, Answers
<1>7. ASSUME NEW p \in Publishers, Broadcast(p) PROVE TypeOK'
  <2>1. log' \in Seq(Issued) /\ Len(log') \in {Len(log), Len(log) + 1}
    BY <1>7, BroadcastType DEF Broadcast, TypeOK, NoCall
  <2> QED
    BY <1>7, <2>1, RangesGrow DEF Broadcast, TypeOK, Issued, NoCall, Answers
<1>8. CASE ServerRecv
  <2>1. /\ serverQ' \in Seq(Issued) /\ Len(serverQ') <= ServerQueueSize
        /\ taken' \in Seq(Issued)
    BY <1>8, HeadTailProperties, AppendProperties DEF ServerRecv, TypeOK
  <2> QED
    BY <1>8, <2>1 DEF ServerRecv, TypeOK, Issued, NoCall, Answers
<1>9. CASE DropServerRx
  <2>1. serverQ' \in Seq(Issued) /\ Len(serverQ') <= ServerQueueSize
    BY <1>9, EmptySeq DEF DropServerRx
  <2>2. serverOpen' \in BOOLEAN
    BY <1>9, Zenon DEF DropServerRx
  <2> QED
    BY <1>9, <2>1, <2>2 DEF DropServerRx, TypeOK, Issued, NoCall, Answers
<1>10. CASE UNCHANGED vars
  BY <1>10 DEF vars, TypeOK, Issued, NoCall, Answers
<1> QED
  BY <1>1, <1>2, <1>3, <1>4, <1>5, <1>6, <1>7, <1>8, <1>9, <1>10 DEF Next

(* Every reachable state of the bus is well typed; in particular the server
   channel never holds more than ServerQueueSize events and no cursor passes
   the end of the broadcast. *)
THEOREM TypeCorrect == Spec => []TypeOK
BY TypeInit, TypeNext, PTL DEF Spec

-----------------------------------------------------------------------------
(* The strengthening.  A cursor lies past the position it subscribed at ...  *)
CursorInv ==
  \A s \in Subscribers : subscribed(s) => from[s] >= 1 /\ from[s] <= next[s]

(* ... and the event of an unfinished call belongs to the caller, has not been
   broadcast, and is newer than all the caller has broadcast. *)
CallInv ==
  \A p \in Publishers : calls[p] # NoCall =>
    /\ events[calls[p]].by = p
    /\ \A i \in 1..Len(log) :
         log[i] # calls[p] /\ (events[log[i]].by = p => log[i] < calls[p])

(* Every step keeps a cursor at or after the first position of its subscription. *)
LEMMA CursorNext ==
  ASSUME TypeOK, CursorInv, [Next]_vars
  PROVE  CursorInv'
<1> USE BusAssumption
<1>0. Len(log) \in Nat /\ Oldest \in Nat
  BY DEF TypeOK, Oldest
<1>1. ASSUME NEW s \in Subscribers, Subscribe(s) PROVE CursorInv'
  BY <1>0, <1>1 DEF Subscribe, TypeOK, CursorInv, subscribed
<1>2. ASSUME NEW s \in Subscribers, DropReceiver(s) PROVE CursorInv'
  BY <1>0, <1>2 DEF DropReceiver, TypeOK, CursorInv, subscribed
<1>3. ASSUME NEW s \in Subscribers, Lagged(s) PROVE CursorInv'
  BY <1>0, <1>3 DEF Lagged, TypeOK, CursorInv, subscribed
<1>4. ASSUME NEW s \in Subscribers, Recv(s) PROVE CursorInv'
  BY <1>0, <1>4 DEF Recv, TypeOK, CursorInv, subscribed
<1>5. CASE UNCHANGED <<next, from>>
  BY <1>5 DEF CursorInv, subscribed
<1> QED
  BY <1>1, <1>2, <1>3, <1>4, <1>5
  DEF Next, vars, Publish, TrySend, Broadcast, ServerRecv, DropServerRx

(* The broadcast only grows, and with it the ring only moves forward. *)
LEMMA OldestGrows ==
  ASSUME TypeOK, [Next]_vars
  PROVE  /\ Len(log') \in {Len(log), Len(log) + 1}
         /\ \A i \in 1..Len(log) : log'[i] = log[i]
         /\ Oldest \in Nat /\ Oldest' \in Nat /\ Oldest <= Oldest'
<1> DEFINE Grows == /\ Len(log') \in {Len(log), Len(log) + 1}
                    /\ \A i \in 1..Len(log) : log'[i] = log[i]
<1>1. ASSUME NEW p \in Publishers, Publish(p) PROVE Grows
  <2>1. events' \in Seq([by : Publishers, answer : Answers]) /\ Len(events') = Len(events) + 1
    BY <1>1, CreateType, Zenon DEF Publish, Answers
  <2>2. log \in Seq(Issued') /\ NewEvent \in Issued'
    BY <2>1, SeqMono DEF TypeOK, Issued, NewEvent
  <2> QED
    BY <1>1, <2>2, BroadcastType DEF Publish
<1>2. ASSUME NEW p \in Publishers, Broadcast(p) PROVE Grows
  BY <1>2, BroadcastType DEF Broadcast, TypeOK, NoCall
<1>3. ASSUME log' = log PROVE Grows
  BY <1>3
<1>4. Grows
  BY <1>1, <1>2, <1>3
  DEF Next, vars, Subscribe, DropReceiver, Lagged, Recv, TrySend, ServerRecv, DropServerRx
<1>5. Len(log) \in Nat /\ Len(log') \in Nat /\ Len(log) <= Len(log')
  BY <1>4 DEF TypeOK
<1>6. Oldest \in Nat /\ Oldest' \in Nat /\ Oldest <= Oldest'
  BY <1>5, BusAssumption DEF Oldest
<1> QED
  BY <1>4, <1>6

(* A receiver misses only overwritten positions. *)
LEMMA NoGapNext ==
  ASSUME TypeOK, CursorInv, NoGapUnlessOverwritten, [Next]_vars
  PROVE  NoGapUnlessOverwritten'
<1> USE BusAssumption
<1>0. Oldest \in Nat /\ Oldest' \in Nat /\ Oldest <= Oldest' /\ Len(log) \in Nat
  BY OldestGrows DEF TypeOK
<1>1. ASSUME NEW s \in Subscribers, Subscribe(s) PROVE NoGapUnlessOverwritten'
  BY <1>0, <1>1 DEF Subscribe, TypeOK, NoGapUnlessOverwritten, subscribed, Oldest
<1>2. ASSUME NEW s \in Subscribers, DropReceiver(s) PROVE NoGapUnlessOverwritten'
  BY <1>0, <1>2 DEF DropReceiver, TypeOK, NoGapUnlessOverwritten, subscribed, Oldest
<1>3. ASSUME NEW s \in Subscribers, Lagged(s) PROVE NoGapUnlessOverwritten'
  <2>1. Oldest' = Oldest
    BY <1>3 DEF Lagged, Oldest
  <2>2. next[s] \in Nat /\ from[s] \in Nat
    BY <1>3 DEF TypeOK
  <2> QED
    BY <1>0, <1>3, <2>1, <2>2 DEF Lagged, TypeOK, NoGapUnlessOverwritten, subscribed
<1>4. ASSUME NEW s \in Subscribers, Recv(s) PROVE NoGapUnlessOverwritten'
  <2>1. Oldest' = Oldest
    BY <1>4 DEF Recv, Oldest
  <2>2. next[s] \in Nat /\ from[s] \in Nat /\ from[s] <= next[s]
    BY <1>4 DEF TypeOK, CursorInv, Recv
  <2> QED
    BY <1>0, <1>4, <2>1, <2>2 DEF Recv, TypeOK, NoGapUnlessOverwritten, subscribed
<1>5. CASE UNCHANGED <<next, from, got>>
  BY <1>0, <1>5 DEF NoGapUnlessOverwritten, subscribed, TypeOK
<1> QED
  BY <1>1, <1>2, <1>3, <1>4, <1>5
  DEF Next, vars, Publish, TrySend, Broadcast, ServerRecv, DropServerRx

(* What is needed of a well-typed state, spelled out. *)
LEMMA TypeFacts ==
  ASSUME TypeOK
  PROVE  /\ Len(events) \in Nat /\ Len(log) \in Nat
         /\ \A q \in Publishers : calls[q] \in 0..Len(events)
         /\ \A i \in 1..Len(log) : log[i] \in Issued
BY ElementOfSeq DEF TypeOK, Issued, NoCall

(* A publish or a try_send by p adds one event of p; a publish may append it
   to the broadcast. *)
LEMMA CreateFacts ==
  ASSUME TypeOK, NEW p \in Publishers, NEW a \in Answers, create(p, a)
  PROVE  /\ Len(events') = Len(events) + 1
         /\ events'[NewEvent].by = p /\ events'[NewEvent].answer = a
         /\ \A e \in Issued : events'[e] = events[e]
         /\ NewEvent \in Issued' /\ Issued \subseteq Issued'
         /\ log \in Seq(Issued')
<1>1. /\ events' \in Seq([by : Publishers, answer : Answers])
      /\ Len(events') = Len(events) + 1
      /\ events'[NewEvent] = [by |-> p, answer |-> a]
      /\ \A e \in Issued : events'[e] = events[e]
  BY CreateType, Zenon DEF NewEvent
<1>2. Len(events) \in Nat /\ log \in Seq(1..Len(events))
  BY DEF TypeOK, Issued
<1>3. log \in Seq(1..Len(events'))
  BY <1>1, <1>2, SeqMono
<1> QED
  BY <1>1, <1>2, <1>3 DEF Issued, NewEvent

(* The three ways a step changes the broadcast, with what it appends. *)
LEMMA BroadcastFacts ==
  ASSUME TypeOK, NEW p \in Publishers, Broadcast(p)
  PROVE  /\ calls[p] \in Issued /\ events' = events
         /\ Len(log') \in {Len(log), Len(log) + 1}
         /\ \A i \in 1..Len(log) : log'[i] = log[i]
         /\ Len(log') = Len(log) + 1 => log'[Len(log) + 1] = calls[p]
         /\ Receivers # {} => Len(log') = Len(log) + 1
<1>1. calls[p] \in Issued /\ log \in Seq(Issued) /\ broadcast(calls[p]) /\ Len(log) \in Nat
  BY DEF Broadcast, TypeOK, NoCall
<1> QED
  BY <1>1, BroadcastType DEF Broadcast

(* publish adds one event and one position to the log, and leaves the others. *)
LEMMA PublishFacts ==
  ASSUME TypeOK, NEW p \in Publishers, Publish(p)
  PROVE  /\ Len(events') = Len(events) + 1
         /\ events'[NewEvent].by = p /\ events'[NewEvent].answer = "local"
         /\ \A e \in Issued : events'[e] = events[e]
         /\ Len(log') \in {Len(log), Len(log) + 1}
         /\ \A i \in 1..Len(log) : log'[i] = log[i]
         /\ Len(log') = Len(log) + 1 => log'[Len(log) + 1] = NewEvent
         /\ Receivers # {} => Len(log') = Len(log) + 1
<1>1. /\ Len(events') = Len(events) + 1
      /\ events'[NewEvent].by = p /\ events'[NewEvent].answer = "local"
      /\ \A e \in Issued : events'[e] = events[e]
      /\ NewEvent \in Issued' /\ log \in Seq(Issued')
  BY CreateFacts DEF Publish, Answers
<1>2. broadcast(NewEvent) /\ Len(log) \in Nat
  BY TypeFacts DEF Publish
<1> QED
  BY <1>1, <1>2, BroadcastType

(* The calls stay those of their publishers. *)
LEMMA CallNext ==
  ASSUME TypeOK, CallInv, [Next]_vars
  PROVE  CallInv'
<1> USE DEF NoCall
<1> DEFINE Good(q) == /\ events'[calls'[q]].by = q
                      /\ \A i \in 1..Len(log') :
                           /\ log'[i] # calls'[q]
                           /\ events'[log'[i]].by = q => log'[i] < calls'[q]
<1>1. ASSUME NEW p \in Publishers, Publish(p), NEW q \in Publishers, calls'[q] # 0
      PROVE  Good(q)
  <2>1. /\ Len(events') = Len(events) + 1 /\ events'[NewEvent].by = p
        /\ \A e \in Issued : events'[e] = events[e]
    BY <1>1, PublishFacts
  <2>2. /\ Len(log') \in {Len(log), Len(log) + 1}
        /\ \A i \in 1..Len(log) : log'[i] = log[i]
        /\ Len(log') = Len(log) + 1 => log'[Len(log) + 1] = NewEvent
    BY <1>1, PublishFacts
  <2>3. calls'[q] = calls[q] /\ calls[q] \in Issued /\ q # p
    BY <1>1, TypeFacts DEF Publish, Issued
  <2>4. ASSUME NEW i \in 1..Len(log')
        PROVE  log'[i] # calls[q] /\ (events'[log'[i]].by = q => log'[i] < calls[q])
    <3>1. CASE i \in 1..Len(log)
      <4>1. log[i] \in Issued /\ log'[i] = log[i] /\ events'[log[i]] = events[log[i]]
        BY <2>1, <2>2, <3>1, TypeFacts
      <4> QED
        BY <1>1, <2>3, <3>1, <4>1 DEF CallInv
    <3>2. CASE i = Len(log) + 1
      BY <2>1, <2>2, <2>3, <3>2, TypeFacts DEF Issued, NewEvent
    <3> QED
      BY <2>2, <3>1, <3>2, TypeFacts
  <2> QED
    BY <1>1, <2>1, <2>3, <2>4 DEF CallInv
<1>2. ASSUME NEW p \in Publishers, TrySend(p), NEW q \in Publishers, calls'[q] # 0
      PROVE  Good(q)
  <2>1. /\ Len(events') = Len(events) + 1 /\ events'[NewEvent].by = p
        /\ \A e \in Issued : events'[e] = events[e]
    BY <1>2, CreateFacts DEF TrySend, Answers
  <2>2. log' = log /\ (q # p => calls'[q] = calls[q]) /\ (q = p => calls'[q] = NewEvent)
    BY <1>2 DEF TrySend, TypeOK
  <2> QED
    BY <1>2, <2>1, <2>2, TypeFacts DEF CallInv, Issued, NewEvent
<1>3. ASSUME NEW p \in Publishers, Broadcast(p), NEW q \in Publishers, calls'[q] # 0
      PROVE  Good(q)
  <2>1. calls[p] \in Issued /\ q # p /\ calls'[q] = calls[q] /\ events' = events
    BY <1>3, TypeFacts DEF Broadcast, Issued, TypeOK
  <2>2. /\ Len(log') \in {Len(log), Len(log) + 1}
        /\ \A i \in 1..Len(log) : log'[i] = log[i]
        /\ Len(log') = Len(log) + 1 => log'[Len(log) + 1] = calls[p]
    BY <1>3, <2>1, BroadcastFacts
  <2>3. events[calls[p]].by = p /\ events[calls[q]].by = q
    BY <1>3, <2>1 DEF CallInv, Broadcast
  <2>4. ASSUME NEW i \in 1..Len(log')
        PROVE  log'[i] # calls[q] /\ (events[log'[i]].by = q => log'[i] < calls[q])
    <3>1. CASE i \in 1..Len(log)
      BY <1>3, <2>1, <2>2, <3>1, TypeFacts DEF CallInv
    <3>2. CASE i = Len(log) + 1
      BY <2>1, <2>2, <2>3, <3>2, TypeFacts
    <3> QED
      BY <2>2, <3>1, <3>2, TypeFacts
  <2> QED
    BY <2>1, <2>3, <2>4
<1>4. CASE UNCHANGED <<events, calls, log>>
  BY <1>4 DEF CallInv
<1> QED
  BY <1>1, <1>2, <1>3, <1>4
 , Zenon DEF CallInv, Next, vars, Subscribe, DropReceiver, Lagged, Recv, ServerRecv, DropServerRx

(* Each event is broadcast once, and in its publisher's order. *)
LEMMA OrderNext ==
  ASSUME TypeOK, CallInv, BroadcastOrder, [Next]_vars
  PROVE  BroadcastOrder'
<1> DEFINE Ordered(i, j) ==
      /\ log'[i] # log'[j]
      /\ events'[log'[i]].by = events'[log'[j]].by => log'[i] < log'[j]
<1>1. ASSUME NEW p \in Publishers, Publish(p),
             NEW i \in 1..Len(log'), NEW j \in 1..Len(log'), i < j
      PROVE  Ordered(i, j)
  <2>1. i \in 1..Len(log) /\ log'[i] = log[i] /\ log[i] \in Issued
        /\ events'[log[i]] = events[log[i]]
    <3>1. Len(log) \in Nat /\ Len(log') \in {Len(log), Len(log) + 1}
      BY <1>1, PublishFacts, TypeFacts
    <3>2. i \in 1..Len(log)
      BY <1>1, <3>1
    <3> QED
      BY <1>1, <3>2, PublishFacts, TypeFacts, Zenon
  <2>2. CASE j \in 1..Len(log)
    <3>1. log'[j] = log[j] /\ log[j] \in Issued /\ events'[log[j]] = events[log[j]]
      BY <1>1, <2>2, PublishFacts, TypeFacts
    <3> QED
      BY <1>1, <2>1, <2>2, <3>1 DEF BroadcastOrder
  <2>3. CASE j = Len(log) + 1
    BY <1>1, <2>1, <2>3, PublishFacts, TypeFacts DEF NewEvent, Issued
  <2> QED
    BY <1>1, <2>2, <2>3, PublishFacts, TypeFacts
<1>2. ASSUME NEW p \in Publishers, Broadcast(p),
             NEW i \in 1..Len(log'), NEW j \in 1..Len(log'), i < j
      PROVE  Ordered(i, j)
  <2>1. i \in 1..Len(log) /\ log'[i] = log[i] /\ events' = events
    BY <1>2, BroadcastFacts, TypeFacts
  <2>2. CASE j \in 1..Len(log)
    BY <1>2, <2>1, <2>2, BroadcastFacts DEF BroadcastOrder
  <2>3. CASE j = Len(log) + 1
    <3>1. log'[j] = calls[p]
      BY <1>2, <2>3, BroadcastFacts, TypeFacts
    <3>2. /\ events[calls[p]].by = p
          /\ log[i] # calls[p] /\ (events[log[i]].by = p => log[i] < calls[p])
      BY <1>2, <2>1 DEF CallInv, Broadcast
    <3> QED
      BY <2>1, <3>1, <3>2
  <2> QED
    BY <1>2, <2>2, <2>3, BroadcastFacts, TypeFacts
<1>3. ASSUME NEW p \in Publishers, TrySend(p),
             NEW i \in 1..Len(log'), NEW j \in 1..Len(log'), i < j
      PROVE  Ordered(i, j)
  <2>1. log' = log /\ \A e \in Issued : events'[e] = events[e]
    BY <1>3, CreateFacts DEF TrySend, Answers
  <2> QED
    BY <1>3, <2>1, TypeFacts DEF BroadcastOrder
<1>4. CASE UNCHANGED <<events, log>>
  BY <1>4 DEF BroadcastOrder
<1> QED
  BY <1>1, <1>2, <1>3, <1>4
  DEF BroadcastOrder, Next, vars, Subscribe, DropReceiver, Lagged, Recv, ServerRecv, DropServerRx

(* A returned call has put its event ahead of every earlier subscriber. *)
LEMMA LocalNext ==
  ASSUME TypeOK, CursorInv, LocalBroadcastUnconditional, [Next]_vars
  PROVE  LocalBroadcastUnconditional'
<1> USE DEF NoCall
<1> DEFINE Heard(s, e) == \E i \in from[s]..Len(log) : log[i] = e
           Goal(s, e) == \E i \in from'[s]..Len(log') : log'[i] = e
           Hyp(s, e) == /\ next'[s] # 0 /\ e > since'[s]
                        /\ \A p \in Publishers : calls'[p] # e
<1>0. \A s \in Subscribers : next[s] # 0 =>
        /\ from[s] \in Nat /\ 1 <= from[s] /\ from[s] <= Len(log) + 1 /\ s \in Receivers
  BY TypeFacts DEF TypeOK, CursorInv, subscribed, Receivers
<1>1. ASSUME NEW p \in Publishers, Publish(p),
             NEW s \in Subscribers, NEW e \in Issued', Hyp(s, e)
      PROVE  Goal(s, e)
  <2>1. /\ next[s] # 0 /\ e > since[s] /\ from'[s] = from[s]
        /\ \A q \in Publishers : calls[q] # e
    BY <1>1 DEF Publish
  <2>2. Len(log') = Len(log) + 1
    BY <1>0, <1>1, <2>1, PublishFacts
  <2>3. CASE e \in Issued
    <3>1. PICK i \in from[s]..Len(log) : log[i] = e
      BY <2>1, <2>3 DEF LocalBroadcastUnconditional, subscribed
    <3>2. i \in 1..Len(log) /\ i \in from[s]..Len(log') /\ log'[i] = e
      BY <1>0, <1>1, <2>1, <2>2, <3>1, PublishFacts, TypeFacts
    <3> QED
      BY <2>1, <3>2
  <2>4. CASE e = NewEvent
    BY <1>0, <1>1, <2>1, <2>2, <2>4, PublishFacts, TypeFacts
  <2> QED
    BY <1>1, <2>3, <2>4, PublishFacts, TypeFacts DEF Issued, NewEvent
<1>2. ASSUME NEW p \in Publishers, Broadcast(p),
             NEW s \in Subscribers, NEW e \in Issued', Hyp(s, e)
      PROVE  Goal(s, e)
  <2>1. next[s] # 0 /\ e > since[s] /\ from'[s] = from[s] /\ e \in Issued
    BY <1>2 DEF Broadcast, Issued
  <2>2. Len(log') = Len(log) + 1 /\ log'[Len(log) + 1] = calls[p]
    BY <1>0, <1>2, <2>1, BroadcastFacts, TypeFacts
  <2>3. CASE e = calls[p]
    BY <1>0, <2>1, <2>2, <2>3, TypeFacts
  <2>4. CASE e # calls[p]
    <3>1. \A q \in Publishers : calls[q] # e
      BY <1>2, <2>4 DEF Broadcast, TypeOK
    <3>2. PICK i \in from[s]..Len(log) : log[i] = e
      BY <2>1, <3>1 DEF LocalBroadcastUnconditional, subscribed
    <3>3. i \in from[s]..Len(log') /\ log'[i] = e
      BY <1>0, <1>2, <2>1, <2>2, <3>2, BroadcastFacts, TypeFacts
    <3> QED
      BY <2>1, <3>3, Zenon
  <2> QED
    BY <2>3, <2>4
<1>3. ASSUME NEW p \in Publishers, TrySend(p),
             NEW s \in Subscribers, NEW e \in Issued', Hyp(s, e)
      PROVE  Goal(s, e)
  <2>1. Len(events') = Len(events) + 1
    BY <1>3, CreateFacts DEF TrySend, Answers
  <2>2. calls'[p] = NewEvent /\ calls[p] = 0 /\ \A q \in Publishers \ {p} : calls'[q] = calls[q]
    BY <1>3 DEF TrySend, TypeOK
  <2>3. e \in Issued
    BY <1>3, <2>1, <2>2, TypeFacts DEF Issued, NewEvent
  <2>4. \A q \in Publishers : calls[q] # e
    BY <1>3, <2>2, <2>3, TypeFacts DEF Issued
  <2> QED
    BY <1>3, <2>3, <2>4 DEF TrySend, LocalBroadcastUnconditional, subscribed
<1>4. ASSUME NEW r \in Subscribers, Subscribe(r),
             NEW s \in Subscribers, NEW e \in Issued', Hyp(s, e)
      PROVE  Goal(s, e)
  <2>1. events' = events /\ calls' = calls /\ log' = log /\ e \in Issued
    BY <1>4 DEF Subscribe, Issued
  <2>2. s # r
    BY <1>4, <2>1, TypeFacts DEF Subscribe, Issued, TypeOK
  <2>3. next'[s] = next[s] /\ from'[s] = from[s] /\ since'[s] = since[s]
    BY <1>4, <2>2 DEF Subscribe, TypeOK
  <2> QED
    BY <1>4, <2>1, <2>3 DEF LocalBroadcastUnconditional, subscribed
<1>5. ASSUME NEW r \in Subscribers, DropReceiver(r) \/ Lagged(r) \/ Recv(r),
             NEW s \in Subscribers, NEW e \in Issued', Hyp(s, e)
      PROVE  Goal(s, e)
  <2>1. UNCHANGED <<events, calls, log, from, since>>
    BY <1>5 DEF DropReceiver, Lagged, Recv
  <2>2. next[s] # 0
    BY <1>5 DEF DropReceiver, Lagged, Recv, subscribed, TypeOK
  <2> QED
    BY <1>5, <2>1, <2>2 DEF LocalBroadcastUnconditional, subscribed, Issued
<1>6. CASE UNCHANGED <<events, calls, log, next, from, since>>
  BY <1>6 DEF LocalBroadcastUnconditional, subscribed, Issued
<1> QED
  BY <1>1, <1>2, <1>3, <1>4, <1>5, <1>6
  DEF LocalBroadcastUnconditional, subscribed, Next, vars, ServerRecv, DropServerRx

(* What the forward loop has received followed by what is queued for it. *)
stream == taken \o serverQ

(* What went through the server channel is a sequence of events. *)
LEMMA StreamType ==
  ASSUME TypeOK
  PROVE  /\ stream \in Seq(Issued) /\ Len(stream) \in Nat
         /\ \A i \in 1..Len(stream) : stream[i] \in Issued
BY ConcatProperties, ElementOfSeq DEF TypeOK, stream

(* Every step keeps the server channel first-in first-out. *)
LEMMA ServerNext ==
  ASSUME TypeOK, ServerFifo, [Next]_vars
  PROVE  ServerFifo'
<1> DEFINE Increasing == \A i, j \in 1..Len(stream') : i < j => stream'[i] < stream'[j]
           AllOk == \A i \in 1..Len(stream') : events'[stream'[i]].answer = "ok"
           Complete == serverOpen' =>
             \A e \in Issued' : events'[e].answer = "ok" =>
               \E i \in 1..Len(stream') : stream'[i] = e
<1>0. /\ \A i, j \in 1..Len(stream) : i < j => stream[i] < stream[j]
      /\ \A i \in 1..Len(stream) : events[stream[i]].answer = "ok"
      /\ serverOpen => \A e \in Issued : events[e].answer = "ok" =>
                          \E i \in 1..Len(stream) : stream[i] = e
  BY Zenon DEF ServerFifo, stream
<1>1. SUFFICES Increasing /\ AllOk /\ Complete
  BY DEF ServerFifo, stream
<1>2. ASSUME NEW p \in Publishers, NEW a \in Answers \ {"ok"}, create(p, a),
             UNCHANGED <<serverQ, serverOpen, taken>>
      PROVE  Increasing /\ AllOk /\ Complete
  <2>1. /\ stream' = stream /\ serverOpen' = serverOpen
        /\ Len(events') = Len(events) + 1 /\ events'[NewEvent].answer # "ok"
        /\ \A e \in Issued : events'[e] = events[e]
    BY <1>2, CreateFacts DEF stream
  <2>2. \A e \in Issued' : events'[e].answer = "ok" => e \in Issued
    BY <2>1, TypeFacts DEF Issued, NewEvent
  <2> QED
    BY <1>0, <2>1, <2>2, StreamType
<1>3. ASSUME NEW p \in Publishers, create(p, "ok"), serverQ' = Append(serverQ, NewEvent),
             UNCHANGED <<serverOpen, taken>>
      PROVE  Increasing /\ AllOk /\ Complete
  <2>1. /\ Len(events') = Len(events) + 1 /\ events'[NewEvent].answer = "ok"
        /\ \A e \in Issued : events'[e] = events[e]
        /\ NewEvent \in Issued' /\ Issued \subseteq Issued'
    BY <1>3, CreateFacts DEF Answers
  <2>2. /\ Len(stream') = Len(stream) + 1 /\ stream'[Len(stream) + 1] = NewEvent
        /\ \A i \in 1..Len(stream) : stream'[i] = stream[i]
    <3>1. taken \in Seq(Issued') /\ serverQ \in Seq(Issued')
      BY <2>1, SeqMonotonic DEF TypeOK
    <3>2. /\ serverQ' \in Seq(Issued') /\ Len(serverQ') = Len(serverQ) + 1
          /\ \A i \in 1..Len(serverQ) : serverQ'[i] = serverQ[i]
          /\ serverQ'[Len(serverQ) + 1] = NewEvent
      BY <1>3, <2>1, <3>1, AppendProperties
    <3>3. Len(taken) \in Nat /\ Len(serverQ) \in Nat
      BY DEF TypeOK
    <3> QED
      BY <1>3, <3>1, <3>2, <3>3, ConcatProperties DEF stream
  <2>3. Increasing
    <3> SUFFICES ASSUME NEW i \in 1..Len(stream'), NEW j \in 1..Len(stream'), i < j
                 PROVE  stream'[i] < stream'[j]
      OBVIOUS
    <3>1. i \in 1..Len(stream) /\ stream'[i] = stream[i] /\ stream[i] \in 1..Len(events)
      BY <2>2, StreamType DEF Issued
    <3>2. CASE j \in 1..Len(stream)
      BY <1>0, <2>2, <3>1, <3>2
    <3>3. CASE j = Len(stream) + 1
      BY <2>2, <3>1, <3>3, TypeFacts DEF NewEvent
    <3> QED
      BY <2>2, <3>2, <3>3, StreamType
  <2>4. AllOk
    BY <1>0, <2>1, <2>2, StreamType
  <2>5. Complete
    <3> SUFFICES ASSUME serverOpen, NEW e \in Issued', events'[e].answer = "ok"
                 PROVE  \E i \in 1..Len(stream') : stream'[i] = e
      BY <1>3
    <3>1. CASE e \in Issued
      <4>1. PICK i \in 1..Len(stream) : stream[i] = e
        BY <1>0, <2>1, <3>1
      <4> QED
        BY <2>2, <4>1, StreamType
    <3>2. CASE e = NewEvent
      BY <2>2, <3>2, StreamType
    <3> QED
      BY <2>1, <3>1, <3>2, TypeFacts DEF Issued, NewEvent
  <2> QED
    BY <2>3, <2>4, <2>5
<1>4. CASE ServerRecv
  <2>1. stream' = stream /\ events' = events /\ serverOpen' = serverOpen
    <3>1. /\ taken \in Seq(Issued) /\ serverQ \in Seq(Issued) /\ serverQ # <<>>
          /\ Head(serverQ) \in Issued /\ Tail(serverQ) \in Seq(Issued)
      BY <1>4, HeadTailProperties DEF TypeOK, ServerRecv
    <3>2. /\ taken' = Append(taken, Head(serverQ)) /\ serverQ' = Tail(serverQ)
      BY <1>4 DEF ServerRecv
    <3>3. Len(taken) \in Nat /\ Len(serverQ) \in Nat /\ Len(serverQ) > 0
      BY <3>1, EmptySeq, LenProperties
    <3>4. /\ taken' \in Seq(Issued) /\ Len(taken') = Len(taken) + 1
          /\ \A i \in 1..Len(taken) : taken'[i] = taken[i]
          /\ taken'[Len(taken) + 1] = serverQ[1]
      BY <3>1, <3>2, AppendProperties, HeadTailProperties
    <3>5. /\ serverQ' \in Seq(Issued) /\ Len(serverQ') = Len(serverQ) - 1
          /\ \A i \in 1..Len(serverQ') : serverQ'[i] = serverQ[i + 1]
      BY <3>1, <3>2, HeadTailProperties
    <3>6. /\ taken \o serverQ \in Seq(Issued) /\ taken' \o serverQ' \in Seq(Issued)
          /\ Len(taken' \o serverQ') = Len(taken \o serverQ)
          /\ \A i \in 1..Len(taken \o serverQ) : (taken' \o serverQ')[i] = (taken \o serverQ)[i]
      <4>1. /\ Len(taken \o serverQ) = Len(taken) + Len(serverQ)
            /\ Len(taken' \o serverQ') = Len(taken) + Len(serverQ)
            /\ taken \o serverQ \in Seq(Issued) /\ taken' \o serverQ' \in Seq(Issued)
        <5>1. Len(taken \o serverQ) = Len(taken) + Len(serverQ) /\ taken \o serverQ \in Seq(Issued)
          BY <3>1, ConcatProperties
        <5>2. Len(taken' \o serverQ') = Len(taken') + Len(serverQ') /\ taken' \o serverQ' \in Seq(Issued)
          BY <3>4, <3>5, ConcatProperties, Zenon
        <5>3. Len(taken') + Len(serverQ') = Len(taken) + Len(serverQ)
          BY <3>3, <3>4, <3>5
        <5> QED
          BY <5>1, <5>2, <5>3
      <4>2. ASSUME NEW i \in 1..(Len(taken) + Len(serverQ))
            PROVE  (taken' \o serverQ')[i] = (taken \o serverQ)[i]
        <5>1. (taken \o serverQ)[i] = IF i <= Len(taken) THEN taken[i] ELSE serverQ[i - Len(taken)]
          BY <3>1, ConcatProperties
        <5>2. (taken' \o serverQ')[i] =
                IF i <= Len(taken) + 1 THEN taken'[i] ELSE serverQ'[i - (Len(taken) + 1)]
          BY <3>3, <3>4, <3>5, ConcatProperties
        <5>3. CASE i <= Len(taken)
          BY <3>3, <3>4, <5>1, <5>2, <5>3
        <5>4. CASE i = Len(taken) + 1
          BY <3>3, <3>4, <5>1, <5>2, <5>4
        <5>5. CASE i > Len(taken) + 1
          <6>1. i - (Len(taken) + 1) \in 1..Len(serverQ')
            BY <3>3, <3>5, <5>5
          <6>2. serverQ'[i - (Len(taken) + 1)] = serverQ[i - Len(taken)]
            BY <3>3, <3>5, <6>1
          <6> QED
            BY <3>3, <5>1, <5>2, <5>5, <6>2
        <5>6. i <= Len(taken) \/ i = Len(taken) + 1 \/ i > Len(taken) + 1
          BY <3>3
        <5> QED
          BY <5>3, <5>4, <5>5, <5>6, Zenon
      <4> QED
        BY <4>1, <4>2
    <3>7. taken' \o serverQ' = taken \o serverQ
      BY <3>6, SeqEqual, Zenon
    <3> QED
      BY <1>4, <3>7 DEF ServerRecv, stream
  <2> QED
    BY <1>0, <2>1 DEF Issued
<1>5. CASE DropServerRx
  <2>1. /\ stream' = taken /\ events' = events /\ serverOpen' = FALSE
        /\ taken \in Seq(Issued) /\ serverQ \in Seq(Issued)
    BY <1>5, ConcatEmptySeq DEF DropServerRx, stream, TypeOK
  <2>2. \A i \in 1..Len(taken) : i \in 1..Len(stream) /\ stream[i] = taken[i]
    BY <2>1, ConcatProperties, LenProperties DEF stream
  <2> QED
    BY <1>0, <2>1, <2>2
<1>6. ASSUME UNCHANGED <<events, serverQ, serverOpen, taken>>
      PROVE  Increasing /\ AllOk /\ Complete
  BY <1>0, <1>6 DEF stream, Issued
<1>7. ASSUME NEW p \in Publishers, TrySend(p) PROVE Increasing /\ AllOk /\ Complete
  BY <1>2, <1>3, <1>7 DEF TrySend, Answers
<1>8. ASSUME NEW p \in Publishers, Publish(p) PROVE Increasing /\ AllOk /\ Complete
  BY <1>2, <1>8, Zenon DEF Publish, Answers
<1> QED
  BY <1>4, <1>5, <1>6, <1>7, <1>8
 , Zenon DEF Next, vars, Subscribe, DropReceiver, Lagged, Recv, Broadcast

-----------------------------------------------------------------------------
(* The inductive invariant of the bus. *)
BusInv ==
  /\ TypeOK
  /\ CursorInv
  /\ CallInv
  /\ NoGapUnlessOverwritten
  /\ LocalBroadcastUnconditional
  /\ BroadcastOrder
  /\ ServerFifo

(* The initial state satisfies the inductive invariant. *)
LEMMA BusInvInit == Init => BusInv
<1> SUFFICES ASSUME Init PROVE BusInv
  OBVIOUS
<1>1. Len(events) = 0 /\ Len(log) = 0 /\ taken \o serverQ = <<>> /\ Len(taken \o serverQ) = 0
  BY EmptySeq, ConcatEmptySeq DEF Init
<1> QED
  BY <1>1, TypeInit DEF Init, BusInv, CursorInv, CallInv, NoGapUnlessOverwritten, subscribed,
     LocalBroadcastUnconditional, BroadcastOrder, ServerFifo, Issued

(* BusInv holds in every reachable state of the bus. *)
THEOREM BusInvariance == Spec => []BusInv
<1>1. BusInv /\ [Next]_vars => BusInv'
  BY TypeNext, CursorNext, CallNext, NoGapNext, LocalNext, OrderNext, ServerNext DEF BusInv
<1> QED
  BY <1>1, BusInvInit, PTL DEF Spec

(* recv never skips an event that was still in the ring, for any number of
   subscribers and any ring size. *)
THEOREM NoGapCorrect == Spec => []NoGapUnlessOverwritten
BY BusInvariance, PTL DEF BusInv

(* publish_to_server reaches every local subscriber whatever the state of the
   server channel, for any interleaving of publishers. *)
THEOREM LocalBroadcastCorrect == Spec => []LocalBroadcastUnconditional
BY BusInvariance, PTL DEF BusInv

(* The broadcast keeps each publisher's order and repeats no event. *)
THEOREM BroadcastOrderCorrect == Spec => []BroadcastOrder
BY BusInvariance, PTL DEF BusInv

(* The server channel delivers exactly the accepted events, in order. *)
THEOREM ServerFifoCorrect == Spec => []ServerFifo
BY BusInvariance, PTL DEF BusInv
=============================================================================
