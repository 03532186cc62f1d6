-------------------------- MODULE ConnectionProofs --------------------------
(***************************************************************************)
(* Proofs about Connection, for every number of events, ticks, commands    *)
(* and breaks: the mutex excludes, the server gets the events in order and *)
(* once, and the receive loop publishes the commands in order and once.    *)
(***************************************************************************)
EXTENDS Connection, FiniteSetTheorems, TLAPS

(* Where a task owns the connection, and where it is about to send. *)
Inside == {"boot", "send", "reconnect", "resend", "readlen", "readbody"}
Sending == {"want", "lock", "send", "reconnect", "resend"}

inQueue(q) == {q[i] : i \in 1..Len(q)}
without(q, i) == SubSeq(q, 1, i - 1) \o SubSeq(q, i + 1, Len(q))

(* The queue of the mutex holds, once each, the tasks that own or await the lock. *)
MutexInv ==
  /\ waiters \in Seq(Tasks) /\ IsInjective(waiters)
  /\ \A t \in Tasks : pc[t] \in Inside \cup {"lock"} <=> t \in inQueue(waiters)
  /\ \A t \in Tasks : pc[t] \in Inside => holds(t)

(* Which task sends what, and that nobody else runs before the startup message. *)
MsgInv ==
  /\ msg["main"] \in {Startup, ShutdownMsg}
  /\ msg["main"] = ShutdownMsg => shutdown
  /\ msg["main"] = Startup =>
       /\ pc["main"] \in {"boot", "send", "reconnect", "resend", "idle", "failed"}
       /\ pc["main"] # "idle" => \A t \in Tasks \ {"main"} : pc[t] = "off"
  /\ msg["keepalive"] = Keepalive /\ msg["receive"] = Keepalive
  /\ msg["forward"] \in {Keepalive} \cup 1..taken
  /\ pc["forward"] \in Sending => msg["forward"] \in 1..taken
  /\ pc["receive"] \in {"off", "idle", "want", "lock", "readlen", "readbody", "done"}
  /\ \A t \in Tasks : /\ pc[t] \in {"readlen", "readbody"} => t = "receive"
                      /\ pc[t] = "boot" => t = "main"

(* The server has only events that were taken, and not yet the one the forward loop holds. *)
OrderInv ==
  /\ \A i, j \in 1..Len(got) : i < j /\ isEvent(got[i]) /\ isEvent(got[j]) => got[i] < got[j]
  /\ \A i \in 1..Len(got) : got[i] <= taken
  /\ pc["forward"] \in Sending => \A i \in 1..Len(got) : got[i] < msg["forward"]

(* A second attempt that finds its connection dead has a break of its own. *)
FailedInv ==
  /\ IsFiniteSet(failed)
  /\ Cardinality(failed) + (IF stream = "dead" /\ \E t \in Tasks : pc[t] = "resend" THEN 1 ELSE 0)
       <= breaks

eventsAfter(i) == {j \in (i + 1)..Len(got) : isEvent(got[j])}

(* After the shutdown message the forward loop takes no event, and it held at most one. *)
LastInv ==
  \A i \in 1..Len(got) : got[i] = ShutdownMsg =>
    /\ shutdown
    /\ Cardinality(eventsAfter(i)) <= (IF pc["forward"] \in Sending THEN 0 ELSE 1)

(* The pieces on the wire: frames in order, a length before its body; what is on the
   wire or still to be sent is newer than everything published. *)
WireInv ==
  /\ half \in {0, sentCmds}
  /\ \A i \in 1..Len(wire) : wire[i][2] <= sentCmds
  /\ \A i, j \in 1..Len(wire) : i < j => wire[i][2] <= wire[j][2] /\ (wire[i][1] = "body" => wire[i][2] < wire[j][2])
  /\ \A i \in 1..Len(wire) : wire[i][1] = "len" =>
       IF i = Len(wire) THEN half # 0 ELSE wire[i + 1][1] = "body"
  /\ half # 0 => \A i \in 1..Len(wire) : wire[i][1] = "body" => wire[i][2] < half

ReadInv ==
  pc["receive"] = "readbody" =>
    IF wire = <<>> THEN stream = "up" => half # 0 ELSE wire[1][1] = "body"

PublishedInv ==
  /\ CommandsInOrderOnce
  /\ \A k \in 1..Len(published) : published[k] <= sentCmds /\ (half # 0 => published[k] < half)
  /\ \A k \in 1..Len(published), i \in 1..Len(wire) : published[k] < wire[i][2]

IInv == TypeOK /\ MutexInv /\ MsgInv /\ OrderInv /\ FailedInv /\ LastInv /\ WireInv /\ ReadInv /\ PublishedInv
-----------------------------------------------------------------------------
(* What joining, being served and giving up do to the queue of the mutex. *)
LEMMA QueueFacts ==
  ASSUME NEW q \in Seq(Tasks), IsInjective(q)
  PROVE  /\ \A t \in Tasks \ inQueue(q) :
              /\ Append(q, t) \in Seq(Tasks) /\ IsInjective(Append(q, t))
              /\ inQueue(Append(q, t)) = inQueue(q) \cup {t}
              /\ Append(q, t) # <<>> /\ (q # <<>> => Head(Append(q, t)) = Head(q))
         /\ q # <<>> =>
              /\ Tail(q) \in Seq(Tasks) /\ IsInjective(Tail(q))
              /\ inQueue(Tail(q)) = inQueue(q) \ {Head(q)}
              /\ Head(q) \in inQueue(q)
         /\ \A i \in 1..Len(q) :
              /\ without(q, i) \in Seq(Tasks) /\ IsInjective(without(q, i))
              /\ inQueue(without(q, i)) = inQueue(q) \ {q[i]}
              /\ q[i] # Head(q) => without(q, i) # <<>> /\ Head(without(q, i)) = Head(q)
         /\ inQueue(q) \subseteq Tasks
<1>0. Len(q) \in Nat /\ DOMAIN q = 1..Len(q) /\ \A i \in 1..Len(q) : q[i] \in Tasks
  OBVIOUS
<1>1. ASSUME NEW t \in Tasks \ inQueue(q)
      PROVE  /\ Append(q, t) \in Seq(Tasks) /\ IsInjective(Append(q, t))
             /\ inQueue(Append(q, t)) = inQueue(q) \cup {t}
             /\ Append(q, t) # <<>> /\ (q # <<>> => Head(Append(q, t)) = Head(q))
  <2> DEFINE r == Append(q, t)
  <2>1. /\ r \in Seq(Tasks) /\ Len(r) = Len(q) + 1 /\ DOMAIN r = 1..Len(r)
        /\ \A i \in 1..Len(q) : r[i] = q[i]
        /\ r[Len(q) + 1] = t
    BY <1>0
  <2> HIDE DEF r
  <2>2. IsInjective(r)
    BY <1>0, <2>1 DEF IsInjective, inQueue
  <2>3. inQueue(r) = inQueue(q) \cup {t}
    BY <1>0, <2>1 DEF inQueue
  <2>4. r # <<>> /\ (q # <<>> => Head(r) = Head(q))
    BY <1>0, <2>1
  <2>5. QED  BY <2>1, <2>2, <2>3, <2>4 DEF r
<1>2. ASSUME q # <<>>
      PROVE  /\ Tail(q) \in Seq(Tasks) /\ IsInjective(Tail(q))
             /\ inQueue(Tail(q)) = inQueue(q) \ {Head(q)}
             /\ Head(q) \in inQueue(q)
  <2> DEFINE r == Tail(q)
  <2>1. /\ r \in Seq(Tasks) /\ Len(r) = Len(q) - 1 /\ DOMAIN r = 1..Len(r) /\ Len(q) > 0
        /\ \A i \in 1..Len(r) : r[i] = q[i + 1]
    BY <1>0, <1>2
  <2>2. Head(q) = q[1]  OBVIOUS
  <2> HIDE DEF r
  <2>3. IsInjective(r)
    <3>1. ASSUME NEW x \in 1..Len(r), NEW y \in 1..Len(r), r[x] = r[y] PROVE x = y
      <4>1. x + 1 \in 1..Len(q) /\ y + 1 \in 1..Len(q)
        BY <1>0, <2>1
      <4>2. x + 1 = y + 1
        BY <1>0, <2>1, <3>1, <4>1, Zenon DEF IsInjective
      <4>3. QED  BY <4>2
    <3>2. QED  BY <2>1, <3>1 DEF IsInjective
  <2>4. inQueue(r) \subseteq inQueue(q) \ {Head(q)}
    BY <1>0, <2>1, <2>2 DEF inQueue, IsInjective
  <2>5. ASSUME NEW i \in 1..Len(q), q[i] # q[1] PROVE i - 1 \in 1..Len(r) /\ r[i - 1] = q[i]
    BY <1>0, <2>1, <2>5
  <2>6. inQueue(q) \ {Head(q)} \subseteq inQueue(r)
    BY <1>0, <2>1, <2>2, <2>5 DEF inQueue
  <2>7. Head(q) \in inQueue(q)
    BY <1>0, <2>1, <2>2 DEF inQueue
  <2>8. QED  BY <2>1, <2>3, <2>4, <2>6, <2>7 DEF r
<1>3. ASSUME NEW i \in 1..Len(q)
      PROVE  /\ without(q, i) \in Seq(Tasks) /\ IsInjective(without(q, i))
             /\ inQueue(without(q, i)) = inQueue(q) \ {q[i]}
             /\ q[i] # Head(q) => without(q, i) # <<>> /\ Head(without(q, i)) = Head(q)
  <2> DEFINE a == SubSeq(q, 1, i - 1)
             b == SubSeq(q, i + 1, Len(q))
             r == a \o b
  <2>1. /\ a \in Seq(Tasks) /\ Len(a) = i - 1
        /\ \A k \in 1..(i - 1) : a[k] = q[k]
    BY <1>0
  <2>2. /\ b \in Seq(Tasks) /\ Len(b) = Len(q) - i
        /\ \A k \in 1..(Len(q) - i) : b[k] = q[i + k]
    <3>1. i + 1 \in Int /\ Len(q) \in Int /\ \A k \in (i + 1)..Len(q) : q[k] \in Tasks
      BY <1>0
    <3>2. /\ b \in Seq(Tasks)
          /\ Len(b) = IF i + 1 <= Len(q) THEN Len(q) - (i + 1) + 1 ELSE 0
          /\ \A k \in 1..(Len(q) - (i + 1) + 1) : b[k] = q[(i + 1) + k - 1]
      BY <3>1
    <3> HIDE DEF b
    <3>3. Len(b) = Len(q) - i
      <4>1. \A m, n \in Int : m <= n => (IF m + 1 <= n THEN n - (m + 1) + 1 ELSE 0) = n - m
        OBVIOUS
      <4>2. i \in Int /\ i <= Len(q) /\ Len(q) \in Int
        BY <1>0
      <4>3. QED  BY <3>2, <4>1, <4>2, Zenon
    <3>4. ASSUME NEW k \in 1..(Len(q) - i) PROVE b[k] = q[i + k]
      <4>1. k \in 1..(Len(q) - (i + 1) + 1) /\ (i + 1) + k - 1 = i + k
        BY <1>0
      <4>2. QED  BY <3>2, <4>1
    <3>5. QED  BY <3>2, <3>3, <3>4
  <2> HIDE DEF a, b
  <2>3. /\ r \in Seq(Tasks) /\ Len(r) = Len(q) - 1 /\ DOMAIN r = 1..Len(r)
        /\ \A k \in 1..Len(r) : r[k] = IF k < i THEN q[k] ELSE q[k + 1]
    <3>1. /\ r \in Seq(Tasks) /\ Len(r) = Len(a) + Len(b) /\ DOMAIN r = 1..Len(r)
          /\ \A k \in 1..(Len(a) + Len(b)) : r[k] = IF k <= Len(a) THEN a[k] ELSE b[k - Len(a)]
      <4>0. a \in Seq(Tasks) /\ b \in Seq(Tasks)
        BY <2>1, <2>2
      <4>1. r \in Seq(Tasks) /\ Len(r) = Len(a) + Len(b)
        BY <4>0
      <4>2. \A k \in 1..(Len(a) + Len(b)) : r[k] = IF k <= Len(a) THEN a[k] ELSE b[k - Len(a)]
        BY <2>1, <2>2
      <4>3. DOMAIN r = 1..Len(r)
        BY <4>1
      <4>4. QED  BY <4>1, <4>2, <4>3
    <3> HIDE DEF r
    <3>2. Len(r) = Len(q) - 1
      BY <1>0, <2>1, <2>2, <3>1
    <3>3. ASSUME NEW k \in 1..Len(r) PROVE r[k] = IF k < i THEN q[k] ELSE q[k + 1]
      <4>1. CASE k < i
        <5>1. k \in 1..(Len(a) + Len(b)) /\ k <= Len(a) /\ k \in 1..(i - 1)
          BY <1>0, <2>1, <2>2, <3>2, <4>1
        <5>2. r[k] = a[k] /\ a[k] = q[k]
          BY <2>1, <3>1, <5>1, Zenon
        <5>3. QED  BY <4>1, <5>2
      <4>2. CASE k >= i
        <5>1. k - (i - 1) \in 1..(Len(q) - i) /\ i + (k - (i - 1)) = k + 1
          BY <1>0, <3>2, <4>2
        <5>2. r[k] = b[k - (i - 1)]
          BY <1>0, <2>1, <2>2, <3>1, <3>2, <4>2
        <5>3. QED  BY <1>0, <2>2, <4>2, <5>1, <5>2
      <4>3. QED  BY <1>0, <3>2, <4>1, <4>2
    <3>4. QED  BY <3>1, <3>2, <3>3
  <2>4. without(q, i) = r
    BY DEF without, a, b
  <2> HIDE DEF r
  <2>5. IsInjective(r)
    <3>1. ASSUME NEW x \in 1..Len(r), NEW y \in 1..Len(r), r[x] = r[y] PROVE x = y
      <4> DEFINE pos(k) == IF k < i THEN k ELSE k + 1
      <4>1. pos(x) \in 1..Len(q) /\ pos(y) \in 1..Len(q) /\ r[x] = q[pos(x)] /\ r[y] = q[pos(y)]
        BY <1>0, <2>3
      <4>2. pos(x) = pos(y)
        BY <1>0, <3>1, <4>1, Zenon DEF IsInjective
      <4>3. QED  BY <4>2
    <3>2. QED  BY <2>3, <3>1 DEF IsInjective
  <2>6. inQueue(r) \subseteq inQueue(q) \ {q[i]}
    BY <1>0, <2>3 DEF inQueue, IsInjective
  <2>7. ASSUME NEW k \in 1..Len(q), q[k] # q[i] PROVE \E l \in 1..Len(r) : r[l] = q[k]
    <3>1. CASE k < i  BY <1>0, <2>3, <3>1
    <3>2. CASE k > i
      <4>1. k - 1 \in 1..Len(r) /\ r[k - 1] = q[k]  BY <1>0, <2>3, <3>2
      <4>2. QED  BY <4>1
    <3>3. QED  BY <1>0, <2>7, <3>1, <3>2
  <2>8. inQueue(q) \ {q[i]} \subseteq inQueue(r)
    BY <2>7 DEF inQueue
  <2>9. q[i] # Head(q) => r # <<>> /\ Head(r) = Head(q)
    BY <1>0, <2>3
  <2>10. QED  BY <2>3, <2>4, <2>5, <2>6, <2>8, <2>9
<1>4. inQueue(q) \subseteq Tasks
  BY <1>0 DEF inQueue
<1>5. QED  BY <1>1, <1>2, <1>3, <1>4

(* The mutex excludes: two tasks that own the connection are one task. *)
LEMMA Exclusive ==
  ASSUME MutexInv, NEW t \in Tasks, NEW u \in Tasks, pc[t] \in Inside, pc[u] \in Inside
  PROVE  t = u
  BY DEF MutexInv, holds

(* The owner of the lock goes, and nobody else moves in or out. *)
LEMMA OwnerLeaves ==
  ASSUME MutexInv, NEW t \in Tasks, pc[t] \in Inside, release,
         pc'[t] \notin Inside \cup {"lock"},
         \A u \in Tasks \ {t} : pc'[u] \notin Inside \/ pc'[u] = pc[u],
         \A u \in Tasks \ {t} : pc'[u] = "lock" <=> pc[u] = "lock"
  PROVE  MutexInv'
<1>1. waiters # <<>> /\ Head(waiters) = t /\ waiters' = Tail(waiters)
  BY DEF MutexInv, holds, release
<1>2. waiters' \in Seq(Tasks) /\ IsInjective(waiters') /\ inQueue(waiters') = inQueue(waiters) \ {t}
  BY <1>1, QueueFacts DEF MutexInv
<1>3. \A u \in Tasks \ {t} : pc[u] \notin Inside
  BY Exclusive
<1>4. \A u \in Tasks : pc'[u] \notin Inside
  BY <1>3
<1>5. \A u \in Tasks : pc'[u] \in Inside \cup {"lock"} <=> u \in inQueue(waiters')
  BY <1>2, <1>3, <1>4 DEF MutexInv
<1>6. QED  BY <1>2, <1>4, <1>5 DEF MutexInv

(* A task moves, and neither enters nor leaves the queue. *)
LEMMA OwnerMoves ==
  ASSUME MutexInv, NEW t \in Tasks, UNCHANGED waiters,
         pc[t] \in Inside \cup {"lock"} <=> pc'[t] \in Inside \cup {"lock"},
         pc'[t] \in Inside => holds(t),
         \A u \in Tasks \ {t} : pc'[u] = pc[u]
  PROVE  MutexInv'
<1>1. \A u \in Tasks : pc'[u] \in Inside \cup {"lock"} <=> u \in inQueue(waiters)
  BY DEF MutexInv
<1>2. \A u \in Tasks : pc'[u] \in Inside => holds(u)
  BY DEF MutexInv
<1>3. QED  BY <1>1, <1>2 DEF MutexInv, holds

(* How the result of send moves the tasks. *)
LEMMA SentMoves ==
  ASSUME TypeOK, MsgInv, NEW t \in Tasks, pc[t] \in {"send", "resend"}, NEW ok \in BOOLEAN, sent(t, ok)
  PROVE  /\ release
         /\ pc' \in [Tasks -> {"off", "idle", "want", "lock", "done", "failed", "join"} \cup
                              {"boot", "send", "reconnect", "resend", "readlen", "readbody"}]
         /\ pc'[t] \in {"idle", "failed", "join"}
         /\ \A u \in Tasks \ {t} : pc'[u] = pc[u] \/ (pc[u] = "off" /\ pc'[u] = "idle" /\ msg[t] = Startup)
         /\ msg[t] = Startup => t = "main"
         /\ msg[t] # Startup => pc'[t] \in {"idle", "join"} /\ \A u \in Tasks \ {t} : pc'[u] = pc[u]
         /\ pc'[t] = "join" => t = "main"
         /\ pc'[t] = "failed" => t = "main" /\ \A u \in Tasks \ {t} : pc'[u] = "off"
<1>1. release  BY DEF sent
<1>2. pc \in [Tasks -> {"off", "idle", "want", "lock", "done", "failed", "join"} \cup
                       {"boot", "send", "reconnect", "resend", "readlen", "readbody"}]
  BY DEF TypeOK
<1>3. /\ msg[t] = Startup => t = "main" /\ \A u \in Tasks \ {t} : pc[u] = "off"
      /\ msg[t] = ShutdownMsg => t = "main"
  BY DEF MsgInv, Tasks, Startup, Keepalive, ShutdownMsg, Sending
<1>4. CASE msg[t] = Startup /\ pc' = IF ok THEN [u \in Tasks |-> "idle"] ELSE [pc EXCEPT ![t] = "failed"]
  BY <1>1, <1>2, <1>3, <1>4
<1>5. CASE msg[t] # Startup /\ (goto(t, "idle") \/ (goto(t, "join") /\ t = "main"))
  BY <1>1, <1>2, <1>5 DEF goto
<1>6. QED  BY <1>3, <1>4, <1>5 DEF sent, Startup, ShutdownMsg

(* Every step keeps the mutex. *)
LEMMA MutexNext ==
  TypeOK /\ MutexInv /\ MsgInv /\ [Next]_vars => MutexInv'
<1> SUFFICES ASSUME TypeOK, MutexInv, MsgInv, [Next]_vars PROVE MutexInv'
  OBVIOUS
<1> USE DEF tasks, link, server, counts, results
<1>0. \A t \in Tasks : \A w : goto(t, w) => pc'[t] = w /\ \A u \in Tasks \ {t} : pc'[u] = pc[u]
  BY DEF TypeOK, goto
<1>00. {"main", "keepalive", "forward", "receive"} \subseteq Tasks
  BY DEF Tasks
<1>1. ASSUME NEW t \in Tasks, Lock(t) PROVE MutexInv'
  <2>1. pc[t] = "want" /\ pc'[t] = "lock" /\ \A u \in Tasks \ {t} : pc'[u] = pc[u]
    BY <1>1, <1>0 DEF Lock
  <2>2. t \notin inQueue(waiters) /\ waiters' = Append(waiters, t)
    BY <1>1, <2>1 DEF Lock, MutexInv, Inside
  <2>3. /\ waiters' \in Seq(Tasks) /\ IsInjective(waiters')
        /\ inQueue(waiters') = inQueue(waiters) \cup {t}
        /\ waiters' # <<>> /\ (waiters # <<>> => Head(waiters') = Head(waiters))
    BY <2>2, QueueFacts DEF MutexInv
  <2>4. \A u \in Tasks : pc'[u] \in Inside => holds(u)'
    BY <2>1, <2>3 DEF MutexInv, holds, Inside
  <2>5. \A u \in Tasks : pc'[u] \in Inside \cup {"lock"} <=> u \in inQueue(waiters')
    BY <2>1, <2>3 DEF MutexInv
  <2>6. QED  BY <2>3, <2>4, <2>5 DEF MutexInv
<1>2. ASSUME NEW t \in Tasks, Acquire(t) PROVE MutexInv'
  <2>1. pc'[t] \in {"readlen", "send"} /\ \A u \in Tasks \ {t} : pc'[u] = pc[u]
    BY <1>2, <1>0 DEF Acquire
  <2>2. QED  BY <1>2, <2>1, OwnerMoves DEF Acquire, Inside
<1>3. ASSUME NEW t \in Tasks, Connect(t) PROVE MutexInv'
  <2>1. pc'[t] \in {"send", "resend"} /\ \A u \in Tasks \ {t} : pc'[u] = pc[u]
    BY <1>3, <1>0 DEF Connect
  <2>2. holds(t)
    BY <1>3 DEF Connect, MutexInv, Inside
  <2>3. QED  BY <1>3, <2>1, <2>2, OwnerMoves DEF Connect, Inside
<1>4. ASSUME NEW t \in Tasks, Send(t) PROVE MutexInv'
  <2>1. PICK ok \in BOOLEAN : sent(t, ok)
    BY <1>4, Zenon DEF Send
  <2>2. pc[t] \in {"send", "resend"} /\ pc[t] \in Inside
    BY <1>4 DEF Send, Inside
  <2>3. QED  BY <2>1, <2>2, SentMoves, OwnerLeaves DEF Inside
<1>5. ASSUME NEW t \in Tasks, SendFails(t) PROVE MutexInv'
  <2>1. pc'[t] = "reconnect" /\ \A u \in Tasks \ {t} : pc'[u] = pc[u]
    BY <1>5, <1>0 DEF SendFails
  <2>2. holds(t)
    BY <1>5 DEF SendFails, MutexInv, Inside
  <2>3. QED  BY <1>5, <2>1, <2>2, OwnerMoves DEF SendFails, Inside
<1>6. ASSUME NEW t \in Tasks, Resend(t) PROVE MutexInv'
  <2>1. PICK ok \in BOOLEAN : sent(t, ok)
    BY <1>6, Zenon DEF Resend
  <2>2. pc[t] \in {"send", "resend"} /\ pc[t] \in Inside
    BY <1>6 DEF Resend, Inside
  <2>3. QED  BY <2>1, <2>2, SentMoves, OwnerLeaves DEF Inside
<1>7. CASE KeepaliveTick
  BY <1>7, <1>0, <1>00, OwnerMoves DEF KeepaliveTick, Inside
<1>8. CASE KeepaliveStop
  BY <1>8, <1>0, <1>00, OwnerMoves DEF KeepaliveStop, Inside
<1>9. CASE ForwardTake
  <2>1. CASE goto("forward", "want")
    BY <1>9, <1>0, <1>00, <2>1, OwnerMoves DEF ForwardTake, Inside
  <2>2. CASE UNCHANGED pc
    BY <1>9, <2>2 DEF ForwardTake, MutexInv, holds
  <2>3. QED  BY <1>9, <2>1, <2>2 DEF ForwardTake
<1>10. CASE ForwardStop
  BY <1>10, <1>0, <1>00, OwnerMoves DEF ForwardStop, Inside
<1>11. CASE Publish
  BY <1>11 DEF Publish, MutexInv, holds
<1>12. CASE ReceiveAgain
  BY <1>12, <1>0, <1>00, OwnerMoves DEF ReceiveAgain, Inside
<1>13. CASE ReceiveLen
  <2>1. pc'["receive"] = "readbody" /\ \A u \in Tasks \ {"receive"} : pc'[u] = pc[u]
    BY <1>13, <1>0, <1>00 DEF ReceiveLen
  <2>2. holds("receive")
    BY <1>13, <1>00 DEF ReceiveLen, MutexInv, Inside
  <2>3. QED  BY <1>13, <1>00, <2>1, <2>2, OwnerMoves DEF ReceiveLen, Inside
<1>14. CASE ReceiveBody
  <2>1. pc'["receive"] = "idle" /\ \A u \in Tasks \ {"receive"} : pc'[u] = pc[u]
    BY <1>14, <1>0, <1>00 DEF ReceiveBody, received
  <2>2. pc["receive"] \in Inside /\ release
    BY <1>14 DEF ReceiveBody, received, Inside
  <2>3. QED  BY <1>00, <2>1, <2>2, OwnerLeaves DEF Inside
<1>15. CASE ReceiveGarbage
  <2>1. pc'["receive"] = "idle" /\ \A u \in Tasks \ {"receive"} : pc'[u] = pc[u]
    BY <1>15, <1>0, <1>00 DEF ReceiveGarbage, received
  <2>2. pc["receive"] \in Inside /\ release
    BY <1>15 DEF ReceiveGarbage, received, Inside
  <2>3. QED  BY <1>00, <2>1, <2>2, OwnerLeaves DEF Inside
<1>16. CASE ReceiveFails
  <2>1. pc'["receive"] = "idle" /\ \A u \in Tasks \ {"receive"} : pc'[u] = pc[u]
    BY <1>16, <1>0, <1>00 DEF ReceiveFails, received
  <2>2. pc["receive"] \in Inside /\ release
    BY <1>16 DEF ReceiveFails, received, Inside
  <2>3. QED  BY <1>00, <2>1, <2>2, OwnerLeaves DEF Inside
<1>17. CASE ReceiveTimeout
  <2>1. pc'["receive"] = "idle" /\ \A u \in Tasks \ {"receive"} : pc'[u] = pc[u]
    BY <1>17, <1>0, <1>00 DEF ReceiveTimeout, received
  <2>2. pc["receive"] \in Inside /\ release
    BY <1>17 DEF ReceiveTimeout, received, Inside
  <2>3. QED  BY <1>00, <2>1, <2>2, OwnerLeaves DEF Inside
<1>18. CASE ReceiveStop
  <2>1. pc'["receive"] = "done" /\ \A u \in Tasks \ {"receive"} : pc'[u] = pc[u]
    BY <1>18, <1>0, <1>00 DEF ReceiveStop
  <2>2. CASE pc["receive"] \in {"idle", "want"}
    BY <1>18, <1>00, <2>1, <2>2, OwnerMoves DEF ReceiveStop, Inside
  <2>3. CASE pc["receive"] \notin {"idle", "want"}
    <3>1. PICK i \in 1..Len(waiters) : waiters[i] = "receive" /\ waiters' = without(waiters, i)
      BY <1>18, <2>3, Zenon DEF ReceiveStop, without
    <3>2. /\ waiters' \in Seq(Tasks) /\ IsInjective(waiters')
          /\ inQueue(waiters') = inQueue(waiters) \ {"receive"}
          /\ "receive" # Head(waiters) => waiters' # <<>> /\ Head(waiters') = Head(waiters)
      BY <3>1, QueueFacts DEF MutexInv
    <3>3. \A u \in Tasks : pc'[u] \in Inside => holds(u)'
      <4> SUFFICES ASSUME NEW u \in Tasks, pc'[u] \in Inside PROVE holds(u)'
        OBVIOUS
      <4>1. u # "receive" /\ pc[u] \in Inside
        BY <2>1 DEF Inside
      <4>2. Head(waiters) = u
        BY <4>1 DEF MutexInv, holds
      <4>3. QED  BY <3>2, <4>1, <4>2 DEF holds
    <3>4. \A u \in Tasks : pc'[u] \in Inside \cup {"lock"} <=> u \in inQueue(waiters')
      BY <1>00, <2>1, <3>2 DEF MutexInv, Inside
    <3>5. QED  BY <3>2, <3>3, <3>4 DEF MutexInv
  <2>4. QED  BY <2>2, <2>3
<1>19. CASE Shutdown
  BY <1>19, <1>0, <1>00, OwnerMoves DEF Shutdown, Inside
<1>20. CASE Join
  BY <1>20, <1>0, <1>00, OwnerMoves DEF Join, Inside
<1>21. CASE ServerSendsLen
  BY <1>21 DEF ServerSendsLen, MutexInv, holds
<1>22. CASE ServerSendsBody
  BY <1>22 DEF ServerSendsBody, MutexInv, holds
<1>23. CASE Break
  BY <1>23 DEF Break, MutexInv, holds
<1>24. CASE Recover
  BY <1>24 DEF Recover, MutexInv, holds
<1>25. CASE UNCHANGED vars
  BY <1>25 DEF vars, MutexInv, holds
<1>26. QED
  BY <1>1, <1>2, <1>3, <1>4, <1>5, <1>6, <1>7, <1>8, <1>9, <1>10, <1>11, <1>12, <1>13,
     <1>14, <1>15, <1>16, <1>17, <1>18, <1>19, <1>20, <1>21, <1>22, <1>23, <1>24, <1>25 DEF Next, send, Receiver

(* Every step keeps MsgInv. *)
LEMMA MsgNext ==
  TypeOK /\ MsgInv /\ [Next]_vars => MsgInv'
<1> SUFFICES ASSUME TypeOK, MsgInv, [Next]_vars PROVE MsgInv'
  OBVIOUS
<1> USE DEF tasks, link, server, counts, results
<1>0. \A t \in Tasks : \A w : goto(t, w) => pc'[t] = w /\ \A u \in Tasks \ {t} : pc'[u] = pc[u]
  BY DEF TypeOK, goto
<1>00. taken \in Nat /\ queued \in Nat /\ msg \in [Tasks -> Messages]
  BY DEF TypeOK
<1> USE DEF Tasks, Sending, Startup, Keepalive, ShutdownMsg
<1>1. ASSUME NEW t \in Tasks, Lock(t) PROVE MsgInv'
  BY <1>1, <1>0, <1>00 DEF Lock, MsgInv
<1>2. ASSUME NEW t \in Tasks, Acquire(t) PROVE MsgInv'
  BY <1>2, <1>0, <1>00 DEF Acquire, MsgInv
<1>3. ASSUME NEW t \in Tasks, Connect(t) PROVE MsgInv'
  <2>1. pc'[t] \in {"send", "resend"} /\ \A u \in Tasks \ {t} : pc'[u] = pc[u]
    BY <1>3, <1>0 DEF Connect
  <2>2. t # "receive" /\ pc[t] \in {"boot", "reconnect"}
    BY <1>3 DEF Connect, MsgInv
  <2>3. msg' = msg /\ taken' = taken /\ shutdown' = shutdown
    BY <1>3 DEF Connect
  <2>4. t = "forward" => msg["forward"] \in 1..taken
    BY <1>3, <2>2 DEF MsgInv, Connect
  <2>5. QED  BY <2>1, <2>2, <2>3, <2>4 DEF MsgInv
<1>4. ASSUME NEW t \in Tasks, Send(t) PROVE MsgInv'
  <2>1. PICK ok \in BOOLEAN : sent(t, ok)
    BY <1>4, Zenon DEF Send
  <2>2. pc[t] \in {"send", "resend"} /\ msg' = msg /\ taken' = taken /\ shutdown' = shutdown
    BY <1>4 DEF Send
  <2>3. /\ pc'[t] \in {"idle", "failed", "join"}
        /\ \A u \in Tasks \ {t} : pc'[u] = pc[u] \/ (pc[u] = "off" /\ pc'[u] = "idle" /\ msg[t] = Startup)
        /\ msg[t] = Startup => t = "main"
        /\ msg[t] # Startup => pc'[t] \in {"idle", "join"} /\ \A u \in Tasks \ {t} : pc'[u] = pc[u]
        /\ pc'[t] = "failed" => t = "main" /\ \A u \in Tasks \ {t} : pc'[u] = "off"
    BY <2>1, <2>2, SentMoves
  <2>4. t # "receive"
    BY <2>2 DEF MsgInv
  <2>5. CASE msg[t] = Startup
    <3>1. t = "main" /\ \A u \in Tasks \ {"main"} : pc[u] = "off"
      BY <2>2, <2>3, <2>5 DEF MsgInv
    <3>2. \A u \in Tasks \ {"main"} : pc'[u] \in {"off", "idle"}
      BY <2>3, <3>1
    <3>3. pc'["main"] \in {"idle", "failed"}
      BY <2>1, <2>3, <2>5, <3>1 DEF sent, TypeOK
    <3>4. QED  BY <2>2, <2>3, <2>5, <3>1, <3>2, <3>3 DEF MsgInv
  <2>6. CASE msg[t] # Startup
    BY <2>2, <2>3, <2>4, <2>6 DEF MsgInv
  <2>7. QED  BY <2>5, <2>6
<1>5. ASSUME NEW t \in Tasks, SendFails(t) PROVE MsgInv'
  BY <1>5, <1>0, <1>00 DEF SendFails, MsgInv
<1>6. ASSUME NEW t \in Tasks, Resend(t) PROVE MsgInv'
  <2>1. PICK ok \in BOOLEAN : sent(t, ok)
    BY <1>6, Zenon DEF Resend
  <2>2. pc[t] \in {"send", "resend"} /\ msg' = msg /\ taken' = taken /\ shutdown' = shutdown
    BY <1>6 DEF Resend
  <2>3. /\ pc'[t] \in {"idle", "failed", "join"}
        /\ \A u \in Tasks \ {t} : pc'[u] = pc[u] \/ (pc[u] = "off" /\ pc'[u] = "idle" /\ msg[t] = Startup)
        /\ msg[t] = Startup => t = "main"
        /\ msg[t] # Startup => pc'[t] \in {"idle", "join"} /\ \A u \in Tasks \ {t} : pc'[u] = pc[u]
        /\ pc'[t] = "failed" => t = "main" /\ \A u \in Tasks \ {t} : pc'[u] = "off"
    BY <2>1, <2>2, SentMoves
  <2>4. t # "receive"
    BY <2>2 DEF MsgInv
  <2>5. CASE msg[t] = Startup
    <3>1. t = "main" /\ \A u \in Tasks \ {"main"} : pc[u] = "off"
      BY <2>2, <2>3, <2>5 DEF MsgInv
    <3>2. \A u \in Tasks \ {"main"} : pc'[u] \in {"off", "idle"}
      BY <2>3, <3>1
    <3>3. pc'["main"] \in {"idle", "failed"}
      BY <2>1, <2>3, <2>5, <3>1 DEF sent, TypeOK
    <3>4. QED  BY <2>2, <2>3, <2>5, <3>1, <3>2, <3>3 DEF MsgInv
  <2>6. CASE msg[t] # Startup
    BY <2>2, <2>3, <2>4, <2>6 DEF MsgInv
  <2>7. QED  BY <2>5, <2>6
<1>7. CASE KeepaliveTick
  BY <1>7, <1>0, <1>00 DEF KeepaliveTick, MsgInv
<1>8. CASE KeepaliveStop
  BY <1>8, <1>0, <1>00 DEF KeepaliveStop, MsgInv
<1>9. CASE ForwardTake
  <2>1. taken' = taken + 1 /\ shutdown' = shutdown
    BY <1>9 DEF ForwardTake
  <2>2. 1..taken \subseteq 1..(taken + 1) /\ taken + 1 \in 1..(taken + 1)
    BY <1>00
  <2>3. CASE goto("forward", "want") /\ msg' = [msg EXCEPT !["forward"] = taken + 1]
    BY <1>0, <1>00, <2>1, <2>2, <2>3, <1>9 DEF MsgInv, ForwardTake
  <2>4. CASE UNCHANGED <<pc, msg>>
    BY <2>1, <2>2, <2>4 DEF MsgInv
  <2>5. QED  BY <1>9, <2>3, <2>4 DEF ForwardTake
<1>10. CASE ForwardStop
  BY <1>10, <1>0, <1>00 DEF ForwardStop, MsgInv
<1>11. CASE Publish
  BY <1>11, <1>0, <1>00 DEF Publish, MsgInv
<1>12. CASE ReceiveAgain
  BY <1>12, <1>0, <1>00 DEF ReceiveAgain, MsgInv
<1>13. CASE ReceiveLen
  BY <1>13, <1>0, <1>00 DEF ReceiveLen, MsgInv
<1>14. CASE ReceiveBody
  BY <1>14, <1>0, <1>00 DEF ReceiveBody, MsgInv, received
<1>15. CASE ReceiveGarbage
  BY <1>15, <1>0, <1>00, Zenon DEF ReceiveGarbage, MsgInv, received
<1>16. CASE ReceiveFails
  BY <1>16, <1>0, <1>00 DEF ReceiveFails, MsgInv, received
<1>17. CASE ReceiveTimeout
  BY <1>17, <1>0, <1>00 DEF ReceiveTimeout, MsgInv, received
<1>18. CASE ReceiveStop
  BY <1>18, <1>0, <1>00 DEF ReceiveStop, MsgInv
<1>19. CASE Shutdown
  BY <1>19, <1>0, <1>00 DEF Shutdown, MsgInv
<1>20. CASE Join
  BY <1>20, <1>0, <1>00 DEF Join, MsgInv
<1>21. CASE ServerSendsLen
  BY <1>21, <1>0, <1>00 DEF ServerSendsLen, MsgInv
<1>22. CASE ServerSendsBody
  BY <1>22, <1>0, <1>00 DEF ServerSendsBody, MsgInv
<1>23. CASE Break
  BY <1>23, <1>0, <1>00 DEF Break, MsgInv
<1>24. CASE Recover
  BY <1>24, <1>0, <1>00 DEF Recover, MsgInv
<1>25. CASE UNCHANGED vars
  BY <1>25 DEF vars, MsgInv
<1>26. QED
  BY <1>1, <1>2, <1>3, <1>4, <1>5, <1>6, <1>7, <1>8, <1>9, <1>10, <1>11, <1>12, <1>13,
     <1>14, <1>15, <1>16, <1>17, <1>18, <1>19, <1>20, <1>21, <1>22, <1>23, <1>24, <1>25 DEF Next, send, Receiver

(* The types of the tasks, of the connection, and of the counters and results. *)
TaskTypes ==
  /\ pc \in [Tasks -> {"off", "boot", "idle", "want", "lock", "send", "reconnect", "resend",
                       "readlen", "readbody", "join", "done", "failed"}]
  /\ msg \in [Tasks -> Messages]

LinkTypes ==
  /\ stream \in {"none", "up", "dead"} /\ aligned \in BOOLEAN /\ serverUp \in BOOLEAN
  /\ wire \in Seq({"len", "body"} \X (1..MaxCommands))
  /\ sentCmds \in 0..MaxCommands /\ half \in 0..sentCmds
  /\ published \in Seq(1..MaxCommands)

DataTypes ==
  /\ shutdown \in BOOLEAN
  /\ breaks \in 0..MaxBreaks /\ ticks \in 0..MaxTicks
  /\ queued \in 0..MaxEvents /\ taken \in 0..queued
  /\ got \in Seq(Messages) /\ failed \subseteq Messages /\ swallowed \subseteq Messages

(* The type invariant, by what the variables are about. *)
LEMMA TypeParts == TypeOK => TaskTypes /\ LinkTypes /\ DataTypes
  BY DEF TypeOK, TaskTypes, LinkTypes, DataTypes

(* Every step keeps the types of the tasks. *)
LEMMA TaskTypesNext ==
  TypeOK /\ TaskTypes /\ MsgInv /\ [Next]_vars => TaskTypes'
<1> SUFFICES ASSUME TypeOK, TaskTypes, MsgInv, [Next]_vars PROVE TaskTypes'
  OBVIOUS
<1> USE DEF tasks, link, server, counts, results
<1>1. ASSUME NEW t \in Tasks, Lock(t) PROVE TaskTypes'
  BY <1>1 DEF Lock, TaskTypes, goto
<1>2. ASSUME NEW t \in Tasks, Acquire(t) PROVE TaskTypes'
  BY <1>2 DEF Acquire, TaskTypes, goto
<1>3. ASSUME NEW t \in Tasks, Connect(t) PROVE TaskTypes'
  BY <1>3 DEF Connect, TaskTypes, goto
<1>4. ASSUME NEW t \in Tasks, Send(t) PROVE TaskTypes'
  <2>1. PICK ok \in BOOLEAN : sent(t, ok)
    BY <1>4, Zenon DEF Send
  <2>2. pc[t] \in {"send", "resend"} /\ msg' = msg
    BY <1>4 DEF Send
  <2>3. QED  BY <2>1, <2>2, SentMoves DEF TaskTypes
<1>5. ASSUME NEW t \in Tasks, SendFails(t) PROVE TaskTypes'
  BY <1>5 DEF SendFails, TaskTypes, goto
<1>6. ASSUME NEW t \in Tasks, Resend(t) PROVE TaskTypes'
  <2>1. PICK ok \in BOOLEAN : sent(t, ok)
    BY <1>6, Zenon DEF Resend
  <2>2. pc[t] \in {"send", "resend"} /\ msg' = msg
    BY <1>6 DEF Resend
  <2>3. QED  BY <2>1, <2>2, SentMoves DEF TaskTypes
<1>7. CASE KeepaliveTick
  BY <1>7, Zenon DEF KeepaliveTick, TaskTypes, goto
<1>8. CASE KeepaliveStop
  BY <1>8, Zenon DEF KeepaliveStop, TaskTypes, goto
<1>9. CASE ForwardTake
  <2>0. taken \in 0..queued /\ queued \in 0..MaxEvents
    BY DEF TypeOK
  <2>1. taken + 1 \in Messages
    BY <1>9, <2>0, ConnectionAssumption DEF ForwardTake, Messages
  <2>2. QED  BY <1>9, <2>1 DEF ForwardTake, TaskTypes, goto
<1>10. CASE ForwardStop
  BY <1>10, Zenon DEF ForwardStop, TaskTypes, goto
<1>11. CASE Publish
  BY <1>11 DEF Publish, TaskTypes
<1>12. CASE ReceiveAgain
  BY <1>12, Zenon DEF ReceiveAgain, TaskTypes, goto
<1>13. CASE ReceiveLen
  BY <1>13, Zenon DEF ReceiveLen, TaskTypes, goto
<1>14. CASE ReceiveBody
  BY <1>14, Zenon DEF ReceiveBody, TaskTypes, received, release, goto
<1>15. CASE ReceiveGarbage
  BY <1>15, Zenon DEF ReceiveGarbage, TaskTypes, received, release, goto
<1>16. CASE ReceiveFails
  BY <1>16, Zenon DEF ReceiveFails, TaskTypes, received, release, goto
<1>17. CASE ReceiveTimeout
  BY <1>17, Zenon DEF ReceiveTimeout, TaskTypes, received, release, goto
<1>18. CASE ReceiveStop
  BY <1>18, Zenon DEF ReceiveStop, TaskTypes, goto
<1>19. CASE Shutdown
  BY <1>19, Zenon DEF Shutdown, TaskTypes, goto, Messages
<1>20. CASE Join
  BY <1>20, Zenon DEF Join, TaskTypes, goto
<1>21. CASE ServerSendsLen
  BY <1>21 DEF ServerSendsLen, TaskTypes
<1>22. CASE ServerSendsBody
  BY <1>22 DEF ServerSendsBody, TaskTypes
<1>23. CASE Break
  BY <1>23 DEF Break, TaskTypes
<1>24. CASE Recover
  BY <1>24 DEF Recover, TaskTypes
<1>25. CASE UNCHANGED vars
  BY <1>25 DEF vars, TaskTypes
<1>26. QED
  BY <1>1, <1>2, <1>3, <1>4, <1>5, <1>6, <1>7, <1>8, <1>9, <1>10, <1>11, <1>12, <1>13,
     <1>14, <1>15, <1>16, <1>17, <1>18, <1>19, <1>20, <1>21, <1>22, <1>23, <1>24, <1>25 DEF Next, send, Receiver

(* Every step keeps the types of the connection. *)
LEMMA LinkTypesNext ==
  LinkTypes /\ [Next]_vars => LinkTypes'
<1> SUFFICES ASSUME LinkTypes, [Next]_vars PROVE LinkTypes'
  OBVIOUS
<1> USE DEF tasks, link, server, counts, results
<1>1. ASSUME NEW t \in Tasks, Lock(t) PROVE LinkTypes'
  BY <1>1 DEF Lock, LinkTypes
<1>2. ASSUME NEW t \in Tasks, Acquire(t) PROVE LinkTypes'
  BY <1>2 DEF Acquire, LinkTypes
<1>3. ASSUME NEW t \in Tasks, Connect(t) PROVE LinkTypes'
  BY <1>3 DEF Connect, LinkTypes
<1>4. ASSUME NEW t \in Tasks, Send(t) PROVE LinkTypes'
  <2>1. /\ stream' = stream \/ stream' = "none"
        /\ wire' = wire \/ wire' = <<>>
        /\ aligned' = aligned
    BY <1>4 DEF Send, sent
  <2>2. UNCHANGED <<serverUp, sentCmds, half, published>>
    BY <1>4 DEF Send
  <2>3. wire' \in Seq({"len", "body"} \X (1..MaxCommands))
    <3>1. CASE wire' = wire  BY <3>1 DEF LinkTypes
    <3>2. CASE wire' = <<>>  BY <3>2
    <3>3. QED  BY <2>1, <3>1, <3>2
  <2>4. stream' \in {"none", "up", "dead"} /\ aligned' \in BOOLEAN
    BY <2>1, Zenon DEF LinkTypes
  <2>5. QED  BY <2>2, <2>3, <2>4 DEF LinkTypes
<1>5. ASSUME NEW t \in Tasks, SendFails(t) PROVE LinkTypes'
  BY <1>5 DEF SendFails, LinkTypes
<1>6. ASSUME NEW t \in Tasks, Resend(t) PROVE LinkTypes'
  <2>1. /\ stream' = stream \/ stream' = "none"
        /\ wire' = wire \/ wire' = <<>>
        /\ aligned' = aligned
    BY <1>6 DEF Resend, sent
  <2>2. UNCHANGED <<serverUp, sentCmds, half, published>>
    BY <1>6 DEF Resend
  <2>3. wire' \in Seq({"len", "body"} \X (1..MaxCommands))
    <3>1. CASE wire' = wire  BY <3>1 DEF LinkTypes
    <3>2. CASE wire' = <<>>  BY <3>2
    <3>3. QED  BY <2>1, <3>1, <3>2
  <2>4. stream' \in {"none", "up", "dead"} /\ aligned' \in BOOLEAN
    BY <2>1, Zenon DEF LinkTypes
  <2>5. QED  BY <2>2, <2>3, <2>4 DEF LinkTypes
<1>7. CASE KeepaliveTick
  BY <1>7 DEF KeepaliveTick, LinkTypes
<1>8. CASE KeepaliveStop
  BY <1>8 DEF KeepaliveStop, LinkTypes
<1>9. CASE ForwardTake
  BY <1>9 DEF ForwardTake, LinkTypes
<1>10. CASE ForwardStop
  BY <1>10 DEF ForwardStop, LinkTypes
<1>11. CASE Publish
  BY <1>11 DEF Publish, LinkTypes
<1>12. CASE ReceiveAgain
  BY <1>12 DEF ReceiveAgain, LinkTypes
<1>13. CASE ReceiveLen
  BY <1>13 DEF ReceiveLen, LinkTypes
<1>14. CASE ReceiveBody
  <2>1. Head(wire)[2] \in 1..MaxCommands
    BY <1>14 DEF ReceiveBody, LinkTypes
  <2>2. QED  BY <1>14, <2>1 DEF ReceiveBody, LinkTypes
<1>15. CASE ReceiveGarbage
  BY <1>15 DEF ReceiveGarbage, LinkTypes, received
<1>16. CASE ReceiveFails
  BY <1>16 DEF ReceiveFails, LinkTypes, received
<1>17. CASE ReceiveTimeout
  BY <1>17 DEF ReceiveTimeout, LinkTypes, received
<1>18. CASE ReceiveStop
  BY <1>18 DEF ReceiveStop, LinkTypes
<1>19. CASE Shutdown
  BY <1>19 DEF Shutdown, LinkTypes
<1>20. CASE Join
  BY <1>20 DEF Join, LinkTypes
<1>21. CASE ServerSendsLen
  <2>1. sentCmds + 1 \in 1..MaxCommands /\ sentCmds + 1 \in 0..MaxCommands /\ sentCmds + 1 \in 0..(sentCmds + 1)
    BY <1>21, ConnectionAssumption DEF ServerSendsLen, LinkTypes
  <2>2. QED  BY <1>21, <2>1 DEF ServerSendsLen, LinkTypes
<1>22. CASE ServerSendsBody
  <2>1. half \in 1..MaxCommands /\ 0 \in 0..sentCmds
    BY <1>22, ConnectionAssumption DEF ServerSendsBody, LinkTypes
  <2>2. QED  BY <1>22, <2>1 DEF ServerSendsBody, LinkTypes
<1>23. CASE Break
  BY <1>23 DEF Break, LinkTypes
<1>24. CASE Recover
  BY <1>24 DEF Recover, LinkTypes
<1>25. CASE UNCHANGED vars
  BY <1>25 DEF vars, LinkTypes
<1>26. QED
  BY <1>1, <1>2, <1>3, <1>4, <1>5, <1>6, <1>7, <1>8, <1>9, <1>10, <1>11, <1>12, <1>13,
     <1>14, <1>15, <1>16, <1>17, <1>18, <1>19, <1>20, <1>21, <1>22, <1>23, <1>24, <1>25 DEF Next, send, Receiver

(* Every step keeps the types of the counters and results. *)
LEMMA DataTypesNext ==
  TypeOK /\ DataTypes /\ [Next]_vars => DataTypes'
<1> SUFFICES ASSUME TypeOK, DataTypes, [Next]_vars PROVE DataTypes'
  OBVIOUS
<1> USE DEF tasks, link, server, counts, results
<1> USE ConnectionAssumption
<1>1. ASSUME NEW t \in Tasks, Lock(t) PROVE DataTypes'
  BY <1>1 DEF Lock, DataTypes
<1>2. ASSUME NEW t \in Tasks, Acquire(t) PROVE DataTypes'
  BY <1>2 DEF Acquire, DataTypes
<1>3. ASSUME NEW t \in Tasks, Connect(t) PROVE DataTypes'
  BY <1>3 DEF Connect, DataTypes
<1>4. ASSUME NEW t \in Tasks, Send(t) PROVE DataTypes'
  <2>1. msg[t] \in Messages
    BY DEF TypeOK
  <2>2. /\ got' = got \/ got' = Append(got, msg[t])
        /\ failed' = failed \/ failed' = failed \cup {msg[t]}
        /\ swallowed' = swallowed \/ swallowed' = swallowed \cup {msg[t]}
    BY <1>4 DEF Send, write
  <2>3. got' \in Seq(Messages) /\ failed' \subseteq Messages /\ swallowed' \subseteq Messages
    BY <2>1, <2>2 DEF DataTypes
  <2>4. QED  BY <1>4, <2>3 DEF Send, DataTypes
<1>5. ASSUME NEW t \in Tasks, SendFails(t) PROVE DataTypes'
  BY <1>5 DEF SendFails, DataTypes
<1>6. ASSUME NEW t \in Tasks, Resend(t) PROVE DataTypes'
  <2>1. msg[t] \in Messages
    BY DEF TypeOK
  <2>2. /\ got' = got \/ got' = Append(got, msg[t])
        /\ failed' = failed \/ failed' = failed \cup {msg[t]}
        /\ swallowed' = swallowed \/ swallowed' = swallowed \cup {msg[t]}
    BY <1>6, Zenon DEF Resend, write
  <2>3. got' \in Seq(Messages) /\ failed' \subseteq Messages /\ swallowed' \subseteq Messages
    BY <2>1, <2>2 DEF DataTypes
  <2>4. QED  BY <1>6, <2>3 DEF Resend, DataTypes
<1>7. CASE KeepaliveTick
  BY <1>7 DEF KeepaliveTick, DataTypes
<1>8. CASE KeepaliveStop
  BY <1>8 DEF KeepaliveStop, DataTypes
<1>9. CASE ForwardTake
  BY <1>9 DEF ForwardTake, DataTypes
<1>10. CASE ForwardStop
  BY <1>10 DEF ForwardStop, DataTypes
<1>11. CASE Publish
  BY <1>11 DEF Publish, DataTypes
<1>12. CASE ReceiveAgain
  BY <1>12 DEF ReceiveAgain, DataTypes
<1>13. CASE ReceiveLen
  BY <1>13 DEF ReceiveLen, DataTypes
<1>14. CASE ReceiveBody
  BY <1>14 DEF ReceiveBody, DataTypes
<1>15. CASE ReceiveGarbage
  BY <1>15 DEF ReceiveGarbage, DataTypes
<1>16. CASE ReceiveFails
  BY <1>16 DEF ReceiveFails, DataTypes
<1>17. CASE ReceiveTimeout
  BY <1>17 DEF ReceiveTimeout, DataTypes
<1>18. CASE ReceiveStop
  BY <1>18 DEF ReceiveStop, DataTypes
<1>19. CASE Shutdown
  BY <1>19 DEF Shutdown, DataTypes
<1>20. CASE Join
  BY <1>20 DEF Join, DataTypes
<1>21. CASE ServerSendsLen
  BY <1>21 DEF ServerSendsLen, DataTypes
<1>22. CASE ServerSendsBody
  BY <1>22 DEF ServerSendsBody, DataTypes
<1>23. CASE Break
  BY <1>23 DEF Break, DataTypes
<1>24. CASE Recover
  BY <1>24 DEF Recover, DataTypes
<1>25. CASE UNCHANGED vars
  BY <1>25 DEF vars, DataTypes
<1>26. QED
  BY <1>1, <1>2, <1>3, <1>4, <1>5, <1>6, <1>7, <1>8, <1>9, <1>10, <1>11, <1>12, <1>13,
     <1>14, <1>15, <1>16, <1>17, <1>18, <1>19, <1>20, <1>21, <1>22, <1>23, <1>24, <1>25 DEF Next, send, Receiver

(* Every step keeps the types. *)
LEMMA TypeNext == TypeOK /\ MutexInv /\ MsgInv /\ [Next]_vars => TypeOK'
<1> SUFFICES ASSUME TypeOK, MutexInv, MsgInv, [Next]_vars PROVE TypeOK'
  OBVIOUS
<1>1. TaskTypes' /\ LinkTypes' /\ DataTypes'
  BY TypeParts, TaskTypesNext, LinkTypesNext, DataTypesNext
<1>2. MutexInv'
  BY MutexNext
<1>3. QED  BY <1>1, <1>2, Zenon DEF TypeOK, TaskTypes, LinkTypes, DataTypes, MutexInv, Inside

-----------------------------------------------------------------------------
(* What a step can mean to the server: nothing, an event taken, a message delivered. *)
Quiet ==
  /\ got' = got /\ taken' = taken /\ (shutdown => shutdown')
  /\ pc'["forward"] \in Sending => pc["forward"] \in Sending /\ msg'["forward"] = msg["forward"]

Takes ==
  /\ got' = got /\ taken' = taken + 1 /\ ~shutdown /\ shutdown' = shutdown
  /\ pc'["forward"] \in Sending => msg'["forward"] = taken + 1

Delivers(t) ==
  /\ pc[t] \in {"send", "resend"}
  /\ got' = Append(got, msg[t]) /\ UNCHANGED <<msg, taken, shutdown>>
  /\ pc'["forward"] \in Sending => t # "forward" /\ pc["forward"] \in Sending

(* Every step is one of the three. *)
LEMMA ServerStep ==
  TypeOK /\ MsgInv /\ [Next]_vars => (Quiet \/ Takes \/ \E u \in Tasks : Delivers(u))
<1> SUFFICES ASSUME TypeOK, MsgInv, [Next]_vars PROVE (Quiet \/ Takes \/ \E u \in Tasks : Delivers(u))
  OBVIOUS
<1> USE DEF tasks, link, server, counts, results
<1>0. \A t \in Tasks : \A w : goto(t, w) => pc'[t] = w /\ \A u \in Tasks \ {t} : pc'[u] = pc[u]
  BY DEF TypeOK, goto
<1> USE DEF Tasks, Sending
<1>1. ASSUME NEW t \in Tasks, Lock(t) PROVE (Quiet \/ Takes \/ \E u \in Tasks : Delivers(u))
  BY <1>1, <1>0 DEF Lock, Quiet
<1>2. ASSUME NEW t \in Tasks, Acquire(t) PROVE (Quiet \/ Takes \/ \E u \in Tasks : Delivers(u))
  BY <1>2, <1>0 DEF Acquire, Quiet
<1>3. ASSUME NEW t \in Tasks, Connect(t) PROVE (Quiet \/ Takes \/ \E u \in Tasks : Delivers(u))
  <2>1. pc'[t] \in {"send", "resend"} /\ \A u \in Tasks \ {t} : pc'[u] = pc[u]
    BY <1>3, <1>0 DEF Connect
  <2>2. t = "forward" => pc["forward"] = "reconnect"
    BY <1>3 DEF Connect, MsgInv
  <2>3. QED  BY <1>3, <2>1, <2>2 DEF Connect, Quiet
<1>4. ASSUME NEW t \in Tasks, Send(t) PROVE (Quiet \/ Takes \/ \E u \in Tasks : Delivers(u))
  <2>1. PICK ok \in BOOLEAN : sent(t, ok)
    BY <1>4, Zenon DEF Send
  <2>2. pc[t] \in {"send", "resend"} /\ UNCHANGED <<msg, taken, shutdown>>
    BY <1>4 DEF Send
  <2>3. got' = got \/ got' = Append(got, msg[t])
    BY <1>4 DEF Send, write
  <2>4. /\ pc'[t] \in {"idle", "failed", "join"}
        /\ \A u \in Tasks \ {t} : pc'[u] = pc[u] \/ pc'[u] = "idle"
    BY <2>1, <2>2, SentMoves
  <2>5. pc'["forward"] \in Sending => t # "forward" /\ pc["forward"] \in Sending
    BY <2>4
  <2>6. QED  BY <2>2, <2>3, <2>5 DEF Quiet, Delivers
<1>5. ASSUME NEW t \in Tasks, SendFails(t) PROVE (Quiet \/ Takes \/ \E u \in Tasks : Delivers(u))
  BY <1>5, <1>0 DEF SendFails, Quiet
<1>6. ASSUME NEW t \in Tasks, Resend(t) PROVE (Quiet \/ Takes \/ \E u \in Tasks : Delivers(u))
  <2>1. PICK ok \in BOOLEAN : sent(t, ok)
    BY <1>6, Zenon DEF Resend
  <2>2. pc[t] \in {"send", "resend"} /\ UNCHANGED <<msg, taken, shutdown>>
    BY <1>6 DEF Resend
  <2>3. got' = got \/ got' = Append(got, msg[t])
    BY <1>6, Zenon DEF Resend, write
  <2>4. /\ pc'[t] \in {"idle", "failed", "join"}
        /\ \A u \in Tasks \ {t} : pc'[u] = pc[u] \/ pc'[u] = "idle"
    BY <2>1, <2>2, SentMoves
  <2>5. pc'["forward"] \in Sending => t # "forward" /\ pc["forward"] \in Sending
    BY <2>4
  <2>6. QED  BY <2>2, <2>3, <2>5 DEF Quiet, Delivers
<1>7. CASE KeepaliveTick
  BY <1>7, <1>0 DEF KeepaliveTick, Quiet
<1>8. CASE KeepaliveStop
  BY <1>8, <1>0 DEF KeepaliveStop, Quiet
<1>9. CASE ForwardTake
  <2>1. CASE goto("forward", "want") /\ msg' = [msg EXCEPT !["forward"] = taken + 1]
    BY <1>9, <2>1 DEF ForwardTake, Takes, TypeOK
  <2>2. CASE UNCHANGED <<pc, msg>>
    BY <1>9, <2>2 DEF ForwardTake, Takes
  <2>3. QED  BY <1>9, <2>1, <2>2 DEF ForwardTake
<1>10. CASE ForwardStop
  BY <1>10, <1>0 DEF ForwardStop, Quiet
<1>11. CASE Publish
  BY <1>11, <1>0 DEF Publish, Quiet
<1>12. CASE ReceiveAgain
  BY <1>12, <1>0 DEF ReceiveAgain, Quiet
<1>13. CASE ReceiveLen
  BY <1>13, <1>0 DEF ReceiveLen, Quiet
<1>14. CASE ReceiveBody
  BY <1>14, <1>0 DEF ReceiveBody, Quiet, received
<1>15. CASE ReceiveGarbage
  BY <1>15, <1>0 DEF ReceiveGarbage, Quiet, received
<1>16. CASE ReceiveFails
  BY <1>16, <1>0 DEF ReceiveFails, Quiet, received
<1>17. CASE ReceiveTimeout
  BY <1>17, <1>0 DEF ReceiveTimeout, Quiet, received
<1>18. CASE ReceiveStop
  BY <1>18, <1>0 DEF ReceiveStop, Quiet
<1>19. CASE Shutdown
  BY <1>19, <1>0 DEF Shutdown, Quiet, TypeOK
<1>20. CASE Join
  BY <1>20, <1>0 DEF Join, Quiet
<1>21. CASE ServerSendsLen
  BY <1>21, <1>0 DEF ServerSendsLen, Quiet
<1>22. CASE ServerSendsBody
  BY <1>22, <1>0 DEF ServerSendsBody, Quiet
<1>23. CASE Break
  BY <1>23, <1>0 DEF Break, Quiet
<1>24. CASE Recover
  BY <1>24, <1>0 DEF Recover, Quiet
<1>25. CASE UNCHANGED vars
  BY <1>25, <1>0 DEF vars, Quiet
<1>26. QED
  BY <1>1, <1>2, <1>3, <1>4, <1>5, <1>6, <1>7, <1>8, <1>9, <1>10, <1>11, <1>12, <1>13, Zenon,
     <1>14, <1>15, <1>16, <1>17, <1>18, <1>19, <1>20, <1>21, <1>22, <1>23, <1>24, <1>25 DEF Next, send, Receiver

(* What Append does to what the server has. *)
LEMMA GotFacts ==
  ASSUME got \in Seq(Messages), NEW m \in Messages, got' = Append(got, m)
  PROVE  /\ Len(got) \in Nat /\ Len(got') = Len(got) + 1
         /\ \A i \in 1..Len(got) : got'[i] = got[i] /\ got[i] \in Messages
         /\ got'[Len(got) + 1] = m
  OBVIOUS

(* Every step keeps the order of the events. *)
LEMMA OrderNext ==
  TypeOK /\ MsgInv /\ OrderInv /\ [Next]_vars => OrderInv'
<1> SUFFICES ASSUME TypeOK, MsgInv, OrderInv, [Next]_vars PROVE OrderInv'
  OBVIOUS
<1>0. /\ got \in Seq(Messages) /\ Len(got) \in Nat /\ taken \in Nat /\ Messages \subseteq Int
      /\ \A i \in 1..Len(got) : got[i] \in Int
  <2>1. got \in Seq(Messages) /\ taken \in Nat /\ Messages \subseteq Int
    BY DEF TypeOK, Messages, Startup, Keepalive, ShutdownMsg
  <2>2. Len(got) \in Nat /\ \A i \in 1..Len(got) : got[i] \in Messages
    BY <2>1
  <2>3. QED  BY <2>1, <2>2, Zenon
<1>1. CASE Quiet
  BY <1>1 DEF Quiet, OrderInv, isEvent
<1>2. CASE Takes
  <2>1. \A i \in 1..Len(got) : got[i] <= taken + 1 /\ got[i] < taken + 1
    BY <1>0 DEF OrderInv
  <2>2. QED  BY <1>2, <2>1 DEF Takes, OrderInv, isEvent
<1>3. ASSUME NEW t \in Tasks, Delivers(t) PROVE OrderInv'
  <2>1. msg[t] \in Messages /\ msg[t] \in Int
    BY <1>0, Zenon DEF TypeOK
  <2>2. /\ Len(got') = Len(got) + 1 /\ got'[Len(got) + 1] = msg[t]
        /\ \A i \in 1..Len(got) : got'[i] = got[i]
        /\ taken' = taken /\ msg' = msg
        /\ pc'["forward"] \in Sending => t # "forward" /\ pc["forward"] \in Sending
    BY <1>0, <1>3, <2>1, GotFacts DEF Delivers
  <2>3. CASE t = "forward"
    <3>1. msg[t] \in 1..taken /\ \A i \in 1..Len(got) : got[i] < msg[t]
      BY <1>3, <2>3 DEF Delivers, MsgInv, OrderInv, Sending
    <3>2. ASSUME NEW i \in 1..Len(got'), NEW j \in 1..Len(got'), i < j, isEvent(got'[i]), isEvent(got'[j])
          PROVE  got'[i] < got'[j]
      <4>1. i \in 1..Len(got)  BY <1>0, <2>2, <3>2
      <4>2. CASE j = Len(got) + 1  BY <2>2, <3>1, <4>1, <4>2
      <4>3. CASE j \in 1..Len(got)  BY <2>2, <3>2, <4>1, <4>3 DEF OrderInv
      <4>4. QED  BY <1>0, <2>2, <4>2, <4>3
    <3>3. ASSUME NEW i \in 1..Len(got') PROVE got'[i] <= taken
      <4>1. CASE i = Len(got) + 1  BY <1>0, <2>2, <3>1, <4>1
      <4>2. CASE i \in 1..Len(got)  BY <2>2, <4>2 DEF OrderInv
      <4>3. QED  BY <1>0, <2>2, <4>1, <4>2
    <3>4. QED  BY <2>2, <2>3, <3>2, <3>3, Zenon DEF OrderInv
  <2>4. CASE t # "forward"
    <3>1. msg[t] <= 0
      BY <2>1, <2>4 DEF MsgInv, Tasks, Startup, Keepalive, ShutdownMsg
    <3>2. ASSUME NEW i \in 1..Len(got'), NEW j \in 1..Len(got'), i < j, isEvent(got'[i]), isEvent(got'[j])
          PROVE  got'[i] < got'[j]
      <4>1. i \in 1..Len(got) /\ j \in 1..Len(got)
        BY <1>0, <2>1, <2>2, <3>1, <3>2 DEF isEvent
      <4>2. QED  BY <2>2, <3>2, <4>1 DEF OrderInv
    <3>3. ASSUME NEW i \in 1..Len(got') PROVE got'[i] <= taken
      <4>1. CASE i = Len(got) + 1  BY <1>0, <2>1, <2>2, <3>1, <4>1
      <4>2. CASE i \in 1..Len(got)  BY <2>2, <4>2 DEF OrderInv
      <4>3. QED  BY <1>0, <2>2, <4>1, <4>2
    <3>4. ASSUME NEW i \in 1..Len(got'), pc["forward"] \in Sending PROVE got'[i] < msg["forward"]
      <4>1. msg["forward"] \in Int /\ msg["forward"] > 0
        BY <1>0, <3>4 DEF MsgInv
      <4>2. CASE i = Len(got) + 1  BY <2>1, <2>2, <3>1, <4>1, <4>2
      <4>3. CASE i \in 1..Len(got)  BY <2>2, <3>4, <4>3 DEF OrderInv
      <4>4. QED  BY <1>0, <2>2, <4>2, <4>3
    <3>5. QED  BY <2>2, <3>2, <3>3, <3>4 DEF OrderInv
  <2>5. QED  BY <2>3, <2>4
<1>4. QED  BY <1>1, <1>2, <1>3, ServerStep

(* What a delivery does to the events after a message. *)
LEMMA AfterFacts ==
  ASSUME got \in Seq(Messages), NEW m \in Messages, got' = Append(got, m), Messages \subseteq Int,
         NEW i \in 1..Len(got)
  PROVE  /\ IsFiniteSet(eventsAfter(i)) /\ Cardinality(eventsAfter(i)) \in Nat
         /\ ~isEvent(m) => eventsAfter(i)' = eventsAfter(i)
         /\ Cardinality(eventsAfter(i)') \in 0..(Cardinality(eventsAfter(i)) + 1)
<1>1. /\ Len(got) \in Nat /\ Len(got') = Len(got) + 1
      /\ \A k \in 1..Len(got) : got'[k] = got[k]
      /\ got'[Len(got) + 1] = m
  BY GotFacts
<1>2. IsFiniteSet((i + 1)..Len(got))
  BY <1>1, FS_Interval
<1>3. IsFiniteSet(eventsAfter(i)) /\ Cardinality(eventsAfter(i)) \in Nat
  BY <1>2, FS_Subset, FS_CardinalityType DEF eventsAfter
<1>4. /\ eventsAfter(i)' = eventsAfter(i) \/ eventsAfter(i)' = eventsAfter(i) \cup {Len(got) + 1}
      /\ ~isEvent(m) => eventsAfter(i)' = eventsAfter(i)
  <2>1. \A k : k \in (i + 1)..Len(got') <=> k \in (i + 1)..Len(got) \/ k = Len(got) + 1
    BY <1>1
  <2>2. \A k \in (i + 1)..Len(got) : got'[k] = got[k]
    BY <1>1
  <2>3. eventsAfter(i)' = {j \in (i + 1)..Len(got') : isEvent(got'[j])}
    BY DEF eventsAfter, isEvent
  <2>4. isEvent(m) => eventsAfter(i)' = eventsAfter(i) \cup {Len(got) + 1}
    BY <1>1, <2>1, <2>2, <2>3 DEF eventsAfter
  <2>5. ~isEvent(m) => eventsAfter(i)' = eventsAfter(i)
    BY <1>1, <2>1, <2>2, <2>3 DEF eventsAfter
  <2>6. QED  BY <2>4, <2>5
<1>5. ASSUME NEW E, IsFiniteSet(E), NEW x PROVE Cardinality(E \cup {x}) \in 0..(Cardinality(E) + 1)
  <2>1. IsFiniteSet(E \cup {x}) /\ Cardinality(E \cup {x}) = IF x \in E THEN Cardinality(E) ELSE Cardinality(E) + 1
    BY <1>5, FS_AddElement
  <2>2. Cardinality(E) \in Nat
    BY <1>5, FS_CardinalityType
  <2>3. QED  BY <2>1, <2>2
<1>6. Cardinality(eventsAfter(i)) \in 0..(Cardinality(eventsAfter(i)) + 1)
  BY <1>3
<1>7. Cardinality(eventsAfter(i) \cup {Len(got) + 1}) \in 0..(Cardinality(eventsAfter(i)) + 1)
  BY <1>3, <1>5, Zenon
<1>8. Cardinality(eventsAfter(i)') \in 0..(Cardinality(eventsAfter(i)) + 1)
  BY <1>4, <1>6, <1>7, Zenon
<1>9. QED  BY <1>3, <1>4, <1>8

(* Every step keeps what follows the shutdown message. *)
LEMMA LastNext ==
  TypeOK /\ MsgInv /\ LastInv /\ [Next]_vars => LastInv'
<1> SUFFICES ASSUME TypeOK, MsgInv, LastInv, [Next]_vars, NEW i \in 1..Len(got'), got'[i] = ShutdownMsg
             PROVE  shutdown' /\ Cardinality(eventsAfter(i)') <= (IF pc'["forward"] \in Sending THEN 0 ELSE 1)
  BY DEF LastInv
<1>0. got \in Seq(Messages) /\ Messages \subseteq Int /\ Len(got) \in Nat
  <2>1. got \in Seq(Messages) /\ Messages \subseteq Int
    BY DEF TypeOK, Messages, Startup, Keepalive, ShutdownMsg
  <2>2. QED  BY <2>1
<1>1. CASE Quiet
  <2>1. got' = got /\ eventsAfter(i)' = eventsAfter(i)
    BY <1>1 DEF Quiet, eventsAfter, isEvent
  <2>2. shutdown /\ Cardinality(eventsAfter(i)) <= (IF pc["forward"] \in Sending THEN 0 ELSE 1)
    BY <2>1 DEF LastInv
  <2>3. IsFiniteSet(eventsAfter(i))
    <3>1. IsFiniteSet((i + 1)..Len(got))
      BY <1>0, <2>1, FS_Interval
    <3>2. eventsAfter(i) \subseteq (i + 1)..Len(got)
      BY DEF eventsAfter
    <3>3. QED  BY <3>1, <3>2, FS_Subset
  <2>4. Cardinality(eventsAfter(i)) \in Nat
    BY <2>3, FS_CardinalityType
  <2>5. QED  BY <1>1, <2>1, <2>2, <2>4 DEF Quiet
<1>2. CASE Takes
  BY <1>2 DEF Takes, LastInv
<1>3. ASSUME NEW t \in Tasks, Delivers(t)
      PROVE  shutdown' /\ Cardinality(eventsAfter(i)') <= (IF pc'["forward"] \in Sending THEN 0 ELSE 1)
  <2>1. msg[t] \in Messages /\ msg[t] \in Int /\ got' = Append(got, msg[t]) /\ shutdown' = shutdown
    BY <1>0, <1>3, Zenon DEF TypeOK, Delivers
  <2>2. /\ Len(got') = Len(got) + 1 /\ got'[Len(got) + 1] = msg[t]
        /\ \A k \in 1..Len(got) : got'[k] = got[k]
    BY <1>0, <2>1, GotFacts
  <2>3. CASE i = Len(got) + 1
    <3>1. t = "main" /\ shutdown
      BY <2>2, <2>3 DEF MsgInv, Tasks, Startup, Keepalive, ShutdownMsg, TypeOK
    <3>2. (i + 1)..Len(got') = {}
      BY <1>0, <2>2, <2>3
    <3>3. eventsAfter(i)' = {}
      BY <3>2 DEF eventsAfter
    <3>4. QED  BY <2>1, <3>1, <3>3, FS_EmptySet
  <2>4. CASE i \in 1..Len(got)
    <3>1. shutdown /\ Cardinality(eventsAfter(i)) <= (IF pc["forward"] \in Sending THEN 0 ELSE 1)
      BY <2>2, <2>4 DEF LastInv
    <3>2. /\ Cardinality(eventsAfter(i)) \in Nat
          /\ ~isEvent(msg[t]) => eventsAfter(i)' = eventsAfter(i)
          /\ Cardinality(eventsAfter(i)') \in 0..(Cardinality(eventsAfter(i)) + 1)
      BY <1>0, <2>1, <2>4, AfterFacts
    <3>3. CASE t = "forward"
      <4>1. pc["forward"] \in Sending /\ pc'["forward"] \notin Sending
        BY <1>3, <3>3 DEF Delivers, Sending
      <4>2. QED  BY <2>1, <3>1, <3>2, <4>1
    <3>4. CASE t # "forward"
      <4>1. ~isEvent(msg[t])
        BY <2>1, <3>4 DEF MsgInv, Tasks, Startup, Keepalive, ShutdownMsg, isEvent
      <4>2. pc'["forward"] \in Sending => pc["forward"] \in Sending
        BY <1>3 DEF Delivers
      <4>3. QED  BY <2>1, <3>1, <3>2, <4>1, <4>2
    <3>5. QED  BY <3>3, <3>4
  <2>5. QED  BY <1>0, <2>2, <2>3, <2>4
<1>4. QED  BY <1>1, <1>2, <1>3, ServerStep

(* What a step can mean to the second attempts: nothing, a broken connection, a failure. *)
Harmless ==
  /\ UNCHANGED <<failed, breaks>>
  /\ stream' = "dead" /\ (\E u \in Tasks : pc'[u] = "resend") =>
       stream = "dead" /\ \E u \in Tasks : pc[u] = "resend"

Breaks == UNCHANGED failed /\ breaks' = breaks + 1

Fails(m) ==
  /\ stream = "dead" /\ \E u \in Tasks : pc[u] = "resend"
  /\ failed' = failed \cup {m} /\ UNCHANGED breaks
  /\ \A u \in Tasks : pc'[u] # "resend"

(* When a send returns, no task is at its second attempt. *)
LEMMA NobodyResends ==
  ASSUME TypeOK, MutexInv, MsgInv, NEW t \in Tasks, pc[t] \in {"send", "resend"},
         NEW ok \in BOOLEAN, sent(t, ok)
  PROVE  \A u \in Tasks : pc'[u] # "resend"
<1>1. /\ pc'[t] \in {"idle", "failed", "join"}
      /\ \A u \in Tasks \ {t} : pc'[u] = pc[u] \/ pc'[u] = "idle"
  BY SentMoves
<1>2. \A u \in Tasks \ {t} : pc[u] # "resend"
  BY Exclusive DEF Inside
<1>3. QED  BY <1>1, <1>2

(* Every step is one of the three. *)
LEMMA FailStep ==
  TypeOK /\ MutexInv /\ MsgInv /\ [Next]_vars => (Harmless \/ Breaks \/ \E m : Fails(m))
<1> SUFFICES ASSUME TypeOK, MutexInv, MsgInv, [Next]_vars PROVE (Harmless \/ Breaks \/ \E m : Fails(m))
  OBVIOUS
<1> USE DEF tasks, link, server, counts, results
<1>0. \A t \in Tasks : \A w : goto(t, w) => pc'[t] = w /\ \A u \in Tasks \ {t} : pc'[u] = pc[u]
  BY DEF TypeOK, goto
<1>00. {"main", "keepalive", "forward", "receive"} \subseteq Tasks
  BY DEF Tasks
<1>1. ASSUME NEW t \in Tasks, Lock(t) PROVE (Harmless \/ Breaks \/ \E m : Fails(m))
  BY <1>1, <1>0, <1>00 DEF Lock, Harmless
<1>2. ASSUME NEW t \in Tasks, Acquire(t) PROVE (Harmless \/ Breaks \/ \E m : Fails(m))
  <2>1. pc'[t] \in {"readlen", "send"} /\ \A u \in Tasks \ {t} : pc'[u] = pc[u]
    BY <1>2, <1>0 DEF Acquire
  <2>2. QED  BY <1>2, <2>1 DEF Acquire, Harmless
<1>3. ASSUME NEW t \in Tasks, Connect(t) PROVE (Harmless \/ Breaks \/ \E m : Fails(m))
  BY <1>3 DEF Connect, Harmless
<1>4. ASSUME NEW t \in Tasks, Send(t) PROVE (Harmless \/ Breaks \/ \E m : Fails(m))
  <2>1. PICK ok \in BOOLEAN : sent(t, ok)
    BY <1>4, Zenon DEF Send
  <2>2. pc[t] \in {"send", "resend"} /\ pc[t] \in Inside /\ UNCHANGED <<failed, breaks>>
    BY <1>4 DEF Send, Inside
  <2>3. \A u \in Tasks : pc'[u] # "resend"
    BY <2>1, <2>2, NobodyResends
  <2>4. QED  BY <2>2, <2>3 DEF Harmless
<1>5. ASSUME NEW t \in Tasks, SendFails(t) PROVE (Harmless \/ Breaks \/ \E m : Fails(m))
  BY <1>5 DEF SendFails, Harmless
<1>6. ASSUME NEW t \in Tasks, Resend(t) PROVE (Harmless \/ Breaks \/ \E m : Fails(m))
  <2>1. PICK ok \in BOOLEAN : sent(t, ok)
    BY <1>6, Zenon DEF Resend
  <2>2. pc[t] \in {"send", "resend"} /\ UNCHANGED breaks
    BY <1>6 DEF Resend
  <2>3. \A u \in Tasks : pc'[u] # "resend"
    BY <2>1, <2>2, NobodyResends
  <2>4. CASE failed' = failed
    BY <2>2, <2>3, <2>4 DEF Harmless
  <2>5. CASE stream = "dead" /\ failed' = failed \cup {msg[t]}
    BY <1>6, <2>2, <2>3, <2>5 DEF Fails, Resend
  <2>6. QED  BY <1>6, <2>4, <2>5, Zenon DEF Resend
<1>7. CASE KeepaliveTick
  BY <1>7, <1>0, <1>00 DEF KeepaliveTick, Harmless
<1>8. CASE KeepaliveStop
  BY <1>8, <1>0, <1>00 DEF KeepaliveStop, Harmless
<1>9. CASE ForwardTake
  <2>1. CASE goto("forward", "want")
    BY <1>9, <1>0, <1>00, <2>1 DEF ForwardTake, Harmless
  <2>2. CASE UNCHANGED pc
    BY <1>9, <2>2 DEF ForwardTake, Harmless
  <2>3. QED  BY <1>9, <2>1, <2>2 DEF ForwardTake
<1>10. CASE ForwardStop
  BY <1>10, <1>0, <1>00 DEF ForwardStop, Harmless
<1>11. CASE Publish
  BY <1>11 DEF Publish, Harmless
<1>12. CASE ReceiveAgain
  BY <1>12, <1>0, <1>00 DEF ReceiveAgain, Harmless
<1>13. CASE ReceiveLen
  BY <1>13, <1>0, <1>00 DEF ReceiveLen, Harmless
<1>14. CASE ReceiveBody
  BY <1>14, <1>0, <1>00 DEF ReceiveBody, Harmless, received
<1>15. CASE ReceiveGarbage
  BY <1>15, <1>0, <1>00 DEF ReceiveGarbage, Harmless, received
<1>16. CASE ReceiveFails
  BY <1>16, <1>0, <1>00 DEF ReceiveFails, Harmless, received
<1>17. CASE ReceiveTimeout
  BY <1>17, <1>0, <1>00 DEF ReceiveTimeout, Harmless, received
<1>18. CASE ReceiveStop
  BY <1>18, <1>0, <1>00 DEF ReceiveStop, Harmless
<1>19. CASE Shutdown
  BY <1>19, <1>0, <1>00 DEF Shutdown, Harmless
<1>20. CASE Join
  BY <1>20, <1>0, <1>00 DEF Join, Harmless
<1>21. CASE ServerSendsLen
  BY <1>21 DEF ServerSendsLen, Harmless
<1>22. CASE ServerSendsBody
  BY <1>22 DEF ServerSendsBody, Harmless
<1>23. CASE Break
  BY <1>23 DEF Break, Breaks
<1>24. CASE Recover
  BY <1>24 DEF Recover, Harmless
<1>25. CASE UNCHANGED vars
  BY <1>25, <1>0, <1>00 DEF vars, Harmless
<1>26. QED
  BY <1>1, <1>2, <1>3, <1>4, <1>5, <1>6, <1>7, <1>8, <1>9, <1>10, <1>11, <1>12, <1>13,
     <1>14, <1>15, <1>16, <1>17, <1>18, <1>19, <1>20, <1>21, <1>22, <1>23, <1>24, <1>25 DEF Next, send, Receiver

(* Every step keeps the account of the failures. *)
LEMMA FailedNext ==
  TypeOK /\ MutexInv /\ MsgInv /\ FailedInv /\ [Next]_vars => FailedInv'
<1> SUFFICES ASSUME TypeOK, MutexInv, MsgInv, FailedInv, [Next]_vars PROVE FailedInv'
  OBVIOUS
<1>0. IsFiniteSet(failed) /\ Cardinality(failed) \in Nat /\ breaks \in Nat
  BY FS_CardinalityType DEF FailedInv, TypeOK
<1>1. CASE Harmless
  <2>1. UNCHANGED <<failed, breaks>>
    BY <1>1 DEF Harmless
  <2>2. CASE stream' = "dead" /\ \E u \in Tasks : pc'[u] = "resend"
    BY <1>1, <2>1, <2>2 DEF Harmless, FailedInv
  <2>3. CASE ~(stream' = "dead" /\ \E u \in Tasks : pc'[u] = "resend")
    <3>1. Cardinality(failed) + 0 <= breaks
      BY <1>0 DEF FailedInv
    <3>2. QED  BY <1>0, <2>1, <2>3, <3>1 DEF FailedInv
  <2>4. QED  BY <2>2, <2>3
<1>2. CASE Breaks
  <2>1. Cardinality(failed) + 1 <= breaks + 1 /\ Cardinality(failed) + 0 <= breaks + 1
    BY <1>0 DEF FailedInv
  <2>2. QED  BY <1>0, <1>2, <2>1 DEF FailedInv, Breaks
<1>3. ASSUME NEW m, Fails(m) PROVE FailedInv'
  <2>1. IsFiniteSet(failed \cup {m}) /\ Cardinality(failed \cup {m}) <= Cardinality(failed) + 1
    BY <1>0, FS_AddElement
  <2>2. Cardinality(failed) + 1 <= breaks
    BY <1>3 DEF Fails, FailedInv
  <2>3. Cardinality(failed \cup {m}) \in Nat
    BY <2>1, FS_CardinalityType
  <2>4. Cardinality(failed \cup {m}) + 0 <= breaks
    BY <1>0, <2>1, <2>2, <2>3
  <2>5. QED  BY <1>3, <2>1, <2>4 DEF Fails, FailedInv
<1>4. QED  BY <1>1, <1>2, <1>3, FailStep

-----------------------------------------------------------------------------
(* What a step can mean to the frames of the server: nothing, a new connection or none,
   a piece read, a piece sent. *)
Idles ==
  /\ UNCHANGED <<wire, half, sentCmds, published>>
  /\ pc'["receive"] = "readbody" => pc["receive"] = "readbody"
  /\ stream' = "up" => stream = "up"

Clears ==
  /\ wire' = <<>> /\ UNCHANGED <<sentCmds, published>> /\ half' \in {0, half}
  /\ pc'["receive"] # "readbody"

Reads ==
  /\ wire # <<>> /\ wire' = Tail(wire) /\ UNCHANGED <<half, sentCmds, stream>>
  /\ \/ published' = published /\ Head(wire)[1] = "len"
     \/ published' = published /\ pc'["receive"] # "readbody"
     \/ /\ published' = Append(published, Head(wire)[2])
        /\ pc["receive"] = "readbody" /\ pc'["receive"] # "readbody"

(* Every step is one of these. *)
LEMMA WireStep ==
  TypeOK /\ MutexInv /\ MsgInv /\ [Next]_vars => (Idles \/ Clears \/ Reads \/ ServerSendsLen \/ ServerSendsBody)
<1> SUFFICES ASSUME TypeOK, MutexInv, MsgInv, [Next]_vars PROVE (Idles \/ Clears \/ Reads \/ ServerSendsLen \/ ServerSendsBody)
  OBVIOUS
<1> USE DEF tasks, link, server, counts, results
<1>0. \A t \in Tasks : \A w : goto(t, w) => pc'[t] = w /\ \A u \in Tasks \ {t} : pc'[u] = pc[u]
  BY DEF TypeOK, goto
<1>00. {"main", "keepalive", "forward", "receive"} \subseteq Tasks
  BY DEF Tasks
<1>1. ASSUME NEW t \in Tasks, Lock(t) PROVE (Idles \/ Clears \/ Reads \/ ServerSendsLen \/ ServerSendsBody)
  BY <1>1, <1>0, <1>00 DEF Lock, Idles
<1>2. ASSUME NEW t \in Tasks, Acquire(t) PROVE (Idles \/ Clears \/ Reads \/ ServerSendsLen \/ ServerSendsBody)
  <2>1. pc'[t] \in {"readlen", "send"} /\ \A u \in Tasks \ {t} : pc'[u] = pc[u]
    BY <1>2, <1>0 DEF Acquire
  <2>2. QED  BY <1>2, <1>00, <2>1 DEF Acquire, Idles
<1>3. ASSUME NEW t \in Tasks, Connect(t) PROVE (Idles \/ Clears \/ Reads \/ ServerSendsLen \/ ServerSendsBody)
  <2>1. pc[t] \in Inside /\ pc[t] # "readbody"
    BY <1>3 DEF Connect, Inside
  <2>2. pc["receive"] # "readbody"
    BY <1>00, <2>1, Exclusive DEF Inside
  <2>3. pc'[t] \in {"send", "resend"} /\ \A u \in Tasks \ {t} : pc'[u] = pc[u]
    BY <1>3, <1>0 DEF Connect
  <2>4. QED  BY <1>3, <1>00, <2>2, <2>3 DEF Connect, Clears
<1>4. ASSUME NEW t \in Tasks, Send(t) PROVE (Idles \/ Clears \/ Reads \/ ServerSendsLen \/ ServerSendsBody)
  <2>1. PICK ok \in BOOLEAN : sent(t, ok)
    BY <1>4, Zenon DEF Send
  <2>2. pc[t] \in {"send", "resend"} /\ pc[t] \in Inside /\ UNCHANGED <<half, sentCmds, published>>
    BY <1>4 DEF Send, Inside
  <2>3. pc["receive"] # "readbody"
    BY <1>00, <2>2, Exclusive DEF Inside
  <2>4. /\ pc'[t] \in {"idle", "failed", "join"}
        /\ \A u \in Tasks \ {t} : pc'[u] = pc[u] \/ pc'[u] = "idle"
    BY <2>1, <2>2, SentMoves
  <2>5. pc'["receive"] # "readbody"
    BY <1>00, <2>3, <2>4
  <2>6. (wire' = wire /\ stream' = stream) \/ wire' = <<>>
    BY <2>1 DEF sent
  <2>7. QED  BY <2>2, <2>5, <2>6 DEF Idles, Clears
<1>5. ASSUME NEW t \in Tasks, SendFails(t) PROVE (Idles \/ Clears \/ Reads \/ ServerSendsLen \/ ServerSendsBody)
  BY <1>5, <1>0, <1>00 DEF SendFails, Idles
<1>6. ASSUME NEW t \in Tasks, Resend(t) PROVE (Idles \/ Clears \/ Reads \/ ServerSendsLen \/ ServerSendsBody)
  <2>1. PICK ok \in BOOLEAN : sent(t, ok)
    BY <1>6, Zenon DEF Resend
  <2>2. pc[t] \in {"send", "resend"} /\ pc[t] \in Inside /\ UNCHANGED <<half, sentCmds, published>>
    BY <1>6 DEF Resend, Inside
  <2>3. pc["receive"] # "readbody"
    BY <1>00, <2>2, Exclusive DEF Inside
  <2>4. /\ pc'[t] \in {"idle", "failed", "join"}
        /\ \A u \in Tasks \ {t} : pc'[u] = pc[u] \/ pc'[u] = "idle"
    BY <2>1, <2>2, SentMoves
  <2>5. pc'["receive"] # "readbody"
    BY <1>00, <2>3, <2>4
  <2>6. (wire' = wire /\ stream' = stream) \/ wire' = <<>>
    BY <2>1 DEF sent
  <2>7. QED  BY <2>2, <2>5, <2>6 DEF Idles, Clears
<1>7. CASE KeepaliveTick
  BY <1>7, <1>0, <1>00 DEF KeepaliveTick, Idles
<1>8. CASE KeepaliveStop
  BY <1>8, <1>0, <1>00 DEF KeepaliveStop, Idles
<1>9. CASE ForwardTake
  <2>1. CASE goto("forward", "want")
    BY <1>9, <1>0, <1>00, <2>1 DEF ForwardTake, Idles
  <2>2. CASE UNCHANGED pc
    BY <1>9, <2>2 DEF ForwardTake, Idles
  <2>3. QED  BY <1>9, <2>1, <2>2 DEF ForwardTake
<1>10. CASE ForwardStop
  BY <1>10, <1>0, <1>00 DEF ForwardStop, Idles
<1>11. CASE Publish
  BY <1>11 DEF Publish, Idles
<1>12. CASE ReceiveAgain
  BY <1>12, <1>0, <1>00 DEF ReceiveAgain, Idles
<1>13. CASE ReceiveLen
  BY <1>13, <1>0, <1>00 DEF ReceiveLen, Reads
<1>14. CASE ReceiveBody
  BY <1>14, <1>0, <1>00 DEF ReceiveBody, Reads, received
<1>15. CASE ReceiveGarbage
  BY <1>15, <1>0, <1>00 DEF ReceiveGarbage, Reads, received
<1>16. CASE ReceiveFails
  BY <1>16, <1>0, <1>00 DEF ReceiveFails, Idles, received
<1>17. CASE ReceiveTimeout
  BY <1>17, <1>0, <1>00 DEF ReceiveTimeout, Idles, received
<1>18. CASE ReceiveStop
  BY <1>18, <1>0, <1>00 DEF ReceiveStop, Idles
<1>19. CASE Shutdown
  BY <1>19, <1>0, <1>00 DEF Shutdown, Idles
<1>20. CASE Join
  BY <1>20, <1>0, <1>00 DEF Join, Idles
<1>21. CASE ServerSendsLen
  BY <1>21
<1>22. CASE ServerSendsBody
  BY <1>22
<1>23. CASE Break
  BY <1>23 DEF Break, Idles
<1>24. CASE Recover
  BY <1>24 DEF Recover, Idles
<1>25. CASE UNCHANGED vars
  BY <1>25, <1>0, <1>00, Zenon DEF vars, Idles
<1>26. QED
  BY <1>1, <1>2, <1>3, <1>4, <1>5, <1>6, <1>7, <1>8, <1>9, <1>10, <1>11, <1>12, <1>13,
     <1>14, <1>15, <1>16, <1>17, <1>18, <1>19, <1>20, <1>21, <1>22, <1>23, <1>24, <1>25 DEF Next, send, Receiver

(* The elements of the wire and of the commands published. *)
LEMMA WireFacts ==
  ASSUME TypeOK
  PROVE  /\ Len(wire) \in Nat /\ Len(published) \in Nat /\ half \in Nat /\ sentCmds \in Nat
         /\ \A i \in 1..Len(wire) : wire[i][1] \in {"len", "body"} /\ wire[i][2] \in Nat
         /\ \A k \in 1..Len(published) : published[k] \in Nat
         /\ wire = <<>> <=> Len(wire) = 0
         /\ wire # <<>> => /\ Head(wire) = wire[1] /\ Len(Tail(wire)) = Len(wire) - 1
                           /\ \A i \in 1..(Len(wire) - 1) : Tail(wire)[i] = wire[i + 1]
         /\ \A x \in {"len", "body"} \X Nat :
              /\ Len(Append(wire, x)) = Len(wire) + 1 /\ Append(wire, x)[Len(wire) + 1] = x
              /\ \A i \in 1..Len(wire) : Append(wire, x)[i] = wire[i]
         /\ \A c \in Nat :
              /\ Len(Append(published, c)) = Len(published) + 1
              /\ Append(published, c)[Len(published) + 1] = c
              /\ \A k \in 1..Len(published) : Append(published, c)[k] = published[k]
<1> DEFINE S == {"len", "body"} \X Nat
<1>1. half \in Nat /\ sentCmds \in Nat
  BY ConnectionAssumption DEF TypeOK
<1>2. wire \in Seq(S) /\ published \in Seq(Nat)
  BY ConnectionAssumption DEF TypeOK
<1>3. /\ Len(wire) \in Nat /\ \A i \in 1..Len(wire) : wire[i] \in S
      /\ Len(published) \in Nat /\ \A k \in 1..Len(published) : published[k] \in Nat
  BY <1>2
<1>4. \A i \in 1..Len(wire) : wire[i][1] \in {"len", "body"} /\ wire[i][2] \in Nat
  BY <1>3
<1> HIDE DEF S
<1>5. wire = <<>> <=> Len(wire) = 0
  BY <1>2
<1>6. wire # <<>> => /\ Head(wire) = wire[1] /\ Len(Tail(wire)) = Len(wire) - 1
                     /\ \A i \in 1..(Len(wire) - 1) : Tail(wire)[i] = wire[i + 1]
  BY <1>2, <1>3
<1>7. \A x \in S :
        /\ Len(Append(wire, x)) = Len(wire) + 1 /\ Append(wire, x)[Len(wire) + 1] = x
        /\ \A i \in 1..Len(wire) : Append(wire, x)[i] = wire[i]
  BY <1>2, <1>3
<1>8. \A c \in Nat :
        /\ Len(Append(published, c)) = Len(published) + 1
        /\ Append(published, c)[Len(published) + 1] = c
        /\ \A k \in 1..Len(published) : Append(published, c)[k] = published[k]
  BY <1>2, <1>3
<1>9. QED  BY <1>1, <1>3, <1>4, <1>5, <1>6, <1>7, <1>8 DEF S

(* A step that reads a piece keeps the order of the frames and of the commands. *)
LEMMA ReadsKeep ==
  ASSUME TypeOK, WireInv, ReadInv, PublishedInv, Reads
  PROVE  WireInv' /\ ReadInv' /\ PublishedInv'
<1>0. /\ Len(wire) \in Nat /\ Len(wire) > 0 /\ Len(published) \in Nat /\ half \in Nat /\ sentCmds \in Nat
      /\ \A i \in 1..Len(wire) : wire[i][1] \in {"len", "body"} /\ wire[i][2] \in Nat
      /\ \A k \in 1..Len(published) : published[k] \in Nat
      /\ Head(wire) = wire[1] /\ Len(wire') = Len(wire) - 1
      /\ \A i \in 1..Len(wire') : wire'[i] = wire[i + 1]
      /\ half' = half /\ sentCmds' = sentCmds
      /\ wire' = <<>> => Len(wire) = 1
  <2>1. wire # <<>> /\ wire' = Tail(wire) /\ half' = half /\ sentCmds' = sentCmds
    BY DEF Reads
  <2>2. Len(wire) > 0
    <3>1. Len(wire) \in Nat /\ Len(wire) # 0
      BY <2>1, WireFacts, Zenon
    <3>2. QED  BY <3>1
  <2>3. wire' = <<>> => Len(wire) = 1
    <3>1. Len(wire') = Len(wire) - 1 /\ Len(wire) \in Nat
      BY <2>1, WireFacts, Zenon
    <3>2. wire' = <<>> => Len(wire') = 0
      OBVIOUS
    <3>3. QED  BY <3>1, <3>2
  <2>4. QED  BY <2>1, <2>2, <2>3, WireFacts, Zenon
<1>00. Len(wire) \in Nat /\ Len(wire) > 0 /\ Len(wire') = Len(wire) - 1 /\ Len(published) \in Nat
  BY <1>0, Zenon
<1>1. \A i \in 1..Len(wire') : i + 1 \in 1..Len(wire) /\ (i = Len(wire') <=> i + 1 = Len(wire))
  BY <1>00
<1>2. WireInv'
  <2>1. half' \in {0, sentCmds'} /\ \A i \in 1..Len(wire') : wire'[i][2] <= sentCmds'
    BY <1>0, <1>1, Zenon DEF WireInv
  <2>2. ASSUME NEW i \in 1..Len(wire'), NEW j \in 1..Len(wire'), i < j
        PROVE  wire'[i][2] <= wire'[j][2] /\ (wire'[i][1] = "body" => wire'[i][2] < wire'[j][2])
    <3>1. i + 1 < j + 1 /\ i + 1 \in 1..Len(wire) /\ j + 1 \in 1..Len(wire)
      BY <1>0, <1>1, <2>2
    <3>2. QED  BY <1>0, <3>1, Zenon DEF WireInv
  <2>3. ASSUME NEW i \in 1..Len(wire'), wire'[i][1] = "len"
        PROVE  IF i = Len(wire') THEN half' # 0 ELSE wire'[i + 1][1] = "body"
    <3>1. i + 1 \in 1..Len(wire) /\ wire[i + 1][1] = "len" /\ (i = Len(wire') <=> i + 1 = Len(wire))
      BY <1>0, <1>1, <2>3
    <3>2. CASE i = Len(wire')
      BY <1>0, <3>1, <3>2 DEF WireInv
    <3>3. CASE i # Len(wire')
      <4>1. i + 1 \in 1..Len(wire') /\ wire'[i + 1] = wire[(i + 1) + 1]
        BY <1>0, <3>3
      <4>2. wire[(i + 1) + 1][1] = "body"
        BY <3>1, <3>3 DEF WireInv
      <4>3. QED  BY <3>3, <4>1, <4>2
    <3>4. QED  BY <3>2, <3>3
  <2>4. half' # 0 => \A i \in 1..Len(wire') : wire'[i][1] = "body" => wire'[i][2] < half'
    BY <1>0, <1>1 DEF WireInv
  <2>5. QED  BY <2>1, <2>2, <2>3, <2>4, Zenon DEF WireInv
<1>3. ReadInv'
  <2> SUFFICES ASSUME pc'["receive"] = "readbody"
               PROVE  IF wire' = <<>> THEN half' # 0 ELSE wire'[1][1] = "body"
    BY DEF ReadInv
  <2>1. wire[1][1] = "len"
    <3>1. Head(wire)[1] = "len"
      BY Zenon DEF Reads
    <3>2. QED  BY <1>0, <3>1, Zenon
  <2>2. 1 \in 1..Len(wire)
    BY <1>0
  <2>3. CASE wire' = <<>>
    BY <1>0, <2>1, <2>2, <2>3 DEF WireInv
  <2>4. CASE wire' # <<>>
    <3>1. Len(wire) # 1
      <4>1. wire' = Tail(wire) /\ wire \in Seq({"len", "body"} \X (1..MaxCommands)) /\ wire # <<>>
        BY DEF Reads, TypeOK
      <4>2. Tail(wire) \in Seq({"len", "body"} \X (1..MaxCommands))
        BY <4>1
      <4>3. Len(wire') # 0
        BY <2>4, <4>1, <4>2
      <4>4. QED  BY <1>0, <4>3
    <3>2. 1 \in 1..Len(wire') /\ 1 + 1 \in 1..Len(wire) /\ wire'[1] = wire[1 + 1]
      BY <1>0, <3>1
    <3>3. QED  BY <2>1, <2>2, <2>4, <3>1, <3>2 DEF WireInv
  <2>5. QED  BY <2>3, <2>4
<1>4. ASSUME published' = published PROVE PublishedInv'
  <2>1. CommandsInOrderOnce'
    BY <1>4 DEF PublishedInv, CommandsInOrderOnce
  <2>2. \A k \in 1..Len(published), i \in 1..Len(wire') : published[k] < wire'[i][2]
    BY <1>0, <1>1 DEF PublishedInv
  <2>3. \A k \in 1..Len(published) : published[k] <= sentCmds' /\ (half' # 0 => published[k] < half')
    BY <1>0 DEF PublishedInv
  <2>4. QED  BY <1>4, <2>1, <2>2, <2>3 DEF PublishedInv
<1>5. ASSUME published' = Append(published, Head(wire)[2]), pc["receive"] = "readbody"
      PROVE  PublishedInv'
  <2> DEFINE c == wire[1][2]
             n == Len(published) + 1
  <2>1. 1 \in 1..Len(wire) /\ c \in Nat /\ wire[1][1] = "body"
    BY <1>0, <1>5, WireFacts DEF ReadInv
  <2>2. /\ Len(published') = n /\ published'[n] = c
        /\ \A k \in 1..Len(published) : published'[k] = published[k]
    <3>1. published' = Append(published, c)
      BY <1>0, <1>5, Zenon
    <3>2. QED  BY <2>1, <3>1, WireFacts, Zenon
  <2>3. /\ \A k \in 1..Len(published) : published[k] < c
        /\ c <= sentCmds /\ (half # 0 => c < half)
    BY <2>1 DEF PublishedInv, WireInv
  <2>4. ASSUME NEW i \in 1..Len(wire') PROVE c < wire'[i][2]
    <3>1. i + 1 \in 1..Len(wire) /\ 1 < i + 1
      BY <1>00
    <3>2. c < wire[i + 1][2]
      BY <2>1, <3>1, Zenon DEF WireInv
    <3>3. QED  BY <1>0, <3>2, Zenon
  <2>5. \A k \in 1..Len(published') : k \in 1..Len(published) \/ k = n
    <3>1. Len(published') = n
      BY <2>2, Zenon
    <3>2. QED  BY <1>00, <3>1
  <2> HIDE DEF c
  <2>6. ASSUME NEW i \in 1..Len(published'), NEW j \in 1..Len(published'), i < j
        PROVE  published'[i] < published'[j]
    <3>1. i \in 1..Len(published)
      <4>1. Len(published') = Len(published) + 1
        BY <2>2, Zenon
      <4>2. QED  BY <1>00, <2>6, <4>1
    <3>2. CASE j = n  BY <2>2, <2>3, <3>1, <3>2
    <3>3. CASE j \in 1..Len(published)
      BY <2>2, <2>6, <3>1, <3>3 DEF PublishedInv, CommandsInOrderOnce
    <3>4. QED  BY <2>5, <3>2, <3>3
  <2>7. ASSUME NEW k \in 1..Len(published')
        PROVE  published'[k] <= sentCmds' /\ (half' # 0 => published'[k] < half')
    <3>1. CASE k = n  BY <1>0, <2>2, <2>3, <3>1
    <3>2. CASE k \in 1..Len(published)  BY <1>0, <2>2, <3>2 DEF PublishedInv
    <3>3. QED  BY <2>5, <3>1, <3>2
  <2>8. ASSUME NEW k \in 1..Len(published'), NEW i \in 1..Len(wire') PROVE published'[k] < wire'[i][2]
    <3>1. CASE k = n  BY <2>2, <2>4, <3>1
    <3>2. CASE k \in 1..Len(published)  BY <1>0, <1>1, <2>2, <3>2, Zenon DEF PublishedInv
    <3>3. QED  BY <2>5, <3>1, <3>2
  <2>9. CommandsInOrderOnce'
    BY <2>6 DEF CommandsInOrderOnce
  <2>10. QED  BY <2>7, <2>8, <2>9 DEF PublishedInv
<1>6. QED  BY <1>2, <1>3, <1>4, <1>5 DEF Reads

(* So does a step of the server. *)
LEMMA SendsKeep ==
  ASSUME TypeOK, WireInv, ReadInv, PublishedInv, ServerSendsLen \/ ServerSendsBody
  PROVE  WireInv' /\ ReadInv' /\ PublishedInv'
<1> DEFINE n == Len(wire) + 1
           x == IF ServerSendsLen THEN <<"len", sentCmds + 1>> ELSE <<"body", half>>
<1>0. /\ Len(wire) \in Nat /\ half \in Nat /\ sentCmds \in Nat
      /\ \A i \in 1..Len(wire) : wire[i][1] \in {"len", "body"} /\ wire[i][2] \in Nat
      /\ \A k \in 1..Len(published) : published[k] \in Nat
  BY WireFacts
<1>00. Len(wire) \in Nat /\ half \in Nat /\ sentCmds \in Nat
  BY <1>0, Zenon
<1>01. ASSUME ServerSendsLen PROVE x = <<"len", sentCmds + 1>>
  BY <1>01, Zenon
<1>02. ASSUME ~ServerSendsLen PROVE x = <<"body", half>> /\ ServerSendsBody
  BY <1>02, Zenon
<1> HIDE DEF x
<1>1. /\ wire' = Append(wire, x) /\ x \in {"len", "body"} \X Nat
      /\ UNCHANGED <<pc, stream, published>> /\ stream = "up"
  <2>1. CASE ServerSendsLen
    BY <1>00, <1>01, <2>1 DEF ServerSendsLen, tasks, results
  <2>2. CASE ~ServerSendsLen
    <3>1. x = <<"body", half>> /\ ServerSendsBody
      BY <1>02, <2>2, Zenon
    <3>2. x \in {"len", "body"} \X Nat
      BY <1>00, <3>1
    <3>3. wire' = Append(wire, x) /\ stream = "up"
      BY <3>1, Zenon DEF ServerSendsBody
    <3>4. UNCHANGED <<pc, stream, published>>
      BY <3>1 DEF ServerSendsBody, tasks, results
    <3>5. QED  BY <3>2, <3>3, <3>4, Zenon
  <2>3. QED  BY <2>1, <2>2, Zenon
<1>2. /\ Len(wire') = n /\ wire'[n] = x /\ wire' # <<>>
      /\ \A i \in 1..Len(wire) : wire'[i] = wire[i]
  <2>1. /\ Len(wire') = n /\ wire'[n] = x
        /\ \A i \in 1..Len(wire) : wire'[i] = wire[i]
    BY <1>1, WireFacts
  <2>2. QED  BY <1>00, <2>1
<1>3. \A i \in 1..n : i \in 1..Len(wire) \/ i = n
  BY <1>00
<1>4. /\ x[2] \in Nat /\ x[2] <= sentCmds' /\ sentCmds' >= sentCmds /\ sentCmds' \in Nat
      /\ half' \in {0, sentCmds'} /\ (half' # 0 => half' = sentCmds + 1 /\ half = 0)
      /\ x[1] = "len" => half' = x[2] /\ half' # 0 /\ half = 0 /\ x[2] = sentCmds + 1
      /\ x[1] = "body" => half' = 0 /\ x[2] = half /\ half # 0
      /\ x[1] \in {"len", "body"}
  <2>1. CASE ServerSendsLen
    <3>1. half = 0 /\ sentCmds' = sentCmds + 1 /\ half' = sentCmds + 1
      BY <2>1, Zenon DEF ServerSendsLen
    <3>2. x[1] = "len" /\ x[2] = sentCmds + 1
      BY <1>01, <2>1
    <3>3. QED  BY <1>00, <3>1, <3>2
  <2>2. CASE ~ServerSendsLen
    <3>1. half = sentCmds /\ half # 0 /\ half' = 0 /\ sentCmds' = sentCmds
      BY <1>02, <2>2 DEF ServerSendsBody, WireInv
    <3>2. x[1] = "body" /\ x[2] = half
      BY <1>02, <2>2
    <3>3. QED  BY <1>00, <3>1, <3>2
  <2>3. QED  BY <2>1, <2>2, Zenon
<1>5. \A i \in 1..Len(wire) : wire[i][2] <= x[2] /\ (wire[i][1] = "body" => wire[i][2] < x[2])
  <2> SUFFICES ASSUME NEW i \in 1..Len(wire)
               PROVE  wire[i][2] <= x[2] /\ (wire[i][1] = "body" => wire[i][2] < x[2])
    OBVIOUS
  <2>1. wire[i][2] \in Nat /\ wire[i][2] <= sentCmds /\ half \in {0, sentCmds}
    BY <1>0, Zenon DEF WireInv
  <2>2. half # 0 => (wire[i][1] = "body" => wire[i][2] < half)
    BY Zenon DEF WireInv
  <2>3. x[2] = sentCmds + 1 \/ (x[2] = half /\ half # 0)
    BY <1>4, Zenon
  <2>4. QED  BY <1>00, <2>1, <2>2, <2>3
<1>6. \A k \in 1..Len(published) : published[k] < x[2]
  <2> SUFFICES ASSUME NEW k \in 1..Len(published) PROVE published[k] < x[2]
    OBVIOUS
  <2>1. published[k] \in Nat /\ published[k] <= sentCmds /\ (half # 0 => published[k] < half)
    BY <1>0, Zenon DEF PublishedInv
  <2>3. x[2] = sentCmds + 1 \/ (x[2] = half /\ half # 0)
    BY <1>4, Zenon
  <2>4. QED  BY <1>00, <2>1, <2>3
<1>7. WireInv'
  <2>1. ASSUME NEW i \in 1..Len(wire') PROVE wire'[i][2] <= sentCmds'
    <3>1. CASE i = n  BY <1>2, <1>4, <3>1
    <3>2. CASE i \in 1..Len(wire)
      <4>1. wire[i][2] \in Nat /\ wire[i][2] <= sentCmds
        BY <1>0, <3>2 DEF WireInv
      <4>2. QED  BY <1>0, <1>2, <1>4, <3>2, <4>1
    <3>3. QED  BY <1>2, <1>3, <3>1, <3>2
  <2>2. ASSUME NEW i \in 1..Len(wire'), NEW j \in 1..Len(wire'), i < j
        PROVE  wire'[i][2] <= wire'[j][2] /\ (wire'[i][1] = "body" => wire'[i][2] < wire'[j][2])
    <3>1. i \in 1..Len(wire)
      BY <1>0, <1>2, <2>2
    <3>2. CASE j = n  BY <1>2, <1>5, <3>1, <3>2
    <3>3. CASE j \in 1..Len(wire)  BY <1>2, <2>2, <3>1, <3>3 DEF WireInv
    <3>4. QED  BY <1>2, <1>3, <3>2, <3>3
  <2>3. ASSUME NEW i \in 1..Len(wire'), wire'[i][1] = "len"
        PROVE  IF i = Len(wire') THEN half' # 0 ELSE wire'[i + 1][1] = "body"
    <3>1. CASE i = n  BY <1>2, <1>4, <2>3, <3>1
    <3>2. CASE i = Len(wire) /\ i \in 1..Len(wire)
      <4>1. half # 0  BY <1>2, <2>3, <3>2 DEF WireInv
      <4>2. x[1] = "body"  BY <1>4, <4>1
      <4>3. i + 1 = n /\ i # n  BY <1>0, <3>2
      <4>4. QED  BY <1>2, <4>2, <4>3
    <3>3. CASE i # Len(wire) /\ i \in 1..Len(wire)
      <4>1. i + 1 \in 1..Len(wire) /\ i # n  BY <1>0, <3>3
      <4>2. wire[i + 1][1] = "body"  BY <1>2, <2>3, <3>3 DEF WireInv
      <4>3. QED  BY <1>2, <4>1, <4>2
    <3>4. QED  BY <1>2, <1>3, <3>1, <3>2, <3>3
  <2>4. ASSUME half' # 0, NEW i \in 1..Len(wire'), wire'[i][1] = "body" PROVE wire'[i][2] < half'
    <3>1. x[1] = "len" /\ half' = x[2]  BY <1>4, <2>4
    <3>2. i \in 1..Len(wire)  BY <1>2, <1>3, <2>4, <3>1
    <3>3. QED  BY <1>2, <1>5, <2>4, <3>1, <3>2
  <2>5. QED  BY <1>4, <2>1, <2>2, <2>3, <2>4, Zenon DEF WireInv
<1>8. ReadInv'
  <2> SUFFICES ASSUME pc["receive"] = "readbody" PROVE wire'[1][1] = "body"
    BY <1>1, <1>2 DEF ReadInv
  <2>1. CASE wire = <<>>
    <3>1. half # 0 /\ n = 1
      BY <1>1, <2>1, WireFacts DEF ReadInv
    <3>2. x[1] = "body"
      BY <1>4, <3>1
    <3>3. QED  BY <1>2, <3>1, <3>2
  <2>2. CASE wire # <<>>
    <3>1. 1 \in 1..Len(wire)
      BY <1>0, <2>2, WireFacts
    <3>2. QED  BY <1>2, <2>2, <3>1 DEF ReadInv
  <2>3. QED  BY <2>1, <2>2
<1>9. PublishedInv'
  <2>1. CommandsInOrderOnce'
    BY <1>1 DEF PublishedInv, CommandsInOrderOnce
  <2>2. ASSUME NEW k \in 1..Len(published) PROVE published[k] <= sentCmds' /\ (half' # 0 => published[k] < half')
    <3>1. published[k] \in Nat /\ published[k] <= sentCmds
      BY <1>0 DEF PublishedInv
    <3>2. published[k] <= sentCmds'
      BY <1>00, <1>4, <3>1
    <3>3. half' # 0 => published[k] < half'
      <4>1. half' # 0 => half' = sentCmds + 1
        BY <1>4, Zenon
      <4>2. QED  BY <1>00, <3>1, <4>1
    <3>4. QED  BY <3>2, <3>3
  <2>3. ASSUME NEW k \in 1..Len(published), NEW i \in 1..Len(wire') PROVE published[k] < wire'[i][2]
    <3>1. CASE i = n  BY <1>2, <1>6, <3>1
    <3>2. CASE i \in 1..Len(wire)  BY <1>2, <3>2 DEF PublishedInv
    <3>3. QED  BY <1>2, <1>3, <3>1, <3>2
  <2>4. QED  BY <1>1, <2>1, <2>2, <2>3 DEF PublishedInv
<1>10. QED  BY <1>7, <1>8, <1>9

(* Every step keeps the order of the frames and of the commands. *)
LEMMA CommandNext ==
  TypeOK /\ MutexInv /\ MsgInv /\ WireInv /\ ReadInv /\ PublishedInv /\ [Next]_vars
    => WireInv' /\ ReadInv' /\ PublishedInv'
<1> SUFFICES ASSUME TypeOK, MutexInv, MsgInv, WireInv, ReadInv, PublishedInv, [Next]_vars
             PROVE  WireInv' /\ ReadInv' /\ PublishedInv'
  OBVIOUS
<1>1. CASE Idles
  BY <1>1 DEF Idles, WireInv, ReadInv, PublishedInv, CommandsInOrderOnce
<1>2. CASE Clears
  <2>1. Len(wire') = 0 /\ 1..Len(wire') = {}
    BY <1>2 DEF Clears
  <2>2. WireInv' /\ ReadInv'
    BY <1>2, <2>1 DEF Clears, WireInv, ReadInv
  <2>3. CommandsInOrderOnce'
    BY <1>2 DEF Clears, PublishedInv, CommandsInOrderOnce
  <2>4. QED  BY <1>2, <2>1, <2>2, <2>3 DEF Clears, PublishedInv
<1>3. CASE Reads  BY <1>3, ReadsKeep
<1>4. CASE ServerSendsLen \/ ServerSendsBody  BY <1>4, SendsKeep
<1>5. QED  BY <1>1, <1>2, <1>3, <1>4, WireStep

-----------------------------------------------------------------------------
(* The inductive invariant of the transport holds in every reachable state. *)
THEOREM Invariance == Spec => []IInv
<1>1. Init => IInv
  <2> SUFFICES ASSUME Init PROVE IInv
    OBVIOUS
  <2>1. /\ waiters = <<"main">> /\ waiters \in Seq(Tasks) /\ Len(waiters) = 1 /\ waiters[1] = "main"
        /\ waiters # <<>> /\ Head(waiters) = "main" /\ DOMAIN waiters = 1..1
    BY DEF Init, Tasks
  <2>2. IsInjective(waiters) /\ inQueue(waiters) = {"main"}
    BY <2>1 DEF IsInjective, inQueue
  <2>3. /\ Len(got) = 0 /\ Len(wire) = 0 /\ Len(published) = 0
        /\ 1..Len(got) = {} /\ 1..Len(wire) = {} /\ 1..Len(published) = {}
    BY DEF Init
  <2>4. MutexInv
    BY <2>1, <2>2 DEF Init, MutexInv, Inside, holds
  <2>5. MsgInv
    BY DEF Init, MsgInv, Tasks, Sending, Startup, Keepalive, ShutdownMsg
  <2>6. TaskTypes
    BY DEF Init, TaskTypes, Messages
  <2>7. LinkTypes
    BY ConnectionAssumption DEF Init, LinkTypes
  <2>8. DataTypes
    <3>1. breaks \in 0..MaxBreaks /\ ticks \in 0..MaxTicks /\ queued \in 0..MaxEvents /\ taken \in 0..queued
      BY ConnectionAssumption DEF Init
    <3>2. got \in Seq(Messages) /\ failed \subseteq Messages /\ swallowed \subseteq Messages
      BY DEF Init
    <3>3. shutdown \in BOOLEAN
      BY Zenon DEF Init
    <3>4. QED  BY <3>1, <3>2, <3>3 DEF DataTypes
  <2>9. TypeOK
    BY <2>4, <2>6, <2>7, <2>8 DEF TypeOK, TaskTypes, LinkTypes, DataTypes, MutexInv, Inside
  <2>10. OrderInv /\ LastInv
    BY <2>3 DEF OrderInv, LastInv
  <2>11. FailedInv
    BY FS_EmptySet DEF Init, FailedInv
  <2>12. WireInv /\ ReadInv /\ PublishedInv
    BY <2>3 DEF Init, WireInv, ReadInv, PublishedInv, CommandsInOrderOnce, Tasks
  <2>13. QED  BY <2>4, <2>5, <2>9, <2>10, <2>11, <2>12 DEF IInv
<1>2. IInv /\ [Next]_vars => IInv'
  BY TypeNext, MutexNext, MsgNext, OrderNext, LastNext, FailedNext, CommandNext DEF IInv
<1>3. QED  BY <1>1, <1>2, PTL DEF Spec

(* The variables keep their types and the mutex excludes: only the task at the head of
   its queue sends, connects or reads (Arc<Mutex<ConnectionManager>>, main.rs). *)
THEOREM TypesHold == Spec => []TypeOK
  BY Invariance, PTL DEF IInv

(* The server gets the events in order and once, a break costs at most one failed send,
   and at most one event follows the shutdown message (connection.rs, send; main.rs, the
   forward loop), for every number of events, ticks, commands and breaks. *)
THEOREM EventsHold == Spec => []EventsInOrderOnce
<1>1. IInv => EventsInOrderOnce
  <2> SUFFICES ASSUME IInv PROVE EventsInOrderOnce
    OBVIOUS
  <2>0. got \in Seq(Messages) /\ Len(got) \in Nat
    BY DEF IInv, TypeOK
  <2>1. Cardinality(failed) <= breaks
    <3>1. FailedInv /\ breaks \in Nat
      BY DEF IInv, TypeOK
    <3>2. Cardinality(failed) \in Nat
      BY <3>1, FS_CardinalityType, Zenon DEF FailedInv
    <3>3. QED  BY <3>1, <3>2 DEF FailedInv
  <2>2. ASSUME NEW i \in 1..Len(got), got[i] = ShutdownMsg
        PROVE  Cardinality({j \in (i + 1)..Len(got) : isEvent(got[j])}) <= 1
    <3>1. Cardinality(eventsAfter(i)) <= (IF pc["forward"] \in Sending THEN 0 ELSE 1)
      BY <2>2 DEF IInv, LastInv
    <3>2. IsFiniteSet((i + 1)..Len(got))
      BY <2>0, FS_Interval
    <3>3. eventsAfter(i) \subseteq (i + 1)..Len(got)
      BY DEF eventsAfter
    <3>4. Cardinality(eventsAfter(i)) \in Nat
      BY <3>2, <3>3, FS_Subset, FS_CardinalityType
    <3>5. Cardinality(eventsAfter(i)) <= 1
      BY <3>1, <3>4
    <3>6. QED  BY <3>5 DEF eventsAfter
  <2>3. QED  BY <2>1, <2>2 DEF IInv, OrderInv, EventsInOrderOnce
<1>2. QED  BY <1>1, Invariance, PTL

(* The receive loop publishes the commands in order and none twice, whatever time-outs
   and reconnections do to the frames (connection.rs, receive; main.rs, the receive loop). *)
THEOREM CommandsHold == Spec => []CommandsInOrderOnce
  BY Invariance, PTL DEF IInv, PublishedInv

=============================================================================
