------------------------- MODULE LogCollectorProofs -------------------------
(***************************************************************************)
(* Proofs about the log collector: what is read is kept, what is written   *)
(* while the reader watches is read, and no line is sent twice or out of   *)
(* order, for every batch size, channel capacity and bound.                *)
(***************************************************************************)
EXTENDS LogCollector, TLAPS

(* No two events of a sequence have a unit in common. *)
apart(s) == \A i, j \in 1..Len(s) : i # j => Range(s[i]) \cap Range(s[j]) = {}

(* Lines of the file in the one set are not younger than those in the other, and so the
   events of a sequence are in the order of the file. *)
before(A, B) == \A u \in A, v \in B : u.part # "journal" /\ v.part # "journal" => u.line <= v.line
sorted(s) == \A i, j \in 1..Len(s) : i < j => before(Range(s[i]), Range(s[j]))

-----------------------------------------------------------------------------
(* The lines on their way. *)
held == units(forwarded) \cup units(channel) \cup flushing \cup units(buffer)

(* Where the tasks are.  A task has a batch while it sends it; a reader that flushes goes
   back to reading or is at its end; the watcher is set up once; only a full buffer, or the
   end after a shutdown, makes a reader flush. *)
TaskInv ==
  /\ \A t \in Tasks : pc[t] = "send" <=> batch[t] # <<>>
  /\ pc["file"] \in {"take", "send"} => back["file"] \in {"read", "done"}
  /\ pc["file"] = "watch" => ~watching
  /\ \A t \in Tasks : pc[t] = "take" => forced
  /\ shutdown \/ pc["file"] = "join" => stops # 0
  /\ \A t \in {"file", "journal"} : pc[t] = "send" => forced \/ stops # 0

(* The buffer is below the limit but for the readers that are about to flush it. *)
waiting(t) == IF pc[t] = "take" THEN 1 ELSE 0
BufferInv == Len(buffer) < MaxBatch + waiting("file") + waiting("journal")

KeptInv == read \subseteq held \cup dropped

(* The reader is at most at the end of the file, and the units before it are read or were
   there before it watched. *)
seen(k) == \A i \in 1..Len(file) : i <= k => file[i] \in past \cup read
WatchInv ==
  rotations = 0 /\ bad = 0 =>
    /\ offset <= Len(file) /\ position <= Len(file) /\ (saved # None => saved <= Len(file))
    /\ seen(offset) /\ seen(position)
    /\ pc["file"] # "down" /\ ~watching => \A i \in 1..Len(file) : file[i] \in past
    /\ pc["file"] = "wait" /\ ~notify => seen(Len(file))

(* What was written: the file is in order and has no unit twice, the number of a line tells
   what is still to be written. *)
LineInv == halfWritten => file[Len(file)].line = lines
FileInv ==
  /\ \A i \in 1..Len(file) : file[i].part # "journal" /\ file[i].line <= lines
  /\ \A i, j \in 1..Len(file) : i < j => file[i] # file[j] /\ file[i].line <= file[j].line
  /\ halfWritten => \A i \in 1..Len(file) : file[i].part = "tail" => file[i].line # lines
  /\ bad = 0 => \A i \in 1..Len(file) : file[i].part # "bad"
HeldInv ==
  /\ \A u \in held : u.line <= (IF u.part = "journal" THEN journal ELSE lines)
  /\ halfWritten => \A u \in held : u.part = "tail" => u.line # lines

(* Where the reader, or the next one, goes on, and what it will find there. *)
resume ==
  IF pc["file"] = "read" \/ (pc["file"] \in {"take", "send"} /\ back["file"] = "read") THEN position
  ELSE IF pc["file"] \in {"watch", "wait"} THEN offset ELSE initial_offset
unread == {file[i] : i \in (seek_to(resume) + 1)..Len(file)}
calm == crashes = 0 /\ bad = 0 /\ ~outdated
FreshInv == calm => unread \cap held = {}

(* Every event is in one place, once. *)
OnceInv ==
  calm =>
    /\ apart(forwarded) /\ apart(channel) /\ apart(buffer) /\ \A t \in Tasks : apart(batch[t])
    /\ units(forwarded) \cap units(channel) = {} /\ units(forwarded) \cap units(buffer) = {}
    /\ units(channel) \cap units(buffer) = {}
    /\ \A t \in Tasks : units(batch[t]) \cap (units(forwarded) \cup units(channel) \cup units(buffer)) = {}
    /\ \A t, r \in Tasks : t # r => units(batch[t]) \cap units(batch[r]) = {}

(* As long as only the flush task flushes, an event that is further is not younger. *)
OrderInv ==
  calm /\ ~forced /\ stops = 0 =>
    /\ sorted(forwarded) /\ sorted(channel) /\ sorted(batch["task"]) /\ sorted(buffer)
    /\ before(units(forwarded), units(channel))
    /\ before(units(forwarded) \cup units(channel), units(batch["task"]))
    /\ before(units(forwarded) \cup units(channel) \cup units(batch["task"]), units(buffer))
    /\ before(held, unread)

IInv ==
  /\ TypeOK /\ LineInv /\ TaskInv /\ BufferInv /\ KeptInv /\ WatchInv
  /\ FileInv /\ HeldInv /\ FreshInv /\ OnceInv /\ OrderInv
-----------------------------------------------------------------------------
(* What a sequence of events holds. *)
LEMMA UnitsOf ==
  \A s : \A u : u \in units(s) <=> \E i \in 1..Len(s) : u \in Range(s[i])
  BY DEF units

(* An empty sequence holds nothing. *)
LEMMA NoUnits == units(<<>>) = {} /\ apart(<<>>) /\ sorted(<<>>)
  BY DEF units, apart, sorted

(* What the end of a sequence adds. *)
LEMMA AppendFacts ==
  ASSUME NEW s \in Seq(Events), NEW e \in Events
  PROVE  /\ Append(s, e) \in Seq(Events) /\ Len(Append(s, e)) = Len(s) + 1 /\ Append(s, e) # <<>>
         /\ units(Append(s, e)) = units(s) \cup Range(e)
         /\ apart(s) /\ Range(e) \cap units(s) = {} => apart(Append(s, e))
         /\ sorted(s) /\ before(units(s), Range(e)) => sorted(Append(s, e))
<1> DEFINE r == Append(s, e)
           n == Len(s) + 1
<1>1. r \in Seq(Events) /\ Len(r) = n /\ r[n] = e /\ r # <<>> /\ Len(s) \in Nat
  OBVIOUS
<1>2. \A i \in 1..Len(s) : r[i] = s[i]
  OBVIOUS
<1>3. \A i : i \in 1..n <=> (i \in 1..Len(s) \/ i = n)
  BY <1>1
<1> HIDE DEF r
<1>4. units(r) = units(s) \cup Range(e)
  <2>1. \A u : u \in units(r) <=> (u \in units(s) \/ u \in Range(e))
    BY <1>1, <1>2, <1>3, UnitsOf, Zenon
  <2>2. QED  BY <2>1, Zenon
<1>5. ASSUME apart(s), Range(e) \cap units(s) = {} PROVE apart(r)
  <2>1. \A i \in 1..Len(s) : Range(s[i]) \cap Range(e) = {} /\ Range(e) \cap Range(s[i]) = {}
    BY <1>5, UnitsOf
  <2>2. QED  BY <1>1, <1>2, <1>3, <1>5, <2>1, Zenon DEF apart
<1>6. ASSUME sorted(s), before(units(s), Range(e)) PROVE sorted(r)
  <2> SUFFICES ASSUME NEW i \in 1..n, NEW j \in 1..n, i < j PROVE before(Range(r[i]), Range(r[j]))
    BY <1>1 DEF sorted
  <2>1. i \in 1..Len(s) /\ (j \in 1..Len(s) \/ j = n)
    BY <1>1
  <2>2. before(Range(s[i]), Range(e))
    BY <1>6, <2>1, UnitsOf, Zenon DEF before
  <2>3. QED  BY <1>1, <1>2, <1>6, <2>1, <2>2, Zenon DEF sorted
<1>7. QED  BY <1>1, <1>4, <1>5, <1>6 DEF r

(* What the head of a sequence takes with it. *)
LEMMA TailFacts ==
  ASSUME NEW s \in Seq(Events), s # <<>>
  PROVE  /\ Head(s) \in Events /\ Tail(s) \in Seq(Events) /\ Len(Tail(s)) = Len(s) - 1 /\ Len(s) > 0
         /\ units(s) = Range(Head(s)) \cup units(Tail(s))
         /\ apart(s) => apart(Tail(s)) /\ Range(Head(s)) \cap units(Tail(s)) = {}
         /\ sorted(s) => sorted(Tail(s)) /\ before(Range(Head(s)), units(Tail(s)))
<1> DEFINE r == Tail(s)
<1>1. /\ r \in Seq(Events) /\ Len(r) = Len(s) - 1 /\ Len(s) \in Nat /\ Len(s) > 0
      /\ Head(s) \in Events /\ Head(s) = s[1]
  OBVIOUS
<1>2. \A i \in 1..Len(r) : r[i] = s[i + 1]
  OBVIOUS
<1> HIDE DEF r
<1>3. /\ 1 \in 1..Len(s)
      /\ \A i \in 1..Len(r) : i + 1 \in 1..Len(s) /\ 1 # i + 1 /\ 1 < i + 1
      /\ \A i \in 1..Len(s) : i = 1 \/ \E k \in 1..Len(r) : i = k + 1
      /\ \A i, j \in 1..Len(r) : i # j => i + 1 # j + 1
      /\ \A i, j \in 1..Len(r) : i < j => i + 1 < j + 1
  <2>1. \A i \in 1..Len(s) : i = 1 \/ \E k \in 1..Len(r) : i = k + 1
    <3> SUFFICES ASSUME NEW i \in 1..Len(s), i # 1 PROVE \E k \in 1..Len(r) : i = k + 1
      OBVIOUS
    <3>1. i - 1 \in 1..Len(r) /\ i = (i - 1) + 1
      BY <1>1
    <3>2. QED  BY <3>1
  <2>2. QED  BY <1>1, <2>1
<1>4. units(s) = Range(Head(s)) \cup units(r)
  <2>1. ASSUME NEW u, u \in units(s) PROVE u \in units(r) \/ u \in Range(Head(s))
    <3>1. PICK i \in 1..Len(s) : u \in Range(s[i])
      BY <2>1, UnitsOf, Zenon
    <3>2. CASE i = 1
      BY <1>1, <3>1, <3>2, Zenon
    <3>3. ASSUME NEW k \in 1..Len(r), i = k + 1 PROVE u \in units(r)
      BY <1>2, <3>1, <3>3, UnitsOf, Zenon
    <3>4. QED  BY <1>3, <3>2, <3>3, Zenon
  <2>2. ASSUME NEW u, u \in units(r) PROVE u \in units(s)
    <3>1. PICK k \in 1..Len(r) : u \in Range(r[k])
      BY <2>2, UnitsOf, Zenon
    <3>2. k + 1 \in 1..Len(s) /\ u \in Range(s[k + 1])
      BY <1>2, <1>3, <3>1, Zenon
    <3>3. QED  BY <3>2, UnitsOf, Zenon
  <2>3. Range(Head(s)) \subseteq units(s)
    BY <1>1, <1>3, UnitsOf, Zenon
  <2>4. QED  BY <2>1, <2>2, <2>3, Zenon
<1>5. ASSUME apart(s) PROVE apart(r) /\ Range(Head(s)) \cap units(r) = {}
  <2>1. ASSUME NEW i \in 1..Len(r), NEW j \in 1..Len(r), i # j PROVE Range(r[i]) \cap Range(r[j]) = {}
    <3>1. i + 1 \in 1..Len(s) /\ j + 1 \in 1..Len(s) /\ i + 1 # j + 1
      BY <1>3, <2>1, Zenon
    <3>2. Range(s[i + 1]) \cap Range(s[j + 1]) = {}
      BY <1>5, <3>1, Zenon DEF apart
    <3>3. QED  BY <1>2, <3>2, Zenon
  <2>2. \A i \in 1..Len(r) : Range(Head(s)) \cap Range(r[i]) = {}
    BY <1>1, <1>2, <1>3, <1>5, Zenon DEF apart
  <2>3. Range(Head(s)) \cap units(r) = {}
    BY <2>2, UnitsOf
  <2>4. QED  BY <2>1, <2>3, Zenon DEF apart
<1>6. ASSUME sorted(s) PROVE sorted(r) /\ before(Range(Head(s)), units(r))
  <2>1. sorted(r)
    BY <1>2, <1>3, <1>6, Zenon DEF sorted
  <2>2. \A i \in 1..Len(r) : before(Range(Head(s)), Range(r[i]))
    BY <1>1, <1>2, <1>3, <1>6, Zenon DEF sorted
  <2>3. QED  BY <2>1, <2>2, UnitsOf, Zenon DEF before
<1>7. QED  BY <1>1, <1>4, <1>5, <1>6 DEF r

(* What two sequences hold together. *)
LEMMA CatFacts ==
  ASSUME NEW s \in Seq(Events), NEW t \in Seq(Events)
  PROVE  /\ s \o t \in Seq(Events) /\ units(s \o t) = units(s) \cup units(t)
         /\ apart(s) /\ apart(t) /\ units(s) \cap units(t) = {} => apart(s \o t)
         /\ sorted(s) /\ sorted(t) /\ before(units(s), units(t)) => sorted(s \o t)
<1> DEFINE r == s \o t
           m == Len(s)
           n == Len(s) + Len(t)
<1>1. r \in Seq(Events) /\ Len(r) = n /\ m \in Nat /\ Len(t) \in Nat
  OBVIOUS
<1>2. \A i \in 1..n : IF i <= m THEN r[i] = s[i] ELSE r[i] = t[i - m]
  OBVIOUS
<1> HIDE DEF r
<1>3. /\ \A i \in 1..m : i \in 1..n /\ r[i] = s[i]
      /\ \A k \in 1..Len(t) : m + k \in 1..n /\ r[m + k] = t[k]
  <2>1. \A i \in 1..m : i \in 1..n /\ i <= m
    BY <1>1
  <2>2. \A k \in 1..Len(t) : m + k \in 1..n /\ ~(m + k <= m) /\ (m + k) - m = k
    BY <1>1
  <2>3. QED  BY <1>2, <2>1, <2>2
<1>4. \A i \in 1..n : i \in 1..m \/ \E k \in 1..Len(t) : i = m + k
  <2> SUFFICES ASSUME NEW i \in 1..n, i \notin 1..m PROVE \E k \in 1..Len(t) : i = m + k
    OBVIOUS
  <2>1. i - m \in 1..Len(t) /\ i = m + (i - m)
    BY <1>1
  <2>2. QED  BY <2>1, Zenon
<1>5. units(r) = units(s) \cup units(t)
  <2>1. ASSUME NEW u, u \in units(r) PROVE u \in units(s) \/ u \in units(t)
    <3>1. PICK i \in 1..n : u \in Range(r[i])
      BY <1>1, <2>1, UnitsOf, Zenon
    <3>2. CASE i \in 1..m
      BY <1>3, <3>1, <3>2, UnitsOf, Zenon
    <3>3. ASSUME NEW k \in 1..Len(t), i = m + k PROVE u \in units(t)
      BY <1>3, <3>1, <3>3, UnitsOf, Zenon
    <3>4. QED  BY <1>4, <3>2, <3>3, Zenon
  <2>2. units(s) \subseteq units(r)
    BY <1>1, <1>3, UnitsOf, Zenon
  <2>3. ASSUME NEW u, u \in units(t) PROVE u \in units(r)
    <3>1. PICK k \in 1..Len(t) : u \in Range(t[k])
      BY <2>3, UnitsOf, Zenon
    <3>2. m + k \in 1..Len(r) /\ u \in Range(r[m + k])
      BY <1>1, <1>3, <3>1, Zenon
    <3>3. QED  BY <3>2, UnitsOf, Zenon
  <2>4. QED  BY <2>1, <2>2, <2>3, Zenon
<1>6. ASSUME apart(s), apart(t), units(s) \cap units(t) = {} PROVE apart(r)
  <2>1. \A i \in 1..m : \A k \in 1..Len(t) : Range(s[i]) \cap Range(t[k]) = {} /\ Range(t[k]) \cap Range(s[i]) = {}
    BY <1>6, UnitsOf, Zenon
  <2> SUFFICES ASSUME NEW i \in 1..n, NEW j \in 1..n, i # j PROVE Range(r[i]) \cap Range(r[j]) = {}
    BY <1>1, Zenon DEF apart
  <2>2. CASE i \in 1..m /\ j \in 1..m
    BY <1>3, <1>6, <2>2, Zenon DEF apart
  <2>3. ASSUME NEW k \in 1..Len(t), i = m + k, j \in 1..m PROVE Range(r[i]) \cap Range(r[j]) = {}
    BY <1>3, <2>1, <2>3, Zenon
  <2>4. ASSUME NEW k \in 1..Len(t), j = m + k, i \in 1..m PROVE Range(r[i]) \cap Range(r[j]) = {}
    BY <1>3, <2>1, <2>4, Zenon
  <2>5. ASSUME NEW k \in 1..Len(t), NEW l \in 1..Len(t), i = m + k, j = m + l
        PROVE  Range(r[i]) \cap Range(r[j]) = {}
    <3>1. k # l
      BY <2>5, Zenon
    <3>2. QED  BY <1>3, <1>6, <2>5, <3>1, Zenon DEF apart
  <2>6. QED  BY <1>4, <2>2, <2>3, <2>4, <2>5, Zenon
<1>7. ASSUME sorted(s), sorted(t), before(units(s), units(t)) PROVE sorted(r)
  <2>1. \A i \in 1..m : \A k \in 1..Len(t) : before(Range(s[i]), Range(t[k]))
    BY <1>7, UnitsOf, Zenon DEF before
  <2> SUFFICES ASSUME NEW i \in 1..n, NEW j \in 1..n, i < j PROVE before(Range(r[i]), Range(r[j]))
    BY <1>1, Zenon DEF sorted
  <2>2. CASE i \in 1..m /\ j \in 1..m
    BY <1>3, <1>7, <2>2, Zenon DEF sorted
  <2>3. ASSUME NEW k \in 1..Len(t), i = m + k, j \in 1..m PROVE FALSE
    BY <1>1, <2>3
  <2>4. ASSUME NEW k \in 1..Len(t), j = m + k, i \in 1..m PROVE before(Range(r[i]), Range(r[j]))
    BY <1>3, <2>1, <2>4, Zenon
  <2>5. ASSUME NEW k \in 1..Len(t), NEW l \in 1..Len(t), i = m + k, j = m + l
        PROVE  before(Range(r[i]), Range(r[j]))
    <3>1. k < l
      BY <1>1, <2>5
    <3>2. QED  BY <1>3, <1>7, <2>5, <3>1, Zenon DEF sorted
  <2>6. QED  BY <1>4, <2>2, <2>3, <2>4, <2>5, Zenon
<1>8. QED  BY <1>1, <1>5, <1>6, <1>7 DEF r

-----------------------------------------------------------------------------
(* A unit, and the units of an event. *)
LEMMA UnitFacts ==
  /\ \A u \in Units : u.line \in Nat
  /\ \A l \in 1..MaxLines : \A p \in {"line", "head", "tail", "bad"} : [line |-> l, part |-> p] \in Units
  /\ \A l \in 1..MaxJournal : [line |-> l, part |-> "journal"] \in Units
  /\ \A e \in Events : Range(e) \subseteq Units /\ Len(e) \in Nat /\ Len(e) > 0 /\ e[1] \in Range(e)
  /\ \A u \in Units : <<u>> \in Events /\ Range(<<u>>) = {u}
<1>1. \A u \in Units : u.line \in Nat
  BY LogCollectorAssumption DEF Units
<1>2. \A l \in 1..MaxLines : \A p \in {"line", "head", "tail", "bad"} : [line |-> l, part |-> p] \in Units
  BY DEF Units
<1>3. \A l \in 1..MaxJournal : [line |-> l, part |-> "journal"] \in Units
  BY DEF Units
<1>4. \A e \in Events : Range(e) \subseteq Units /\ Len(e) \in Nat /\ Len(e) > 0 /\ e[1] \in Range(e)
  BY DEF Events, Range
<1>5. \A u \in Units : <<u>> \in Events /\ Range(<<u>>) = {u}
  BY DEF Events, Range
<1>6. QED  BY <1>1, <1>2, <1>3, <1>4, <1>5

(* The numbers in the state. *)
LEMMA Numbers ==
  ASSUME TypeOK
  PROVE  /\ file \in Seq(Units) /\ Len(file) \in Nat /\ buffer \in Seq(Events) /\ Len(buffer) \in Nat
         /\ offset \in Nat /\ position \in Nat /\ saved \in Nat \cup {None} /\ None \notin Nat
         /\ lines \in Nat /\ journal \in Nat /\ bad \in Nat
         /\ rotations \in Nat /\ stops \in Nat /\ crashes \in Nat
         /\ MaxBatch \in Nat /\ MaxBatch > 0
<1>1. /\ file \in Seq(Units) /\ buffer \in Seq(Events) /\ lines \in 0..MaxLines /\ journal \in 0..MaxJournal
      /\ bad \in 0..MaxBad /\ rotations \in 0..MaxRotations /\ stops \in 0..MaxStops /\ crashes \in 0..MaxCrashes
      /\ offset \in Nat /\ position \in Nat /\ saved \in Nat \cup {None}
  BY Zenon DEF TypeOK
<1>2. /\ MaxLines \in Nat /\ MaxJournal \in Nat /\ MaxBad \in Nat /\ MaxRotations \in Nat
      /\ MaxStops \in Nat /\ MaxCrashes \in Nat /\ None \notin Nat /\ MaxBatch \in Nat /\ MaxBatch > 0
  BY LogCollectorAssumption
<1>3. Len(file) \in Nat /\ Len(buffer) \in Nat
  BY <1>1
<1>4. \A n \in Nat : \A k \in 0..n : k \in Nat
  OBVIOUS
<1>5. QED  BY <1>1, <1>2, <1>3, <1>4, Zenon

(* What read_line returns: the units up to the end of the line or of the file. *)
LEMMA LineFacts ==
  ASSUME TypeOK, ReadLine
  PROVE  LET e == SubSeq(file, position + 1, lineEnd(position + 1))
         IN  /\ e \in Events /\ position' \in Nat /\ position < position' /\ position' <= Len(file)
             /\ Range(e) = {file[i] : i \in (position + 1)..position'}
<1> DEFINE a == position + 1
           b == lineEnd(position + 1)
           e == SubSeq(file, a, b)
<1>1. file \in Seq(Units) /\ Len(file) \in Nat /\ position \in Nat /\ position < Len(file)
  BY DEF TypeOK, ReadLine
<1>2. b \in Nat /\ a <= b /\ b <= Len(file)
  BY <1>1 DEF lineEnd
<1> HIDE DEF b
<1>3. e \in Seq(Units) /\ Len(e) = b - position /\ \A i \in 1..Len(e) : e[i] = file[position + i]
  BY <1>1, <1>2
<1>4. position' = position + Len(e)
  BY DEF ReadLine, b
<1>5. position' = b /\ Len(e) > 0
  BY <1>1, <1>2, <1>3, <1>4
<1> HIDE DEF e
<1>6. e \in Events
  BY <1>3, <1>5 DEF Events
<1>7. Range(e) = {file[i] : i \in a..b}
  <2>1. Range(e) = {e[i] : i \in 1..Len(e)}
    BY <1>3 DEF Range
  <2>2. \A i \in 1..Len(e) : position + i \in a..b
    BY <1>1, <1>2, <1>3
  <2>3. \A i \in a..b : i - position \in 1..Len(e) /\ i = position + (i - position)
    BY <1>1, <1>2, <1>3
  <2>4. QED  BY <1>3, <2>1, <2>2, <2>3
<1>8. QED  BY <1>1, <1>2, <1>5, <1>6, <1>7 DEF b, e

(* What a step does to the events on their way: nothing, one more in the buffer, the buffer
   taken by a task, an event from a task to the channel, one to the manager, or the end. *)
Idles == UNCHANGED <<batch, buffer, channel, forwarded, read, dropped>>
Adds(e) == buffer' = Append(buffer, e) /\ read' = read \cup Range(e)
             /\ UNCHANGED <<batch, channel, forwarded, dropped>>
Takes(t) == take(t) /\ pc[t] # "send" /\ (t = "task" \/ forced \/ stops # 0)
              /\ UNCHANGED <<channel, forwarded, read, dropped>>
Sends(t) == pc[t] = "send" /\ publish_to_server(Head(batch[t])) /\ batch' = [batch EXCEPT ![t] = Tail(@)]
              /\ UNCHANGED <<buffer, forwarded, read>>
Forwards == channel # <<>> /\ forwarded' = Append(forwarded, Head(channel)) /\ channel' = Tail(channel)
              /\ UNCHANGED <<batch, buffer, read, dropped>>
Ends == batch' = all(<<>>) /\ buffer' = <<>> /\ channel' = <<>> /\ read' = {} /\ dropped' = {}
          /\ UNCHANGED forwarded

(* The event that a reader adds. *)
lineRead == SubSeq(file, position + 1, lineEnd(position + 1))
entryRead == <<[line |-> journal + 1, part |-> "journal"]>>

(* The entry the journal reader adds. *)
LEMMA EntryFacts ==
  ASSUME TypeOK, JournalEntry
  PROVE  entryRead \in Events /\ Range(entryRead) = {[line |-> journal + 1, part |-> "journal"]}
<1>0. journal \in Nat /\ MaxJournal \in Nat /\ journal < MaxJournal
  BY Numbers, LogCollectorAssumption DEF JournalEntry
<1>1. journal + 1 \in 1..MaxJournal
  BY <1>0
<1>2. QED  BY <1>1, UnitFacts, Zenon DEF entryRead

(* Every step is one of these. *)
LEMMA SinkStep ==
  ASSUME TypeOK, TaskInv, [Next]_vars
  PROVE  \/ Idles \/ Forwards \/ Ends
         \/ ReadLine /\ Adds(lineRead)
         \/ JournalEntry /\ Adds(entryRead)
         \/ \E t \in Tasks : Takes(t) \/ Sends(t)
<1> USE DEF log, reader, tasks, sink, ghosts, bounds
<1>1. CASE WriteLine \/ WriteBad \/ WriteTail \/ Rotate \/ Shutdown
  BY <1>1 DEF WriteLine, WriteBad, WriteTail, write, Rotate, Shutdown, Idles
<1>2. CASE Exit \/ Crash
  BY <1>2 DEF Exit, Crash, exit, Ends
<1>3. CASE Start \/ ReadFails \/ ReadEnd \/ Watch \/ Notified \/ Save \/ JournalStops
  BY <1>3 DEF Start, ReadFails, ReadEnd, Watch, Notified, Save, JournalStops, Idles
<1>4. CASE ReadLine
  BY <1>4 DEF ReadLine, publish, Adds, lineRead
<1>5. CASE JournalEntry
  <2>1. Range(entryRead) = {[line |-> journal + 1, part |-> "journal"]}
    BY <1>5, EntryFacts
  <2>2. QED  BY <1>5, <2>1 DEF JournalEntry, publish, Adds, entryRead
<1>6. CASE FinalFlush
  BY <1>6 DEF FinalFlush, flush_now, Takes, Tasks, TaskInv
<1>7. CASE FlushTick
  BY <1>7 DEF FlushTick, flush_now, Takes, Tasks
<1>8. CASE Forward
  BY <1>8 DEF Forward, Forwards
<1>9. ASSUME NEW t \in Tasks, Flush(t) PROVE Takes(t) \/ Sends(t)
  <2>1. CASE ForcedFlush(t)
    BY <2>1 DEF ForcedFlush, flush_now, Takes, TaskInv
  <2>2. CASE Send(t)
    BY <2>2 DEF Send, Sends
  <2>3. QED  BY <1>9, <2>1, <2>2 DEF Flush
<1>10. CASE UNCHANGED vars
  BY <1>10 DEF vars, Idles
<1>11. QED  BY <1>1, <1>2, <1>3, <1>4, <1>5, <1>6, <1>7, <1>8, <1>9, <1>10 DEF Next, FileReader

(* The types of what is on its way. *)
SinkTypes ==
  /\ batch \in [Tasks -> Seq(Events)] /\ buffer \in Seq(Events) /\ forwarded \in Seq(Events)
  /\ channel \in Seq(Events) /\ Len(channel) <= Capacity
  /\ read \subseteq Units /\ dropped \subseteq Units

(* Every step keeps them. *)
LEMMA SinkNext ==
  ASSUME TypeOK, TaskInv, [Next]_vars PROVE SinkTypes'
<1>0. SinkTypes /\ Capacity \in Nat
  BY LogCollectorAssumption, Zenon DEF TypeOK, SinkTypes
<1>1. CASE Idles
  BY <1>0, <1>1 DEF Idles, SinkTypes
<1>2. ASSUME NEW e \in Events, Adds(e) PROVE SinkTypes'
  <2>1. buffer' \in Seq(Events)
    BY <1>0, <1>2, AppendFacts DEF Adds, SinkTypes
  <2>2. read' \subseteq Units
    BY <1>0, <1>2, UnitFacts, Zenon DEF Adds, SinkTypes
  <2>3. QED  BY <1>0, <1>2, <2>1, <2>2 DEF Adds, SinkTypes
<1>3. ASSUME NEW t \in Tasks, Takes(t) PROVE SinkTypes'
  BY <1>0, <1>3 DEF Takes, take, SinkTypes
<1>4. ASSUME NEW t \in Tasks, Sends(t) PROVE SinkTypes'
  <2>1. batch[t] \in Seq(Events) /\ batch[t] # <<>>
    BY <1>0, <1>4 DEF Sends, SinkTypes, TaskInv
  <2>2. Head(batch[t]) \in Events /\ Tail(batch[t]) \in Seq(Events)
    BY <2>1, TailFacts
  <2>3. batch' \in [Tasks -> Seq(Events)]
    BY <1>0, <1>4, <2>2 DEF Sends, SinkTypes
  <2>4. channel' \in Seq(Events) /\ Len(channel') <= Capacity
    <3>1. channel \in Seq(Events) /\ Len(channel) <= Capacity
      BY <1>0 DEF SinkTypes
    <3>2. CASE Len(channel) < Capacity
      <4>1. channel' = Append(channel, Head(batch[t]))
        BY <1>4, <3>2 DEF Sends, publish_to_server
      <4>2. channel' \in Seq(Events) /\ Len(channel') = Len(channel) + 1
        BY <2>2, <3>1, <4>1, AppendFacts
      <4>3. QED  BY <1>0, <3>1, <3>2, <4>2
    <3>3. CASE ~(Len(channel) < Capacity)
      BY <1>4, <3>1, <3>3 DEF Sends, publish_to_server
    <3>4. QED  BY <3>2, <3>3
  <2>5. dropped' \subseteq Units
    BY <1>0, <1>4, <2>2, UnitFacts, Zenon DEF Sends, publish_to_server, SinkTypes
  <2>6. QED  BY <1>0, <1>4, <2>3, <2>4, <2>5 DEF Sends, SinkTypes
<1>5. CASE Forwards
  <2>1. channel \in Seq(Events) /\ channel # <<>> /\ forwarded \in Seq(Events) /\ Len(channel) <= Capacity
    BY <1>0, <1>5 DEF Forwards, SinkTypes
  <2>2. channel' \in Seq(Events) /\ Len(channel') <= Capacity
    BY <1>0, <1>5, <2>1 DEF Forwards
  <2>3. forwarded' \in Seq(Events)
    BY <1>5, <2>1 DEF Forwards
  <2>4. QED  BY <1>0, <1>5, <2>2, <2>3 DEF Forwards, SinkTypes
<1>6. CASE Ends
  BY <1>0, <1>6 DEF Ends, SinkTypes, all
<1>7. QED
  BY <1>1, <1>2, <1>3, <1>4, <1>5, <1>6, SinkStep, LineFacts, EntryFacts DEF lineRead

-----------------------------------------------------------------------------
(* The types of the tasks. *)
Places == {"down", "read", "watch", "wait", "join", "take", "send", "done"}
TaskTypes == pc \in [Tasks -> Places] /\ back \in [Tasks -> {"read", "wait", "done"}]

(* One task moves. *)
LEMMA Moves ==
  ASSUME TypeOK
  PROVE  /\ \A t \in Tasks : \A l \in Places :
              goto(t, l) => pc' \in [Tasks -> Places] /\ pc'[t] = l /\ \A r \in Tasks \ {t} : pc'[r] = pc[r]
         /\ \A t \in Tasks : \A l \in {"read", "wait", "done"} :
              back' = [back EXCEPT ![t] = l] =>
                /\ back' \in [Tasks -> {"read", "wait", "done"}]
                /\ back'[t] = l /\ \A r \in Tasks \ {t} : back'[r] = back[r]
         /\ TaskTypes /\ "file" \in Tasks /\ "journal" \in Tasks /\ "task" \in Tasks
<1>1. TaskTypes
  BY DEF TypeOK, TaskTypes, Places
<1>2. QED  BY <1>1 DEF TaskTypes, goto, Tasks

(* Every step keeps them. *)
LEMMA TaskTypesNext ==
  ASSUME TypeOK, [Next]_vars PROVE TaskTypes'
<1> USE DEF log, reader, tasks, sink, ghosts, bounds
<1>0. TaskTypes
  BY Moves
<1>1. CASE WriteLine \/ WriteBad \/ WriteTail \/ Rotate \/ Shutdown \/ Forward \/ UNCHANGED vars
  BY <1>0, <1>1 DEF WriteLine, WriteBad, WriteTail, write, Rotate, Shutdown, Forward, vars, TaskTypes
<1>2. CASE Exit \/ Crash
  BY <1>2 DEF Exit, Crash, exit, all, TaskTypes, Places
<1>3. CASE Start
  <2>1. back' = back /\ pc' = [file |-> "read", journal |-> "wait", task |-> "wait"]
    BY <1>3 DEF Start
  <2>2. pc' \in [Tasks -> Places]
    BY <2>1 DEF Tasks, Places
  <2>3. QED  BY <1>0, <2>1, <2>2 DEF TaskTypes
<1>4. CASE ReadFails \/ ReadEnd \/ Watch \/ Notified \/ Save \/ JournalStops
  <2>1. \E t \in Tasks : \E l \in Places : goto(t, l) /\ back' = back
    BY <1>4, Zenon DEF ReadFails, ReadEnd, Watch, Notified, Save, JournalStops, Places, Tasks
  <2>2. QED  BY <1>0, <2>1, Moves DEF TaskTypes
<1>5. ASSUME NEW t \in Tasks, NEW e, NEW l \in {"read", "wait"}, publish(t, e, l) PROVE TaskTypes'
  <2>1. back' = [back EXCEPT ![t] = l]
    BY <1>5 DEF publish
  <2>2. \E m \in Places : goto(t, m)
    BY <1>5, Zenon DEF publish, Places
  <2>3. l \in {"read", "wait", "done"}
    OBVIOUS
  <2>4. QED  BY <2>1, <2>2, <2>3, Moves, Zenon DEF TaskTypes
<1>6. ASSUME NEW t \in Tasks, NEW l \in {"read", "wait", "done"}, flush_now(t, l) PROVE TaskTypes'
  <2>1. back' = [back EXCEPT ![t] = l]
    BY <1>6 DEF flush_now
  <2>2. \E m \in Places : goto(t, m)
    BY <1>6, Zenon DEF flush_now, Places
  <2>3. QED  BY <2>1, <2>2, Moves, Zenon DEF TaskTypes
<1>7. CASE ReadLine \/ JournalEntry
  BY <1>5, <1>7, Moves, Zenon DEF ReadLine, JournalEntry
<1>8. CASE FinalFlush \/ FlushTick
  BY <1>6, <1>8, Moves, Zenon DEF FinalFlush, FlushTick
<1>9. ASSUME NEW t \in Tasks, Flush(t) PROVE TaskTypes'
  <2>0. back[t] \in {"read", "wait", "done"}
    BY <1>0 DEF TaskTypes
  <2>1. CASE ForcedFlush(t)
    BY <1>6, <2>0, <2>1 DEF ForcedFlush
  <2>2. CASE Send(t)
    <3>1. \E m \in Places : goto(t, m)
      BY <2>0, <2>2, Zenon DEF Send, Places
    <3>2. back' = back
      BY <2>2 DEF Send
    <3>3. QED  BY <1>0, <3>1, <3>2, Moves, Zenon DEF TaskTypes
  <2>3. QED  BY <1>9, <2>1, <2>2 DEF Flush
<1>10. QED  BY <1>1, <1>2, <1>3, <1>4, <1>7, <1>8, <1>9 DEF Next, FileReader

(* The types of the file and of the reader. *)
ReaderTypes ==
  /\ file \in Seq(Units) /\ lines \in 0..MaxLines
  /\ offset \in Nat /\ saved \in Nat \cup {None} /\ position \in Nat
  /\ notify \in BOOLEAN /\ watching \in BOOLEAN /\ past \subseteq Units

(* Writing one more unit. *)
LEMMA WriteFacts ==
  ASSUME TypeOK, LineInv, [Next]_vars, WriteLine \/ WriteBad \/ WriteTail
  PROVE  \E u \in Units :
           /\ write(u) /\ u.part # "journal" /\ u.line = lines' /\ lines' \in 1..MaxLines
           /\ IF WriteTail THEN halfWritten /\ u.part = "tail" /\ lines' = lines
                           ELSE ~halfWritten /\ u.part # "tail" /\ lines' = lines + 1
           /\ IF u.part = "bad" THEN bad' = bad + 1 ELSE bad' = bad
<1>0. MaxLines \in Nat /\ lines \in 0..MaxLines /\ file \in Seq(Units) /\ Len(file) \in Nat
  BY Numbers, LogCollectorAssumption DEF TypeOK
<1>1. CASE WriteLine
  <2>1. lines + 1 \in 1..MaxLines
    BY <1>0, <1>1 DEF WriteLine
  <2>2. PICK p \in {"line", "head"} : write([line |-> lines + 1, part |-> p])
    BY <1>1 DEF WriteLine
  <2>3. [line |-> lines + 1, part |-> p] \in Units
    BY <2>1, UnitFacts, Zenon
  <2>4. ~WriteTail /\ ~halfWritten /\ lines' = lines + 1 /\ bad' = bad
    BY <1>1 DEF WriteLine, WriteTail
  <2>5. QED  BY <2>1, <2>2, <2>3, <2>4
<1>2. CASE WriteBad
  <2>1. lines + 1 \in 1..MaxLines
    BY <1>0, <1>2 DEF WriteBad
  <2>2. [line |-> lines + 1, part |-> "bad"] \in Units
    BY <2>1, UnitFacts, Zenon
  <2>3. ~WriteTail /\ ~halfWritten /\ lines' = lines + 1 /\ bad' = bad + 1 /\ write([line |-> lines + 1, part |-> "bad"])
    BY <1>2 DEF WriteBad, WriteTail
  <2>4. QED  BY <2>1, <2>2, <2>3
<1>3. CASE WriteTail
  <2>0. halfWritten /\ lines' = lines /\ bad' = bad /\ write([line |-> lines, part |-> "tail"])
    BY <1>3 DEF WriteTail
  <2>1. Len(file) \in 1..Len(file)
    BY <1>0, <2>0 DEF halfWritten
  <2>2. file[Len(file)] \in Units
    BY <1>0, <2>1
  <2>3. lines \in 1..MaxLines
    <3>1. file[Len(file)].line \in 1..MaxLines
      BY <2>0, <2>2 DEF Units, halfWritten
    <3>2. QED  BY <2>0, <3>1 DEF LineInv
  <2>4. [line |-> lines, part |-> "tail"] \in Units
    BY <2>3, UnitFacts, Zenon
  <2>5. QED  BY <1>3, <2>0, <2>3, <2>4
<1>4. QED  BY <1>1, <1>2, <1>3

(* Where reading begins. *)
LEMMA SeekFacts ==
  ASSUME TypeOK
  PROVE  /\ Len(file) \in Nat /\ \A k \in Nat : seek_to(k) \in Nat /\ seek_to(k) <= Len(file) /\ seek_to(k) <= k
         /\ initial_offset \in Nat
  BY Numbers DEF seek_to, initial_offset

(* Every step keeps the types of the file and of the reader. *)
LEMMA ReaderTypesNext ==
  ASSUME TypeOK, LineInv, [Next]_vars PROVE ReaderTypes' /\ LineInv'
<1> USE DEF log, reader, tasks, sink, ghosts, bounds
<1>0. ReaderTypes
  BY DEF TypeOK, ReaderTypes
<1>1. CASE WriteLine \/ WriteBad \/ WriteTail
  <2>1. PICK u \in Units : write(u) /\ u.line = lines' /\ lines' \in 1..MaxLines
    BY <1>1, WriteFacts, Zenon
  <2>2. file' = Append(file, u) /\ lines' \in 0..MaxLines
    BY <2>1 DEF write
  <2>3. file' \in Seq(Units) /\ Len(file') = Len(file) + 1 /\ file'[Len(file) + 1] = u
    BY <1>0, <2>2 DEF ReaderTypes
  <2>4. notify' \in BOOLEAN /\ past' \subseteq Units
    BY <1>0, <2>1, Zenon DEF write, ReaderTypes
  <2>5. UNCHANGED <<offset, saved, position, watching>>
    BY <2>1 DEF write
  <2>6. LineInv'
    BY <2>1, <2>3 DEF LineInv
  <2>7. QED  BY <1>0, <2>2, <2>3, <2>4, <2>5, <2>6 DEF ReaderTypes
<1>2. CASE Rotate
  <2>1. file' = <<>> /\ UNCHANGED <<lines, offset, saved, position, watching, past>> /\ notify' \in BOOLEAN
    BY <1>0, <1>2 DEF Rotate, ReaderTypes
  <2>2. QED  BY <1>0, <2>1 DEF ReaderTypes, LineInv, halfWritten
<1>3. ASSUME UNCHANGED <<file, lines>> PROVE LineInv'
  BY <1>3 DEF LineInv, halfWritten
<1>4. CASE Start
  <2>1. offset' \in Nat /\ position' \in Nat
    BY <1>4, SeekFacts, Zenon DEF Start
  <2>2. past' \subseteq Units
    <3>1. \A i \in 1..Len(file) : file[i] \in Units
      BY <1>0 DEF ReaderTypes
    <3>2. QED  BY <1>4, <3>1 DEF Start
  <2>3. UNCHANGED <<file, lines, saved, notify, watching>>
    BY <1>4 DEF Start
  <2>4. QED  BY <1>0, <1>3, <2>1, <2>2, <2>3 DEF ReaderTypes
<1>5. CASE ReadLine
  <2>1. position' \in Nat
    BY <1>5, LineFacts
  <2>2. UNCHANGED <<file, lines, offset, saved, notify, watching, past>>
    BY <1>5 DEF ReadLine
  <2>3. QED  BY <1>0, <1>3, <2>1, <2>2 DEF ReaderTypes
<1>6. CASE ReadEnd \/ ReadFails
  BY <1>0, <1>3, <1>6 DEF ReadEnd, ReadFails, ReaderTypes
<1>7. CASE Watch
  BY <1>0, <1>3, <1>7 DEF Watch, ReaderTypes
<1>8. CASE Notified
  <2>1. position' \in Nat
    BY <1>0, <1>8, SeekFacts, Zenon DEF Notified, ReaderTypes
  <2>2. QED  BY <1>0, <1>3, <1>8, <2>1, Zenon DEF Notified, ReaderTypes
<1>9. CASE Save
  BY <1>0, <1>3, <1>9 DEF Save, ReaderTypes
<1>10. CASE Exit \/ Crash
  <2>1. /\ watching' = FALSE /\ notify' = FALSE /\ offset' = 0 /\ position' = 0 /\ past' = {}
        /\ UNCHANGED <<file, lines, saved>>
    BY <1>10 DEF Exit, Crash, exit
  <2>2. 0 \in Nat
    OBVIOUS
  <2>3. QED  BY <1>0, <1>3, <2>1, <2>2, Zenon DEF ReaderTypes
<1>11. CASE \/ Shutdown \/ FinalFlush \/ JournalStops \/ FlushTick \/ Forward \/ UNCHANGED vars
            \/ \E t \in Tasks : Flush(t)
  BY <1>0, <1>3, <1>11
 , Zenon DEF Shutdown, FinalFlush, JournalStops, FlushTick, Forward, vars, Flush, ForcedFlush, Send, ReaderTypes
<1>12. CASE JournalEntry
  BY <1>0, <1>3, <1>12 DEF JournalEntry, ReaderTypes
<1>13. QED
  BY <1>1, <1>2, <1>4, <1>5, <1>6, <1>7, <1>8, <1>9, <1>10, <1>11, <1>12 DEF Next, FileReader

(* The types of the rest. *)
OtherTypes ==
  /\ shutdown \in BOOLEAN /\ forced \in BOOLEAN /\ outdated \in BOOLEAN
  /\ journal \in 0..MaxJournal /\ bad \in 0..MaxBad /\ rotations \in 0..MaxRotations
  /\ stops \in 0..MaxStops /\ crashes \in 0..MaxCrashes

(* Every step keeps them. *)
LEMMA OtherTypesNext ==
  ASSUME TypeOK, [Next]_vars PROVE OtherTypes'
<1> USE DEF log, reader, tasks, sink, ghosts, bounds
<1>0. OtherTypes /\ {MaxJournal, MaxBad, MaxRotations, MaxStops, MaxCrashes} \subseteq Nat
  <2>1. OtherTypes
    BY Zenon DEF TypeOK, OtherTypes
  <2>2. QED  BY <2>1, LogCollectorAssumption
<1>1. CASE WriteLine \/ WriteTail
  BY <1>0, <1>1, Zenon DEF WriteLine, WriteTail, write, OtherTypes
<1>00. \A n \in Nat : \A k \in 0..n : k < n => k + 1 \in 0..n
  OBVIOUS
<1>2. CASE WriteBad
  <2>1. /\ bad < MaxBad /\ bad' = bad + 1
        /\ UNCHANGED <<shutdown, forced, outdated, journal, rotations, stops, crashes>>
    BY <1>2 DEF WriteBad, write
  <2>2. bad' \in 0..MaxBad
    BY <1>0, <1>00, <2>1 DEF OtherTypes
  <2>3. QED  BY <1>0, <2>1, <2>2, Zenon DEF OtherTypes
<1>3. CASE Rotate
  <2>1. /\ rotations < MaxRotations /\ rotations' = rotations + 1
        /\ UNCHANGED <<shutdown, forced, outdated, journal, bad, stops, crashes>>
    BY <1>3 DEF Rotate
  <2>2. rotations' \in 0..MaxRotations
    BY <1>0, <1>00, <2>1 DEF OtherTypes
  <2>3. QED  BY <1>0, <2>1, <2>2, Zenon DEF OtherTypes
<1>4. CASE Shutdown
  <2>1. /\ stops < MaxStops /\ stops' = stops + 1 /\ shutdown' = TRUE
        /\ UNCHANGED <<forced, outdated, journal, bad, rotations, crashes>>
    BY <1>4 DEF Shutdown
  <2>2. stops' \in 0..MaxStops
    BY <1>0, <1>00, <2>1 DEF OtherTypes
  <2>3. QED  BY <1>0, <2>1, <2>2, Zenon DEF OtherTypes
<1>5. CASE Exit
  <2>1. shutdown' = FALSE /\ UNCHANGED <<forced, outdated, bounds>>
    BY <1>5 DEF Exit, exit
  <2>2. QED  BY <1>0, <2>1, Zenon DEF OtherTypes
<1>6. CASE Crash
  <2>1. /\ shutdown' = FALSE /\ crashes < MaxCrashes /\ crashes' = crashes + 1
        /\ UNCHANGED <<forced, outdated, journal, bad, rotations, stops>>
    BY <1>6 DEF Crash, exit
  <2>2. crashes' \in 0..MaxCrashes
    BY <1>0, <2>1 DEF OtherTypes
  <2>3. QED  BY <1>0, <2>1, <2>2, Zenon DEF OtherTypes
<1>7. CASE Save
  <2>1. outdated' \in BOOLEAN
    BY <1>7, Zenon DEF Save
  <2>2. QED  BY <1>0, <1>7, <2>1 DEF Save, OtherTypes
<1>8. CASE ReadLine
  <2>1. forced' \in BOOLEAN
    BY <1>8, Zenon DEF ReadLine, publish
  <2>2. QED  BY <1>0, <1>8, <2>1 DEF ReadLine, OtherTypes
<1>9. CASE JournalEntry
  <2>1. forced' \in BOOLEAN
    BY <1>9, Zenon DEF JournalEntry, publish
  <2>2. QED  BY <1>0, <1>9, <2>1 DEF JournalEntry, OtherTypes
<1>10. CASE Start \/ ReadFails \/ ReadEnd \/ Watch \/ Notified \/ FinalFlush \/ JournalStops
  BY <1>0, <1>10, Zenon DEF Start, ReadFails, ReadEnd, Watch, Notified, FinalFlush, JournalStops, OtherTypes
<1>11. CASE FlushTick \/ Forward \/ UNCHANGED vars \/ \E t \in Tasks : Flush(t)
  BY <1>0, <1>11, Zenon DEF FlushTick, Forward, vars, Flush, ForcedFlush, Send, OtherTypes
<1>12. QED
  BY <1>1, <1>2, <1>3, <1>4, <1>5, <1>6, <1>7, <1>8, <1>9, <1>10, <1>11 DEF Next, FileReader

(* Every step keeps the types. *)
LEMMA TypeNext == ASSUME TypeOK, LineInv, TaskInv, [Next]_vars PROVE TypeOK' /\ LineInv'
<1>1. SinkTypes' /\ TaskTypes' /\ ReaderTypes' /\ OtherTypes' /\ LineInv'
  BY SinkNext, TaskTypesNext, ReaderTypesNext, OtherTypesNext
<1>2. QED
  BY <1>1, Zenon DEF TypeOK, SinkTypes, TaskTypes, ReaderTypes, OtherTypes, Places

-----------------------------------------------------------------------------
(* Where a batch is, the task that sends it is. *)
LEMMA BatchNext ==
  ASSUME TypeOK, TaskInv, [Next]_vars PROVE \A t \in Tasks : pc'[t] = "send" <=> batch'[t] # <<>>
<1> USE DEF log, reader, tasks, sink, ghosts, bounds
<1>0. /\ \A t \in Tasks : pc[t] = "send" <=> batch[t] # <<>>
      /\ batch \in [Tasks -> Seq(Events)] /\ TaskTypes /\ TaskTypes'
  BY TaskTypesNext, Moves, Zenon DEF TaskInv, TypeOK
<1>1. CASE WriteLine \/ WriteBad \/ WriteTail \/ Rotate \/ Shutdown \/ Forward \/ UNCHANGED vars
  BY <1>0, <1>1, Zenon DEF WriteLine, WriteBad, WriteTail, write, Rotate, Shutdown, Forward, vars
<1>2. CASE Exit \/ Crash
  BY <1>2 DEF Exit, Crash, exit, all
<1>3. CASE Start
  <2>0. pc = all("down") /\ pc' = [file |-> "read", journal |-> "wait", task |-> "wait"]
    BY <1>3, Zenon DEF Start
  <2>1. \A t \in Tasks : pc[t] # "send" /\ pc'[t] # "send"
    BY <2>0 DEF all, Tasks
  <2>2. batch' = batch
    BY <1>3 DEF Start
  <2>3. QED  BY <1>0, <2>1, <2>2, Zenon
<1>4. ASSUME NEW t \in Tasks, NEW l \in Places \ {"send"}, goto(t, l), batch' = batch, pc[t] # "send"
      PROVE  \A r \in Tasks : pc'[r] = "send" <=> batch'[r] # <<>>
  <2>1. pc'[t] = l /\ l # "send" /\ \A r \in Tasks \ {t} : pc'[r] = pc[r]
    BY <1>4, Moves, Zenon
  <2>2. QED  BY <1>0, <1>4, <2>1, Zenon
<1>5. CASE ReadFails \/ ReadEnd \/ Watch \/ Notified \/ Save \/ JournalStops
  <2>1. \E t \in Tasks : \E l \in Places \ {"send"} : goto(t, l) /\ pc[t] # "send" /\ batch' = batch
    BY <1>5, Zenon DEF ReadFails, ReadEnd, Watch, Notified, Save, JournalStops, Places, Tasks
  <2>2. QED  BY <1>4, <2>1, Zenon
<1>6. ASSUME NEW t \in Tasks, NEW e, NEW l \in {"read", "wait"}, publish(t, e, l), pc[t] # "send"
      PROVE  \A r \in Tasks : pc'[r] = "send" <=> batch'[r] # <<>>
  <2>1. \E m \in Places \ {"send"} : goto(t, m)
    BY <1>6, Zenon DEF publish, Places
  <2>2. batch' = batch
    BY <1>6 DEF publish
  <2>3. QED  BY <1>4, <1>6, <2>1, <2>2, Zenon
<1>7. CASE ReadLine \/ JournalEntry
  BY <1>6, <1>7, Moves, Zenon DEF ReadLine, JournalEntry
<1>8. ASSUME NEW t \in Tasks, NEW l \in {"read", "wait", "done"}, flush_now(t, l), pc[t] # "send"
      PROVE  \A r \in Tasks : pc'[r] = "send" <=> batch'[r] # <<>>
  <2>1. batch'[t] = buffer /\ \A r \in Tasks \ {t} : batch'[r] = batch[r]
    BY <1>0, <1>8 DEF flush_now, take
  <2>2. pc'[t] = IF buffer = <<>> THEN l ELSE "send"
    BY <1>0, <1>8 DEF flush_now, goto, TaskTypes
  <2>3. \A r \in Tasks \ {t} : pc'[r] = pc[r]
    BY <1>0, <1>8 DEF flush_now, goto, TaskTypes
  <2>4. QED  BY <1>0, <2>1, <2>2, <2>3, Zenon
<1>9. CASE FinalFlush \/ FlushTick
  BY <1>8, <1>9, Moves, Zenon DEF FinalFlush, FlushTick
<1>10. ASSUME NEW t \in Tasks, Flush(t) PROVE \A r \in Tasks : pc'[r] = "send" <=> batch'[r] # <<>>
  <2>0. back[t] \in {"read", "wait", "done"}
    BY <1>0 DEF TaskTypes
  <2>1. CASE ForcedFlush(t)
    BY <1>8, <2>0, <2>1, Zenon DEF ForcedFlush
  <2>2. CASE Send(t)
    <3>1. batch[t] \in Seq(Events) /\ batch[t] # <<>>
      BY <1>0, <2>2, Zenon DEF Send
    <3>2. batch'[t] = Tail(batch[t]) /\ \A r \in Tasks \ {t} : batch'[r] = batch[r]
      BY <1>0, <2>2 DEF Send
    <3>3. Tail(batch[t]) = <<>> <=> Len(batch[t]) = 1
      <4>1. /\ Tail(batch[t]) \in Seq(Events) /\ Len(Tail(batch[t])) = Len(batch[t]) - 1
            /\ Len(batch[t]) \in Nat
        BY <3>1, TailFacts
      <4>2. \A s \in Seq(Events) : s = <<>> <=> Len(s) = 0
        OBVIOUS
      <4>3. Tail(batch[t]) = <<>> <=> Len(Tail(batch[t])) = 0
        BY <4>1, <4>2, Zenon
      <4>4. \A n \in Nat : n - 1 = 0 <=> n = 1
        OBVIOUS
      <4>5. QED  BY <4>1, <4>3, <4>4, Zenon
    <3>4. pc'[t] = (IF Len(batch[t]) = 1 THEN back[t] ELSE "send") /\ \A r \in Tasks \ {t} : pc'[r] = pc[r]
      BY <1>0, <2>2 DEF Send, goto, TaskTypes
    <3>5. QED  BY <1>0, <2>0, <3>2, <3>3, <3>4, Zenon
  <2>3. QED  BY <1>10, <2>1, <2>2 DEF Flush
<1>11. QED  BY <1>1, <1>2, <1>3, <1>5, <1>7, <1>9, <1>10, Zenon DEF Next, FileReader

(* Where the tasks are otherwise. *)
CourseInv ==
  /\ pc["file"] \in {"take", "send"} => back["file"] \in {"read", "done"}
  /\ pc["file"] = "watch" => ~watching
  /\ \A t \in Tasks : pc[t] = "take" => forced
  /\ shutdown \/ pc["file"] = "join" => stops # 0
  /\ \A t \in {"file", "journal"} : pc[t] = "send" => forced \/ stops # 0

(* Every step keeps the course of the tasks. *)
LEMMA CourseNext ==
  ASSUME TypeOK, TaskInv, [Next]_vars PROVE CourseInv'
<1> USE DEF log, reader, tasks, sink, ghosts, bounds
<1>0. CourseInv /\ TaskTypes /\ "file" \in Tasks /\ "journal" \in Tasks /\ "task" \in Tasks
  BY Moves, Zenon DEF TaskInv, CourseInv
<1>1. CASE WriteLine \/ WriteBad \/ WriteTail \/ Rotate \/ Forward \/ UNCHANGED vars
  <2>1. UNCHANGED <<pc, back, watching, forced, shutdown, stops>>
    BY <1>1, Zenon DEF WriteLine, WriteBad, WriteTail, write, Rotate, Forward, vars
  <2>2. QED  BY <1>0, <2>1 DEF CourseInv
<1>2. CASE Shutdown
  <2>1. stops' # 0
    BY <1>2, Numbers DEF Shutdown
  <2>2. UNCHANGED <<pc, back, watching, forced>>
    BY <1>2 DEF Shutdown
  <2>3. QED  BY <1>0, <2>1, <2>2 DEF CourseInv
<1>3. CASE Exit \/ Crash
  <2>1. shutdown' = FALSE /\ \A t \in Tasks : pc'[t] = "down"
    BY <1>3 DEF Exit, Crash, exit, all
  <2>2. QED  BY <1>0, <2>1 DEF CourseInv
<1>4. CASE Start
  <2>1. pc'["file"] = "read" /\ \A t \in Tasks : pc'[t] \notin {"take", "send"}
    BY <1>4 DEF Start, Tasks
  <2>2. UNCHANGED <<shutdown, stops>>
    BY <1>4, Zenon DEF Start
  <2>3. QED  BY <1>0, <2>1, <2>2 DEF CourseInv
<1>5. CASE JournalStops
  <2>1. pc'["journal"] = "done" /\ \A t \in Tasks \ {"journal"} : pc'[t] = pc[t]
    BY <1>0, <1>5 DEF JournalStops, goto, TaskTypes
  <2>2. UNCHANGED <<back, watching, forced, shutdown, stops>>
    BY <1>5 DEF JournalStops
  <2>3. QED  BY <1>0, <2>1, <2>2 DEF CourseInv
<1>6. CASE ReadFails \/ ReadEnd \/ Notified \/ Watch \/ Save
  <2>1. /\ pc'["file"] \in {"watch", "wait", "read", "join"} /\ \A t \in Tasks \ {"file"} : pc'[t] = pc[t]
        /\ UNCHANGED <<back, forced, shutdown, stops>>
    BY <1>0, <1>6, Zenon DEF ReadFails, ReadEnd, Notified, Watch, Save, goto, TaskTypes
  <2>2. pc'["file"] = "watch" => ~watching'
    BY <1>0, <1>6, Zenon DEF ReadFails, ReadEnd, Notified, Watch, Save, goto, TaskTypes
  <2>3. pc'["file"] = "join" => shutdown
    BY <1>0, <1>6, Zenon DEF ReadFails, ReadEnd, Notified, Watch, Save, goto, TaskTypes
  <2>4. QED  BY <1>0, <2>1, <2>2, <2>3 DEF CourseInv
<1>7. ASSUME NEW t \in {"file", "journal"}, NEW e, NEW l \in {"read", "wait"}, t = "file" => l = "read",
             publish(t, e, l), UNCHANGED <<watching, shutdown, stops>>
      PROVE  CourseInv'
  <2>1. /\ back'[t] = l /\ \A r \in Tasks \ {t} : back'[r] = back[r]
        /\ pc'[t] \in {"take", l} /\ \A r \in Tasks \ {t} : pc'[r] = pc[r]
    BY <1>0, <1>7 DEF publish, goto, TaskTypes
  <2>2. (forced => forced') /\ (pc'[t] = "take" => forced')
    <3>1. forced' = (forced \/ needs_flush(buffer'))
      BY <1>7 DEF publish
    <3>2. pc'[t] = "take" => needs_flush(buffer')
      BY <1>0, <1>7 DEF publish, goto, TaskTypes
    <3>3. QED  BY <3>1, <3>2, Zenon
  <2>3. QED  BY <1>0, <1>7, <2>1, <2>2 DEF CourseInv
<1>8. CASE ReadLine \/ JournalEntry
  BY <1>7, <1>8, Zenon DEF ReadLine, JournalEntry
<1>9. ASSUME NEW t \in Tasks, NEW l \in {"read", "wait", "done"}, flush_now(t, l),
             t = "file" => l \in {"read", "done"}, t \in {"file", "journal"} => forced \/ stops # 0,
             UNCHANGED <<watching, shutdown, stops, forced>>
      PROVE  CourseInv'
  <2>1. /\ back'[t] = l /\ \A r \in Tasks \ {t} : back'[r] = back[r]
        /\ pc'[t] \in {"send", l} /\ \A r \in Tasks \ {t} : pc'[r] = pc[r]
    BY <1>0, <1>9 DEF flush_now, goto, TaskTypes
  <2>2. QED  BY <1>0, <1>9, <2>1 DEF CourseInv
<1>10. CASE FinalFlush
  BY <1>0, <1>9, <1>10, Zenon DEF FinalFlush, CourseInv
<1>11. CASE FlushTick
  BY <1>0, <1>9, <1>11 DEF FlushTick
<1>12. ASSUME NEW t \in Tasks, Flush(t) PROVE CourseInv'
  <2>0. back[t] \in {"read", "wait", "done"}
    BY <1>0 DEF TaskTypes
  <2>1. CASE ForcedFlush(t)
    BY <1>0, <1>9, <2>0, <2>1, Zenon DEF ForcedFlush, CourseInv
  <2>2. CASE Send(t)
    <3>1. pc[t] = "send" /\ pc'[t] \in {"send", back[t]} /\ \A r \in Tasks \ {t} : pc'[r] = pc[r]
      BY <1>0, <2>2 DEF Send, goto, TaskTypes
    <3>2. UNCHANGED <<back, watching, forced, shutdown, stops>>
      BY <2>2, Zenon DEF Send
    <3>3. QED  BY <1>0, <2>0, <3>1, <3>2 DEF CourseInv
  <2>3. QED  BY <1>12, <2>1, <2>2 DEF Flush
<1>13. QED
  BY <1>1, <1>2, <1>3, <1>4, <1>5, <1>6, <1>8, <1>10, <1>11, <1>12 DEF Next, FileReader

(* Every step keeps both. *)
LEMMA TaskNext == ASSUME TypeOK, TaskInv, [Next]_vars PROVE TaskInv'
  BY BatchNext, CourseNext, Zenon DEF TaskInv, CourseInv

-----------------------------------------------------------------------------
(* Every step keeps the buffer below its limit. *)
LEMMA BufferNext ==
  ASSUME TypeOK, TaskInv, BufferInv, [Next]_vars PROVE BufferInv'
<1> USE DEF log, reader, tasks, sink, ghosts, bounds
<1>0. /\ TaskTypes /\ "file" \in Tasks /\ "journal" \in Tasks /\ "task" \in Tasks
      /\ buffer \in Seq(Events) /\ Len(buffer) \in Nat /\ MaxBatch \in Nat /\ MaxBatch > 0
  BY Moves, Numbers
<1>1. waiting("file") \in {0, 1} /\ waiting("journal") \in {0, 1} /\ waiting("file")' \in {0, 1} /\ waiting("journal")' \in {0, 1}
  BY DEF waiting
<1>2. ASSUME buffer' = <<>> PROVE BufferInv'
  <2>1. Len(buffer') = 0
    BY <1>2
  <2>2. QED  BY <1>0, <1>1, <2>1 DEF BufferInv
<1>3. ASSUME buffer' = buffer, \A t \in {"file", "journal"} : pc[t] = "take" => pc'[t] = "take"
      PROVE  BufferInv'
  <2>1. waiting("file") <= waiting("file")' /\ waiting("journal") <= waiting("journal")'
    BY <1>3 DEF waiting
  <2>2. QED  BY <1>0, <1>1, <1>3, <2>1 DEF BufferInv
<1>4. ASSUME NEW t \in {"file", "journal"}, NEW e \in Events, NEW l \in {"read", "wait"},
             publish(t, e, l), pc[t] # "take"
      PROVE  BufferInv'
  <2>1. Len(buffer') = Len(buffer) + 1
    BY <1>0, <1>4, AppendFacts DEF publish
  <2>2. /\ pc'[t] = IF Len(buffer') >= MaxBatch THEN "take" ELSE l
        /\ \A r \in {"file", "journal"} \ {t} : pc'[r] = pc[r]
    BY <1>0, <1>4 DEF publish, goto, TaskTypes, needs_flush
  <2>3. CASE Len(buffer') < MaxBatch
    BY <1>0, <1>1, <2>1, <2>3 DEF BufferInv
  <2>4. CASE ~(Len(buffer') < MaxBatch)
    <3>1. waiting("file")' + waiting("journal")' = waiting("file") + waiting("journal") + 1
      BY <1>0, <1>4, <2>1, <2>2, <2>4 DEF waiting
    <3>2. QED  BY <1>0, <1>1, <2>1, <3>1 DEF BufferInv
  <2>5. QED  BY <2>3, <2>4
<1>5. CASE ReadLine
  <2>1. lineRead \in Events
    BY <1>5, LineFacts DEF lineRead
  <2>2. publish("file", lineRead, "read") /\ pc["file"] # "take"
    BY <1>5 DEF ReadLine, lineRead
  <2>3. QED  BY <1>4, <2>1, <2>2
<1>6. CASE JournalEntry
  <2>1. entryRead \in Events
    BY <1>6, EntryFacts
  <2>2. publish("journal", entryRead, "wait") /\ pc["journal"] # "take"
    BY <1>6 DEF JournalEntry, entryRead
  <2>3. QED  BY <1>4, <2>1, <2>2
<1>7. CASE Exit \/ Crash
  BY <1>2, <1>7, Zenon DEF Exit, Crash, exit
<1>8. CASE FinalFlush \/ FlushTick
  BY <1>2, <1>8, Zenon DEF FinalFlush, FlushTick, flush_now, take
<1>9. CASE \/ WriteLine \/ WriteBad \/ WriteTail \/ Rotate \/ Shutdown \/ Forward \/ UNCHANGED vars
  BY <1>3, <1>9, Zenon DEF WriteLine, WriteBad, WriteTail, write, Rotate, Shutdown, Forward, vars
<1>10. CASE Start
  BY <1>0, <1>3, <1>10, Zenon DEF Start, all
<1>11. CASE ReadFails \/ ReadEnd \/ Watch \/ Notified \/ Save
  <2>1. buffer' = buffer /\ pc["file"] # "take" /\ pc'["journal"] = pc["journal"]
    BY <1>0, <1>11, Zenon DEF ReadFails, ReadEnd, Watch, Notified, Save, goto, TaskTypes
  <2>2. QED  BY <1>3, <2>1
<1>12. CASE JournalStops
  <2>1. buffer' = buffer /\ pc["journal"] # "take" /\ pc'["file"] = pc["file"]
    BY <1>0, <1>12 DEF JournalStops, goto, TaskTypes
  <2>2. QED  BY <1>3, <2>1
<1>13. ASSUME NEW t \in Tasks, Flush(t) PROVE BufferInv'
  <2>1. CASE ForcedFlush(t)
    BY <1>2, <2>1 DEF ForcedFlush, flush_now, take
  <2>2. CASE Send(t)
    <3>1. buffer' = buffer /\ pc[t] = "send" /\ \A r \in Tasks \ {t} : pc'[r] = pc[r]
      BY <1>0, <2>2 DEF Send, goto, TaskTypes
    <3>2. QED  BY <1>0, <1>3, <3>1
  <2>3. QED  BY <1>13, <2>1, <2>2 DEF Flush
<1>14. QED
  BY <1>5, <1>6, <1>7, <1>8, <1>9, <1>10, <1>11, <1>12, <1>13 DEF Next, FileReader

(* The places a line can be in, one by one. *)
LEMMA HeldOf ==
  /\ "file" \in Tasks /\ "journal" \in Tasks /\ "task" \in Tasks
  /\ flushing = UNION {units(batch[t]) : t \in Tasks}
  /\ \A u : u \in held <=> \/ u \in units(forwarded) \/ u \in units(channel) \/ u \in units(buffer)
                           \/ \E t \in Tasks : u \in units(batch[t])
  BY DEF held, flushing, Tasks

(* What a step does to the lines on their way. *)
LEMMA HeldStep ==
  ASSUME TypeOK, TaskInv, [Next]_vars
  PROVE  /\ Idles \/ Forwards => held' = held
         /\ \A t \in Tasks : Takes(t) => held' = held
         /\ \A t \in Tasks : Sends(t) => held' \subseteq held /\ held \cup dropped \subseteq held' \cup dropped'
         /\ Ends => held' \subseteq held
         /\ \A e \in Events : Adds(e) => held' = held \cup Range(e)
<1>0. SinkTypes /\ SinkTypes' /\ \A t \in Tasks : pc[t] = "send" <=> batch[t] # <<>>
  BY SinkNext, Zenon DEF TypeOK, SinkTypes, TaskInv
<1>1. \A u : u \in held' <=> \/ u \in units(forwarded') \/ u \in units(channel') \/ u \in units(buffer')
                             \/ \E t \in Tasks : u \in units(batch'[t])
  <2>1. held' = units(forwarded') \cup units(channel') \cup flushing' \cup units(buffer')
    BY DEF held, units
  <2>2. flushing' = units(batch'["file"]) \cup units(batch'["journal"]) \cup units(batch'["task"])
    BY DEF flushing, units
  <2>3. QED  BY <2>1, <2>2, Zenon DEF Tasks
<1>2. ASSUME Idles PROVE held' = held
  <2>1. batch' = batch /\ buffer' = buffer /\ channel' = channel /\ forwarded' = forwarded
    BY <1>2 DEF Idles
  <2>2. QED  BY <1>1, <2>1, HeldOf, Zenon
<1>3. ASSUME Forwards PROVE held' = held
  <2>1. units(channel) = Range(Head(channel)) \cup units(channel')
    BY <1>0, <1>3, TailFacts DEF Forwards, SinkTypes
  <2>2. units(forwarded') = units(forwarded) \cup Range(Head(channel))
    BY <1>0, <1>3, TailFacts, AppendFacts, Zenon DEF Forwards, SinkTypes
  <2>3. UNCHANGED <<batch, buffer>>
    BY <1>3 DEF Forwards
  <2>4. \A u : u \in held' <=> u \in held
    BY <1>1, <2>1, <2>2, <2>3, HeldOf
  <2>5. QED  BY <2>4, Zenon
<1>4. ASSUME NEW t \in Tasks, Takes(t) PROVE held' = held
  <2>1. batch'[t] = buffer /\ buffer' = <<>> /\ (\A r \in Tasks \ {t} : batch'[r] = batch[r])
        /\ UNCHANGED <<channel, forwarded>>
    BY <1>0, <1>4 DEF Takes, take, SinkTypes
  <2>2. units(batch[t]) = {} /\ units(buffer') = {}
    BY <1>0, <1>4, <2>1, NoUnits DEF Takes
  <2>3. ASSUME NEW u, u \in held' PROVE u \in held
    BY <1>1, <2>1, <2>2, <2>3, HeldOf
  <2>4. ASSUME NEW u, u \in held PROVE u \in held'
    <3>1. CASE u \in units(buffer)
      BY <1>1, <2>1, <3>1
    <3>2. CASE u \in units(forwarded) \/ u \in units(channel)
      BY <1>1, <2>1, <3>2
    <3>3. ASSUME NEW r \in Tasks, u \in units(batch[r]) PROVE u \in held'
      <4>1. r # t
        BY <2>2, <3>3
      <4>2. batch'[r] = batch[r]
        BY <2>1, <4>1
      <4>3. QED  BY <1>1, <3>3, <4>2
    <3>4. QED  BY <2>4, <3>1, <3>2, <3>3, HeldOf, Zenon
  <2>5. QED  BY <2>3, <2>4, Zenon
<1>5. ASSUME NEW t \in Tasks, Sends(t) PROVE held' \subseteq held /\ held \cup dropped \subseteq held' \cup dropped'
  <2>1. batch[t] \in Seq(Events) /\ batch[t] # <<>> /\ Head(batch[t]) \in Events
    BY <1>0, <1>5, TailFacts DEF Sends, SinkTypes
  <2>2. units(batch[t]) = Range(Head(batch[t])) \cup units(batch'[t])
    <3>1. batch'[t] = Tail(batch[t])
      BY <1>0, <1>5 DEF Sends, SinkTypes
    <3>2. units(batch[t]) = Range(Head(batch[t])) \cup units(Tail(batch[t]))
      BY <2>1, TailFacts, Zenon
    <3>3. QED  BY <3>1, <3>2
  <2>3. (\A r \in Tasks \ {t} : batch'[r] = batch[r]) /\ UNCHANGED <<buffer, forwarded>>
    BY <1>0, <1>5 DEF Sends, SinkTypes
  <2>4. \/ units(channel') = units(channel) \cup Range(Head(batch[t])) /\ dropped' = dropped
        \/ channel' = channel /\ dropped' = dropped \cup Range(Head(batch[t]))
    BY <1>0, <1>5, <2>1, AppendFacts, Zenon DEF Sends, publish_to_server, SinkTypes
  <2>5. \A u : u \in held' => u \in held
    BY <1>1, <2>2, <2>3, <2>4, HeldOf, Zenon
  <2>6. \A u : u \in held \/ u \in dropped => u \in held' \/ u \in dropped'
    BY <1>1, <2>2, <2>3, <2>4, HeldOf
  <2>7. QED  BY <2>5, <2>6, Zenon
<1>6. ASSUME Ends PROVE held' \subseteq held
  <2>1. (\A t \in Tasks : batch'[t] = <<>>) /\ buffer' = <<>> /\ channel' = <<>> /\ forwarded' = forwarded
    BY <1>6 DEF Ends, all
  <2>2. QED  BY <1>1, <2>1, HeldOf, NoUnits, Zenon
<1>7. ASSUME NEW e \in Events, Adds(e) PROVE held' = held \cup Range(e)
  <2>1. units(buffer') = units(buffer) \cup Range(e) /\ UNCHANGED <<batch, channel, forwarded>>
    BY <1>0, <1>7, AppendFacts DEF Adds, SinkTypes
  <2>2. \A u : u \in held' <=> u \in held \/ u \in Range(e)
    BY <1>1, <2>1, HeldOf, Zenon
  <2>3. QED  BY <2>2, Zenon
<1>8. QED  BY <1>2, <1>3, <1>4, <1>5, <1>6, <1>7, Zenon

(* Every step keeps what was read. *)
LEMMA KeptNext ==
  ASSUME TypeOK, TaskInv, KeptInv, [Next]_vars PROVE KeptInv'
<1>1. CASE Idles \/ Forwards \/ \E t \in Tasks : Takes(t)
  <2>1. held' = held /\ read' = read /\ dropped' = dropped
    BY <1>1, HeldStep DEF Idles, Forwards, Takes
  <2>2. QED  BY <2>1 DEF KeptInv
<1>2. ASSUME NEW t \in Tasks, Sends(t) PROVE KeptInv'
  <2>1. held \cup dropped \subseteq held' \cup dropped' /\ read' = read
    BY <1>2, HeldStep, Zenon DEF Sends
  <2>2. QED  BY <2>1, Zenon DEF KeptInv
<1>3. CASE Ends
  BY <1>3 DEF Ends, KeptInv
<1>4. ASSUME NEW e \in Events, Adds(e) PROVE KeptInv'
  <2>1. held' = held \cup Range(e) /\ read' = read \cup Range(e) /\ dropped' = dropped
    BY <1>4, HeldStep DEF Adds
  <2>2. QED  BY <2>1, Zenon DEF KeptInv
<1>5. QED  BY <1>1, <1>2, <1>3, <1>4, SinkStep, LineFacts, EntryFacts, Zenon DEF lineRead

-----------------------------------------------------------------------------
(* The file with one more unit. *)
LEMMA FileAppend ==
  ASSUME TypeOK, NEW u \in Units, write(u)
  PROVE  /\ Len(file) \in Nat /\ Len(file') = Len(file) + 1 /\ file'[Len(file) + 1] = u
         /\ \A i \in 1..Len(file) : i \in 1..Len(file') /\ file'[i] = file[i]
         /\ \A i \in 1..Len(file') : i \in 1..Len(file) \/ i = Len(file) + 1
         /\ (halfWritten' <=> u.part = "head")
<1>1. file \in Seq(Units) /\ file' = Append(file, u)
  BY DEF TypeOK, write
<1>2. Len(file) \in Nat /\ Len(file') = Len(file) + 1 /\ file'[Len(file) + 1] = u /\ file' # <<>>
  BY <1>1
<1>3. \A i \in 1..Len(file) : i \in 1..Len(file') /\ file'[i] = file[i]
  <2>1. \A s \in Seq(Units) : \A i \in 1..Len(s) : Append(s, u)[i] = s[i]
    OBVIOUS
  <2>2. \A n \in Nat : \A i \in 1..n : i \in 1..(n + 1)
    OBVIOUS
  <2>3. QED  BY <1>1, <1>2, <2>1, <2>2, Zenon
<1>4. \A i \in 1..Len(file') : i \in 1..Len(file) \/ i = Len(file) + 1
  BY <1>2
<1>5. halfWritten' <=> u.part = "head"
  BY <1>2 DEF halfWritten
<1>6. QED  BY <1>2, <1>3, <1>4, <1>5, Zenon

(* Every step keeps the reader up with the file. *)
LEMMA WatchNext ==
  ASSUME TypeOK, LineInv, TaskInv, FileInv, WatchInv, [Next]_vars PROVE WatchInv'
<1> USE DEF log, reader, tasks, sink, ghosts, bounds
<1> DEFINE Watch1 == /\ offset' <= Len(file') /\ position' <= Len(file') /\ (saved' # None => saved' <= Len(file'))
           Seen(k) == \A i \in 1..Len(file') : i <= k => file'[i] \in past' \cup read'
           Watch2 == pc'["file"] # "down" /\ ~watching' => \A i \in 1..Len(file') : file'[i] \in past'
           Watch3 == pc'["file"] = "wait" /\ ~notify' => Seen(Len(file'))
<1> SUFFICES ASSUME rotations' = 0, bad' = 0
             PROVE  Watch1 /\ Seen(offset') /\ Seen(position') /\ Watch2 /\ Watch3
  BY DEF WatchInv, seen
<1>0. /\ TaskTypes /\ "file" \in Tasks /\ "journal" \in Tasks /\ "task" \in Tasks
      /\ Len(file) \in Nat /\ offset \in Nat /\ position \in Nat /\ saved \in Nat \cup {None}
      /\ rotations \in Nat /\ bad \in Nat
  BY Moves, Numbers
<1>01. rotations = 0 /\ bad = 0
  <2>1. rotations' \in {rotations, rotations + 1} /\ bad' \in {bad, bad + 1}
    <3>1. CASE WriteLine \/ WriteBad \/ WriteTail \/ Rotate \/ Shutdown \/ Exit \/ Crash
      BY <3>1, Zenon DEF WriteLine, WriteBad, WriteTail, write, Rotate, Shutdown, Exit, Crash, exit
    <3>2. CASE FileReader \/ UNCHANGED vars
      BY <3>2, Zenon DEF FileReader, Start, ReadLine, ReadFails, ReadEnd, Watch, Notified, Save, FinalFlush, vars
    <3>3. CASE JournalEntry \/ JournalStops \/ FlushTick \/ Forward \/ \E t \in Tasks : Flush(t)
      BY <3>3, Zenon DEF JournalEntry, JournalStops, FlushTick, Forward, Flush, ForcedFlush, Send
    <3>4. QED  BY <3>1, <3>2, <3>3 DEF Next
  <2>2. QED  BY <1>0, <2>1
<1>02. /\ offset <= Len(file) /\ position <= Len(file) /\ (saved # None => saved <= Len(file))
       /\ seen(offset) /\ seen(position)
       /\ pc["file"] # "down" /\ ~watching => \A i \in 1..Len(file) : file[i] \in past
       /\ pc["file"] = "wait" /\ ~notify => seen(Len(file))
       /\ \A i \in 1..Len(file) : file[i].part # "bad"
  BY <1>01, Zenon DEF WatchInv, FileInv
<1>1. CASE WriteLine \/ WriteBad \/ WriteTail
  <2>1. PICK u \in Units : write(u)
    BY <1>1, WriteFacts, Zenon
  <2>2. file' = Append(file, u) /\ UNCHANGED <<offset, saved, position, watching, pc, read>> /\ past \subseteq past'
        /\ (notify' <=> notify \/ watching)
    BY <2>1, Zenon DEF write
  <2>3. ~watching => u \in past'
    BY <2>1 DEF write
  <2>4. /\ Len(file') = Len(file) + 1 /\ file'[Len(file) + 1] = u
        /\ \A i \in 1..Len(file) : file'[i] = file[i]
    BY <2>1, FileAppend, Zenon
  <2>5. \A i \in 1..Len(file') : i \in 1..Len(file) \/ i = Len(file) + 1
    BY <1>0, <2>4
  <2>6. Watch1
    <3>1. \A n, k \in Nat : k <= n => k <= n + 1
      OBVIOUS
    <3>2. offset <= Len(file) + 1 /\ position <= Len(file) + 1 /\ (saved # None => saved <= Len(file) + 1)
      BY <1>0, <1>02, <3>1
    <3>3. QED  BY <2>2, <2>4, <3>2, Zenon
  <2>7. ASSUME NEW k \in Nat, k <= Len(file), seen(k) PROVE Seen(k)
    <3>1. \A i \in 1..Len(file') : i <= k => i \in 1..Len(file)
      BY <1>0, <2>4, <2>7
    <3>2. QED  BY <2>2, <2>4, <2>7, <3>1 DEF seen
  <2>8. Watch2
    BY <1>02, <2>2, <2>3, <2>4, <2>5
  <2>9. Watch3
    <3>1. ASSUME pc'["file"] = "wait", ~notify' PROVE ~watching' /\ pc'["file"] # "down"
      BY <2>2, <3>1
    <3>2. QED  BY <2>8, <3>1
  <2>10. QED  BY <1>0, <1>02, <2>2, <2>6, <2>7, <2>8, <2>9, Zenon
<1>2. CASE Rotate
  <2>1. rotations' = rotations + 1
    BY <1>2 DEF Rotate
  <2>2. QED  BY <1>0, <1>01, <2>1
<1>3. CASE Start
  <2>1. /\ offset' = initial_offset /\ position' = seek_to(initial_offset) /\ pc'["file"] = "read"
        /\ past' = {file[i] : i \in 1..Len(file)} /\ UNCHANGED <<file, saved>>
    BY <1>3, Zenon DEF Start
  <2>2. initial_offset \in Nat /\ initial_offset <= Len(file) /\ seek_to(initial_offset) <= Len(file)
    <3>1. initial_offset \in Nat /\ \A k \in Nat : seek_to(k) <= Len(file)
      BY SeekFacts, Zenon
    <3>2. initial_offset <= Len(file)
      BY <1>0, <1>02 DEF initial_offset
    <3>3. QED  BY <3>1, <3>2, Zenon
  <2>3. \A i \in 1..Len(file') : file'[i] \in past'
    BY <2>1
  <2>4. QED  BY <1>02, <2>1, <2>2, <2>3, Zenon
<1>4. CASE ReadLine
  <2>1. position' <= Len(file) /\ Range(lineRead) = {file[i] : i \in (position + 1)..position'} /\ position' \in Nat
    BY <1>4, LineFacts DEF lineRead
  <2>2. UNCHANGED <<file, offset, saved, watching, past>> /\ read' = read \cup Range(lineRead)
    BY <1>4, Zenon DEF ReadLine, lineRead
  <2>3. pc["file"] # "down" /\ pc'["file"] # "wait"
    BY <1>0, <1>4, Zenon DEF ReadLine, publish, goto, TaskTypes
  <2>4. \A i \in 1..Len(file) : i <= position' => i <= position \/ i \in (position + 1)..position'
    BY <1>0, <2>1
  <2>5. Seen(position')
    BY <1>02, <2>1, <2>2, <2>4, Zenon DEF seen
  <2>6. QED  BY <1>02, <2>1, <2>2, <2>3, <2>5, Zenon DEF seen
<1>5. CASE ReadEnd
  <2>1. /\ offset' = position /\ position' = 0 /\ pc["file"] # "down" /\ position >= Len(file)
        /\ UNCHANGED <<file, saved, watching, past, read>>
    BY <1>5 DEF ReadEnd
  <2>2. position = Len(file) /\ position' <= Len(file) /\ \A i \in 1..Len(file) : ~(i <= 0)
    BY <1>0, <1>02, <2>1
  <2>3. Watch1
    BY <1>02, <2>1, <2>2, Zenon
  <2>4. Seen(offset') /\ Seen(Len(file'))
    BY <1>02, <2>1, <2>2, Zenon DEF seen
  <2>5. Seen(position')
    BY <2>1, <2>2, Zenon
  <2>6. Watch2
    BY <1>02, <2>1, Zenon
  <2>7. QED  BY <2>3, <2>4, <2>5, <2>6, Zenon
<1>6. CASE ReadFails
  <2>0. position < Len(file)
    BY <1>6, Zenon DEF ReadFails
  <2>1. position + 1 \in 1..Len(file)
    BY <1>0, <2>0
  <2>2. QED  BY <1>02, <1>6, <2>1, Zenon DEF ReadFails
<1>7. CASE Watch
  <2>1. UNCHANGED <<file, offset, saved, position, past, read>> /\ watching' = TRUE /\ pc["file"] = "watch"
    BY <1>7 DEF Watch
  <2>2. \A i \in 1..Len(file) : file[i] \in past
    BY <1>02, <2>1, Zenon DEF TaskInv
  <2>3. QED  BY <1>02, <2>1, <2>2, Zenon DEF seen
<1>8. CASE Notified
  <2>1. /\ UNCHANGED <<file, offset, saved, watching, past, read>> /\ position' = seek_to(offset)
        /\ pc["file"] = "wait" /\ pc'["file"] = "read"
    BY <1>0, <1>8 DEF Notified, goto, TaskTypes
  <2>2. position' <= Len(file) /\ position' <= offset /\ position' \in Nat
    BY <1>0, <2>1, SeekFacts
  <2>3. \A i \in 1..Len(file) : i <= position' => i <= offset
    BY <1>0, <2>2
  <2>4. QED  BY <1>02, <2>1, <2>2, <2>3, Zenon DEF seen
<1>9. CASE Save
  <2>1. /\ UNCHANGED <<file, offset, position, watching, past, read>> /\ saved' \in {offset, saved, None}
        /\ pc["file"] = "wait" /\ pc'["file"] = "join"
    BY <1>0, <1>9 DEF Save, goto, TaskTypes
  <2>2. QED  BY <1>02, <2>1, Zenon DEF seen
<1>10. CASE Exit \/ Crash
  <2>1. offset' = 0 /\ position' = 0 /\ pc'["file"] = "down" /\ UNCHANGED <<file, saved>>
    BY <1>0, <1>10, Zenon DEF Exit, Crash, exit, all
  <2>2. \A i \in 1..Len(file) : ~(i <= 0)
    BY <1>0
  <2>3. 0 <= Len(file)
    BY <1>0
  <2>4. QED  BY <1>02, <2>1, <2>2, <2>3, Zenon
<1>11. ASSUME UNCHANGED <<file, offset, saved, position, past, watching, notify>>, read \subseteq read',
              pc'["file"] = pc["file"] \/ (pc["file"] # "down" /\ pc'["file"] # "wait")
       PROVE  Watch1 /\ Seen(offset') /\ Seen(position') /\ Watch2 /\ Watch3
  BY <1>02, <1>11, Zenon DEF seen
<1>12. CASE Shutdown \/ Forward \/ UNCHANGED vars
  BY <1>11, <1>12, Zenon DEF Shutdown, Forward, vars
<1>13. CASE JournalEntry \/ JournalStops \/ FlushTick
  <2>1. pc'["file"] = pc["file"]
    BY <1>0, <1>13, Zenon DEF JournalEntry, publish, JournalStops, FlushTick, flush_now, goto, TaskTypes
  <2>2. UNCHANGED <<file, offset, saved, position, past, watching, notify>> /\ read \subseteq read'
    BY <1>13, Zenon DEF JournalEntry, JournalStops, FlushTick
  <2>3. QED  BY <1>11, <2>1, <2>2
<1>14. CASE FinalFlush
  <2>1. pc["file"] = "join" /\ pc'["file"] # "wait"
    BY <1>0, <1>14, Zenon DEF FinalFlush, flush_now, goto, TaskTypes
  <2>2. QED  BY <1>11, <1>14, <2>1, Zenon DEF FinalFlush
<1>15. ASSUME NEW t \in Tasks, Flush(t) PROVE Watch1 /\ Seen(offset') /\ Seen(position') /\ Watch2 /\ Watch3
  <2>1. UNCHANGED <<file, offset, saved, position, past, watching, notify, read>> /\ pc[t] \in {"take", "send"}
    BY <1>15, Zenon DEF Flush, ForcedFlush, Send
  <2>2. pc'[t] \in {"send", back[t]} /\ \A r \in Tasks \ {t} : pc'[r] = pc[r]
    BY <1>0, <1>15, Zenon DEF Flush, ForcedFlush, Send, flush_now, goto, TaskTypes
  <2>3. pc'["file"] = pc["file"] \/ (pc["file"] # "down" /\ pc'["file"] # "wait")
    BY <1>0, <2>1, <2>2, Zenon DEF TaskInv
  <2>4. QED  BY <1>11, <2>1, <2>3, Zenon
<1>16. QED
  BY <1>1, <1>2, <1>3, <1>4, <1>5, <1>6, <1>7, <1>8, <1>9, <1>10, <1>12, <1>13, <1>14, <1>15, Zenon
  DEF Next, FileReader

-----------------------------------------------------------------------------
(* The steps that leave the file alone. *)
LEMMA FileStep ==
  ASSUME TypeOK, [Next]_vars, ~(WriteLine \/ WriteBad \/ WriteTail \/ Rotate)
  PROVE  UNCHANGED <<file, lines, bad>> /\ (JournalEntry \/ journal' = journal)
<1> USE DEF log, reader, tasks, sink, ghosts, bounds
<1>1. CASE Shutdown \/ Exit \/ Crash
  BY <1>1, Zenon DEF Shutdown, Exit, Crash, exit
<1>2. CASE FileReader \/ UNCHANGED vars
  BY <1>2, Zenon DEF FileReader, Start, ReadLine, ReadFails, ReadEnd, Watch, Notified, Save, FinalFlush, vars
<1>3. CASE JournalEntry \/ JournalStops \/ FlushTick \/ Forward
  BY <1>3, Zenon DEF JournalEntry, JournalStops, FlushTick, Forward
<1>4. CASE \E t \in Tasks : Flush(t)
  BY <1>4, Zenon DEF Flush, ForcedFlush, Send
<1>5. QED  BY <1>1, <1>2, <1>3, <1>4 DEF Next

(* Every step keeps the file in order. *)
LEMMA FileNext ==
  ASSUME TypeOK, LineInv, FileInv, [Next]_vars PROVE FileInv'
<1>1. CASE WriteLine \/ WriteBad \/ WriteTail
  <2>0. PICK u \in Units :
           /\ write(u) /\ u.part # "journal" /\ u.line = lines' /\ lines' \in 1..MaxLines
           /\ IF WriteTail THEN halfWritten /\ u.part = "tail" /\ lines' = lines
                           ELSE ~halfWritten /\ u.part # "tail" /\ lines' = lines + 1
           /\ IF u.part = "bad" THEN bad' = bad + 1 ELSE bad' = bad
    BY <1>1, WriteFacts, Zenon
  <2> DEFINE n == Len(file) + 1
  <2>1. /\ Len(file) \in Nat /\ Len(file') = n /\ file'[n] = u
        /\ \A i \in 1..Len(file) : i \in 1..Len(file') /\ file'[i] = file[i]
        /\ \A i \in 1..Len(file') : i \in 1..Len(file) \/ i = n
        /\ (halfWritten' <=> u.part = "head")
    BY <2>0, FileAppend, Zenon
  <2>2. lines \in Nat /\ lines' \in Nat /\ lines <= lines' /\ bad \in Nat /\ (lines' = lines \/ lines < lines')
    <3>1. lines \in Nat /\ bad \in Nat
      BY Numbers
    <3>2. lines' = lines \/ lines' = lines + 1
      BY <2>0, Zenon
    <3>3. QED  BY <3>1, <3>2
  <2>3. ASSUME NEW i \in 1..Len(file)
        PROVE  file[i].part # "journal" /\ file[i].line <= lines' /\ file[i] # u /\ file[i].line \in Nat
    <3>1. file[i] \in Units
      BY DEF TypeOK
    <3>2. file[i].line \in Nat /\ file[i].part # "journal" /\ file[i].line <= lines
      BY <3>1, UnitFacts, Zenon DEF FileInv
    <3>3. CASE WriteTail
      <4>1. file[i].part = "tail" => file[i].line # lines
        BY <2>0, <3>3, Zenon DEF FileInv
      <4>2. file[i] # u
        BY <2>0, <3>3, <4>1, Zenon
      <4>3. QED  BY <2>2, <3>2, <4>2
    <3>4. CASE ~WriteTail
      <4>1. lines' = lines + 1
        BY <2>0, <3>4, Zenon
      <4>2. file[i].line # lines'
        BY <2>2, <3>2, <4>1
      <4>3. file[i] # u
        BY <2>0, <4>2, Zenon
      <4>4. QED  BY <2>2, <3>2, <4>3
    <3>5. QED  BY <3>3, <3>4
  <2>4. \A i \in 1..Len(file') : file'[i].part # "journal" /\ file'[i].line <= lines'
    <3>1. u.line <= lines'
      BY <2>0, <2>2
    <3>2. QED  BY <2>0, <2>1, <2>3, <3>1, Zenon
  <2>5. ASSUME NEW i \in 1..Len(file'), NEW j \in 1..Len(file'), i < j
        PROVE  file'[i] # file'[j] /\ file'[i].line <= file'[j].line
    <3>0. \A m \in Nat : \A a, b \in 1..(m + 1) : a < b => a \in 1..m /\ (b \in 1..m \/ b = m + 1)
      OBVIOUS
    <3>1. i \in 1..Len(file) /\ (j \in 1..Len(file) \/ j = n)
      BY <2>1, <2>5, <3>0, Zenon
    <3>2. CASE j \in 1..Len(file)
      BY <2>1, <2>5, <3>1, <3>2, Zenon DEF FileInv
    <3>3. CASE j = n
      BY <2>0, <2>1, <2>3, <3>1, <3>3, Zenon
    <3>4. QED  BY <3>1, <3>2, <3>3
  <2>6. ASSUME halfWritten', NEW i \in 1..Len(file'), file'[i].part = "tail" PROVE file'[i].line # lines'
    <3>1. u.part = "head" /\ lines' = lines + 1
      BY <2>0, <2>1, <2>6, Zenon
    <3>2. i \in 1..Len(file) /\ file'[i] = file[i]
      BY <2>1, <2>6, <3>1, Zenon
    <3>3. file[i].line \in Nat /\ file[i].line <= lines
      <4>0. file \in Seq(Units)
        BY Numbers
      <4>1. file[i] \in Units
        <5>1. \A s \in Seq(Units) : \A k \in 1..Len(s) : s[k] \in Units
          OBVIOUS
        <5>2. QED  BY <3>2, <4>0, <5>1, Zenon
      <4>2. QED  BY <3>2, <4>1, UnitFacts, Zenon DEF FileInv
    <3>4. QED  BY <2>2, <3>1, <3>2, <3>3
  <2>7. ASSUME bad' = 0, NEW i \in 1..Len(file') PROVE file'[i].part # "bad"
    <3>1. bad = 0 /\ u.part # "bad"
      BY <2>0, <2>2, <2>7
    <3>2. QED  BY <2>1, <3>1, Zenon DEF FileInv
  <2>8. QED  BY <2>4, <2>5, <2>6, <2>7, Zenon DEF FileInv
<1>2. CASE Rotate
  <2>1. file' = <<>> /\ Len(file') = 0
    BY <1>2 DEF Rotate
  <2>2. 1..Len(file') = {}
    BY <2>1
  <2>3. QED  BY <2>2, Zenon DEF FileInv
<1>3. CASE ~(WriteLine \/ WriteBad \/ WriteTail \/ Rotate)
  <2>1. UNCHANGED <<file, lines, bad>>
    BY <1>3, FileStep
  <2>2. QED  BY <2>1 DEF FileInv, halfWritten
<1>4. QED  BY <1>1, <1>2, <1>3, Zenon

(* Only a reader adds to the lines on their way. *)
LEMMA HeldShrinks ==
  ASSUME TypeOK, TaskInv, [Next]_vars
  PROVE  \/ held' \subseteq held
         \/ ReadLine /\ held' = held \cup Range(lineRead)
         \/ JournalEntry /\ held' = held \cup {[line |-> journal + 1, part |-> "journal"]}
<1>1. CASE Idles \/ Forwards \/ Ends
  BY <1>1, HeldStep, Zenon
<1>2. CASE \E t \in Tasks : Takes(t) \/ Sends(t)
  BY <1>2, HeldStep, Zenon
<1>3. CASE ReadLine /\ Adds(lineRead)
  <2>1. lineRead \in Events
    BY <1>3, LineFacts DEF lineRead
  <2>2. QED  BY <1>3, <2>1, HeldStep, Zenon
<1>4. CASE JournalEntry /\ Adds(entryRead)
  BY <1>4, EntryFacts, HeldStep, Zenon
<1>5. QED  BY <1>1, <1>2, <1>3, <1>4, SinkStep, Zenon

(* The lines on their way are lines of the log. *)
LEMMA HeldTypes == TypeOK => held \subseteq Units
<1> SUFFICES ASSUME TypeOK, NEW u \in held PROVE u \in Units
  OBVIOUS
<1>1. ASSUME NEW s \in Seq(Events), u \in units(s) PROVE u \in Units
  <2>1. PICK i \in 1..Len(s) : u \in Range(s[i])
    BY <1>1, UnitsOf, Zenon
  <2>2. s[i] \in Events
    OBVIOUS
  <2>3. QED  BY <2>1, <2>2, UnitFacts, Zenon
<1>2. /\ forwarded \in Seq(Events) /\ channel \in Seq(Events) /\ buffer \in Seq(Events)
      /\ \A t \in Tasks : batch[t] \in Seq(Events)
  BY DEF TypeOK
<1>3. QED  BY <1>1, <1>2, HeldOf, Zenon

(* Every step keeps the numbers of the lines on their way. *)
LEMMA HeldNext ==
  ASSUME TypeOK, LineInv, TaskInv, FileInv, HeldInv, [Next]_vars PROVE HeldInv'
<1>0. /\ lines \in Nat /\ journal \in Nat /\ held \subseteq Units /\ \A u \in held : u.line \in Nat
  <2>1. lines \in Nat /\ journal \in Nat
    BY Numbers
  <2>2. QED  BY <2>1, HeldTypes, UnitFacts, Zenon
<1>1. CASE WriteLine \/ WriteBad \/ WriteTail
  <2>0. PICK u \in Units :
           /\ write(u)
           /\ IF WriteTail THEN halfWritten /\ u.part = "tail" /\ lines' = lines
                           ELSE ~halfWritten /\ u.part # "tail" /\ lines' = lines + 1
    BY <1>1, WriteFacts, Zenon
  <2>1. halfWritten' <=> u.part = "head"
    BY <2>0, FileAppend, Zenon
  <2>2. held' = held
    <3>1. Idles
      BY <2>0 DEF write, Idles, tasks, sink
    <3>2. QED  BY <3>1, HeldStep, Zenon
  <2>3. journal' = journal /\ (lines' = lines \/ lines' = lines + 1) /\ (halfWritten' => lines' = lines + 1)
    BY <2>0, <2>1 DEF write
  <2>4. ASSUME NEW v \in held
        PROVE  v.line <= (IF v.part = "journal" THEN journal' ELSE lines') /\ (halfWritten' /\ v.part = "tail" => v.line # lines')
    <3>1. v.line \in Nat /\ v.line <= (IF v.part = "journal" THEN journal ELSE lines)
      BY <1>0 DEF HeldInv
    <3>2. v.line <= (IF v.part = "journal" THEN journal' ELSE lines')
      BY <1>0, <2>3, <3>1
    <3>3. halfWritten' /\ v.part = "tail" => v.line # lines'
      BY <1>0, <2>3, <3>1
    <3>4. QED  BY <3>2, <3>3, Zenon
  <2>5. QED  BY <2>2, <2>4, Zenon DEF HeldInv
<1>2. CASE Rotate
  <2>1. file' = <<>> /\ UNCHANGED <<lines, journal>> /\ Idles
    BY <1>2 DEF Rotate, Idles, tasks, sink, ghosts
  <2>2. held' = held /\ ~halfWritten'
    BY <2>1, HeldStep, Zenon DEF halfWritten
  <2>3. QED  BY <2>1, <2>2 DEF HeldInv
<1>3. CASE ~(WriteLine \/ WriteBad \/ WriteTail \/ Rotate)
  <2>1. UNCHANGED <<file, lines>> /\ (JournalEntry \/ journal' = journal)
    BY <1>3, FileStep
  <2>2. halfWritten' <=> halfWritten
    BY <2>1 DEF halfWritten
  <2>3. journal' \in Nat /\ journal <= journal' /\ (JournalEntry => journal' = journal + 1)
    <3>1. journal' = journal \/ journal' = journal + 1
      BY <2>1 DEF JournalEntry
    <3>2. JournalEntry => journal' = journal + 1
      BY DEF JournalEntry
    <3>3. QED  BY <1>0, <3>1, <3>2
  <2>4. ASSUME NEW v \in held
        PROVE  v.line <= (IF v.part = "journal" THEN journal' ELSE lines') /\ (halfWritten' /\ v.part = "tail" => v.line # lines')
    <3>1. v.line \in Nat /\ v.line <= (IF v.part = "journal" THEN journal ELSE lines)
      BY <1>0 DEF HeldInv
    <3>2. v.line <= (IF v.part = "journal" THEN journal' ELSE lines')
      BY <1>0, <2>1, <2>3, <3>1
    <3>3. QED  BY <2>1, <2>2, <3>2 DEF HeldInv
  <2>5. ASSUME NEW v \in held', v \notin held
        PROVE  v.line <= (IF v.part = "journal" THEN journal' ELSE lines') /\ (halfWritten' /\ v.part = "tail" => v.line # lines')
    <3>1. CASE ReadLine /\ v \in Range(lineRead)
      <4>1. PICK i \in (position + 1)..position' : v = file[i]
        BY <3>1, LineFacts DEF lineRead
      <4>2. i \in 1..Len(file)
        <5>1. position \in Nat /\ position' \in Nat /\ position' <= Len(file) /\ Len(file) \in Nat
          BY <3>1, LineFacts, SeekFacts, Zenon DEF TypeOK
        <5>2. QED  BY <5>1
      <4>3. QED  BY <2>1, <2>2, <4>1, <4>2, Zenon DEF FileInv
    <3>2. CASE JournalEntry /\ v = [line |-> journal + 1, part |-> "journal"]
      BY <1>0, <2>3, <3>2
    <3>3. QED  BY <2>5, <3>1, <3>2, HeldShrinks, Zenon
  <2>6. QED  BY <2>4, <2>5, Zenon DEF HeldInv
<1>4. QED  BY <1>1, <1>2, <1>3, Zenon

(* Where reading goes on does not change but when a line is read; what is still to be read
   grows by what is written. *)
LEMMA ResumeStep ==
  ASSUME TypeOK, TaskInv, FileInv, [Next]_vars, calm', ~(WriteLine \/ WriteBad \/ WriteTail \/ Rotate), ~ReadLine
  PROVE  unread' \subseteq unread
<1> USE DEF log, reader, tasks, sink, ghosts, bounds
<1>0. /\ TaskTypes /\ "file" \in Tasks /\ "journal" \in Tasks /\ "task" \in Tasks
      /\ Len(file) \in Nat /\ offset \in Nat /\ position \in Nat /\ saved \in Nat \cup {None}
      /\ crashes \in Nat /\ None \notin Nat /\ file' = file /\ bad' = bad
      /\ \A k \in Nat : seek_to(seek_to(k)) = seek_to(k) /\ seek_to(k) \in Nat
      /\ \A k : seek_to(k)' = seek_to(k)
  <2>1. file' = file /\ bad' = bad
    BY FileStep
  <2>2. /\ Len(file) \in Nat /\ offset \in Nat /\ position \in Nat /\ saved \in Nat \cup {None}
        /\ crashes \in Nat /\ None \notin Nat
    BY Numbers
  <2>3. \A k \in Nat : seek_to(seek_to(k)) = seek_to(k) /\ seek_to(k) \in Nat
    BY <2>2 DEF seek_to
  <2>4. \A k : seek_to(k)' = seek_to(k)
    BY <2>1 DEF seek_to
  <2>5. QED  BY <2>1, <2>2, <2>3, <2>4, Moves
<1>1. ASSUME seek_to(resume') = seek_to(resume) PROVE unread' = unread
  <2>1. seek_to(resume)' = seek_to(resume')
    BY <1>0 DEF seek_to
  <2>2. QED  BY <1>0, <1>1, <2>1, Zenon DEF unread
<1>2. ASSUME resume' = resume PROVE unread' = unread
  BY <1>1, <1>2
<1>3. ASSUME pc'["file"] = pc["file"], back'["file"] = back["file"], UNCHANGED <<position, offset, saved>>
      PROVE  resume' = resume
  BY <1>0, <1>3 DEF resume, initial_offset
<1>4. CASE Shutdown \/ Forward \/ UNCHANGED vars
  BY <1>2, <1>3, <1>4 DEF Shutdown, Forward, vars
<1>5. CASE JournalEntry \/ JournalStops \/ FlushTick
  <2>1. pc'["file"] = pc["file"] /\ back'["file"] = back["file"]
    BY <1>0, <1>5 DEF JournalEntry, publish, JournalStops, FlushTick, flush_now, goto, TaskTypes
  <2>2. UNCHANGED <<position, offset, saved>>
    BY <1>5 DEF JournalEntry, JournalStops, FlushTick
  <2>3. QED  BY <1>2, <1>3, <2>1, <2>2
<1>6. CASE Crash
  BY <1>0, <1>6 DEF Crash, calm
<1>7. CASE Exit
  <2>1. pc["file"] = "done" /\ pc'["file"] = "down" /\ saved' = saved
    BY <1>0, <1>7 DEF Exit, exit, all
  <2>2. QED  BY <1>0, <1>2, <2>1 DEF resume, initial_offset
<1>8. CASE Start
  <2>1. pc["file"] = "down" /\ pc'["file"] = "read" /\ position' = seek_to(initial_offset)
    BY <1>0, <1>8 DEF Start, all
  <2>2. resume = initial_offset /\ resume' = seek_to(initial_offset)
    BY <2>1 DEF resume
  <2>3. initial_offset \in Nat
    BY SeekFacts
  <2>4. QED  BY <1>0, <1>1, <2>2, <2>3
<1>9. CASE ReadFails
  <2>0. position < Len(file)
    BY <1>9, Zenon DEF ReadFails
  <2>1. position + 1 \in 1..Len(file)
    BY <1>0, <2>0
  <2>2. QED  BY <1>0, <1>9, <2>1 DEF ReadFails, FileInv, calm
<1>10. CASE ReadEnd \/ Watch
  <2>1. /\ pc["file"] = "read" => offset' = position
        /\ pc["file"] = "watch" => offset' = offset
        /\ pc["file"] \in {"read", "watch"} /\ pc'["file"] \in {"watch", "wait"}
    BY <1>0, <1>10 DEF ReadEnd, Watch, goto, TaskTypes
  <2>2. QED  BY <1>2, <2>1 DEF resume
<1>11. CASE Notified
  <2>1. pc["file"] = "wait" /\ pc'["file"] = "read" /\ position' = seek_to(offset)
    BY <1>0, <1>11 DEF Notified, goto, TaskTypes
  <2>2. QED  BY <1>0, <1>1, <2>1 DEF resume
<1>12. CASE Save
  <2>1. /\ pc["file"] = "wait" /\ pc'["file"] = "join" /\ saved' \in {offset, saved, None}
        /\ saved' \notin {offset, None} => outdated'
    <3>1. pc'["file"] = "join"
      BY <1>0, <1>12 DEF Save, goto, TaskTypes
    <3>2. QED  BY <1>12, <3>1, Zenon DEF Save
  <2>2. resume = offset /\ resume' = initial_offset'
    BY <2>1 DEF resume
  <2>3. CASE saved' \in {None, 0}
    <3>0. resume' = Len(file)
      BY <1>0, <2>2, <2>3 DEF initial_offset
    <3>1. seek_to(resume)' = Len(file)
      BY <1>0, <3>0 DEF seek_to
    <3>2. (Len(file) + 1)..Len(file) = {}
      BY <1>0
    <3>3. QED  BY <1>0, <3>1, <3>2 DEF unread
  <2>4. CASE saved' = offset /\ saved' \notin {None, 0}
    BY <1>2, <2>2, <2>4 DEF initial_offset
  <2>5. QED  BY <2>1, <2>3, <2>4 DEF calm
<1>13. CASE FinalFlush
  <2>1. pc["file"] = "join" /\ pc'["file"] \in {"send", "done"} /\ back'["file"] = "done" /\ saved' = saved
    BY <1>0, <1>13 DEF FinalFlush, flush_now, goto, TaskTypes
  <2>2. QED  BY <1>0, <1>2, <2>1 DEF resume, initial_offset
<1>14. ASSUME NEW t \in Tasks, Flush(t) PROVE unread' \subseteq unread
  <2>1. UNCHANGED <<position, offset, saved>> /\ pc[t] \in {"take", "send"}
    BY <1>14, Zenon DEF Flush, ForcedFlush, Send
  <2>2. /\ pc'[t] \in {"send", back[t]} /\ \A r \in Tasks \ {t} : pc'[r] = pc[r]
        /\ back' = back
    BY <1>0, <1>14, Zenon DEF Flush, ForcedFlush, Send, flush_now, goto, TaskTypes
  <2>3. CASE t = "file"
    <3>1. back["file"] \in {"read", "done"}
      BY <2>1, <2>3 DEF TaskInv
    <3>2. resume' = resume
      BY <1>0, <2>1, <2>2, <2>3, <3>1 DEF resume, initial_offset
    <3>3. QED  BY <1>2, <3>2
  <2>4. CASE t # "file"
    BY <1>0, <1>2, <1>3, <2>1, <2>2, <2>4
  <2>5. QED  BY <2>3, <2>4
<1>15. QED
  BY <1>4, <1>5, <1>6, <1>7, <1>8, <1>9, <1>10, <1>11, <1>12, <1>13, <1>14, Zenon DEF Next, FileReader

(* A unit that is written is the only new one. *)
LEMMA UnreadWrites ==
  ASSUME TypeOK, NEW u \in Units, write(u) PROVE unread' \subseteq unread \cup {u}
<1>0. /\ Len(file) \in Nat /\ offset \in Nat /\ position \in Nat /\ saved \in Nat \cup {None} /\ None \notin Nat
      /\ UNCHANGED <<pc, back, offset, position, saved>>
  BY Numbers DEF write, tasks
<1>1. /\ Len(file') = Len(file) + 1 /\ file'[Len(file) + 1] = u
      /\ \A i \in 1..Len(file) : file'[i] = file[i]
  BY FileAppend, Zenon
<1>2. resume \in Nat
  BY <1>0, SeekFacts, Zenon DEF resume
<1>3. resume' = resume \/ (resume = Len(file) /\ resume' = Len(file'))
  BY <1>0 DEF resume, initial_offset
<1>4. seek_to(resume)' = IF Len(file') < resume' THEN 0 ELSE resume'
  BY DEF seek_to
<1>5. seek_to(resume) \in Nat /\ seek_to(resume)' \in Nat /\ seek_to(resume) <= seek_to(resume)'
  <2>1. seek_to(resume) = IF Len(file) < resume THEN 0 ELSE resume
    BY DEF seek_to
  <2>2. \A n, k, m \in Nat : m = k \/ (k = n /\ m = n + 1) =>
          /\ (IF n < k THEN 0 ELSE k) \in Nat /\ (IF n + 1 < m THEN 0 ELSE m) \in Nat
          /\ (IF n < k THEN 0 ELSE k) <= (IF n + 1 < m THEN 0 ELSE m)
    OBVIOUS
  <2>3. resume' \in Nat
    <3>1. Len(file) + 1 \in Nat
      BY <1>0
    <3>2. QED  BY <1>1, <1>2, <1>3, <3>1, Zenon
  <2>4. resume' = resume \/ (resume = Len(file) /\ resume' = Len(file) + 1)
    BY <1>1, <1>3
  <2> DEFINE a == IF Len(file) < resume THEN 0 ELSE resume
             b == IF Len(file) + 1 < resume' THEN 0 ELSE resume'
  <2>5. a \in Nat /\ b \in Nat /\ a <= b
    BY <1>0, <1>2, <2>2, <2>3, <2>4
  <2>6. seek_to(resume) = a /\ seek_to(resume)' = b
    BY <1>1, <1>4, <2>1, Zenon
  <2>7. QED  BY <2>5, <2>6, Zenon
<1>6. ASSUME NEW i \in (seek_to(resume)' + 1)..Len(file') PROVE file'[i] \in unread \cup {u}
  <2>0. \A a, b, n \in Nat : a <= b =>
          \A k \in (b + 1)..(n + 1) : (k \in 1..n /\ k \in (a + 1)..n) \/ k = n + 1
    OBVIOUS
  <2>1. (i \in 1..Len(file) /\ i \in (seek_to(resume) + 1)..Len(file)) \/ i = Len(file) + 1
    BY <1>0, <1>1, <1>5, <2>0, Zenon
  <2>2. QED  BY <1>1, <2>1 DEF unread
<1>7. QED  BY <1>6 DEF unread

(* What is read was unread, and nothing else is read any more. *)
LEMMA UnreadReads ==
  ASSUME TypeOK, FileInv, ReadLine
  PROVE  /\ Range(lineRead) \subseteq unread /\ unread' \subseteq unread /\ unread' \cap Range(lineRead) = {}
         /\ before(Range(lineRead), unread')
<1>0. TaskTypes /\ "file" \in Tasks
  BY Moves
<1>1. /\ position \in Nat /\ position' \in Nat /\ position < position' /\ position' <= Len(file) /\ Len(file) \in Nat
      /\ Range(lineRead) = {file[i] : i \in (position + 1)..position'} /\ file' = file
  BY LineFacts, SeekFacts, Zenon DEF lineRead, TypeOK, ReadLine, log
<1>2. pc["file"] = "read" /\ pc'["file"] \in {"take", "read"} /\ back'["file"] = "read"
  BY <1>0, Zenon DEF ReadLine, publish, goto, TaskTypes
<1>3. resume = position /\ resume' = position'
  BY <1>2 DEF resume
<1>4. seek_to(resume) = position /\ seek_to(resume)' = position'
  BY <1>1, <1>3 DEF seek_to
<1>5. /\ unread = {file[i] : i \in (position + 1)..Len(file)}
      /\ unread' = {file[i] : i \in (position' + 1)..Len(file)}
  BY <1>1, <1>4 DEF unread
<1>6. Range(lineRead) \subseteq unread /\ unread' \subseteq unread
  <2>1. /\ \A i \in (position + 1)..position' : i \in (position + 1)..Len(file)
        /\ \A i \in (position' + 1)..Len(file) : i \in (position + 1)..Len(file)
    <3>1. \A a, b, n \in Nat : a < b /\ b <= n =>
            /\ \A i \in (a + 1)..b : i \in (a + 1)..n
            /\ \A i \in (b + 1)..n : i \in (a + 1)..n
      OBVIOUS
    <3>2. QED  BY <1>1, <3>1, Zenon
  <2>2. QED  BY <1>1, <1>5, <2>1, Zenon
<1>7. ASSUME NEW i \in (position + 1)..position', NEW j \in (position' + 1)..Len(file)
      PROVE  file[i] # file[j] /\ file[i].line <= file[j].line
  <2>1. \A a, b, n \in Nat : b <= n =>
          \A k \in (a + 1)..b : \A l \in (b + 1)..n : k \in 1..n /\ l \in 1..n /\ k < l
    OBVIOUS
  <2>2. i \in 1..Len(file) /\ j \in 1..Len(file) /\ i < j
    BY <1>1, <2>1, Zenon
  <2>3. QED  BY <2>2, Zenon DEF FileInv
<1>8. QED  BY <1>1, <1>5, <1>6, <1>7, Zenon DEF before

(* A file that was rotated away is not read any more. *)
LEMMA UnreadRotates == ASSUME TypeOK, Rotate PROVE unread' = {}
<1>1. file' = <<>> /\ Len(file') = 0
  BY DEF Rotate
<1>2. resume' \in Nat
  <2>1. position \in Nat /\ offset \in Nat /\ saved \in Nat \cup {None} /\ None \notin Nat
    BY Numbers
  <2>2. UNCHANGED <<pc, back, offset, position, saved>>
    BY DEF Rotate, tasks
  <2>3. QED  BY <1>1, <2>1, <2>2 DEF resume, initial_offset
<1>3. seek_to(resume)' \in Nat
  BY <1>1, <1>2 DEF seek_to
<1>4. (seek_to(resume)' + 1)..Len(file') = {}
  BY <1>1, <1>3
<1>5. QED  BY <1>4 DEF unread

(* What was calm stays so only while nothing goes wrong. *)
LEMMA CalmStep ==
  ASSUME TypeOK, [Next]_vars
  PROVE  (calm' => calm) /\ (~forced' => ~forced) /\ (stops' = 0 => stops = 0)
<1> USE DEF log, reader, tasks, sink, ghosts, bounds
<1>0. crashes \in Nat /\ bad \in Nat /\ stops \in Nat /\ \A n \in Nat : n + 1 # 0
  BY Numbers
<1>1. CASE WriteLine \/ WriteBad \/ WriteTail \/ Rotate \/ Shutdown
  <2>1. /\ UNCHANGED <<forced, outdated, crashes>> /\ (bad' = bad \/ bad' = bad + 1)
        /\ (stops' = stops \/ stops' = stops + 1)
    BY <1>1, Zenon DEF WriteLine, WriteBad, WriteTail, write, Rotate, Shutdown
  <2>2. QED  BY <1>0, <2>1, Zenon DEF calm
<1>2. CASE Exit \/ Crash
  <2>1. UNCHANGED <<forced, outdated, bad, stops>> /\ (crashes' = crashes \/ crashes' = crashes + 1)
    BY <1>2, Zenon DEF Exit, Crash, exit
  <2>2. QED  BY <1>0, <2>1 DEF calm
<1>3. CASE Start \/ ReadFails \/ ReadEnd \/ Watch \/ Notified \/ FinalFlush \/ JournalStops \/ FlushTick \/ Forward
  <2>1. UNCHANGED <<forced, outdated, crashes, bad, stops>>
    BY <1>3, Zenon DEF Start, ReadFails, ReadEnd, Watch, Notified, FinalFlush, JournalStops, FlushTick, Forward
  <2>2. QED  BY <2>1 DEF calm
<1>4. CASE ReadLine \/ JournalEntry
  <2>1. UNCHANGED <<outdated, crashes, bad, stops>> /\ (forced => forced')
    <3>1. CASE ReadLine
      BY <3>1, Zenon DEF ReadLine, publish
    <3>2. CASE JournalEntry
      BY <3>2, Zenon DEF JournalEntry, publish
    <3>3. QED  BY <1>4, <3>1, <3>2
  <2>2. QED  BY <2>1, Zenon DEF calm
<1>5. CASE Save
  BY <1>5, Zenon DEF Save, calm
<1>6. CASE UNCHANGED vars \/ \E t \in Tasks : Flush(t)
  <2>1. UNCHANGED <<forced, outdated, crashes, bad, stops>>
    BY <1>6, Zenon DEF vars, Flush, ForcedFlush, Send
  <2>2. QED  BY <2>1 DEF calm
<1>7. QED  BY <1>1, <1>2, <1>3, <1>4, <1>5, <1>6, Zenon DEF Next, FileReader

(* No step makes the reader meet a line again. *)
LEMMA FreshNext ==
  ASSUME TypeOK, LineInv, TaskInv, FileInv, HeldInv, FreshInv, [Next]_vars PROVE FreshInv'
<1> SUFFICES ASSUME calm' PROVE unread' \cap held' = {}
  BY DEF FreshInv
<1>0. calm /\ unread \cap held = {} /\ lines \in Nat /\ journal \in Nat
  <2>1. lines \in Nat /\ journal \in Nat
    BY Numbers
  <2>2. QED  BY <2>1, CalmStep, Zenon DEF FreshInv
<1>1. CASE WriteLine \/ WriteBad \/ WriteTail
  <2>0. PICK u \in Units :
           /\ write(u) /\ u.part # "journal" /\ u.line = lines'
           /\ IF WriteTail THEN halfWritten /\ u.part = "tail" /\ lines' = lines
                           ELSE ~halfWritten /\ u.part # "tail" /\ lines' = lines + 1
    BY <1>1, WriteFacts, Zenon
  <2>1. unread' \subseteq unread \cup {u}
    BY <2>0, UnreadWrites, Zenon
  <2>2. Idles
    BY <2>0 DEF write, Idles, tasks, sink
  <2>3. held' = held
    BY <2>2, HeldStep, Zenon
  <2>4. u \notin held
    <3> SUFFICES ASSUME u \in held PROVE FALSE
      OBVIOUS
    <3>1. u.line <= lines
      BY <2>0, Zenon DEF HeldInv
    <3>2. CASE WriteTail
      BY <2>0, <3>2, Zenon DEF HeldInv
    <3>3. CASE ~WriteTail
      <4>1. u.line = lines + 1
        BY <2>0, <3>3, Zenon
      <4>2. QED  BY <1>0, <3>1, <4>1
    <3>4. QED  BY <3>2, <3>3
  <2>5. QED  BY <1>0, <2>1, <2>3, <2>4, Zenon
<1>2. CASE Rotate
  BY <1>2, UnreadRotates
<1>3. CASE ReadLine
  <2>2. held' \subseteq held \cup Range(lineRead)
    <3>1. lineRead \in Events /\ Adds(lineRead)
      BY <1>3, LineFacts, Zenon DEF lineRead, ReadLine, publish, Adds
    <3>2. QED  BY <3>1, HeldStep, Zenon
  <2>3. unread' \subseteq unread /\ unread' \cap Range(lineRead) = {}
    BY <1>3, UnreadReads
  <2>4. QED  BY <1>0, <2>2, <2>3, Zenon
<1>4. CASE ~(WriteLine \/ WriteBad \/ WriteTail \/ Rotate) /\ ~ReadLine
  <2>1. unread' \subseteq unread
    BY <1>4, ResumeStep, Zenon
  <2>2. held' \subseteq held \cup {[line |-> journal + 1, part |-> "journal"]}
    BY <1>4, HeldShrinks, Zenon
  <2>3. [line |-> journal + 1, part |-> "journal"] \notin unread
    <3>1. \A i \in (seek_to(resume) + 1)..Len(file) : i \in 1..Len(file)
      <4>1. seek_to(resume) \in Nat /\ Len(file) \in Nat
        BY SeekFacts, Zenon DEF resume, TypeOK
      <4>2. QED  BY <4>1
    <3>2. \A i \in 1..Len(file) : file[i] # [line |-> journal + 1, part |-> "journal"]
      <4>1. \A i \in 1..Len(file) : file[i].part # "journal"
        BY Zenon DEF FileInv
      <4>2. [line |-> journal + 1, part |-> "journal"].part = "journal"
        OBVIOUS
      <4>3. QED  BY <4>1, <4>2, Zenon
    <3>3. QED  BY <3>1, <3>2, Zenon DEF unread
  <2>4. QED  BY <1>0, <2>1, <2>2, <2>3, Zenon
<1>5. QED  BY <1>1, <1>2, <1>3, <1>4, Zenon

-----------------------------------------------------------------------------
(* Every step keeps every event in one place. *)
LEMMA OnceNext ==
  ASSUME TypeOK, TaskInv, FileInv, HeldInv, FreshInv, OnceInv, [Next]_vars PROVE OnceInv'
<1> DEFINE Apart == /\ apart(forwarded) /\ apart(channel) /\ apart(buffer)
                    /\ \A t \in Tasks : apart(batch[t])
           Once == /\ units(forwarded) \cap units(channel) = {} /\ units(forwarded) \cap units(buffer) = {}
                   /\ units(channel) \cap units(buffer) = {}
                   /\ \A t \in Tasks :
                        units(batch[t]) \cap (units(forwarded) \cup units(channel) \cup units(buffer)) = {}
                   /\ \A t, r \in Tasks : t # r => units(batch[t]) \cap units(batch[r]) = {}
<1> SUFFICES ASSUME calm' PROVE Apart' /\ Once'
  BY Zenon DEF OnceInv, units, apart
<1>0. calm /\ Apart /\ Once
  BY CalmStep, Zenon DEF OnceInv
<1>00. SinkTypes /\ \A t \in Tasks : pc[t] = "send" <=> batch[t] # <<>>
  BY DEF TypeOK, SinkTypes, TaskInv
<1>01. ASSUME apart(forwarded'), apart(channel'), apart(buffer'), \A t \in Tasks : apart(batch'[t])
       PROVE  Apart'
  BY <1>01, Zenon DEF apart
<1>1. CASE Idles
  <2>1. batch' = batch /\ buffer' = buffer /\ channel' = channel /\ forwarded' = forwarded
    BY <1>1 DEF Idles
  <2>2. Apart'
    BY <1>0, <1>01, <2>1
  <2>3. Once'
    <3>1. units(forwarded') \cap units(buffer') = {} /\ units(channel') \cap units(buffer') = {}
          /\ units(forwarded') \cap units(channel') = {}
      BY <1>0, <2>1
    <3>2. \A t \in Tasks : units(batch'[t]) \cap (units(forwarded') \cup units(channel') \cup units(buffer')) = {}
      BY <1>0, <2>1
    <3>3. \A t, r \in Tasks : t # r => units(batch'[t]) \cap units(batch'[r]) = {}
      BY <1>0, <2>1
    <3>4. QED  BY <3>1, <3>2, <3>3, Zenon DEF units
  <2>4. QED  BY <2>2, <2>3, Zenon
<1>2. ASSUME NEW e \in Events, Adds(e), Range(e) \cap held = {} PROVE Apart' /\ Once'
  <2>1. /\ units(buffer') = units(buffer) \cup Range(e)
        /\ apart(buffer) /\ Range(e) \cap units(buffer) = {} => apart(buffer')
        /\ UNCHANGED <<batch, channel, forwarded>>
    BY <1>00, <1>2, AppendFacts DEF Adds, SinkTypes
  <2>2. /\ Range(e) \cap units(buffer) = {} /\ Range(e) \cap units(forwarded) = {}
        /\ Range(e) \cap units(channel) = {} /\ \A t \in Tasks : Range(e) \cap units(batch[t]) = {}
    BY <1>2, HeldOf, Zenon
  <2>3. apart(buffer') /\ \A s : s = buffer' => units(s) = units(buffer) \cup Range(e)
    BY <1>0, <2>1, <2>2, Zenon
  <2>4. Apart'
    BY <1>0, <1>01, <2>1, <2>3, Zenon
  <2>5. Once'
    <3>1. units(forwarded') \cap units(buffer') = {} /\ units(channel') \cap units(buffer') = {}
          /\ units(forwarded') \cap units(channel') = {}
      BY <1>0, <2>1, <2>2, Zenon
    <3>2. \A t \in Tasks : units(batch'[t]) \cap (units(forwarded') \cup units(channel') \cup units(buffer')) = {}
      BY <1>0, <2>1, <2>2, Zenon
    <3>3. \A t, r \in Tasks : t # r => units(batch'[t]) \cap units(batch'[r]) = {}
      BY <1>0, <2>1, Zenon
    <3>4. QED  BY <3>1, <3>2, <3>3, Zenon DEF units
  <2>6. QED  BY <2>4, <2>5, Zenon
<1>3. ASSUME NEW t \in Tasks, Takes(t) PROVE Apart' /\ Once'
  <2>1. /\ batch'[t] = buffer /\ buffer' = <<>> /\ (\A r \in Tasks \ {t} : batch'[r] = batch[r])
        /\ UNCHANGED <<channel, forwarded>>
    BY <1>00, <1>3 DEF Takes, take, SinkTypes
  <2>2. units(buffer') = {} /\ apart(buffer')
    BY <2>1, NoUnits
  <2>3. Apart'
    <3>1. \A r \in Tasks : apart(batch'[r])
      BY <1>0, <2>1, Zenon
    <3>2. apart(forwarded') /\ apart(channel') /\ apart(buffer')
      BY <1>0, <2>1, <2>2, Zenon
    <3>3. QED  BY <1>01, <3>1, <3>2
  <2>4. Once'
    <3>1. units(forwarded') \cap units(buffer') = {} /\ units(channel') \cap units(buffer') = {}
          /\ units(forwarded') \cap units(channel') = {}
      BY <1>0, <2>1, <2>2, Zenon
    <3>2. \A r \in Tasks : units(batch'[r]) \cap (units(forwarded') \cup units(channel') \cup units(buffer')) = {}
      BY <1>0, <2>1, <2>2, Zenon
    <3>3. \A q, r \in Tasks : q # r => units(batch'[q]) \cap units(batch'[r]) = {}
      BY <1>0, <2>1, Zenon
    <3>4. QED  BY <3>1, <3>2, <3>3, Zenon DEF units
  <2>5. QED  BY <2>3, <2>4
<1>4. ASSUME NEW t \in Tasks, Sends(t) PROVE Apart' /\ Once'
  <2> DEFINE e == Head(batch[t])
  <2>1. batch[t] \in Seq(Events) /\ batch[t] # <<>>
    BY <1>00, <1>4 DEF Sends, SinkTypes
  <2>2. /\ batch'[t] = Tail(batch[t]) /\ (\A r \in Tasks \ {t} : batch'[r] = batch[r])
        /\ UNCHANGED <<buffer, forwarded>>
    BY <1>00, <1>4 DEF Sends, SinkTypes
  <2>3. /\ e \in Events /\ units(batch[t]) = Range(e) \cup units(batch'[t])
        /\ apart(batch'[t]) /\ Range(e) \cap units(batch'[t]) = {}
    <3>1. apart(batch[t])
      BY <1>0
    <3>2. /\ e \in Events /\ units(batch[t]) = Range(e) \cup units(Tail(batch[t]))
          /\ apart(Tail(batch[t])) /\ Range(e) \cap units(Tail(batch[t])) = {}
      BY <2>1, <3>1, TailFacts, Zenon
    <3>3. QED  BY <2>2, <3>2, Zenon
  <2>4. channel' = channel \/ channel' = Append(channel, e)
    BY <1>4 DEF Sends, publish_to_server
  <2> HIDE DEF e
  <2>5. Range(e) \cap units(channel) = {} /\ Range(e) \cap units(forwarded) = {} /\ Range(e) \cap units(buffer) = {}
        /\ \A r \in Tasks \ {t} : Range(e) \cap units(batch[r]) = {}
    BY <1>0, <2>3, Zenon
  <2>6. units(channel') \subseteq units(channel) \cup Range(e) /\ apart(channel')
    <3>1. CASE channel' = channel
      BY <1>0, <3>1
    <3>2. CASE channel' = Append(channel, e)
      BY <1>0, <1>00, <2>3, <2>5, <3>2, AppendFacts, Zenon DEF SinkTypes
    <3>3. QED  BY <2>4, <3>1, <3>2
  <2>7. Apart'
    <3>1. \A r \in Tasks : apart(batch'[r])
      BY <1>0, <2>2, <2>3, Zenon
    <3>2. QED  BY <1>0, <1>01, <2>2, <2>6, <3>1, Zenon
  <2>8. Once'
    <3>1. units(forwarded') \cap units(buffer') = {} /\ units(channel') \cap units(buffer') = {}
          /\ units(forwarded') \cap units(channel') = {}
      BY <1>0, <2>2, <2>5, <2>6, Zenon
    <3>2. \A r \in Tasks : units(batch'[r]) \cap (units(forwarded') \cup units(channel') \cup units(buffer')) = {}
      BY <1>0, <2>2, <2>3, <2>5, <2>6, Zenon
    <3>3. \A q, r \in Tasks : q # r => units(batch'[q]) \cap units(batch'[r]) = {}
      BY <1>0, <2>2, <2>3, Zenon
    <3>4. QED  BY <3>1, <3>2, <3>3, Zenon DEF units
  <2>9. QED  BY <2>7, <2>8
<1>5. CASE Forwards
  <2> DEFINE e == Head(channel)
  <2>1. channel \in Seq(Events) /\ channel # <<>> /\ forwarded \in Seq(Events) /\ UNCHANGED <<batch, buffer>>
        /\ channel' = Tail(channel) /\ forwarded' = Append(forwarded, e)
    BY <1>00, <1>5 DEF Forwards, SinkTypes
  <2>2. /\ e \in Events /\ units(channel) = Range(e) \cup units(channel')
        /\ apart(channel') /\ Range(e) \cap units(channel') = {}
    BY <1>0, <2>1, TailFacts, Zenon
  <2> HIDE DEF e
  <2>3. Range(e) \cap units(forwarded) = {} /\ Range(e) \cap units(buffer) = {}
        /\ \A r \in Tasks : Range(e) \cap units(batch[r]) = {}
    BY <1>0, <2>2, Zenon
  <2>4. units(forwarded') = units(forwarded) \cup Range(e) /\ apart(forwarded')
    BY <1>0, <2>1, <2>2, <2>3, AppendFacts, Zenon
  <2>5. Apart'
    BY <1>0, <1>01, <2>1, <2>2, <2>4, Zenon
  <2>6. Once'
    <3>1. units(forwarded') \cap units(buffer') = {} /\ units(channel') \cap units(buffer') = {}
          /\ units(forwarded') \cap units(channel') = {}
      BY <1>0, <2>1, <2>2, <2>3, <2>4, Zenon
    <3>2. \A r \in Tasks : units(batch'[r]) \cap (units(forwarded') \cup units(channel') \cup units(buffer')) = {}
      BY <1>0, <2>1, <2>2, <2>3, <2>4, Zenon
    <3>3. \A q, r \in Tasks : q # r => units(batch'[q]) \cap units(batch'[r]) = {}
      BY <1>0, <2>1, Zenon
    <3>4. QED  BY <3>1, <3>2, <3>3, Zenon DEF units
  <2>7. QED  BY <2>5, <2>6, Zenon
<1>6. CASE Ends
  <2>1. (\A t \in Tasks : batch'[t] = <<>>) /\ buffer' = <<>> /\ channel' = <<>> /\ forwarded' = forwarded
    BY <1>6 DEF Ends, all
  <2>2. /\ units(buffer') = {} /\ units(channel') = {} /\ \A t \in Tasks : units(batch'[t]) = {}
        /\ apart(buffer') /\ apart(channel') /\ \A t \in Tasks : apart(batch'[t])
    BY <2>1, NoUnits, Zenon
  <2>3. Apart'
    BY <1>0, <1>01, <2>1, <2>2, Zenon
  <2>4. Once'
    BY <2>2, Zenon DEF units
  <2>5. QED  BY <2>3, <2>4, Zenon
<1>7. CASE ReadLine /\ Adds(lineRead)
  <2>1. lineRead \in Events
    BY <1>7, LineFacts DEF lineRead
  <2>2. Range(lineRead) \cap held = {}
    BY <1>0, <1>7, UnreadReads, Zenon DEF FreshInv
  <2>3. QED  BY <1>2, <1>7, <2>1, <2>2, Zenon
<1>8. CASE JournalEntry /\ Adds(entryRead)
  <2>1. entryRead \in Events /\ Range(entryRead) = {[line |-> journal + 1, part |-> "journal"]}
    BY <1>8, EntryFacts
  <2>2. \A u \in held : u # [line |-> journal + 1, part |-> "journal"]
    <3>1. journal \in Nat
      BY Numbers
    <3>2. ~(journal + 1 <= journal)
      BY <3>1
    <3>3. QED  BY <3>2 DEF HeldInv
  <2>3. Range(entryRead) \cap held = {}
    BY <2>1, <2>2, Zenon
  <2>4. QED  BY <1>2, <1>8, <2>1, <2>3, Zenon
<1>9. QED  BY <1>1, <1>3, <1>4, <1>5, <1>6, <1>7, <1>8, SinkStep, Zenon

(* What is before a set is before its parts. *)
LEMMA BeforeFacts ==
  /\ \A A, B, C, D : before(A, B) /\ C \subseteq A /\ D \subseteq B => before(C, D)
  /\ \A A, B, C : before(A, C) /\ before(B, C) => before(A \cup B, C)
  /\ \A A, B, C : before(A, B) /\ before(A, C) => before(A, B \cup C)
  BY Zenon DEF before

(* What is still to be read stays younger than what was read. *)
LEMMA YoungerNext ==
  ASSUME TypeOK, LineInv, TaskInv, FileInv, HeldInv, [Next]_vars, calm', before(held, unread)
  PROVE  before(held', unread')
<1>1. CASE WriteLine \/ WriteBad \/ WriteTail
  <2>0. PICK u \in Units :
           /\ write(u) /\ u.part # "journal" /\ u.line = lines'
           /\ IF WriteTail THEN halfWritten /\ u.part = "tail" /\ lines' = lines
                           ELSE ~halfWritten /\ u.part # "tail" /\ lines' = lines + 1
    BY <1>1, WriteFacts, Zenon
  <2>1. unread' \subseteq unread \cup {u}
    BY <2>0, UnreadWrites, Zenon
  <2>2. Idles
    BY <2>0 DEF write, Idles, tasks, sink
  <2>3. held' = held
    BY <2>2, HeldStep, Zenon
  <2>4. u.line = lines \/ u.line = lines + 1
    BY <2>0, Zenon
  <2>5. ASSUME NEW v \in held, v.part # "journal" PROVE v.line <= u.line
    <3>1. v.line <= lines /\ v.line \in Nat /\ lines \in Nat
      <4>1. v.line \in Nat
        BY HeldTypes, UnitFacts, Zenon
      <4>2. v.line <= lines
        BY <2>5, Zenon DEF HeldInv
      <4>3. QED  BY <4>1, <4>2, Numbers
    <3>2. QED  BY <2>4, <3>1
  <2>6. before(held, {u})
    BY <2>5, Zenon DEF before
  <2>7. QED  BY <2>1, <2>3, <2>6, BeforeFacts, Zenon
<1>2. CASE Rotate
  BY <1>2, UnreadRotates, Zenon DEF before
<1>3. CASE ReadLine
  <2>1. lineRead \in Events /\ Adds(lineRead)
    BY <1>3, LineFacts, Zenon DEF lineRead, ReadLine, publish, Adds
  <2>2. held' \subseteq held \cup Range(lineRead)
    BY <2>1, HeldStep, Zenon
  <2>3. unread' \subseteq unread /\ before(Range(lineRead), unread')
    BY <1>3, UnreadReads
  <2>4. before(held, unread')
    BY <2>3, BeforeFacts, Zenon
  <2>5. QED  BY <2>2, <2>3, <2>4, Zenon DEF before
<1>4. CASE ~(WriteLine \/ WriteBad \/ WriteTail \/ Rotate) /\ ~ReadLine
  <2>1. unread' \subseteq unread
    BY <1>4, ResumeStep, Zenon
  <2> DEFINE e == [line |-> journal + 1, part |-> "journal"]
  <2>2. held' \subseteq held \cup {e} /\ e.part = "journal"
    BY <1>4, HeldShrinks, Zenon
  <2>3. QED  BY <2>1, <2>2, Zenon DEF before
<1>5. QED  BY <1>1, <1>2, <1>3, <1>4, Zenon

(* Every step keeps the order, as long as only the flush task flushes. *)
LEMMA OrderNext ==
  ASSUME TypeOK, LineInv, TaskInv, FileInv, HeldInv, OrderInv, [Next]_vars PROVE OrderInv'
<1> DEFINE tb == batch["task"]
           Sorted == sorted(forwarded) /\ sorted(channel) /\ sorted(tb) /\ sorted(buffer)
           Order == /\ before(units(forwarded), units(channel))
                    /\ before(units(forwarded) \cup units(channel), units(tb))
                    /\ before(units(forwarded) \cup units(channel) \cup units(tb), units(buffer))
<1> SUFFICES ASSUME calm', ~forced', stops' = 0 PROVE Sorted' /\ Order' /\ before(held', unread')
  <2>1. \A A, B : before(A, B)' = before(A', B')
    BY DEF before
  <2>2. QED  BY <2>1, Zenon DEF OrderInv
<1>0. calm /\ ~forced /\ stops = 0 /\ Sorted /\ Order /\ before(held, unread)
  BY CalmStep, Zenon DEF OrderInv
<1>00. /\ SinkTypes /\ Tasks = {"file", "journal", "task"}
       /\ \A t \in Tasks : pc[t] = "send" <=> batch[t] # <<>>
       /\ \A t \in {"file", "journal"} : pc[t] # "send"
  BY <1>0, Zenon DEF TypeOK, SinkTypes, TaskInv, Tasks
<1>01. before(held', unread')
  BY <1>0, YoungerNext, Zenon
<1>1. ASSUME sorted(forwarded'), sorted(channel'), sorted(tb'), sorted(buffer'),
             before(units(forwarded'), units(channel')),
             before(units(forwarded') \cup units(channel'), units(tb')),
             before(units(forwarded') \cup units(channel') \cup units(tb'), units(buffer'))
      PROVE  Sorted' /\ Order' /\ before(held', unread')
  <2>1. Sorted'
    BY <1>1, Zenon DEF sorted, before
  <2>2. Order'
    BY <1>1, Zenon DEF before, units
  <2>3. QED  BY <1>01, <2>1, <2>2
<1>2. CASE Idles
  <2>1. tb' = tb /\ buffer' = buffer /\ channel' = channel /\ forwarded' = forwarded
    BY <1>2 DEF Idles
  <2>2. QED  BY <1>0, <1>1, <2>1, Zenon
<1>3. ASSUME NEW e \in Events, Adds(e), before(held, Range(e)) PROVE Sorted' /\ Order' /\ before(held', unread')
  <2>1. /\ units(buffer') = units(buffer) \cup Range(e)
        /\ sorted(buffer) /\ before(units(buffer), Range(e)) => sorted(buffer')
        /\ forwarded' = forwarded /\ channel' = channel /\ tb' = tb
    BY <1>00, <1>3, AppendFacts, Zenon DEF Adds, SinkTypes
  <2>2. units(forwarded) \cup units(channel) \cup units(tb) \subseteq held /\ units(buffer) \subseteq held
    BY <1>00, HeldOf, Zenon
  <2>3. before(units(buffer), Range(e)) /\ before(units(forwarded) \cup units(channel) \cup units(tb), Range(e))
    BY <1>3, <2>2, Zenon DEF before
  <2>4. before(units(forwarded) \cup units(channel) \cup units(tb), units(buffer) \cup Range(e))
    BY <1>0, <2>3, BeforeFacts, Zenon
  <2>5. QED  BY <1>0, <1>1, <2>1, <2>3, <2>4, Zenon
<1>4. ASSUME NEW t \in Tasks, Takes(t) PROVE Sorted' /\ Order' /\ before(held', unread')
  <2>1. tb' = buffer /\ buffer' = <<>> /\ forwarded' = forwarded /\ channel' = channel
    BY <1>0, <1>00, <1>4, Zenon DEF Takes, take, SinkTypes
  <2>2. units(buffer') = {} /\ sorted(buffer')
    BY <2>1, NoUnits
  <2>3. before(units(forwarded) \cup units(channel), units(buffer))
    BY <1>0, Zenon DEF before
  <2>4. \A A : before(A, {})
    BY DEF before
  <2>5. QED  BY <1>0, <1>1, <2>1, <2>2, <2>3, <2>4, Zenon
<1>5. ASSUME NEW t \in Tasks, Sends(t) PROVE Sorted' /\ Order' /\ before(held', unread')
  <2> DEFINE e == Head(tb)
  <2>1. tb \in Seq(Events) /\ tb # <<>> /\ t = "task"
    BY <1>00, <1>5 DEF Sends, SinkTypes
  <2>2. tb' = Tail(tb) /\ buffer' = buffer /\ forwarded' = forwarded
    BY <1>00, <1>5, <2>1 DEF Sends, SinkTypes
  <2>3. channel' = channel \/ channel' = Append(channel, e)
    BY <1>5, <2>1 DEF Sends, publish_to_server
  <2> HIDE DEF tb
  <2>4. /\ e \in Events /\ units(tb) = Range(e) \cup units(tb')
        /\ sorted(tb') /\ before(Range(e), units(tb'))
    BY <1>0, <2>1, <2>2, TailFacts, Zenon
  <2> HIDE DEF e
  <2>5. /\ before(units(channel), Range(e)) /\ before(units(forwarded), Range(e))
        /\ before(units(forwarded) \cup units(channel), units(tb'))
        /\ before(units(forwarded) \cup units(channel) \cup units(tb'), units(buffer))
        /\ before(Range(e), units(buffer))
    <3>1. /\ units(channel) \subseteq units(forwarded) \cup units(channel) /\ Range(e) \subseteq units(tb)
          /\ units(forwarded) \subseteq units(forwarded) \cup units(channel) /\ units(tb') \subseteq units(tb)
          /\ units(forwarded) \cup units(channel) \cup units(tb') \subseteq
                units(forwarded) \cup units(channel) \cup units(tb)
          /\ Range(e) \subseteq units(forwarded) \cup units(channel) \cup units(tb)
      BY <2>4, Zenon
    <3>2. QED  BY <1>0, <3>1, Zenon DEF before
  <2>6. units(channel') \subseteq units(channel) \cup Range(e) /\ sorted(channel')
    <3>1. CASE channel' = channel
      BY <1>0, <3>1
    <3>2. CASE channel' = Append(channel, e)
      BY <1>0, <1>00, <2>4, <2>5, <3>2, AppendFacts, Zenon DEF SinkTypes
    <3>3. QED  BY <2>3, <3>1, <3>2
  <2>7. before(units(forwarded'), units(channel'))
    BY <1>0, <2>2, <2>5, <2>6, BeforeFacts, Zenon
  <2>8. before(units(forwarded') \cup units(channel'), units(tb'))
    <3>1. before((units(forwarded) \cup units(channel)) \cup Range(e), units(tb'))
      BY <2>4, <2>5, BeforeFacts, Zenon
    <3>2. units(forwarded') \cup units(channel') \subseteq (units(forwarded) \cup units(channel)) \cup Range(e)
      BY <2>2, <2>6
    <3>3. QED  BY <3>1, <3>2, Zenon DEF before
  <2>9. before(units(forwarded') \cup units(channel') \cup units(tb'), units(buffer'))
    <3>1. units(forwarded') \cup units(channel') \cup units(tb') \subseteq
             units(forwarded) \cup units(channel) \cup units(tb)
      BY <2>2, <2>4, <2>6
    <3>2. QED  BY <1>0, <2>2, <3>1, Zenon DEF before
  <2>10. QED  BY <1>0, <1>1, <2>2, <2>4, <2>6, <2>7, <2>8, <2>9, Zenon

<1>6. CASE Forwards
  <2> DEFINE e == Head(channel)
  <2>1. channel \in Seq(Events) /\ channel # <<>> /\ forwarded \in Seq(Events) /\ tb' = tb /\ buffer' = buffer
        /\ channel' = Tail(channel) /\ forwarded' = Append(forwarded, e)
    BY <1>00, <1>6 DEF Forwards, SinkTypes
  <2>2. /\ e \in Events /\ units(channel) = Range(e) \cup units(channel')
        /\ sorted(channel') /\ before(Range(e), units(channel'))
    BY <1>0, <2>1, TailFacts, Zenon
  <2> HIDE DEF e, tb
  <2>3. /\ before(units(forwarded), Range(e)) /\ before(units(forwarded), units(channel'))
    <3>1. Range(e) \subseteq units(channel) /\ units(channel') \subseteq units(channel)
      BY <2>2
    <3>2. QED  BY <1>0, <3>1, BeforeFacts, Zenon
  <2>4. units(forwarded') = units(forwarded) \cup Range(e) /\ sorted(forwarded')
    BY <1>0, <2>1, <2>2, <2>3, AppendFacts, Zenon
  <2>5. before(units(forwarded'), units(channel'))
    BY <2>2, <2>3, <2>4, BeforeFacts, Zenon
  <2>6. units(forwarded') \cup units(channel') = units(forwarded) \cup units(channel)
    BY <2>2, <2>4
  <2>7. QED  BY <1>0, <1>1, <2>1, <2>2, <2>4, <2>5, <2>6, Zenon
<1>7. CASE Ends
  <2>1. tb' = <<>> /\ buffer' = <<>> /\ channel' = <<>> /\ forwarded' = forwarded
    BY <1>00, <1>7 DEF Ends, all
  <2>2. /\ units(buffer') = {} /\ units(channel') = {} /\ units(tb') = {}
        /\ sorted(buffer') /\ sorted(channel') /\ sorted(tb')
    BY <2>1, NoUnits, Zenon
  <2>3. \A A : before(A, {})
    BY DEF before
  <2>4. QED  BY <1>0, <1>1, <2>1, <2>2, <2>3, Zenon
<1>8. CASE ReadLine /\ Adds(lineRead)
  <2>1. lineRead \in Events
    BY <1>8, LineFacts DEF lineRead
  <2>2. before(held, Range(lineRead))
    BY <1>0, <1>8, UnreadReads, BeforeFacts, Zenon
  <2>3. QED  BY <1>3, <1>8, <2>1, <2>2, Zenon
<1>9. CASE JournalEntry /\ Adds(entryRead)
  <2> DEFINE u == [line |-> journal + 1, part |-> "journal"]
  <2>1. entryRead \in Events /\ Range(entryRead) = {u} /\ u.part = "journal"
    BY <1>9, EntryFacts
  <2>2. before(held, Range(entryRead))
    BY <2>1, Zenon DEF before
  <2>3. QED  BY <1>3, <1>9, <2>1, <2>2, Zenon
<1>10. QED  BY <1>2, <1>4, <1>5, <1>6, <1>7, <1>8, <1>9, SinkStep, Zenon

-----------------------------------------------------------------------------
(* A collector that was never started holds nothing. *)
LEMMA InitIInv == Init => IInv
<1> SUFFICES ASSUME Init PROVE IInv
  OBVIOUS
<1> USE DEF Init, all
<1>1. /\ file = <<>> /\ Len(file) = 0 /\ forwarded = <<>> /\ channel = <<>> /\ buffer = <<>>
      /\ \A t \in Tasks : batch[t] = <<>> /\ pc[t] = "down"
      /\ 1..Len(file) = {}
  OBVIOUS
<1>2. TypeOK /\ LineInv
  <2>1. SinkTypes
    <3>1. <<>> \in Seq(Events) /\ Len(<<>>) <= Capacity
      BY LogCollectorAssumption
    <3>2. QED  BY <3>1 DEF SinkTypes
  <2>2. TaskTypes
    BY DEF TaskTypes, Places
  <2>0. /\ 0 \in Nat /\ 0 \in 0..MaxLines /\ 0 \in 0..MaxJournal /\ 0 \in 0..MaxBad /\ 0 \in 0..MaxRotations
        /\ 0 \in 0..MaxStops /\ 0 \in 0..MaxCrashes /\ <<>> \in Seq(Units)
    <3>1. /\ MaxLines \in Nat /\ MaxJournal \in Nat /\ MaxBad \in Nat /\ MaxRotations \in Nat
          /\ MaxStops \in Nat /\ MaxCrashes \in Nat
      BY LogCollectorAssumption
    <3>2. 0 \in Nat /\ <<>> \in Seq(Units) /\ \A n \in Nat : 0 \in 0..n
      OBVIOUS
    <3>3. QED  BY <3>1, <3>2, Zenon
  <2>3. ReaderTypes
    BY <2>0, Zenon DEF ReaderTypes
  <2>4. OtherTypes
    BY <2>0, Zenon DEF OtherTypes
  <2>5. ~halfWritten
    BY <1>1 DEF halfWritten
  <2>6. QED  BY <2>1, <2>2, <2>3, <2>4, <2>5, Zenon DEF TypeOK, SinkTypes, TaskTypes, ReaderTypes, OtherTypes, Places, LineInv
<1>3. TaskInv /\ BufferInv
  <2>1. TaskInv
    BY <1>1, HeldOf DEF TaskInv
  <2>2. waiting("file") = 0 /\ waiting("journal") = 0 /\ Len(buffer) = 0
    BY <1>1, HeldOf DEF waiting
  <2>3. MaxBatch \in Nat /\ MaxBatch > 0
    BY LogCollectorAssumption
  <2>4. BufferInv
    BY <2>2, <2>3 DEF BufferInv
  <2>5. QED  BY <2>1, <2>4
<1>4. held = {}
  <2>1. units(forwarded) = {} /\ units(channel) = {} /\ units(buffer) = {} /\ \A t \in Tasks : units(batch[t]) = {}
    BY <1>1, NoUnits, Zenon
  <2>2. QED  BY <2>1, HeldOf, Zenon
<1>5. KeptInv /\ HeldInv /\ FreshInv
  BY <1>4 DEF KeptInv, HeldInv, FreshInv
<1>6. WatchInv /\ FileInv
  <2>0. 0 <= 0 /\ offset = 0 /\ position = 0 /\ saved = None
    OBVIOUS
  <2>1. offset <= Len(file) /\ position <= Len(file) /\ saved = None /\ pc["file"] = "down"
    BY <1>1, <2>0, HeldOf, Zenon
  <2>2. \A k : seen(k)
    BY <1>1, Zenon DEF seen
  <2>3. WatchInv
    BY <2>1, <2>2, Zenon DEF WatchInv
  <2>4. FileInv
    BY <1>1, Zenon DEF FileInv
  <2>5. QED  BY <2>3, <2>4
<1>7. OnceInv
  <2>1. /\ units(forwarded) = {} /\ units(channel) = {} /\ units(buffer) = {} /\ \A t \in Tasks : units(batch[t]) = {}
        /\ apart(forwarded) /\ apart(channel) /\ apart(buffer) /\ \A t \in Tasks : apart(batch[t])
    BY <1>1, NoUnits, Zenon
  <2>2. QED  BY <2>1, Zenon DEF OnceInv
<1>8. OrderInv
  <2>1. /\ units(forwarded) = {} /\ units(channel) = {} /\ units(buffer) = {} /\ units(batch["task"]) = {}
        /\ sorted(forwarded) /\ sorted(channel) /\ sorted(buffer) /\ sorted(batch["task"])
    BY <1>1, NoUnits, Zenon DEF Tasks
  <2>2. \A A : before({}, A)
    BY DEF before
  <2>3. {} \cup {} = {} /\ {} \cup {} \cup {} = {}
    OBVIOUS
  <2>4. QED  BY <1>4, <2>1, <2>2, <2>3, Zenon DEF OrderInv
<1>9. QED  BY <1>2, <1>3, <1>5, <1>6, <1>7, <1>8 DEF IInv

(* Every step keeps the invariant. *)
LEMMA NextIInv == ASSUME IInv, [Next]_vars PROVE IInv'
  BY TypeNext, TaskNext, BufferNext, KeptNext, WatchNext, FileNext, HeldNext, FreshNext, OnceNext, OrderNext, Zenon
     DEF IInv

(* The invariant holds all along. *)
THEOREM Invariance == Spec => []IInv
  BY InitIInv, NextIInv, PTL DEF Spec

(* The state of the collector is always of its type. *)
THEOREM TypesHold == Spec => []TypeOK
  BY Invariance, PTL DEF IInv

(* A line that was read is kept until the channel takes or refuses it, and the buffer is
   bounded (batch.rs, flush_now, publish_to_server). *)
THEOREM KeptHolds == Spec => []ReadIsKept
<1>1. IInv => ReadIsKept
  <2> SUFFICES ASSUME IInv PROVE ReadIsKept
    OBVIOUS
  <2>1. read \subseteq held \cup dropped
    BY DEF IInv, KeptInv
  <2>2. Len(buffer) <= MaxBatch + 1
    <3>1. Len(buffer) \in Nat /\ MaxBatch \in Nat
      BY Numbers DEF IInv
    <3>2. waiting("file") \in {0, 1} /\ waiting("journal") \in {0, 1}
      BY DEF waiting
    <3>3. Len(buffer) < MaxBatch + waiting("file") + waiting("journal")
      BY DEF IInv, BufferInv
    <3>4. QED  BY <3>1, <3>2, <3>3
  <2>3. QED  BY <2>1, <2>2, Zenon DEF ReadIsKept, held
<1>2. QED  BY <1>1, Invariance, PTL

(* A reader that waits has read what was written since it began to watch
   (file_reader.rs, run). *)
THEOREM WatchedHolds == Spec => []WatchedIsRead
<1>1. IInv => WatchedIsRead
  <2> SUFFICES ASSUME IInv, rotations = 0, bad = 0, pc["file"] = "wait", ~notify, NEW u \in Range(file), u \notin past
               PROVE  u \in read
    BY Zenon DEF WatchedIsRead, caughtUp
  <2>1. file \in Seq(Units) /\ seen(Len(file))
    BY DEF IInv, TypeOK, WatchInv
  <2>2. PICK i \in 1..Len(file) : u = file[i]
    <3>1. DOMAIN file = 1..Len(file)
      BY <2>1
    <3>2. QED  BY <3>1, Zenon DEF Range
  <2>3. i <= Len(file)
    BY <2>1
  <2>4. QED  BY <2>1, <2>2, <2>3, Zenon DEF seen
<1>2. QED  BY <1>1, Invariance, PTL

(* No line is sent twice while nothing goes wrong, and lines are forwarded in their order
   while only the flush task flushes (file_reader.rs, read_new_lines; batch.rs; state.rs). *)
THEOREM InOrderOnceHolds == Spec => []InOrderOnce
<1>1. IInv => InOrderOnce
  <2> SUFFICES ASSUME IInv, calm PROVE once /\ (~forced /\ stops = 0 => inOrder)
    BY Zenon DEF InOrderOnce, calm
  <2>0. /\ forwarded \in Seq(Events) /\ channel \in Seq(Events) /\ buffer \in Seq(Events)
        /\ batch["file"] \in Seq(Events) /\ batch["journal"] \in Seq(Events) /\ batch["task"] \in Seq(Events)
    BY HeldOf DEF IInv, TypeOK
  <2>1. once
    <3> DEFINE s1 == forwarded \o channel
               s2 == s1 \o batch["file"]
               s3 == s2 \o batch["journal"]
               s4 == s3 \o batch["task"]
               s5 == s4 \o buffer
    <3>0. /\ apart(forwarded) /\ apart(channel) /\ apart(buffer)
          /\ apart(batch["file"]) /\ apart(batch["journal"]) /\ apart(batch["task"])
          /\ units(forwarded) \cap units(channel) = {} /\ units(forwarded) \cap units(buffer) = {}
          /\ units(channel) \cap units(buffer) = {}
          /\ units(batch["file"]) \cap (units(forwarded) \cup units(channel) \cup units(buffer)) = {}
          /\ units(batch["journal"]) \cap (units(forwarded) \cup units(channel) \cup units(buffer)) = {}
          /\ units(batch["task"]) \cap (units(forwarded) \cup units(channel) \cup units(buffer)) = {}
          /\ units(batch["file"]) \cap units(batch["journal"]) = {}
          /\ units(batch["file"]) \cap units(batch["task"]) = {}
          /\ units(batch["journal"]) \cap units(batch["task"]) = {}
      BY HeldOf, Zenon DEF IInv, OnceInv
    <3>1. s1 \in Seq(Events) /\ apart(s1) /\ units(s1) = units(forwarded) \cup units(channel)
      BY <2>0, <3>0, CatFacts, Zenon
    <3> HIDE DEF s1
    <3>2. s2 \in Seq(Events) /\ apart(s2) /\ units(s2) = units(s1) \cup units(batch["file"])
      <4>1. units(s1) \cap units(batch["file"]) = {}
        BY <3>0, <3>1
      <4>2. QED  BY <2>0, <3>0, <3>1, <4>1, CatFacts, Zenon
    <3> HIDE DEF s2
    <3>3. s3 \in Seq(Events) /\ apart(s3) /\ units(s3) = units(s2) \cup units(batch["journal"])
      <4>1. units(s2) \cap units(batch["journal"]) = {}
        BY <3>0, <3>1, <3>2
      <4>2. QED  BY <2>0, <3>0, <3>2, <4>1, CatFacts, Zenon
    <3> HIDE DEF s3
    <3>4. s4 \in Seq(Events) /\ apart(s4) /\ units(s4) = units(s3) \cup units(batch["task"])
      <4>1. units(s3) \cap units(batch["task"]) = {}
        BY <3>0, <3>1, <3>2, <3>3
      <4>2. QED  BY <2>0, <3>0, <3>3, <4>1, CatFacts, Zenon
    <3> HIDE DEF s4
    <3>5. apart(s5)
      <4>1. units(s4) \cap units(buffer) = {}
        BY <3>0, <3>1, <3>2, <3>3, <3>4, Zenon
      <4>2. QED  BY <2>0, <3>0, <3>4, <4>1, CatFacts, Zenon
    <3>6. QED  BY <3>5, Zenon DEF once, apart, s1, s2, s3, s4
  <2>2. ASSUME ~forced, stops = 0 PROVE inOrder
    <3> DEFINE s == forwarded \o channel
    <3>1. sorted(forwarded) /\ sorted(channel) /\ before(units(forwarded), units(channel))
      BY <2>2 DEF IInv, OrderInv
    <3>2. s \in Seq(Events) /\ sorted(s)
      BY <2>0, <3>1, CatFacts, Zenon
    <3> HIDE DEF s
    <3>3. \A i \in 1..Len(s) : s[i] \in Events
      BY <3>2
    <3>4. \A i \in 1..Len(s) : s[i][1] \in Range(s[i])
      BY <3>3, UnitFacts, Zenon
    <3>5. \A i, j \in 1..Len(s) :
            i < j /\ s[i][1].part # "journal" /\ s[j][1].part # "journal" => s[i][1].line <= s[j][1].line
      BY <3>2, <3>4, Zenon DEF sorted, before
    <3>6. QED  BY <3>5, Zenon DEF inOrder, s
  <2>3. QED  BY <2>1, <2>2
<1>2. QED  BY <1>1, Invariance, PTL
=============================================================================
