-------------------------- MODULE RunningSoftware ---------------------------
(***************************************************************************)
(* Running-software deltas (sda-enhanced-inventory/src/lib.rs): the module *)
(* sends the list of processes once and then what changed since the last   *)
(* list the server channel accepted; the manager puts the list together    *)
(* again.  A process is its program, and a number that tells it from       *)
(* another one with the same PID and program.                              *)
(***************************************************************************)
EXTENDS Integers, FiniteSets, Functions

CONSTANTS
  Pids, Programs,
  MaxStarts,    \* bound: processes started
  MaxRefusals   \* bound: times the server channel is full

ASSUME RunningSoftwareAssumption == MaxStarts \in Nat /\ MaxRefusals \in Nat

VARIABLES
  running,        \* the processes: a function on the PIDs in use
  pc,             \* the tick: "idle" or "publish"
  current,        \* the processes it enumerated
  baseline_sent, previous,
  view,           \* the manager's list
  starts, refusals

softwareVars == <<running, pc, current, baseline_sent, previous, view, starts, refusals>>

Entries == [program : Programs, number : 1..MaxStarts]
Lists == UNION {[P -> Entries] : P \in SUBSET Pids}

none == [p \in {} |-> 0]

RunningTypeOK ==
  /\ running \in Lists /\ current \in Lists /\ previous \in Lists /\ view \in Lists
  /\ pc \in {"idle", "publish"} /\ baseline_sent \in BOOLEAN
  /\ ~baseline_sent => previous = none /\ view = none
  /\ starts \in 0..MaxStarts /\ refusals \in 0..MaxRefusals

RunningInit ==
  /\ running = none /\ pc = "idle" /\ current = none
  /\ baseline_sent = FALSE /\ previous = none /\ view = none
  /\ starts = 0 /\ refusals = 0

-----------------------------------------------------------------------------
(* The operating system; a PID is used again when it is free. *)
ProcessStarts(p) ==
  /\ p \notin DOMAIN running /\ starts < MaxStarts
  /\ starts' = starts + 1
  /\ \E program \in Programs :
       running' = [q \in DOMAIN running \cup {p} |->
                     IF q = p THEN [program |-> program, number |-> starts + 1] ELSE running[q]]
  /\ UNCHANGED <<pc, current, baseline_sent, previous, view, refusals>>

ProcessEnds(p) ==
  /\ p \in DOMAIN running
  /\ running' = Restrict(running, DOMAIN running \ {p})
  /\ UNCHANGED <<pc, current, baseline_sent, previous, view, starts, refusals>>

same_process(a, b) == a.program = b.program

(* The delta from one list to the next. *)
added(from, to) ==
  {p \in DOMAIN to : p \in DOMAIN from => ~same_process(from[p], to[p])}

(* Mutation: a PID that is used again is only added. *)
removed_Gone(from, to) == {}

removed(from, to) ==
  {p \in DOMAIN from : p \in DOMAIN to => ~same_process(from[p], to[p])}

(* A tick of the timer enumerates the processes, ... *)
Tick ==
  /\ pc = "idle"
  /\ current' = running
  /\ pc' = "publish"
  /\ UNCHANGED <<running, baseline_sent, previous, view, starts, refusals>>

(* What the manager makes of a delta. *)
apply(list, from, to) ==
  LET kept == DOMAIN list \ removed(from, to)
  IN  [p \in kept \cup added(from, to) |-> IF p \in added(from, to) THEN to[p] ELSE list[p]]

(* ... and publishes the baseline or, unless it is empty, the delta. *)
Publish ==
  /\ pc = "publish"
  /\ pc' = "idle"
  /\ view' = IF baseline_sent THEN apply(view, previous, current) ELSE current
  /\ baseline_sent' = TRUE
  /\ previous' = current
  /\ current' = none
  /\ UNCHANGED <<running, starts, refusals>>

refused == previous' = previous

(* The server channel is full. *)
PublishFails ==
  /\ pc = "publish" /\ refusals < MaxRefusals
  /\ ~baseline_sent \/ added(previous, current) # {} \/ removed(previous, current) # {}
  /\ refusals' = refusals + 1
  /\ pc' = "idle"
  /\ refused
  /\ current' = none
  /\ UNCHANGED <<running, baseline_sent, view, starts>>

-----------------------------------------------------------------------------
programs(list) == [p \in DOMAIN list |-> list[p].program]

(* Whatever the channel refuses, the list the manager puts together has the PIDs
   and programs of the last one the module published: deltas are neither lost nor
   applied twice (run_running_software_tick, "keep the previous snapshot"). *)
ViewIsPrevious == baseline_sent => programs(view) = programs(previous)

(* "PID reuse is always detectable via a different image name or binary path"
   (same_process): the manager has the very processes of the last list. *)
PidReuseDetected == baseline_sent => view = previous
=============================================================================
