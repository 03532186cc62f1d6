--------------------------- MODULE ActiveResponse ---------------------------
(***************************************************************************)
(* Active response (sda-active-response): the module's loop executes and   *)
(* undoes actions the server asks for, detached timers undo the timed ones *)
(* later, and the Local Detection Engine executes permanent blocks of its  *)
(* own (sda-local-detection/src/response.rs), all on the same firewall and *)
(* account database, which outlive the process.                            *)
(*                                                                         *)
(* A target is an IP address or an account.  What an undo removes depends  *)
(* on the platform command: iptables -D removes one rule, while a deletion *)
(* from a pf table or by netsh rule name, and unlocking an account, remove *)
(* whatever there is.                                                      *)
(***************************************************************************)
EXTENDS Integers, FiniteSets

CONSTANTS
  Targets,      \* IP addresses and accounts
  Counted,      \* those whose action is counted: IP addresses, with iptables
  LocalTargets, \* those the Local Detection Engine may block
  MaxCommands,  \* bound: commands and local blocks
  MaxFaults,    \* bound: platform commands that fail or time out
  MaxRestarts   \* bound: restarts of the agent

ASSUME ActiveResponseAssumption ==
  /\ Counted \subseteq Targets /\ LocalTargets \subseteq Targets
  /\ MaxCommands \in Nat /\ MaxFaults \in Nat /\ MaxRestarts \in Nat

VARIABLES
  pc,         \* the module's loop: "idle", "exec" (a command runs), "report"
  cmd,        \* the command it handles
  applied,    \* applied[t]: rules in force against t (0 or 1 unless counted)
  timers,     \* timers[t]: sleeping undo tasks
  permanent,  \* permanent[t]: executed actions without a timeout
  undone,     \* undone[t]: undo commands for the server that had their effect
  commands, faults, restarts

vars == <<pc, cmd, applied, timers, permanent, undone, commands, faults, restarts>>

Commands == [undo : BOOLEAN, target : Targets, timeout : 0..1]

TypeOK ==
  /\ pc \in {"idle", "exec", "report"}
  /\ cmd \in Commands
  /\ applied \in [Targets -> Nat] /\ timers \in [Targets -> Nat]
  /\ permanent \in [Targets -> Nat] /\ undone \in [Targets -> Nat]
  /\ commands \in 0..MaxCommands /\ faults \in 0..MaxFaults /\ restarts \in 0..MaxRestarts

Init ==
  /\ pc = "idle" /\ cmd \in [undo : {FALSE}, target : Targets, timeout : {0}]
  /\ applied = [t \in Targets |-> 0] /\ timers = [t \in Targets |-> 0]
  /\ permanent = [t \in Targets |-> 0] /\ undone = [t \in Targets |-> 0]
  /\ commands = 0 /\ faults = 0 /\ restarts = 0

-----------------------------------------------------------------------------
plus(f, t) == [f EXCEPT ![t] = @ + 1]
minus(f, t) == [f EXCEPT ![t] = @ - 1]

(* platform_block_ip, platform_disable_account. *)
platform_block(t) == applied' = IF t \in Counted THEN plus(applied, t) ELSE [applied EXCEPT ![t] = 1]

(* platform_unblock_ip, platform_enable_account; nothing to remove is an error
   or not, by platform, and only reported. *)
platform_unblock(t) ==
  applied' = IF t \in Counted /\ applied[t] > 0 THEN minus(applied, t) ELSE [applied EXCEPT ![t] = 0]

fault == faults < MaxFaults /\ faults' = faults + 1

(* The loop receives a server command or a request from the bus; an unknown
   action, or one that lacks its parameter, is only reported. *)
Handle ==
  /\ pc = "idle" /\ commands < MaxCommands
  /\ commands' = commands + 1
  /\ cmd' \in Commands
  /\ pc' \in {"exec", "idle"}
  /\ UNCHANGED <<applied, timers, permanent, undone, faults, restarts>>

(* registry.dispatch succeeds. *)
Execute ==
  /\ pc = "exec" /\ ~cmd.undo
  /\ platform_block(cmd.target)
  /\ permanent' = IF cmd.timeout = 0 THEN plus(permanent, cmd.target) ELSE permanent
  /\ pc' = "report"
  /\ UNCHANGED <<cmd, timers, undone, commands, faults, restarts>>

(* It fails, or the command is killed at its time-out, when it may have had its
   effect already: the result is a failure and no undo is scheduled. *)
ExecuteFails ==
  /\ pc = "exec" /\ ~cmd.undo
  /\ fault
  /\ platform_block(cmd.target) \/ UNCHANGED applied
  /\ pc' = "idle"
  /\ UNCHANGED <<cmd, timers, permanent, undone, commands, restarts>>

(* registry.dispatch_undo for the server, successful or not. *)
Undo ==
  /\ pc = "exec" /\ cmd.undo
  /\ platform_unblock(cmd.target)
  /\ undone' = plus(undone, cmd.target)
  /\ pc' = "idle"
  /\ UNCHANGED <<cmd, timers, permanent, commands, faults, restarts>>

(* It fails, or is killed at its time-out with or without its effect. *)
UndoFails ==
  /\ pc = "exec" /\ cmd.undo
  /\ fault
  /\ \/ platform_unblock(cmd.target) /\ undone' = plus(undone, cmd.target)
     \/ UNCHANGED <<applied, undone>>
  /\ pc' = "idle"
  /\ UNCHANGED <<cmd, timers, permanent, commands, restarts>>

(* Mutation: the guard on the timeout is missing. *)
schedule_undo_Always == timers' = plus(timers, cmd.target)

(* Mutation: the timer is dropped with the command. *)
schedule_undo_Dropped == timers' = timers

(* An undo task, for an action with a timeout. *)
schedule_undo == timers' = IF cmd.timeout > 0 THEN plus(timers, cmd.target) ELSE timers

(* The result is published, whatever the server channel answers, and the undo
   is scheduled. *)
Report ==
  /\ pc = "report"
  /\ schedule_undo
  /\ pc' = "idle"
  /\ UNCHANGED <<cmd, applied, permanent, undone, commands, faults, restarts>>

(* An undo task wakes up; nobody can cancel it, and it does not try twice. *)
TimerFires(t) ==
  /\ timers[t] > 0
  /\ timers' = minus(timers, t)
  /\ platform_unblock(t)
  /\ UNCHANGED <<pc, cmd, permanent, undone, commands, faults, restarts>>

TimerFails(t) ==
  /\ timers[t] > 0
  /\ timers' = minus(timers, t)
  /\ fault
  /\ platform_unblock(t) \/ UNCHANGED applied
  /\ UNCHANGED <<pc, cmd, permanent, undone, commands, restarts>>

(* LocalResponder::block_ip, with a registry of its own and timeout 0. *)
block_ip(t) ==
  /\ t \in LocalTargets /\ commands < MaxCommands
  /\ commands' = commands + 1
  /\ platform_block(t)
  /\ permanent' = plus(permanent, t)
  /\ UNCHANGED <<pc, cmd, timers, undone, faults, restarts>>

block_ipFails(t) ==
  /\ t \in LocalTargets /\ commands < MaxCommands
  /\ commands' = commands + 1
  /\ fault
  /\ platform_block(t) \/ UNCHANGED applied
  /\ UNCHANGED <<pc, cmd, timers, permanent, undone, restarts>>

(* The agent stops or crashes and starts again: the undo tasks are gone. *)
Restart ==
  /\ restarts < MaxRestarts
  /\ restarts' = restarts + 1
  /\ pc' = "idle"
  /\ timers' = [t \in Targets |-> 0]
  /\ UNCHANGED <<cmd, applied, permanent, undone, commands, faults>>

run == Execute \/ ExecuteFails \/ Undo \/ UndoFails \/ Report

Timer(t) == TimerFires(t) \/ TimerFails(t)

Next == Handle \/ run \/ Restart \/ \E t \in Targets : Timer(t) \/ block_ip(t) \/ block_ipFails(t)

(* A command ends (at its time-out at the latest) and a timer fires. *)
Spec == Init /\ [][Next]_vars
FairSpec == Spec /\ WF_vars(run) /\ \A t \in Targets : WF_vars(Timer(t))

-----------------------------------------------------------------------------
(* Counted actions (iptables): as many rules are in force as there are permanent
   blocks and blocks whose time is not up, less at most one for every undo the
   server asked for: timers, the loop and the Local Detection Engine do not
   undo one another's blocks (lib.rs, run and schedule_undo).  And unless a platform
   command failed or the agent restarted, no target of either kind has more rules
   against it than that: a rule in force is permanent or has its timer. *)
pending(t) == IF pc = "report" /\ cmd.target = t /\ cmd.timeout > 0 THEN 1 ELSE 0
wanted(t) == permanent[t] + timers[t] + pending(t)
BlockedWhileDue ==
  /\ \A t \in Counted : applied[t] + undone[t] >= wanted(t)
  /\ faults = 0 /\ restarts = 0 => \A t \in Targets : applied[t] <= wanted(t)

(* A target with timed actions only is free in the end, unless a platform command
   failed or the agent restarted (lib.rs, schedule_undo). *)
TimedActionsEnd ==
  \A t \in Targets :
    <>[](applied[t] = 0) \/ <>(permanent[t] > 0 \/ faults > 0 \/ restarts > 0)

(* "Timeout for the undo/revert (seconds). 0 = permanent." (actions/mod.rs): no
   action with a timeout is in force for ever. *)
TimeoutIsNotPermanent ==
  \A t \in Targets : <>[](applied[t] = 0) \/ <>(permanent[t] > 0)

(* The same line: an action with timeout 0 stays until the server undoes it. *)
PermanentStays == \A t \in Targets : permanent[t] > 0 /\ undone[t] = 0 => applied[t] > 0
=============================================================================
