--------------------------- MODULE ResponseActions --------------------------
(***************************************************************************)
(* What an active-response message of the server comes to: the parser      *)
(* (sda-active-response/src/lib.rs, parse_ar_command), the registry of the *)
(* allowed actions (actions/mod.rs) and the three actions on each platform *)
(* (firewall_drop.rs, disable_account.rs, kill_process.rs).                *)
(*                                                                         *)
(* A host is what the actions change of it: the firewall rules against one *)
(* address and those left by older builds, and the lock, the login shell   *)
(* and the saved shell of one account, and the processes of one number or  *)
(* name.  How each platform command ends is a parameter.                   *)
(***************************************************************************)
EXTENDS Integers, Sequences, SequencesExt

None == "none"
MaxPid == 9   \* stands for the largest u32

----------------------------------------------------------------------------
(* The command field is an action name followed by a run of digits, which holds a flag
   (0 execute, 1 roll back), a timeout, both or nothing.  The name is abstracted; a suffix
   is the sequence of the digits.  (extract_action_name) *)

(* What the manager writes: <name><flag>[<timeout>], the digits of a timeout of
   zero being left out, ... *)
flagged(flag, timeout) == <<flag>> \o timeout

(* ... and, in some builds, <name><timeout> for an execute with a timeout. *)
elided(timeout) == timeout

(* Mutation: the last digit is taken for the flag. *)
is_undo_Last(suffix) == suffix # <<>> /\ suffix[Len(suffix)] = 1

is_undo(suffix) == suffix # <<>> /\ suffix[1] = 1

(* A name with its hyphens replaced. *)
underscored(name) ==
  CASE name = "kill-process" -> "kill_process"
    [] name = "disable-account" -> "disable_account"
    [] name = "firewall-drop" -> "firewall_drop"
    [] name = "host-deny" -> "host_deny"
    [] OTHER -> name

(* extract_action_name: the base of the name without its digits. *)
canonical(base) ==
  IF base \in {"firewall-drop", "host-deny"} THEN "block_ip" ELSE underscored(base)

firstGiven(values) ==
  LET given == SelectSeq(values, LAMBDA v : v # None) IN IF given = <<>> THEN None ELSE Head(given)

ActionParams(ip, pid, user, timeout, pattern) ==
  [ip |-> ip, pid |-> pid, user |-> user, timeout |-> timeout, process_pattern |-> pattern]

(* The parameters of a JSON command; p.alert is the alert that triggered it. *)
json_params(p) ==
  ActionParams(firstGiven(<<p.srcip, p.ip>>), IF p.pid > MaxPid THEN -1 ELSE p.pid,
               firstGiven(<<p.user, p.dstuser, p.srcuser>>), p.timeout, p.kill_process_trigger)

(* The parameters of the words of a legacy command: the last address, the last number
   and the first other word. *)
legacy_params(words) ==
  LET of(kind) == SelectSeq(words, LAMBDA w : w[1] = kind)
      last(kind, none) == IF of(kind) = <<>> THEN none ELSE Last(of(kind))[2]
  IN  ActionParams(last("ip", None), -1, IF of("word") = <<>> THEN None ELSE Head(of("word"))[2],
                   last("number", 0), None)

parse_ar_command(message) ==
  [action |-> canonical(message.base), is_undo |-> is_undo(message.suffix),
   params |-> IF message.format = "json" THEN json_params(message.parameters) ELSE legacy_params(message.words)]

----------------------------------------------------------------------------
(* The registry: the names under which an allowed action is registered. *)
registered(allowed) ==
  (IF allowed \cap {"block_ip", "firewall-drop"} = {} THEN {} ELSE {"block_ip", "firewall-drop"})
    \cup (allowed \cap {"kill_process"})
    \cup (IF allowed \cap {"disable_account", "disable-account"} = {} THEN {}
          ELSE {"disable_account", "disable-account"})

(* Whether a name is found, as it is or with underscores. *)
dispatches(allowed, action) == {action, underscored(action)} \cap registered(allowed) # {}

----------------------------------------------------------------------------
(* The outcomes of a platform function. *)
ok(host) == [success |-> TRUE, host |-> host]
err(host) == [success |-> FALSE, host |-> host]

(* A platform command succeeds, fails without an effect, or is killed at its time-out when
   it has already had its effect, and counts as failed. *)
acts(outcome) == outcome \in {"ok", "late"}
execute_command(outcome, before, after) ==
  [success |-> outcome = "ok", host |-> IF acts(outcome) THEN after ELSE before]

strip_zone_id(ip) == IF ip = "v6%zone" THEN "v6" ELSE ip
is_valid_ip(ip) == strip_zone_id(ip) \in {"v4", "v6"}

(* Every iptables -I adds a rule; iptables -D deletes one, and fails where there is none. *)
iptables_block(host, runs) == execute_command(runs.first, host, [host EXCEPT !.rules = @ + 1])
iptables_unblock(host, runs) ==
  IF host.rules = 0 THEN err(host) ELSE execute_command(runs.first, host, [host EXCEPT !.rules = @ - 1])

(* Both deletions of an unblock, of the present name and of that of older builds; each
   fails where there is nothing to delete, and one is enough for a success. *)
delete_both(host, runs) ==
  LET first == IF host.rules = 0 THEN "fails" ELSE runs.first
      legacy == IF host.legacy THEN runs.second ELSE "fails"
  IN  [success |-> "ok" \in {first, legacy},
       host |-> [host EXCEPT !.rules = IF acts(first) THEN 0 ELSE @, !.legacy = @ /\ ~acts(legacy)]]

(* A pf table holds an address once.  The table of older builds is cleaned up after the
   present one, whether or not the address was there. *)
pfctl_block(host, runs) == execute_command(runs.first, host, [host EXCEPT !.rules = 1])
pfctl_unblock(host, runs) == delete_both(host, runs)

(* netsh adds a rule each time and deletes all rules of a name. *)
netsh_block(host, runs) == execute_command(runs.first, host, [host EXCEPT !.rules = @ + 1])
netsh_unblock(host, runs) == delete_both(host, runs)

is_valid_username(user) == user # "../x"

(* The shell is saved once, where it is not already the one that refuses logins; saving
   may do nothing or leave an empty file. *)
save_shell(host, runs) ==
  IF host.shell = "/usr/bin/false" \/ host.saved # None THEN host
  ELSE [host EXCEPT !.saved = CASE runs.save = "done" -> host.shell
                                [] runs.save = "empty" -> ""
                                [] runs.save = "fails" -> None]

refused(host) == [host EXCEPT !.shell = "/usr/bin/false"]

(* Mutation: the shell is saved although it has been saved before. *)
dscl_disable_Saves(host, runs) ==
  LET saved == [host EXCEPT !.saved = IF runs.save = "done" THEN host.shell ELSE @]
  IN  execute_command(runs.first, saved, refused(saved))

dscl_disable(host, runs) ==
  LET saved == save_shell(host, runs)
  IN  IF runs.read THEN execute_command(runs.first, saved, refused(saved)) ELSE err(host)

(* The saved shell, or zsh; the saved one is forgotten after a success, unless that fails. *)
dscl_enable(host, runs) ==
  LET shell == IF host.saved \in {None, ""} THEN "/bin/zsh" ELSE host.saved
      forgets == runs.first = "ok" /\ runs.second = "ok"
  IN  execute_command(runs.first, host, [host EXCEPT !.shell = shell, !.saved = IF forgets THEN None ELSE @])

passwd_disable(host, runs) == execute_command(runs.first, host, [host EXCEPT !.locked = TRUE])
passwd_enable(host, runs) == execute_command(runs.first, host, [host EXCEPT !.locked = FALSE])

net_user_disable(host, runs) == execute_command(runs.first, host, [host EXCEPT !.locked = TRUE])
net_user_enable(host, runs) == execute_command(runs.first, host, [host EXCEPT !.locked = FALSE])

(* Among the processes of a number or a name there are those the agent may signal ("own")
   and, once it has dropped its privileges, those it may not ("foreign"). *)
killed(host) == [host EXCEPT !.running = @ \ {"own"}]

(* kill fails for a process that it may not signal; one that is not there is a success. *)
unix_kill(host, runs) ==
  IF "foreign" \in host.running THEN err(host) ELSE execute_command(runs.first, host, killed(host))

(* pkill exits with 0 if it has signalled a process, with 1 if none matched or none could be
   signalled, and with 2 or more if it failed; the first two are successes. *)
pkill_status(host, outcome) == CASE outcome # "ok" -> 2 [] "own" \in host.running -> 0 [] OTHER -> 1
unix_pkill(host, runs) ==
  [success |-> pkill_status(host, runs.first) \in {0, 1}, host |-> IF acts(runs.first) THEN killed(host) ELSE host]

(* taskkill fails for a process that is not there or not its own; Windows has no kill by
   pattern. *)
windows_kill(host, runs) ==
  IF host.running = {"own"} THEN execute_command(runs.first, host, killed(host)) ELSE err(host)
windows_pkill(host, runs) == err(host)

----------------------------------------------------------------------------
(* What the actions touch: the target their platform command names, if any. *)
firewall_drop(params) == {strip_zone_id(ip) : ip \in {i \in {params.ip} : is_valid_ip(i)}}

disable_account(params) ==
  {user \in {params.user} \ {None, "root", "ROOT", "Administrator"} : is_valid_username(user)}

kill_process(params) ==
  IF params.pid # -1 THEN {<<"pid", pid>> : pid \in {params.pid} \ {0, 1}}
  ELSE {<<"pattern", pattern>> : pattern \in {params.process_pattern} \ {None, ""}}

(* What a message of the server touches, as <<action, undo, target>>: at most one. *)
handled(allowed, message) ==
  LET command == parse_ar_command(message)
      targets == CASE command.action = "block_ip" -> firewall_drop(command.params)
                   [] command.action = "disable_account" -> disable_account(command.params)
                   [] command.action = "kill_process" /\ ~command.is_undo -> kill_process(command.params)
                   [] OTHER -> {}
  IN  IF dispatches(allowed, command.action)
      THEN {<<command.action, command.is_undo, t>> : t \in targets} ELSE {}

(* The line for the manager names the action as the manager does. *)
emit_syslog_ack(action) ==
  CASE action = "block_ip" -> "firewall-drop" [] action = "disable_account" -> "disable-account" [] OTHER -> action
=============================================================================
