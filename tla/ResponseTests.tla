---------------------------- MODULE ResponseTests ---------------------------
(***************************************************************************)
(* The active responses against reference definitions: messages of the     *)
(* server, and calls of the platform functions in a row.                   *)
(***************************************************************************)
EXTENDS TestCase, Integers, Sequences, FiniteSets

CONSTANTS MaxWords,   \* bound: words of a legacy command
          MaxCalls    \* bound: platform functions called in a row

A == INSTANCE ResponseActions

Bases == {"firewall-drop", "host-deny", "disable-account", "kill-process", "kill_process", "restart"}
Endings == {A!flagged(f, t) : f \in 0..1, t \in {<<>>, <<1>>, <<6, 0>>}}
AllowedActions == {{}, {"firewall-drop", "kill_process"}, {"block_ip", "disable-account"}, {"disable_account"}}

Parameters ==
  [srcip : {A!None, "v4"}, ip : {A!None, "v6%zone", "bad"}, pid : {-1, 1, 2, A!MaxPid + 1},
   user : {A!None, "bob", "ROOT"}, dstuser : {A!None, "amy"}, srcuser : {"eve"}, timeout : {60},
   kill_process_trigger : {A!None, "p"}]
Words == {<<"ip", "v4">>, <<"ip", "v6">>, <<"word", "bob">>, <<"word", "ROOT">>, <<"number", 60>>}

MessageTests ==
  /\ test = "message"
  /\ \E base \in Bases, suffix \in Endings, allowed \in AllowedActions :
       \/ \E p \in Parameters :
            input = [allowed |-> allowed, format |-> "json", base |-> base, suffix |-> suffix, parameters |-> p]
       \/ \E n \in 0..MaxWords : \E w \in [1..n -> Words] :
            input = [allowed |-> allowed, format |-> "legacy", base |-> base, suffix |-> suffix, words |-> w]

(* How the platform commands of one call end. *)
Outcomes == {"ok", "fails", "late"}
Runs(os, kind) ==
  CASE kind = "address" /\ os # "linux" -> [first : Outcomes, second : Outcomes, read : {TRUE}, save : {"done"}]
    [] kind = "account" /\ os = "macos" ->
         [first : Outcomes, second : {"ok", "fails"}, read : {TRUE}, save : {"done"}]
           \cup [first : {"ok"}, second : {"ok"}, read : BOOLEAN, save : {"done", "empty", "fails"}]
    [] OTHER -> [first : Outcomes, second : {"ok"}, read : {TRUE}, save : {"done"}]

CallTests ==
  /\ test = "calls"
  /\ \E os \in {"linux", "macos", "windows"}, kind \in {"address", "account", "pid", "pattern"}, legacy \in BOOLEAN,
        running \in SUBSET {"own", "foreign"} :
       \E undo \in [1..MaxCalls -> BOOLEAN], runs \in [1..MaxCalls -> Runs(os, kind)] :
         /\ legacy => kind = "address" /\ os # "linux"
         /\ CASE kind = "pattern" -> TRUE
              [] kind = "pid" -> Cardinality(running) <= 1
              [] OTHER -> running = {}
         /\ kind \in {"pid", "pattern"} => \A n \in 1..MaxCalls : ~undo[n]
         /\ input = [os |-> os, kind |-> kind, undo |-> undo, runs |-> runs,
                     host |-> [rules |-> 0, legacy |-> legacy, locked |-> FALSE, shell |-> "/bin/bash",
                               saved |-> A!None, running |-> running]]

ResponseTest == MessageTests \/ CallTests

----------------------------------------------------------------------------
(* A message of the server does what it says and nothing else: it executes or undoes as
   its flag says whatever the timeout, on the target it names (of several in a JSON command
   the first given, in a legacy command the last address and the first account), if the
   action is allowed under any of its names; whatever it names, the first two processes and the
   administrators are spared; and the manager is told of it under a name that stands for
   the same action (lib.rs, parse_ar_command, extract_action_name and emit_syslog_ack; the
   actions' execute and undo). *)
MessagesDoAsTheySay ==
  LET p == input.parameters
      json == input.format = "json"
      undo == input.suffix[1] = 1
      among(kind) == {n \in DOMAIN input.words : input.words[n][1] = kind}
      address == CASE json /\ p.srcip = "v4" -> {"v4"}
                   [] json /\ p.srcip # "v4" -> IF p.ip = "v6%zone" THEN {"v6"} ELSE {}
                   [] OTHER -> {input.words[n][2] : n \in {m \in among("ip") : \A k \in among("ip") : k <= m}}
      account == CASE json -> {IF p.user # A!None THEN p.user ELSE IF p.dstuser # A!None THEN p.dstuser ELSE "eve"}
                   [] OTHER -> {input.words[n][2] : n \in {m \in among("word") : \A k \in among("word") : m <= k}}
      process == CASE json /\ p.pid = 2 -> {<<"pid", 2>>}
                   [] json /\ p.pid \in {-1, A!MaxPid + 1} /\ p.kill_process_trigger = "p" -> {<<"pattern", "p">>}
                   [] OTHER -> {}
      can(names) == names \cap input.allowed # {}
      expected ==
        CASE input.base \in {"firewall-drop", "host-deny"} ->
               IF can({"block_ip", "firewall-drop"}) THEN {<<"block_ip", undo, t>> : t \in address} ELSE {}
          [] input.base = "disable-account" ->
               IF can({"disable_account", "disable-account"})
               THEN {<<"disable_account", undo, t>> : t \in account \ {"ROOT"}} ELSE {}
          [] input.base \in {"kill-process", "kill_process"} ->
               IF can({"kill_process"}) /\ ~undo THEN {<<"kill_process", FALSE, t>> : t \in process} ELSE {}
          [] OTHER -> {}
  IN  test = "message" =>
        /\ A!handled(input.allowed, input) = expected
        /\ \A h \in expected : A!canonical(A!emit_syslog_ack(h[1])) = h[1]

(* "Some manager builds ... elide the explicit `0` flag ... To handle every observed
   shape" (lib.rs, extract_action_name): a command with a timeout of two digits or more
   and no flag is executed. *)
ElidedIsExecuted ==
  test = "message" => \A t \in {<<1, 0>>, <<6, 0>>} : ~A!is_undo(A!elided(t))

----------------------------------------------------------------------------
(* What each platform calls to do and to undo each action, and the host after the call. *)
call(host, n) ==
  LET runs == input.runs[n]
      of == <<input.os, input.kind, input.undo[n]>>
  IN  CASE of = <<"linux", "address", FALSE>> -> A!iptables_block(host, runs)
        [] of = <<"linux", "address", TRUE>> -> A!iptables_unblock(host, runs)
        [] of = <<"macos", "address", FALSE>> -> A!pfctl_block(host, runs)
        [] of = <<"macos", "address", TRUE>> -> A!pfctl_unblock(host, runs)
        [] of = <<"windows", "address", FALSE>> -> A!netsh_block(host, runs)
        [] of = <<"windows", "address", TRUE>> -> A!netsh_unblock(host, runs)
        [] of = <<"linux", "account", FALSE>> -> A!passwd_disable(host, runs)
        [] of = <<"linux", "account", TRUE>> -> A!passwd_enable(host, runs)
        [] of = <<"macos", "account", FALSE>> -> A!dscl_disable(host, runs)
        [] of = <<"macos", "account", TRUE>> -> A!dscl_enable(host, runs)
        [] of = <<"windows", "account", FALSE>> -> A!net_user_disable(host, runs)
        [] of = <<"windows", "account", TRUE>> -> A!net_user_enable(host, runs)
        [] input.kind = "pid" -> IF input.os = "windows" THEN A!windows_kill(host, runs) ELSE A!unix_kill(host, runs)
        [] input.kind = "pattern" ->
             IF input.os = "windows" THEN A!windows_pkill(host, runs) ELSE A!unix_pkill(host, runs)

(* What an action reports is what has happened, whichever platform commands fail, except
   that a command killed at its time-out may have acted.  As many iptables rules are in
   force as blocks less unblocks are reported, give or take the commands killed since.  No
   rule is left that an unblock reports removed, neither under the present name nor under
   that of older builds, where neither deletion fails.  An account is as the last success
   left it, unless a later command was killed.  The login shell is in place or saved at all
   times, and in place when the account is enabled, unless it could not be saved or an
   account was enabled for which nothing was saved.  A process reported killed is gone, and
   so are those of a name that the agent may signal (firewall_drop.rs, disable_account.rs
   and kill_process.rs, the platform functions; executor.rs:113). *)
ReportsAreTrue ==
  LET after[n \in 0..MaxCalls] ==
        IF n = 0 THEN [success |-> TRUE, host |-> input.host] ELSE call(after[n - 1].host, n)
      done(n, undo) == {m \in 1..n : input.undo[m] = undo /\ after[m].success}
      late(n, undo) == {m \in 1..n : input.undo[m] = undo /\ input.runs[m].first = "late"}
      lost(n) == \E m \in 1..n :
                   IF input.undo[m] THEN input.runs[m].first # "fails" /\ after[m - 1].host.saved = A!None
                   ELSE input.runs[m].save # "done"
      address(n) ==
        IF input.os = "linux"
        THEN LET reported == Cardinality(done(n, FALSE)) - Cardinality(done(n, TRUE))
             IN  after[n].host.rules \in
                   (reported - Cardinality(late(n, TRUE)))..(reported + Cardinality(late(n, FALSE)))
        ELSE n \in done(n, TRUE) /\ input.runs[n].first = "ok" /\ input.runs[n].second = "ok"
               => after[n].host.rules = 0 /\ ~after[n].host.legacy
      shell(n) ==
        ~lost(n) => /\ "/bin/bash" \in {after[n].host.shell, after[n].host.saved}
                    /\ n \in done(n, TRUE) => after[n].host.shell = "/bin/bash"
      lock(n) ==
        \A m \in done(n, TRUE) \cup done(n, FALSE) :
          (\A k \in (m + 1)..n : ~after[k].success /\ input.runs[k].first # "late")
            => (after[n].host.locked <=> ~input.undo[m])
  IN  test = "calls" =>
        \A n \in 1..MaxCalls :
          CASE input.kind = "address" -> address(n)
            [] input.kind = "account" -> IF input.os = "macos" THEN shell(n) ELSE lock(n)
            [] input.kind = "pid" -> after[n].success => after[n].host.running = {}
            [] OTHER -> after[n].success => "own" \notin after[n].host.running

(* "the goal state (no matching process running) is reached in both cases"
   (kill_process.rs:91): after a successful kill by pattern no process of that name runs. *)
GoalStateReached ==
  test = "calls" /\ input.kind = "pattern" /\ call(input.host, 1).success => call(input.host, 1).host.running = {}

(* "Current-table delete failed (typically because the entry is not there)"
   (firewall_drop.rs:204): an unblock that is reported a success has removed the block. *)
UnblockRemoves ==
  LET after == call(input.host, 1).host
  IN  test = "calls" /\ input.kind = "address" /\ ~input.undo[1] /\ input.undo[2] /\ call(after, 2).success
        => input.os = "linux" \/ call(after, 2).host.rules = 0

(* "Undo/revert the action" (actions/mod.rs, ResponseAction::undo): where every command
   succeeds, an undo leaves an account with the shell it had, however often it is undone. *)
ShellSurvivesUndos ==
  LET after[n \in 0..MaxCalls] ==
        IF n = 0 THEN [success |-> TRUE, host |-> input.host] ELSE call(after[n - 1].host, n)
      sound == \A n \in 1..MaxCalls : input.runs[n] = [first |-> "ok", second |-> "ok", read |-> TRUE, save |-> "done"]
  IN  test = "calls" /\ input.os = "macos" /\ input.kind = "account" /\ sound =>
        \A n \in 1..MaxCalls : input.undo[n] => after[n].host.shell = "/bin/bash"
=============================================================================
