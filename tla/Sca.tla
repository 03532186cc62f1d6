--------------------------------- MODULE Sca ---------------------------------
(***************************************************************************)
(* The evaluation of policies by sda-sca: the files of a policy directory  *)
(* are loaded, and each check of each policy is evaluated in order.  A     *)
(* check carries what it will meet on the host, read in the order the code *)
(* reads it.  The timer that starts an evaluation is in ScanLoops.         *)
(***************************************************************************)
EXTENDS Integers, Sequences

None == "none"

CheckStatus == {"passed", "failed", "error"}

(* The parameters of a check: whether its path, process or command is given, *)
(* its pattern and exit code; and what it will meet: how looking for the     *)
(* file ends, its text, the process list or the output, the end of the       *)
(* command.                                                                  *)
CheckParams(ids, types, stats, texts, expected, outcomes) ==
  [id : ids, type : types, given : BOOLEAN, pattern : {None, "valid", "invalid"}, expected : expected,
   stat : stats, text : texts, outcome : outcomes]

ScaCheck(ids) ==
  CheckParams(ids, {"file", "process", "registry"}, {"found", "missing", "denied"},
              {"match", "other", "unreadable"}, {None}, {"0"})
    \cup CheckParams(ids, {"command"}, {"found"}, {"match", "other"}, {None, "1", "-1"},
                     {"0", "1", "signal", "timeout", "not executed"})

(* A pattern that does not compile, and what matching a text gives. *)
Searched(pattern, text) ==
  IF pattern = "invalid" \/ text = "unreadable" THEN "error"
  ELSE IF text = "match" THEN "passed" ELSE "failed"

(* Path::exists: a file that may not be looked at is taken for missing. *)
exists(c) == c.stat = "found"

(* Mutation: an unreadable file is one that does not match. *)
evaluate_file_check_Unread(c) ==
  IF ~c.given THEN "error"
  ELSE IF ~exists(c) THEN "failed"
  ELSE IF c.pattern = None THEN "passed"
  ELSE IF c.text = "unreadable" THEN "failed" ELSE Searched(c.pattern, c.text)

evaluate_file_check(c) ==
  IF ~c.given THEN "error"
  ELSE IF ~exists(c) THEN "failed"
  ELSE IF c.pattern = None THEN "passed"
  ELSE Searched(c.pattern, c.text)

(* A listing that cannot be had counts as no such process. *)
check_process_running(c) == c.text = "match"

evaluate_process_check(c) ==
  IF ~c.given THEN "error"
  ELSE IF check_process_running(c) THEN "passed" ELSE "failed"

(* A command killed by a signal has the exit code -1. *)
evaluate_command_check(c) ==
  LET expected == IF c.expected = None THEN "0" ELSE c.expected
      code == IF c.outcome = "signal" THEN "-1" ELSE c.outcome
  IN  IF ~c.given \/ c.outcome \in {"timeout", "not executed"} THEN "error"
      ELSE IF code # expected THEN "failed"
      ELSE IF c.pattern = None THEN "passed"
      ELSE Searched(c.pattern, c.text)

evaluate_check(c) ==
  CASE c.type = "file" -> evaluate_file_check(c)
    [] c.type = "process" -> evaluate_process_check(c)
    [] c.type = "command" -> evaluate_command_check(c)
    [] OTHER -> "error"

load_policy_file(f) == f.parses

(* The directory is read in any order; a file that does not parse is skipped. *)
load_policies_from_dir(files) ==
  {f \in files : f.extension \in {"yaml", "yml"} /\ load_policy_file(f)}

(* What is published for the checks of each policy, in their order.  The     *)
(* modules of the agent get every result; the server misses the ones that    *)
(* find its queue full (the places in full), and nobody is told of it.       *)
evaluate_all(policies, full) ==
  [p \in policies |->
     [n \in DOMAIN p.checks |-> [policy |-> p.id, check |-> p.checks[n].id,
                                 result |-> evaluate_check(p.checks[n]), server |-> <<p.id, n>> \notin full]]]
=============================================================================
