------------------------------ MODULE Detectors -----------------------------
(***************************************************************************)
(* The stateless detectors of the local detection engine and its local     *)
(* responses: the indicators of compromise (ioc_matcher.rs), the addresses *)
(* and digests taken from an event (lib.rs), the YARA scanner              *)
(* (yara_scanner.rs), the rule bundle (rule_store.rs) and the quarantine   *)
(* (response.rs).                                                          *)
(***************************************************************************)
EXTENDS Integers, Sequences, SequencesExt

A == INSTANCE ResponseActions

None == "none"

----------------------------------------------------------------------------
(* rule_store.rs.  What is on disk is a bundle, damaged, or missing. *)

EmptyBundle == [version |-> 0, strings |-> <<>>, hashes |-> {}, ips |-> {}, behavioral |-> <<>>, yara_paths |-> <<>>]

load(file) == IF file.state = "intact" THEN [ok |-> TRUE, bundle |-> file.bundle] ELSE [ok |-> FALSE]

load_initial_bundle(file) == LET loaded == load(file) IN IF loaded.ok THEN loaded.bundle ELSE EmptyBundle

----------------------------------------------------------------------------
(* The Aho-Corasick automaton: a text and the patterns are sequences. *)

occurs_at(pattern, text, i) ==
  i + Len(pattern) - 1 <= Len(text) /\ SubSeq(text, i, i + Len(pattern) - 1) = pattern

(* The matches in text, leftmost first, the longest of those that begin at one place,
   each one after the end of the one before; pattern ids in order.  An empty pattern
   matches at every place where no other does and none has just ended. *)
find_iter(patterns, text) ==
  LET here(i) == {p \in DOMAIN patterns : occurs_at(patterns[p], text, i)}
      longest(i) == CHOOSE p \in here(i) :
                      \A q \in here(i) : \/ Len(patterns[q]) < Len(patterns[p])
                                         \/ Len(patterns[q]) = Len(patterns[p]) /\ p <= q
      from[i \in 1..(Len(text) + 2), ended \in BOOLEAN] ==
        IF i > Len(text) + 1 THEN <<>>
        ELSE IF here(i) = {} THEN from[i + 1, FALSE]
        ELSE IF patterns[longest(i)] = <<>> THEN (IF ended THEN <<>> ELSE <<longest(i)>>) \o from[i + 1, FALSE]
        ELSE <<longest(i)>> \o from[i + Len(patterns[longest(i)]), TRUE]
  IN  from[1, FALSE]

----------------------------------------------------------------------------
(* The indicators.  A digest is a number and the case it is written in. *)

to_ascii_lowercase(digest) == [digest EXCEPT !.case = "lower"]

(* A bloom filter says yes to all its members and to any other values. *)
build_bloom(set, others) == IF set = {} THEN None ELSE set \cup others

(* Mutation: the digests are listed as the rules write them. *)
build_AsWritten(iocs, others) ==
  [string_rules |-> iocs.strings, hash_set |-> iocs.hashes, ip_set |-> iocs.ips,
   hash_bloom |-> build_bloom(iocs.hashes, others), ip_bloom |-> build_bloom(iocs.ips, {})]

build(iocs, others) ==
  LET hash_set == {to_ascii_lowercase(h) : h \in iocs.hashes}
  IN  [string_rules |-> iocs.strings, hash_set |-> hash_set, ip_set |-> iocs.ips,
       hash_bloom |-> build_bloom(hash_set, {to_ascii_lowercase(d) : d \in others}),
       ip_bloom |-> build_bloom(iocs.ips, {})]

match_strings(matcher, text) ==
  LET found == find_iter(matcher.string_rules, text)
  IN  [i \in DOMAIN found |-> <<"string", matcher.string_rules[found[i]]>>]

match_hash(matcher, digest) ==
  LET key == to_ascii_lowercase(digest)
  IN  IF matcher.hash_set # {} /\ key \in matcher.hash_bloom /\ key \in matcher.hash_set
      THEN <<<<"hash", key>>>> ELSE <<>>

match_ip(matcher, ip) ==
  IF matcher.ip_set # {} /\ ip \in matcher.ip_bloom /\ ip \in matcher.ip_set
  THEN <<<<"ip", ip>>>> ELSE <<>>

matches(matcher, text, digest) ==
  match_strings(matcher, text) \o IF digest = <<>> THEN <<>> ELSE match_hash(matcher, digest[1])

----------------------------------------------------------------------------
(* What is taken from an event.  A message is a sequence of numbers, dots, spaces and
   colons; a syscheck payload has a text at each of some places, a digest or not. *)

Dot == -1
Space == -2
Colon == -3
is_number(token) == token >= 0

extract_ipv4s(text) ==
  LET number(i) == i <= Len(text) /\ is_number(text[i])
      dot(i) == i <= Len(text) /\ text[i] = Dot
      quad(i) == \A k \in 0..3 : number(i + 2 * k) /\ text[i + 2 * k] <= 255 /\ (k < 3 => dot(i + 2 * k + 1))
      followed_by_dot_digit(i) == dot(i) /\ number(i + 1)
      run_end[i \in 1..(Len(text) + 1)] == IF number(i) \/ dot(i) THEN run_end[i + 1] ELSE i
      from[i \in 1..(Len(text) + 1)] ==
        IF i > Len(text) THEN {}
        ELSE IF ~number(i) THEN from[i + 1]
        ELSE IF quad(i) /\ ~followed_by_dot_digit(i + 7) THEN {i} \cup from[i + 7]
        ELSE from[run_end[i]]
  IN  {SubSeq(text, i, i + 6) : i \in from[1]}

Places == {"top", "data", "attributes"}

NoText == [digest |-> 0, case |-> "lower"]
NoDigest == [digest |-> -1, case |-> "lower"]

(* The first place with a text decides, also when the text is no digest. *)
extract_sha256_from_syscheck(payload) ==
  LET found == SelectSeq(<<"top", "data", "attributes">>, LAMBDA p : payload.at[p] # NoText)
  IN  IF payload.parses /\ found # <<>> /\ payload.at[Head(found)] # NoDigest
      THEN <<to_ascii_lowercase(payload.at[Head(found)])>> ELSE <<>>

----------------------------------------------------------------------------
(* The YARA scanner.  A rule file exists or not, parses or not, and may go bad before it
   is added a second time. *)

(* Mutation: the compiler starts again without the rules it had. *)
rebuild_compiler_with_Nothing(accepted) == [ok |-> TRUE, rules |-> {}]

rebuild_compiler_with(accepted) ==
  IF \A f \in accepted : f.lasts THEN [ok |-> TRUE, rules |-> accepted] ELSE [ok |-> FALSE, rules |-> {}]

compile_rules(files) ==
  LET added[n \in 0..Len(files)] ==
        IF n = 0 THEN [ok |-> TRUE, rules |-> {}, accepted |-> {}]
        ELSE LET before == added[n - 1]
                 rebuilt == rebuild_compiler_with(before.accepted)
             IN  IF ~before.ok \/ ~files[n].exists THEN before
                 ELSE IF files[n].parses
                 THEN [before EXCEPT !.rules = @ \cup {files[n]}, !.accepted = @ \cup {files[n]}]
                 ELSE [before EXCEPT !.ok = rebuilt.ok, !.rules = rebuilt.rules]
  IN  added[Len(files)]

(* A scanner that cannot be built is replaced by one without rules. *)
yara(files) == LET compiled == compile_rules(files) IN IF compiled.ok THEN compiled.rules ELSE {}

(* The rules that match a file: none where there are no rules, where the file is gone or
   too large, or where the scan fails. *)
scan_file(rules, file, cap) ==
  IF rules = {} \/ ~file.exists \/ file.size > cap \/ file.scan = "fails" THEN {} ELSE rules \cap file.matching

----------------------------------------------------------------------------
(* The local responses.  A disk is what is at the path and in the quarantine; step says
   which of the file operations succeed. *)

quarantine_file(disk, step) ==
  CASE ~disk.source \/ ~step.create -> [ok |-> FALSE, disk |-> disk]
    [] disk.source /\ step.create /\ step.rename -> [ok |-> TRUE, disk |-> [source |-> FALSE, dest |-> "whole"]]
    [] OTHER -> IF ~step.copy THEN [ok |-> FALSE, disk |-> [disk EXCEPT !.dest = "part"]]
                ELSE [ok |-> step.remove, disk |-> [source |-> ~step.remove, dest |-> "whole"]]

quarantine(config, disk, step) ==
  IF ~config.quarantine THEN [outcome |-> "skipped", disk |-> disk]
  ELSE LET moved == quarantine_file(disk, step)
       IN  [outcome |-> IF moved.ok THEN "executed" ELSE "failed", disk |-> moved.disk]

allowed(config) == {a \in {"block_ip", "kill_process"} : config[a]}

(* Through the registry of the active responses, which may not know the action. *)
respond(config, action, succeeds) ==
  IF ~config[action] THEN "skipped"
  ELSE IF A!dispatches(allowed(config), action) /\ succeeds THEN "executed" ELSE "failed"
=============================================================================
