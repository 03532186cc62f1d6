---------------------------- MODULE DetectorTests ---------------------------
(***************************************************************************)
(* The detectors of the local detection engine against reference           *)
(* definitions: the events, indicators, files and times they are tested    *)
(* on, and what is expected of them.                                       *)
(***************************************************************************)
EXTENDS TestCase, Integers, Sequences, FiniteSets, TLC

CONSTANTS MaxEvents,    \* bound: events given to the behavioural engine
          MaxTokens,    \* bound: numbers, dots and spaces of a message
          MaxText,      \* bound: characters of a searched text
          MaxRules      \* bound: YARA rule files

B == INSTANCE Behavioral
D == INSTANCE Detectors

(* Events of two entities, the first one called e, one or two seconds apart, that three *)
(* rules look at; one to three are tracked.                                             *)
Rules == <<B!Threshold("logcollector", "x", 2, 3), B!Sequence("logcollector", <<"x", "y">>, 5),
           B!Threshold("logcollector", "y", 2, 1)>>
Thresholds == {1, 3}
MaxWindow == 2

BehavioralTests ==
  /\ test = "behavioral"
  /\ \E max \in {0, 2, 3}, n \in 1..MaxEvents :
       \E gap \in [1..n -> {1, 2}], entity \in [1..n -> {"e", "f"}], text \in [1..n -> {{"x"}, {"y"}, {"x", "y"}}] :
         entity[1] = "e" /\ input = [max |-> max, gap |-> gap, entity |-> entity, text |-> text]

Patterns == UNION {[1..n -> {"a", "b"}] : n \in 0..3}
Texts == UNION {[1..n -> {"a", "b"}] : n \in 1..MaxText}
StringTests == test = "strings" /\ \E p, q \in Patterns, t \in Texts : input = [patterns |-> <<p, q>>, text |-> t]

Digests == [digest : {1, 2}, case : {"lower", "upper"}]
HashTests ==
  /\ test = "hash"
  /\ \E hashes \in SUBSET Digests, others \in SUBSET {d \in Digests : d.case = "lower"}, parses \in BOOLEAN,
        at \in [D!Places -> {D!NoText, D!NoDigest} \cup Digests] :
       input = [hashes |-> hashes, others |-> others, payload |-> [parses |-> parses, at |-> at]]

(* The addresses that are indicators, of both kinds, and texts with either. *)
IPv4 == <<7, D!Dot, 7, D!Dot, 7, D!Dot, 7>>
IPv6 == <<7, D!Colon, D!Colon, 7>>
AddressTests ==
  /\ test = "address"
  /\ \/ \E n \in 1..MaxTokens : \E t \in [1..n -> {7, 256, D!Dot, D!Space}] :
          /\ \A i \in 1..(n - 1) : ~(D!is_number(t[i]) /\ D!is_number(t[i + 1]))
          /\ input = [text |-> t]
     \/ \E before, after \in {D!Space, D!Dot, D!Colon} : input = [text |-> <<before>> \o IPv6 \o <<after>>]

RuleFiles == [exists : BOOLEAN, parses : BOOLEAN, lasts : BOOLEAN, name : {1}]
YaraTests ==
  /\ test = "yara"
  /\ \E n \in 1..MaxRules, s \in {"intact", "damaged", "missing"} : \E f \in [1..n -> RuleFiles] :
       input = [files |-> [i \in 1..n |-> [f[i] EXCEPT !.name = i]], bundle |-> s]

(* The files scanned with the rules; the limit on their size is Cap. *)
Cap == 1
Targets == [exists : BOOLEAN, size : {Cap, Cap + 1}, scan : {"completes", "fails"}]

QuarantineTests ==
  /\ test = "quarantine"
  /\ \E c \in [{"quarantine", "block_ip", "kill_process"} -> BOOLEAN], s, t \in [{"create", "rename", "copy", "remove"} -> BOOLEAN] :
       input = [config |-> c, steps |-> <<s, t>>]

DetectorTest == BehavioralTests \/ StringTests \/ HashTests \/ AddressTests \/ YaraTests \/ QuarantineTests

----------------------------------------------------------------------------
(* The time of the n-th event, and the rules that match it. *)
time[n \in 0..MaxEvents] == IF n = 0 THEN 0 ELSE time[n - 1] + input.gap[n]

evaluations ==
  LET after[n \in 0..Len(input.text)] ==
        IF n = 0 THEN [engine |-> B!new(input.max, MaxWindow), out |-> {}]
        ELSE B!evaluate_at(after[n - 1].engine, Rules,
                           B!BehavioralEvent("logcollector", input.entity[n], input.text[n]), time[n])
  IN  after

(* The events up to the n-th that rule r counts with it: of the same entity, with the *)
(* text the rule looks for, within its window and the cap on windows.                  *)
span(r) == IF Rules[r].window_secs < MaxWindow THEN Rules[r].window_secs ELSE MaxWindow
counted(n, r) == {m \in 1..n : /\ input.entity[m] = input.entity[n] /\ Rules[r].contains \in input.text[m]
                               /\ time[n] - time[m] <= span(r)}

(* Those since the last match of the rule, and whether they are enough for another. *)
since(n, r) == {m \in counted(n, r) : \A k \in counted(n, r) : m <= k /\ k < n => r \notin evaluations[k].out}
due(n, r) == Rules[r].contains \in input.text[n] /\ Cardinality(since(n, r)) >= Rules[r].min_count

(* The rules and entities that the first n events gave the thresholds reason to track. *)
entries(n) == UNION {{<<r, input.entity[m]>> : r \in {q \in Thresholds : Rules[q].contains \in input.text[m]}} : m \in 1..n}

most == IF input.max = 0 THEN 1 ELSE input.max

(* A behavioural rule matches only on evidence, whatever was evicted: enough events of the
   entity since its last match for a threshold, the parts of the sequence in order for a
   sequence, within the window and the cap on windows.  A threshold misses nothing until
   the rules together have had more pairs of a rule and an entity to track than the cap:
   one rule's entities can cost another rule its count, but not before.  The state of
   each kind of rule never grows past the cap, which is at least one (behavioral.rs,
   evaluate_at and maybe_evict). *)
MatchesAreWarranted ==
  test = "behavioral" =>
    \A n \in 1..Len(input.text) :
      LET result == evaluations[n]
      IN  /\ \A r \in Thresholds : /\ r \in result.out => due(n, r)
                                   /\ due(n, r) /\ Cardinality(entries(n)) <= most => r \in result.out
          /\ 2 \in result.out => /\ "y" \in input.text[n]
                                /\ \E m \in 1..(n - 1) : /\ input.entity[m] = input.entity[n] /\ "x" \in input.text[m]
                                                         /\ time[n] - time[m] <= MaxWindow
          /\ Len(result.engine.threshold_state) <= most /\ Len(result.engine.sequence_state) <= most

(* "Maximum number of distinct entities (subjects) tracked by the behavioral engine."
   (sda-core/src/config.rs:414-415): where no more entities are seen than that, a threshold
   misses nothing. *)
EntitiesAreTracked ==
  test = "behavioral" =>
    \A n \in 1..Len(input.text), r \in Thresholds :
      due(n, r) /\ Cardinality({input.entity[m] : m \in 1..n}) <= most => r \in evaluations[n].out

(* "Fire when an ordered sequence of substrings all appear in a single entity's event
   stream within `window_secs`" (rule_store.rs): where no more entities are seen than are
   tracked, an event that completes the sequence within the window, none of whose parts
   belongs to an earlier match, is a match. *)
SequenceIsSeen ==
  test = "behavioral" /\ input.max = 2 =>
    \A n \in 1..Len(input.text) :
      /\ "y" \in input.text[n]
      /\ \E m \in 1..(n - 1) : /\ input.entity[m] = input.entity[n] /\ "x" \in input.text[m]
                               /\ time[n] - time[m] <= 2
                               /\ \A k \in m..(n - 1) : 2 \notin evaluations[k].out
      => 2 \in evaluations[n].out

(* The indicators of a test, and the addresses of a text that are found to be among them. *)
iocs == [strings |-> IF test = "strings" THEN input.patterns ELSE <<>>,
         hashes |-> IF test = "hash" THEN input.hashes ELSE {}, ips |-> {IPv4, IPv6}]
matcher == D!build(iocs, IF test = "hash" THEN input.others ELSE {})
looked_up == {ip \in D!extract_ipv4s(input.text) : D!match_ip(matcher, ip) # <<>>}

(* Where in a text something stands, and what is before and after it. *)
token(i) == IF i \in 1..Len(input.text) THEN input.text[i] ELSE D!Space
places(seq) == {i \in 1..Len(input.text) : D!occurs_at(seq, input.text, i)}

(* The places of a payload that hold a text, and whether it is a digest that is listed. *)
filled == {p \in D!Places : input.payload.at[p] # D!NoText}
listed(p) == \E h \in input.hashes : h.digest = input.payload.at[p].digest
digest_found == D!matches(matcher, <<>>, D!extract_sha256_from_syscheck(input.payload)) # <<>>

(* What is extracted from an event and is an indicator raises an alert, and nothing else
   does: of the strings that occur in a field at least one is reported, however they
   overlap; a digest is recognised in whatever case the rule and the event write it and
   whatever else the filter says yes to, where no other text stands in its stead; a
   dotted IPv4 address that stands by itself is found, while a piece of a longer dotted
   number is not (ioc_matcher.rs, matches and match_ip; lib.rs, extract_ipv4s and
   extract_sha256_from_syscheck). *)
IndicatorsAreNoticed ==
  LET found == D!matches(matcher, input.text, <<>>)
      continues(i) == token(i + 7) = D!Dot /\ D!is_number(token(i + 8))
      continued(i) == token(i - 1) = D!Dot /\ D!is_number(token(i - 2))
  IN  /\ test = "strings" =>
           /\ (\E p \in DOMAIN input.patterns : places(input.patterns[p]) # {}) => found # <<>>
           /\ \A i \in DOMAIN found : places(found[i][2]) # {}
      /\ test = "hash" =>
           /\ input.payload.parses /\ filled # {} /\ (\A p \in filled : listed(p)) => digest_found
           /\ digest_found => input.payload.parses /\ \E p \in filled : listed(p)
      /\ test = "address" =>
           /\ (\E i \in places(IPv4) : token(i - 1) = D!Space /\ ~continues(i)) => looked_up # {}
           /\ looked_up # {} => \E i \in places(IPv4) : ~continued(i) /\ ~continues(i)

(* "An IP-based IOC -- textual IPv4/IPv6 representation." (rule_store.rs:45): an address of
   either kind that stands by itself is noticed. *)
AddressesAreNoticed ==
  test = "address" =>
    \A ip \in {IPv4, IPv6} : (\E i \in places(ip) : token(i - 1) = D!Space /\ token(i + Len(ip)) = D!Space)
                               => looked_up # {}

(* "We accept a handful of common field names [...] and return the lower-cased 64-character
   hex string when found." (lib.rs:520-522): a digest under one of the names is returned. *)
DigestIsReturned ==
  test = "hash" /\ input.payload.parses /\ (\E p \in filled : input.payload.at[p] # D!NoDigest)
    => D!extract_sha256_from_syscheck(input.payload) # <<>>

(* "Match the provided event fields against all string IOCs" (ioc_matcher.rs): every
   string of the bundle that occurs in a field is reported. *)
EveryStringIsReported ==
  LET found == D!matches(matcher, input.text, <<>>)
  IN  test = "strings" =>
        \A p \in DOMAIN input.patterns : places(input.patterns[p]) # {} =>
                                            \E i \in DOMAIN found : found[i][2] = input.patterns[p]

(* One failure costs no more than itself: a rule file that is missing or does not parse
   costs no other file its rules, unless an accepted one has gone bad since or the bundle
   cannot be loaded, which costs them all, and a file that can be scanned is matched by
   the rules there are (lib.rs, load_initial_bundle; yara_scanner.rs, compile_rules and
   scan_file).  Whichever operations fail in two attempts at a quarantine, the file is
   whole in one of the two places, and the outcome says whether it is gone from its own
   (response.rs, quarantine_file).  And the registry that the other responses go through
   knows each of them exactly when the configuration allows it (response.rs, new and
   block_ip; actions/mod.rs, ActionRegistry). *)
OneFailureCostsNoOther ==
  LET files == input.files
      good == {f \in {files[i] : i \in DOMAIN files} : f.exists /\ f.parses}
      bad(n) == files[n].exists /\ ~files[n].parses
      lost == \E n \in DOMAIN files : bad(n) /\ \E m \in 1..(n - 1) : files[m] \in good /\ ~files[m].lasts
      once == D!quarantine(input.config, [source |-> TRUE, dest |-> D!None], input.steps[1])
      twice == D!quarantine(input.config, once.disk, input.steps[2])
      bundle == D!load_initial_bundle([state |-> input.bundle, bundle |-> [D!EmptyBundle EXCEPT !.yara_paths = files]])
      matching == {f \in {files[i] : i \in DOMAIN files} : f.name # 2}
      scanned(t) == D!scan_file(D!yara(bundle.yara_paths), t @@ [matching |-> matching], Cap)
  IN  /\ test = "yara" =>
           \A t \in Targets :
             scanned(t) = IF t.exists /\ t.size <= Cap /\ t.scan = "completes" /\ input.bundle = "intact" /\ ~lost
                          THEN good \cap matching ELSE {}
      /\ test = "quarantine" =>
           /\ \A a \in {"block_ip", "kill_process"} : D!respond(input.config, a, TRUE) = "executed" <=> input.config[a]
           /\ \A q \in {once, twice} : q.disk.source \/ q.disk.dest = "whole"
           /\ once.outcome = "executed" <=> ~once.disk.source
           /\ twice.outcome = "executed" <=> once.disk.source /\ ~twice.disk.source
=============================================================================
