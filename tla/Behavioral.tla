----------------------------- MODULE Behavioral ----------------------------
(***************************************************************************)
(* The behavioural rules of the local detection engine (behavioral.rs).    *)
(* The engine keeps, for each rule and entity, the times of the matching   *)
(* events (a threshold rule) or how much of the sequence has been seen (a  *)
(* sequence rule), in maps that keep their order of insertion and are cut  *)
(* from the front.  A text is the set of the substrings it contains; times *)
(* are in seconds.                                                         *)
(***************************************************************************)
EXTENDS Integers, Sequences, SequencesExt

Threshold(source, contains, min_count, window_secs) ==
  [kind |-> "threshold", event_source |-> source, contains |-> contains,
   min_count |-> min_count, window_secs |-> window_secs]

Sequence(source, sequence, window_secs) ==
  [kind |-> "sequence", event_source |-> source, sequence |-> sequence, window_secs |-> window_secs]

BehavioralEvent(source, entity, text) == [source |-> source, entity |-> entity, text |-> text]

atLeastOne(n) == IF n < 1 THEN 1 ELSE n

new(max_entities, max_window_sec) ==
  [threshold_state |-> <<>>, sequence_state |-> <<>>,
   max_entities |-> atLeastOne(max_entities), max_window |-> atLeastOne(max_window_sec)]

(* An insertion-ordered map is a sequence of entries with different keys. *)
lookup(map, key) == SelectInSeq(map, LAMBDA entry : entry.key = key)
shift_remove(map, key) == SelectSeq(map, LAMBDA entry : entry.key # key)

window(engine, rule) ==
  IF rule.window_secs < engine.max_window THEN rule.window_secs ELSE engine.max_window

maybe_evict(engine, map) ==
  IF Len(map) <= engine.max_entities THEN map ELSE SubSeq(map, Len(map) - engine.max_entities + 1, Len(map))

(* Mutation: an event that has just left the window still counts. *)
fell_out_Late(engine, rule, now, t) == now - t > window(engine, rule) + 1

fell_out(engine, rule, now, t) == now - t > window(engine, rule)

(* What a rule makes of an event: the engine after it, and whether it matched. *)
evaluate_threshold(engine, rule, key, event, now) ==
  LET at == lookup(engine.threshold_state, key)
      pushed == Append(IF at = 0 THEN <<>> ELSE engine.threshold_state[at].times, now)
      times == SelectSeq(pushed, LAMBDA t : ~fell_out(engine, rule, now, t))
      match == Len(times) >= rule.min_count
      entry == [key |-> key, times |-> IF match THEN <<>> ELSE times]
      map == IF at = 0 THEN Append(engine.threshold_state, entry)
                       ELSE [engine.threshold_state EXCEPT ![at] = entry]
  IN  IF rule.contains \in event.text
      THEN [engine |-> [engine EXCEPT !.threshold_state = maybe_evict(engine, map)], match |-> match]
      ELSE [engine |-> engine, match |-> FALSE]

evaluate_sequence(engine, rule, key, event, now) ==
  LET at == lookup(engine.sequence_state, key)
      fresh == [key |-> key, position |-> 0, started_at |-> now]
      found == IF at = 0 THEN fresh ELSE engine.sequence_state[at]
      state == IF fell_out(engine, rule, now, found.started_at) THEN fresh ELSE found
      advanced == [state EXCEPT !.position = @ + 1, !.started_at = IF state.position = 0 THEN now ELSE @]
      expected == rule.sequence[state.position + 1] \in event.text
      match == expected /\ advanced.position >= Len(rule.sequence)
      rest == shift_remove(engine.sequence_state, key)
      map == Append(rest, IF expected THEN advanced ELSE state)
  IN  IF rule.sequence = <<>> THEN [engine |-> engine, match |-> FALSE]
      ELSE [engine |-> [engine EXCEPT !.sequence_state = IF match THEN rest ELSE maybe_evict(engine, map)],
            match |-> match]

(* The rules in order; the indices of those that match are collected. *)
evaluate_at(engine, rules, event, now) ==
  LET evaluated[n \in 0..Len(rules)] ==
        IF n = 0 THEN [engine |-> engine, out |-> {}]
        ELSE LET before == evaluated[n - 1]
                 key == <<n, event.entity>>
                 result == IF rules[n].kind = "threshold"
                           THEN evaluate_threshold(before.engine, rules[n], key, event, now)
                           ELSE evaluate_sequence(before.engine, rules[n], key, event, now)
             IN  IF rules[n].event_source # event.source THEN before
                 ELSE [engine |-> result.engine, out |-> before.out \cup IF result.match THEN {n} ELSE {}]
  IN  evaluated[Len(rules)]
=============================================================================
