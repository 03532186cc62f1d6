-------------------------------- MODULE Timers --------------------------------
(***************************************************************************)
(* The periods of the agent's timers, from what is configured and from the *)
(* power profile, in seconds unless said otherwise.  A tokio interval of   *)
(* zero panics.  And the limit on the scans for YARA rules in a second     *)
(* (sda-local-detection, yara_scanner.rs).                                 *)
(***************************************************************************)
EXTENDS Power

atLeast(n, floor) == IF n > floor THEN n ELSE floor

Paused == 0

(* inventory and enhanced inventory *)
effective_ei_interval(configured, p) ==
  IF p = "CriticalBattery" THEN Paused ELSE atLeast(atLeast(configured, 1), inventory_interval(p))

(* In half seconds, so that the division is exact. *)
effective_scan_interval(base, p) ==
  IF fim_scan_rate(p) = 0 THEN Paused ELSE atLeast((8 * base) \div fim_scan_rate(p), 2)

(* Mutation: a small budget is rounded to none, which means no limit. *)
effective_hash_budget_Rounded(base, p) ==
  IF base = 0 THEN 0
  ELSE IF fim_scan_rate(p) = 0 THEN 1 ELSE (base * fim_scan_rate(p) + 2) \div 4

(* Zero is no limit; a share is rounded, halves upwards. *)
effective_hash_budget(base, p) ==
  IF base = 0 THEN 0
  ELSE IF fim_scan_rate(p) = 0 THEN 1 ELSE atLeast((base * fim_scan_rate(p) + 2) \div 4, 1)

effective_check_interval(check_interval) == atLeast(check_interval, 60)

rule_pull_period(rule_pull_interval) == atLeast(rule_pull_interval, 30)
offline_drain_period(offline_drain_interval) == atLeast(offline_drain_interval, 5)

(* Zero is no heartbeat. *)
spawn_watchdog(watchdog_interval_secs) ==
  IF watchdog_interval_secs = 0 THEN 0 ELSE atLeast(watchdog_interval_secs, 2) \div 2

----------------------------------------------------------------------------
(* The window of scans in a second, in ticks: second of them make one, and a *)
(* scan that has to wait waits for least of them.                            *)
RateWindow(limit, now) == [limit |-> IF limit < 1 THEN 1 ELSE limit, count |-> 0, window_started |-> now]

consume_or_wait(rate, now, second, least) ==
  LET fresh == now - rate.window_started >= second
      current == IF fresh THEN [limit |-> rate.limit, count |-> 0, window_started |-> now] ELSE rate
  IN  IF current.count < current.limit
      THEN [rate |-> [current EXCEPT !.count = @ + 1], wait |-> 0]
      ELSE [rate |-> current, wait |-> atLeast(second - (now - current.window_started), least)]

reset(rate, now) == [limit |-> rate.limit, count |-> 1, window_started |-> now]

(* The time a scan asked for at now begins. *)
rate_limited(rate, now, second, least) ==
  LET asked == consume_or_wait(rate, now, second, least)
  IN  IF asked.wait = 0 THEN [rate |-> asked.rate, at |-> now]
      ELSE [rate |-> reset(asked.rate, now + asked.wait), at |-> now + asked.wait]
=============================================================================
