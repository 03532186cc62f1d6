------------------------------ MODULE PaceTests ------------------------------
(***************************************************************************)
(* The operators that pace the modules, against reference definitions: the *)
(* power profile (Power), the timers it throttles and the rate of YARA     *)
(* scans (Timers).  A state is one test: what is tested, and the input.    *)
(* Scans follow one another: the input of that test grows by steps.        *)
(***************************************************************************)
EXTENDS TestCase, Integers, Sequences, Functions

CONSTANTS IdleTime,      \* the time after which a user is idle
          Width,          \* bound: the bits of a tick counter
          MaxConfigured,  \* bound: configured intervals and rates
          Limits,         \* the limits on scans in a second that are configured
          Second,         \* the ticks of a second
          LeastWait,      \* the ticks a scan over the limit waits for at least
          MaxGap,         \* bound: ticks between a scan and the next that is asked for
          MaxScans        \* bound: scans asked for in a row

T == INSTANCE Timers

ASSUME PaceAssumption ==
  /\ IdleTime \in Nat \ {0} /\ Width \in Nat /\ MaxConfigured \in Nat
  /\ Limits \subseteq Nat /\ Second \in Nat \ {0} /\ LeastWait \in 1..Second
  /\ MaxGap \in Nat /\ MaxScans \in Nat

----------------------------------------------------------------------------
(* A mains supply, a battery and perhaps something else, listed in any order. *)
Mains == [name : {"AC", "ADP1"}, online : {0, 1}, capacity : {T!Absent}]
Batteries == [name : {"BAT0"}, online : {T!Absent}, capacity : {9, 10, 300}]
Others == [name : {"other"}, online : {T!Absent, 2}, capacity : {T!Absent, 300}]
Listings == UNION {{<<m, b>>, <<b, m>>, <<o, m, b>>, <<b, o, m>>, <<m, o, b>>, <<o, b, m>>} :
                     m \in Mains, b \in Batteries, o \in Others}

PowerTests ==
  /\ test = "power"
  /\ \/ \E l \in Listings, h \in {T!Absent, 0, 1, 6 - IdleTime, 5 - IdleTime, 6} :
          input = [os |-> "linux", supplies |-> l, hint |-> h, now |-> 5]
     \/ \E l \in Listings, i \in {T!Absent, 0, IdleTime - 1, IdleTime} : input = [os |-> "macos", supplies |-> l, idle |-> i]
     \/ \E line \in {0, 1, 255}, percent \in {9, 10, 255}, at, elapsed \in 0..(2 ^ Width - 1) :
          input = [os |-> "windows", line |-> line, percent |-> percent, wrap |-> 2 ^ Width,
                   dwTime |-> at, now |-> (at + elapsed) % 2 ^ Width, elapsed |-> elapsed]

TimerTests == test = "timer" /\ \E n \in 0..MaxConfigured : input = [configured |-> n]

----------------------------------------------------------------------------
(* Scans asked for one after the other: the times they began,               *)
(* the time the last was asked for, and the window they are counted in.      *)

RateTests ==
  test = "rate" /\ \E limit \in Limits :
    input = [limit |-> limit, began |-> <<>>, asked |-> 0, at |-> 0, rate |-> T!RateWindow(limit, 0)]

Scan ==
  /\ test = "rate" /\ UNCHANGED test
  /\ Len(input.began) < MaxScans
  /\ \E gap \in 0..MaxGap :
       LET scan == T!rate_limited(input.rate, input.at + gap, Second, LeastWait)
       IN  input' = [limit |-> input.limit, began |-> Append(input.began, scan.at),
                     asked |-> input.at + gap, at |-> scan.at, rate |-> scan.rate]

----------------------------------------------------------------------------
PaceTest == PowerTests \/ TimerTests \/ RateTests

PaceSpec == PaceTest /\ [][Scan]_<<test, input>>

(* On a host with one mains supply and one battery the profile is the one the state of
   both calls for, in whatever order they are listed; and the idle time of the user is
   the time since the last input, also where the tick counter has wrapped (power.rs,
   detect). *)
ProfileFitsTheHost ==
  LET mains == CHOOSE m \in Range(input.supplies) : m.online \in {0, 1}
      battery == CHOOSE b \in Range(input.supplies) : b.name = "BAT0"
      onBattery == IF input.os = "windows" THEN input.line = 0 ELSE mains.online = 0
      percent == IF input.os = "windows" THEN input.percent ELSE battery.capacity
      idle == CASE input.os = "linux" -> input.hint \in 1..(input.now - IdleTime)
                [] input.os = "macos" -> input.idle >= IdleTime
                [] input.os = "windows" -> input.elapsed >= IdleTime
  IN  test = "power" =>
        T!detect(input, IdleTime) = CASE ~onBattery -> IF idle THEN "IdleAC" ELSE "Normal"
                                       [] onBattery /\ percent < 10 -> "CriticalBattery"
                                       [] OTHER -> IF idle THEN "BatteryIdle" ELSE "BatteryActive"

(* The periods of the timers for any configured number, from the least throttled profile
   to the most throttled one that does not pause. *)
TimersAreBounded ==
  LET c == input.configured
      slower == <<"IdleAC", "Normal", "BatteryActive", "BatteryIdle">>
      ordered(period(_, _)) == \A i, j \in 1..4 : i < j => period(c, slower[i]) <= period(c, slower[j])
      fewer(budget(_, _)) == \A i, j \in 1..4 : i < j => budget(c, slower[j]) <= budget(c, slower[i])
      running == T!Profiles \ {"CriticalBattery"}
      watchdog == T!spawn_watchdog(c)
  IN  test = "timer" =>
        /\ \A p \in running : T!effective_ei_interval(c, p) >= 1 /\ T!effective_scan_interval(c, p) >= 2
        /\ \A n \in {T!effective_check_interval(c), T!rule_pull_period(c), T!offline_drain_period(c)} : n >= 1
        /\ ordered(T!effective_ei_interval) /\ ordered(T!effective_scan_interval) /\ fewer(T!effective_hash_budget)
        /\ \A i, j \in 1..4 : i < j => T!log_batch_interval(slower[i]) <= T!log_batch_interval(slower[j])
        /\ \A p \in T!Profiles : T!effective_hash_budget(c, p) = 0 <=> c = 0
        /\ c > 0 => watchdog >= 1 /\ (2 * watchdog <= c \/ c = 1)

(* After any scan, the one that is twice the limit later begins a second later at the
   earliest; and the last scan did not wait longer than a second. *)
ScansAreRated ==
  LET burst == 2 * IF input.limit = 0 THEN 1 ELSE input.limit
  IN  test = "rate" =>
        /\ \A n \in DOMAIN input.began : n + burst \in DOMAIN input.began =>
             input.began[n + burst] >= input.began[n] + Second
        /\ input.at <= input.asked + Second

(* No timer is ever built with a period of zero, whatever is configured; on a battery
   nothing runs more often than on mains power, and a throttled budget of hashes never
   becomes zero, which would lift the limit; the watchdog is notified in time (the
   functions of Timers).  The keepalive is the exception: its interval may be zero.  And
   however scans for YARA rules are asked for, one after the other, no more than twice the
   limit begin in any second, and none waits longer than a second (yara_scanner.rs,
   consume_or_wait and reset).  Twice, because the window is not a sliding one: the last
   scans of a window and the first of the next may all begin at its end. *)
LimitsHold == TimersAreBounded /\ ScansAreRated

(* "Upper bound on YARA scans per second." (sda-core/src/config.rs:401, of the limit) *)
ScansWithinLimit ==
  LET limit == IF input.limit = 0 THEN 1 ELSE input.limit
  IN  test = "rate" => \A n \in DOMAIN input.began : n + limit \in DOMAIN input.began =>
                         input.began[n + limit] >= input.began[n] + Second
=============================================================================
