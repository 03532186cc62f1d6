-------------------------------- MODULE Power --------------------------------
(***************************************************************************)
(* The power profile (sda-pal/src/power.rs): how the power supplies and    *)
(* the idle time of the user are read, how a profile is derived from them  *)
(* and what it asks of the modules.                                        *)
(***************************************************************************)
EXTENDS Integers, Sequences

Absent == -1

----------------------------------------------------------------------------
(* Linux.  supplies lists the directory of power supplies in any order: a    *)
(* name, what the file online holds and what the file capacity holds, Absent   *)
(* where there is no such file; 300 stands for a text that does not parse.   *)

PowerState(online) == CASE online = 1 -> "AC" [] online = 0 -> "Battery" [] OTHER -> "Unknown"

(* The first of the sources that give an answer. *)
NoSource == [name |-> "none", online |-> Absent, capacity |-> Absent]
first(sources, answers) ==
  IF answers = {} THEN NoSource ELSE sources[CHOOSE i \in answers : \A j \in answers : i <= j]

(* The supply named AC is asked before the others. *)
linux_power_state(supplies) ==
  LET ac == first(supplies, {i \in DOMAIN supplies : supplies[i].name = "AC" /\ supplies[i].online # Absent})
      other == first(supplies, {i \in DOMAIN supplies : supplies[i].online \in {0, 1}})
  IN  PowerState(IF ac # NoSource THEN ac.online ELSE other.online)

linux_battery_percentage(supplies) ==
  first(supplies, {i \in DOMAIN supplies : supplies[i].capacity \in 0..255}).capacity

(* hint is Absent where the text is empty or no number. *)
parse_idle_since_hint(hint, now) ==
  CASE hint = Absent -> Absent [] hint = 0 -> 0 [] hint > now -> Absent [] OTHER -> now - hint

(* loginctl that is missing or fails gives no hint either. *)
linux_user_idle_duration(host) == parse_idle_since_hint(host.hint, host.now)

----------------------------------------------------------------------------
(* macOS.  A source has a state and a capacity. *)

macos_power_state(sources) ==
  PowerState(first(sources, {i \in DOMAIN sources : sources[i].online \in {0, 1}}).online)

macos_battery_percentage(sources) ==
  first(sources, {i \in DOMAIN sources : sources[i].capacity \in 0..100}).capacity

(* Absent where the time since the last event is no finite number. *)
macos_user_idle_duration(host) == host.idle

(* Windows.  Its tick counter wraps at 2^32, and 255 per cent is unknown. *)

windows_battery_percentage(percent) == IF percent = 255 THEN Absent ELSE percent

(* Mutation: the difference of two counters. *)
windows_user_idle_duration_Minus(now, dwTime, wrap) == IF now >= dwTime THEN now - dwTime ELSE 0

windows_user_idle_duration(now, dwTime, wrap) == (now - dwTime) % wrap

----------------------------------------------------------------------------
Profiles == {"Normal", "IdleAC", "BatteryActive", "BatteryIdle", "CriticalBattery"}

is_user_idle(duration, idle_threshold) == duration # Absent /\ duration >= idle_threshold

from_inputs(power, is_idle, battery_pct) ==
  CASE power = "Battery" /\ battery_pct # Absent /\ battery_pct < 10 -> "CriticalBattery"
    [] power = "Battery" /\ (battery_pct = Absent \/ battery_pct >= 10) -> IF is_idle THEN "BatteryIdle" ELSE "BatteryActive"
    [] OTHER -> IF is_idle THEN "IdleAC" ELSE "Normal"

(* The readings are made one after the other. *)
detect(host, idle_threshold) ==
  CASE host.os = "linux" ->
         from_inputs(linux_power_state(host.supplies),
                     is_user_idle(linux_user_idle_duration(host), idle_threshold),
                     linux_battery_percentage(host.supplies))
    [] host.os = "macos" ->
         from_inputs(macos_power_state(host.supplies), is_user_idle(macos_user_idle_duration(host), idle_threshold),
                     macos_battery_percentage(host.supplies))
    [] host.os = "windows" ->
         from_inputs(PowerState(host.line),
                     is_user_idle(windows_user_idle_duration(host.now, host.dwTime, host.wrap), idle_threshold),
                     windows_battery_percentage(host.percent))

(* What a profile asks for: the rate of FIM scans in quarters, and the       *)
(* interval of log batches and inventories in seconds.                       *)
fim_scan_rate(p) ==
  CASE p = "Normal" -> 4 [] p = "IdleAC" -> 8 [] p = "BatteryActive" -> 2
    [] p = "BatteryIdle" -> 1 [] p = "CriticalBattery" -> 0
log_batch_interval(p) ==
  CASE p = "Normal" -> 5 [] p = "IdleAC" -> 5 [] p = "BatteryActive" -> 10
    [] p = "BatteryIdle" -> 20 [] p = "CriticalBattery" -> 60
inventory_interval(p) ==
  CASE p = "Normal" -> 3600 [] p = "IdleAC" -> 3600 [] p = "BatteryActive" -> 14400
    [] p = "BatteryIdle" -> 28800 [] p = "CriticalBattery" -> 86400
sca_enabled(p) == p # "CriticalBattery"
=============================================================================
