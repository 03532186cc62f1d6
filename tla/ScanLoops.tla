------------------------------ MODULE ScanLoops ------------------------------
(***************************************************************************)
(* The modules that scan on a timer (inventory, sca and rootcheck), the    *)
(* task that polls the power state, and the two watch channels between     *)
(* them: the power profile, and the shutdown signal that ends them all.    *)
(*                                                                         *)
(* A select! polls its branches in order: a loop that has passed the       *)
(* shutdown and the power branch and is about to poll its timer has        *)
(* pc "tick", and what it has passed can change before it gets there.      *)
(* Time is counted in hours, the unit of the inventory intervals; the      *)
(* power state is polled every 30 seconds, that is any number of times in  *)
(* an hour.                                                                *)
(***************************************************************************)
EXTENDS Naturals, FiniteSets, Power

CONSTANTS
  Configurations,  \* the sets of modules a configuration enables
  Occurring,   \* the profiles that detect returns
  configured,  \* the interval of each loop in hours
  None         \* no timer

Loops == {"inventory", "sca", "rootcheck"}

ASSUME LoopsAssumption ==
  /\ Configurations \subseteq SUBSET Loops
  /\ Occurring \subseteq Profiles
  /\ configured \in [Loops -> Nat]
  /\ None \notin Nat

VARIABLES
  enabled,           \* the modules this configuration enables
  shutdown,          \* the value of the shutdown channel
  power,             \* the profile the power state calls for
  profile,           \* the value of the power channel
  poller,            \* the poll task: off, wait, or what it detected
  pc, cur, seen, timer,  \* the loops: where they are, current_profile, whether
                     \* they have seen the channel's value, hours to the tick
  late               \* collections started although the channel said pause

loopVars == <<enabled, shutdown, power, profile, poller, pc, cur, seen, timer, late>>

Receivers == Loops \ {"rootcheck"}

----------------------------------------------------------------------------
(* What the loops have in common *)

(* Whether a module may scan under a profile; rootcheck takes no notice. *)
allowed(l, p) ==
  CASE l = "inventory" -> p # "CriticalBattery"
    [] l = "sca" -> sca_enabled(p)
    [] l = "rootcheck" -> TRUE

atLeastOne(n) == IF n = 0 THEN 1 ELSE n

Goto(l, where) == pc' = [pc EXCEPT ![l] = where]
Arm(l, hours) == timer' = [timer EXCEPT ![l] = hours]

(* The start of a collection, noted when the channel says that none should. *)
Collect(l, where) ==
  /\ Goto(l, where)
  /\ late' = IF allowed(l, profile) THEN late
             ELSE [late EXCEPT ![l] = IF @ < 2 THEN @ + 1 ELSE @]

(* shutdown.wait() *)
SeeShutdown(l) ==
  /\ pc[l] = "select" /\ shutdown
  /\ Goto(l, "stopped")
  /\ UNCHANGED <<enabled, shutdown, power, profile, poller, cur, seen, timer, late>>

(* Mutation: the timer is polled before the power channel. *)
PollTimer_Unbiased(l) ==
  /\ pc[l] = "select" /\ ~shutdown /\ timer[l] = 0
  /\ Goto(l, "tick")
  /\ UNCHANGED <<enabled, shutdown, power, profile, poller, cur, seen, timer, late>>

(* Neither branch before it is ready: the timer is polled.  With the sender  *)
(* gone, changed() is ready at once and its branch goes on, for good.        *)
PollTimer(l) ==
  /\ pc[l] = "select" /\ ~shutdown /\ seen[l] /\ timer[l] = 0
  /\ l \in Receivers => poller # "off"
  /\ Goto(l, "tick")
  /\ UNCHANGED <<enabled, shutdown, power, profile, poller, cur, seen, timer, late>>

EndCollect(l) ==
  /\ pc[l] = "collect"
  /\ Goto(l, "select")
  /\ UNCHANGED <<enabled, shutdown, power, profile, poller, cur, seen, timer, late>>

----------------------------------------------------------------------------
(* sda-inventory: no timer while the battery is critical; any other change   *)
(* of the profile starts it again from a full interval.  The first tick of a *)
(* timer comes at once and is consumed.                                      *)

effective_inventory_interval(p) ==
  IF p = "CriticalBattery" THEN None
  ELSE LET h == inventory_interval(p) \div 3600
       IN  IF configured["inventory"] > h THEN configured["inventory"] ELSE h

rebuild_inventory_timer(p) == Arm("inventory", effective_inventory_interval(p))

(* run up to the initial collection, and from there to the loop. *)
InventoryBegin ==
  /\ pc["inventory"] = "start"
  /\ cur' = [cur EXCEPT !["inventory"] = profile]
  /\ IF profile # "CriticalBattery"
     THEN Collect("inventory", "first") /\ UNCHANGED timer
     ELSE Goto("inventory", "select") /\ rebuild_inventory_timer(profile) /\ UNCHANGED late
  /\ UNCHANGED <<enabled, shutdown, power, profile, poller, seen>>
InventoryEnter ==
  /\ pc["inventory"] = "first"
  /\ Goto("inventory", "select")
  /\ rebuild_inventory_timer(cur["inventory"])
  /\ UNCHANGED <<enabled, shutdown, power, profile, poller, cur, seen, late>>

(* Mutation: the timer is dropped for a critical battery and never rebuilt. *)
InventoryPower_NoRebuild ==
  /\ pc["inventory"] = "select" /\ ~shutdown /\ ~seen["inventory"]
  /\ seen' = [seen EXCEPT !["inventory"] = TRUE]
  /\ cur' = [cur EXCEPT !["inventory"] = profile]
  /\ IF profile = "CriticalBattery" THEN rebuild_inventory_timer(profile) ELSE UNCHANGED timer
  /\ UNCHANGED <<enabled, shutdown, power, profile, poller, pc, late>>

InventoryPower ==
  /\ pc["inventory"] = "select" /\ ~shutdown /\ ~seen["inventory"]
  /\ seen' = [seen EXCEPT !["inventory"] = TRUE]
  /\ cur' = [cur EXCEPT !["inventory"] = profile]
  /\ IF profile # cur["inventory"] THEN rebuild_inventory_timer(profile) ELSE UNCHANGED timer
  /\ UNCHANGED <<enabled, shutdown, power, profile, poller, pc, late>>

InventoryTick ==
  /\ pc["inventory"] = "tick"
  /\ rebuild_inventory_timer(cur["inventory"])
  /\ Collect("inventory", "collect")
  /\ UNCHANGED <<enabled, shutdown, power, profile, poller, cur, seen>>

----------------------------------------------------------------------------
(* sda-sca: the timer keeps ticking, and a tick under a profile without SCA  *)
(* is skipped.                                                               *)

ScaTimer == Arm("sca", atLeastOne(configured["sca"]))

ScaBegin ==
  /\ pc["sca"] = "start"
  /\ cur' = [cur EXCEPT !["sca"] = profile]
  /\ IF sca_enabled(profile)
     THEN Collect("sca", "first") /\ UNCHANGED timer
     ELSE Goto("sca", "select") /\ ScaTimer /\ UNCHANGED late
  /\ UNCHANGED <<enabled, shutdown, power, profile, poller, seen>>
ScaEnter ==
  /\ pc["sca"] = "first"
  /\ Goto("sca", "select") /\ ScaTimer
  /\ UNCHANGED <<enabled, shutdown, power, profile, poller, cur, seen, late>>

ScaPower ==
  /\ pc["sca"] = "select" /\ ~shutdown /\ ~seen["sca"]
  /\ seen' = [seen EXCEPT !["sca"] = TRUE]
  /\ cur' = [cur EXCEPT !["sca"] = profile]
  /\ UNCHANGED <<enabled, shutdown, power, profile, poller, pc, timer, late>>

ScaTick ==
  /\ pc["sca"] = "tick"
  /\ ScaTimer
  /\ IF sca_enabled(cur["sca"]) THEN Collect("sca", "collect")
     ELSE Goto("sca", "select") /\ UNCHANGED late
  /\ UNCHANGED <<enabled, shutdown, power, profile, poller, cur, seen>>

----------------------------------------------------------------------------
(* sda-rootcheck: a sweep at the start and on every tick. *)

RootcheckTimer == Arm("rootcheck", atLeastOne(configured["rootcheck"]))

RootcheckBegin ==
  /\ pc["rootcheck"] = "start"
  /\ Collect("rootcheck", "first")
  /\ UNCHANGED <<enabled, shutdown, power, profile, poller, cur, seen, timer>>
RootcheckEnter ==
  /\ pc["rootcheck"] = "first"
  /\ Goto("rootcheck", "select") /\ RootcheckTimer
  /\ UNCHANGED <<enabled, shutdown, power, profile, poller, cur, seen, late>>

RootcheckTick ==
  /\ pc["rootcheck"] = "tick"
  /\ RootcheckTimer
  /\ Collect("rootcheck", "collect")
  /\ UNCHANGED <<enabled, shutdown, power, profile, poller, cur, seen>>

----------------------------------------------------------------------------
(* spawn_power_profile_task: the profile is detected on the blocking pool    *)
(* and sent whether it has changed or not.                                   *)

Detect ==
  /\ poller = "wait" /\ ~shutdown
  /\ poller' \in {power, profile}   \* profile: the detection panicked
  /\ UNCHANGED <<enabled, shutdown, power, profile, pc, cur, seen, timer, late>>

Send ==
  /\ poller \in Profiles
  /\ poller' = "wait"
  /\ profile' = poller
  /\ seen' = [l \in Loops |-> l \notin Receivers]
  /\ late' = [l \in Loops |-> IF allowed(l, poller) THEN 0 ELSE late[l]]
  /\ UNCHANGED <<enabled, shutdown, power, pc, cur, timer>>

PollerStops ==
  /\ poller = "wait" /\ shutdown
  /\ poller' = "off"
  /\ UNCHANGED <<enabled, shutdown, power, profile, pc, cur, seen, timer, late>>

(* The environment: the power state, and time. *)
PowerShifts ==
  /\ power' \in Occurring \ {power}
  /\ UNCHANGED <<enabled, shutdown, profile, poller, pc, cur, seen, timer, late>>

Hour ==
  /\ \E l \in Loops : timer[l] \notin {None, 0}
  /\ timer' = [l \in Loops |-> IF timer[l] \in {None, 0} THEN timer[l] ELSE timer[l] - 1]
  /\ UNCHANGED <<enabled, shutdown, power, profile, poller, pc, cur, seen, late>>

----------------------------------------------------------------------------
Inventory == InventoryBegin \/ InventoryPower \/ InventoryTick
Sca == ScaBegin \/ ScaPower \/ ScaTick
Rootcheck == RootcheckBegin \/ RootcheckTick

(* The end of a collection. *)
Finish == InventoryEnter \/ ScaEnter \/ RootcheckEnter \/ \E l \in Loops : EndCollect(l)
PollerStep == Detect \/ Send \/ PollerStops
LoopsStep ==
  \/ Inventory \/ Sca \/ Rootcheck \/ Finish
  \/ \E l \in Loops : SeeShutdown(l) \/ PollTimer(l)
  \/ PollerStep \/ PowerShifts \/ Hour

(* The loops of a process that does not run. *)
LoopsOff ==
  /\ pc = [l \in Loops |-> "off"] /\ timer = [l \in Loops |-> None]
  /\ cur = [l \in Loops |-> "Normal"] /\ seen = [l \in Loops |-> TRUE] /\ late = [l \in Loops |-> 0]
  /\ shutdown = FALSE /\ poller = "off" /\ profile = "Normal"

LoopsGone ==
  /\ pc' = [l \in Loops |-> "off"] /\ timer' = [l \in Loops |-> None]
  /\ cur' = [l \in Loops |-> "Normal"] /\ seen' = [l \in Loops |-> TRUE] /\ late' = [l \in Loops |-> 0]
  /\ shutdown' = FALSE /\ poller' = "off" /\ profile' = "Normal"
  /\ UNCHANGED <<enabled, power>>

(* What main creates: the channel holds Normal, the tasks are spawned. *)
LoopsSpawned ==
  /\ pc' = [l \in Loops |-> IF l \in enabled THEN "start" ELSE "off"]
  /\ poller' = "wait"
  /\ UNCHANGED <<enabled, shutdown, power, profile, cur, seen, timer, late>>
=============================================================================
