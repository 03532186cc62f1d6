------------------------- MODULE EnhancedInventory --------------------------
(***************************************************************************)
(* The run loop of sda-enhanced-inventory: the running-software deltas of  *)
(* RunningSoftware, and full snapshots of the browser extensions and of    *)
(* the bill of materials, on three timers, by request of the manager and   *)
(* under the power profile.                                                *)
(*                                                                         *)
(* Time is counted in hours, the unit of the intervals of a profile; a     *)
(* scan takes less than one.  What a snapshot holds is abstracted to       *)
(* whether the software has changed, or the manager has asked, since it    *)
(* was collected.                                                          *)
(***************************************************************************)
EXTENDS RunningSoftware, Power, FiniteSetsExt

CONSTANTS
  Configurations,  \* the sets of scanners enabled
  configured,      \* the interval of each scanner in hours
  Occurring,       \* the profiles that occur
  MaxShifts,       \* bound: changes of the profile
  MaxInstalls,     \* bound: changes of the software installed
  MaxRequests      \* bound: requests for a bill of materials

Scanners == {"running_software", "browser_extensions", "sbom"}
Snapshots == {"browser_extensions", "sbom"}
NoTimer == -1

ASSUME EnhancedInventoryAssumption ==
  /\ Configurations \subseteq SUBSET Scanners
  /\ configured \in [Scanners -> Nat \ {0}]
  /\ Occurring \subseteq Profiles
  /\ MaxShifts \in Nat /\ MaxInstalls \in Nat /\ MaxRequests \in Nat

VARIABLES
  enabled, on_demand,       \* the configuration
  profile, seen,            \* the power channel, and whether the loop has its value
  current_profile,
  job,                      \* "select", the scan in progress, or "stopped"
  startup,                  \* the next of the first scans, 4 in the loop
  timer,                    \* hours to the tick
  commands,                 \* requests waiting in bus_rx
  found,                    \* the snapshot in progress: none yet, current, or stale
  fresh,                    \* the manager's snapshots are
  stop,                     \* the shutdown signal
  shifts, installs, requests

config == <<enabled, on_demand>>
power == <<profile, seen, current_profile>>
bounds == <<shifts, installs, requests>>
vars == <<softwareVars, config, power, job, startup, timer, commands, found, fresh, stop, bounds>>

order == <<"running_software", "browser_extensions", "sbom">>

TypeOK ==
  /\ RunningTypeOK
  /\ enabled \in SUBSET Scanners /\ profile \in Profiles /\ current_profile \in Profiles
  /\ on_demand \in BOOLEAN /\ seen \in BOOLEAN /\ found \in {"none", "current", "stale"} /\ stop \in BOOLEAN
  /\ job \in Scanners \cup {"select", "stopped"} /\ startup \in 0..4
  /\ timer \in [Scanners -> {NoTimer} \cup Nat] /\ fresh \in [Snapshots -> BOOLEAN]
  /\ requests \in 0..MaxRequests /\ commands \in 0..requests
  /\ shifts \in 0..MaxShifts /\ installs \in 0..MaxInstalls

-----------------------------------------------------------------------------
effective_ei_interval(s, p) ==
  IF p = "CriticalBattery" THEN NoTimer ELSE Max({configured[s], inventory_interval(p) \div 3600})

(* Mutation: a timer that was dropped stays away. *)
rebuild_ei_timers_Kept(p) ==
  timer' = [s \in Scanners |-> IF s \in enabled /\ (timer[s] # NoTimer \/ startup < 4)
                               THEN effective_ei_interval(s, p) ELSE NoTimer]

(* The three timers; the first tick of each comes at once and is consumed. *)
rebuild_ei_timers(p) ==
  timer' = [s \in Scanners |-> IF s \in enabled THEN effective_ei_interval(s, p) ELSE NoTimer]

Init ==
  /\ RunningInit
  /\ enabled \in Configurations /\ on_demand \in BOOLEAN
  /\ profile \in Occurring /\ current_profile = profile /\ seen = TRUE
  /\ startup = 1 /\ job = "select"
  /\ timer = [s \in Scanners |-> NoTimer]
  /\ commands = 0 /\ found = "none" /\ fresh = [s \in Snapshots |-> FALSE]
  /\ stop = FALSE /\ shifts = 0 /\ installs = 0 /\ requests = 0

(* The first scans, one after the other, unless the battery was critical when run began.
   The timers are built when the last of them is over. *)
Start ==
  /\ job = "select" /\ startup \in 1..3
  /\ startup' = startup + 1
  /\ job' = IF order[startup] \in enabled /\ current_profile # "CriticalBattery" THEN order[startup] ELSE job
  /\ IF startup = 3 THEN rebuild_ei_timers(current_profile) ELSE UNCHANGED timer
  /\ UNCHANGED <<softwareVars, config, power, commands, found, fresh, stop, bounds>>

-----------------------------------------------------------------------------
(* The scans *)

Return == job' = "select"

run_running_software_tick ==
  /\ job = "running_software"
  /\ \/ Tick /\ UNCHANGED job
     \/ (Publish \/ PublishFails) /\ Return
  /\ UNCHANGED <<config, power, startup, timer, commands, found, fresh, stop, bounds>>

(* A full snapshot is collected, ... *)
Enumerate ==
  /\ job \in Snapshots /\ found = "none"
  /\ found' = "current"
  /\ UNCHANGED <<softwareVars, config, power, job, startup, timer, commands, fresh, stop, bounds>>

(* ... and published. *)
publish_update ==
  /\ job \in Snapshots /\ found # "none"
  /\ fresh' = [fresh EXCEPT ![job] = found = "current"]
  /\ Return /\ found' = "none"
  /\ UNCHANGED <<softwareVars, config, power, startup, timer, commands, stop, bounds>>

(* The collecting thread panics, or the server channel is full, which the scans of
   snapshots ignore. *)
ScanFails ==
  /\ job \in Snapshots \/ (job = "running_software" /\ pc = "idle")
  /\ refusals < MaxRefusals /\ refusals' = refusals + 1
  /\ Return /\ found' = "none"
  /\ UNCHANGED <<running, pc, current, baseline_sent, previous, view, starts,
                 config, power, startup, timer, commands, fresh, stop, bounds>>

-----------------------------------------------------------------------------
(* The branches of select!, each when those before it are not ready *)

InLoop == job = "select" /\ startup = 4
quiet == ~stop /\ seen
due(s) == timer[s] = 0

ReceiveShutdown ==
  /\ InLoop /\ stop
  /\ job' = "stopped"
  /\ UNCHANGED <<softwareVars, config, power, startup, timer, commands, found, fresh, stop, bounds>>

PowerChanged ==
  /\ InLoop /\ ~stop /\ ~seen
  /\ seen' = TRUE /\ current_profile' = profile
  /\ IF profile # current_profile THEN rebuild_ei_timers(profile) ELSE UNCHANGED timer
  /\ UNCHANGED <<softwareVars, config, profile, job, startup, commands, found, fresh, stop, bounds>>

(* The first of the timers that are due. *)
tick_ei_timer ==
  /\ InLoop /\ quiet
  /\ \E n \in DOMAIN order :
       /\ due(order[n]) /\ \A m \in 1..(n - 1) : ~due(order[m])
       /\ job' = order[n]
       /\ timer' = [timer EXCEPT ![order[n]] = effective_ei_interval(order[n], current_profile)]
  /\ UNCHANGED <<softwareVars, config, power, startup, commands, found, fresh, stop, bounds>>

(* A request of the manager; nothing is kept of it while the battery is critical. *)
OnDemand ==
  /\ InLoop /\ quiet /\ \A s \in Scanners : ~due(s)
  /\ "sbom" \in enabled /\ on_demand
  /\ commands > 0 /\ commands' = commands - 1
  /\ job' = IF current_profile = "CriticalBattery" THEN job ELSE "sbom"
  /\ UNCHANGED <<softwareVars, config, power, startup, timer, found, fresh, stop, bounds>>

-----------------------------------------------------------------------------
(* The host and the manager *)

ProcessEvent ==
  /\ \E p \in Pids : ProcessStarts(p) \/ ProcessEnds(p)
  /\ UNCHANGED <<config, power, job, startup, timer, commands, found, fresh, stop, bounds>>

Outdate(which) ==
  /\ fresh' = [s \in Snapshots |-> fresh[s] /\ s \notin which]
  /\ found' = IF job \in which /\ found = "current" THEN "stale" ELSE found

Install ==
  /\ installs < MaxInstalls /\ installs' = installs + 1
  /\ Outdate(Snapshots)
  /\ UNCHANGED <<softwareVars, config, power, job, startup, timer, commands, stop, shifts, requests>>

Request ==
  /\ requests < MaxRequests /\ requests' = requests + 1
  /\ Outdate({"sbom"})
  /\ commands' = commands + 1
  /\ UNCHANGED <<softwareVars, config, power, job, startup, timer, stop, shifts, installs>>

(* The bus has overwritten what bus_rx had not read. *)
Lagged ==
  /\ commands > 0 /\ commands' = 0
  /\ UNCHANGED <<softwareVars, config, power, job, startup, timer, found, fresh, stop, bounds>>

PowerShifts ==
  /\ shifts < MaxShifts /\ shifts' = shifts + 1
  /\ profile' \in Occurring /\ seen' = FALSE
  /\ UNCHANGED <<softwareVars, config, current_profile, job, startup, timer, commands, found, fresh, stop,
                 installs, requests>>

Shutdown ==
  /\ ~stop /\ stop' = TRUE
  /\ UNCHANGED <<softwareVars, config, power, job, startup, timer, commands, found, fresh, bounds>>

(* An hour passes when the loop has nothing to do. *)
Hour ==
  /\ InLoop /\ quiet /\ \A s \in Scanners : ~due(s)
  /\ commands > 0 => ~on_demand \/ "sbom" \notin enabled
  /\ timer' = [s \in Scanners |-> IF timer[s] = NoTimer THEN NoTimer ELSE timer[s] - 1]
  /\ UNCHANGED <<softwareVars, config, power, job, startup, commands, found, fresh, stop, bounds>>

-----------------------------------------------------------------------------
run == \/ Start \/ run_running_software_tick \/ Enumerate \/ publish_update \/ ScanFails
       \/ ReceiveShutdown \/ PowerChanged \/ tick_ei_timer \/ OnDemand

Stopped == job = "stopped" /\ UNCHANGED vars

Next == run \/ ProcessEvent \/ Install \/ Request \/ Lagged \/ PowerShifts \/ Shutdown \/ Hour \/ Stopped

Spec == Init /\ [][Next]_vars

(* The runtime polls the task that is ready, and time passes. *)
FairSpec == Spec /\ WF_vars(run) /\ WF_vars(Hour)

-----------------------------------------------------------------------------
(* When the battery is not critical in the end, the manager comes to know what runs and
   what is installed: its list of processes is the list of what runs and its snapshots
   are up to date with the software and with the last request, whichever updates the
   channel refused, scans panicked, requests were passed over or lost, and however the
   timers were rebuilt (run; run_sbom_tick and run_browser_extensions_tick ignore what
   publish_update returns). *)
ManagerCatchesUp ==
  <>[](~stop /\ profile # "CriticalBattery") =>
    /\ <>[]("running_software" \in enabled => programs(view) = programs(running))
    /\ <>[](\A s \in Snapshots \cap enabled : fresh[s])

(* "deferring on-demand SBOM: critical battery" (run): a request is not given up. *)
DeferredIsDone == [][OnDemand => job' = "sbom" \/ commands' > 0]_vars
=============================================================================
