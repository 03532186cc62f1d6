----------------------- MODULE EnhancedInventoryProofs ----------------------
(***************************************************************************)
(* Proofs about the modules that look at the host.  EnhancedInventory and  *)
(* the running-software deltas it sends, for any processes, programs,      *)
(* configuration and intervals.  And the reference definitions of          *)
(* HostTests hold of Rootcheck, Sca and Config, for any host, any          *)
(* configuration and any number of sweeps.                                 *)
(***************************************************************************)
EXTENDS EnhancedInventory, HostTests, FiniteSetTheorems, TLAPS

(* ViewIsPrevious, PID by PID. *)
ViewInv ==
  baseline_sent => /\ DOMAIN view = DOMAIN previous
                   /\ \A p \in DOMAIN previous : same_process(view[p], previous[p])

(* The timers fit the profile the loop knows of: in the loop, a scanner has a timer exactly
   when it is enabled and the battery is not critical, and it ticks within the interval of
   that profile (rebuild_ei_timers, tick_ei_timer). *)
TimersFit ==
  startup = 4 =>
    \A s \in Scanners :
      IF s \in enabled /\ current_profile # "CriticalBattery"
        THEN timer[s] \in 0..effective_ei_interval(s, current_profile)
        ELSE timer[s] = NoTimer

IInv == TypeOK /\ ViewInv /\ TimersFit

-----------------------------------------------------------------------------
(* Lists of processes *)

(* What it is to be a list. *)
LEMMA ListFacts ==
  /\ \A f \in Lists : DOMAIN f \subseteq Pids /\ \A p \in DOMAIN f : f[p] \in Entries
  /\ \A P \in SUBSET Pids : [P -> Entries] \subseteq Lists
  /\ none \in Lists
<1>1. \A P \in SUBSET Pids : [P -> Entries] \subseteq Lists
  BY DEF Lists
<1>2. ASSUME NEW f \in Lists
      PROVE  DOMAIN f \subseteq Pids /\ \A p \in DOMAIN f : f[p] \in Entries
  <2>1. PICK P \in SUBSET Pids : f \in [P -> Entries]
    BY DEF Lists
  <2>2. QED  BY <2>1
<1>3. none \in [{} -> Entries]
  BY DEF none
<1>4. QED  BY <1>1, <1>2, <1>3, Zenon

(* The delta carries a list with the PIDs and programs of one snapshot to a list with those
   of the next, however old the delta's own start is. *)
LEMMA ApplyFacts ==
  ASSUME NEW list \in Lists, NEW from \in Lists, NEW to \in Lists,
         DOMAIN list = DOMAIN from, \A p \in DOMAIN from : same_process(list[p], from[p])
  PROVE  /\ apply(list, from, to) \in Lists
         /\ DOMAIN apply(list, from, to) = DOMAIN to
         /\ \A p \in DOMAIN to : same_process(apply(list, from, to)[p], to[p])
<1> DEFINE kept == DOMAIN list \ removed(from, to)
<1>1. apply(list, from, to) =
        [p \in kept \cup added(from, to) |-> IF p \in added(from, to) THEN to[p] ELSE list[p]]
  BY DEF apply
<1>2. kept \cup added(from, to) = DOMAIN to
  BY DEF removed, added
<1>3. \A p \in DOMAIN to : p \notin added(from, to) => p \in DOMAIN from /\ same_process(from[p], to[p])
  BY DEF added
<1>4. apply(list, from, to) = [p \in DOMAIN to |-> IF p \in added(from, to) THEN to[p] ELSE list[p]]
  BY <1>1, <1>2
<1>5. apply(list, from, to) \in [DOMAIN to -> Entries]
  BY <1>3, <1>4, ListFacts
<1>6. \A p \in DOMAIN to : same_process(apply(list, from, to)[p], to[p])
  BY <1>3, <1>4 DEF same_process
<1>7. QED  BY <1>4, <1>5, <1>6, ListFacts

(* Starting and ending a process gives a list again. *)
LEMMA RunningFacts ==
  ASSUME TypeOK, NEW p \in Pids, ProcessStarts(p) \/ ProcessEnds(p)
  PROVE  running' \in Lists /\ starts' \in 0..MaxStarts
<1>0. /\ running \in Lists /\ DOMAIN running \subseteq Pids /\ starts \in 0..MaxStarts /\ MaxStarts \in Nat
      /\ \A q \in DOMAIN running : running[q] \in Entries
  BY ListFacts, RunningSoftwareAssumption DEF TypeOK, RunningTypeOK
<1>1. CASE ProcessStarts(p)
  <2>1. PICK program \in Programs :
          running' = [q \in DOMAIN running \cup {p} |->
                        IF q = p THEN [program |-> program, number |-> starts + 1] ELSE running[q]]
    BY <1>1 DEF ProcessStarts
  <2>2. starts < MaxStarts /\ starts' = starts + 1
    BY <1>1 DEF ProcessStarts
  <2>3. [program |-> program, number |-> starts + 1] \in Entries
    BY <1>0, <2>2 DEF Entries
  <2>4. running' \in [DOMAIN running \cup {p} -> Entries]
    BY <1>0, <2>1, <2>3
  <2>5. QED  BY <1>0, <2>2, <2>4, ListFacts
<1>2. CASE ProcessEnds(p)
  <2>1. running' \in [DOMAIN running \ {p} -> Entries]
    BY <1>0, <1>2 DEF ProcessEnds, Restrict
  <2>2. QED  BY <1>0, <1>2, <2>1, ListFacts DEF ProcessEnds
<1>3. QED  BY <1>1, <1>2

-----------------------------------------------------------------------------
(* The timers *)

(* An interval is a number of hours, except that a critical battery stops the timers. *)
LEMMA IntervalFacts ==
  /\ \A s \in Scanners, p \in Profiles \ {"CriticalBattery"} : effective_ei_interval(s, p) \in Nat
  /\ \A s \in Scanners : effective_ei_interval(s, "CriticalBattery") = NoTimer
<1>1. \A a, b \in Nat : Max({a, b}) \in {a, b}
  <2> SUFFICES ASSUME NEW a \in Nat, NEW b \in Nat PROVE Max({a, b}) \in {a, b}
    OBVIOUS
  <2>1. \E x \in {a, b} : \A y \in {a, b} : x >= y
    OBVIOUS
  <2>2. QED  BY <2>1 DEF Max
<1>2. ASSUME NEW s \in Scanners, NEW p \in Profiles \ {"CriticalBattery"}
      PROVE  effective_ei_interval(s, p) \in Nat
  <2>1. configured[s] \in Nat
    BY EnhancedInventoryAssumption
  <2>2. inventory_interval(p) \div 3600 \in Nat
    BY DEF inventory_interval, Profiles
  <2>3. effective_ei_interval(s, p) = Max({configured[s], inventory_interval(p) \div 3600})
    BY DEF effective_ei_interval
  <2>4. QED  BY <1>1, <2>1, <2>2, <2>3
<1>3. QED  BY <1>2 DEF effective_ei_interval

(* New timers fit. *)
LEMMA RebuildFacts ==
  ASSUME NEW p \in Profiles, rebuild_ei_timers(p)
  PROVE  /\ timer' \in [Scanners -> {NoTimer} \cup Nat]
         /\ \A s \in Scanners : IF s \in enabled /\ p # "CriticalBattery"
                                 THEN timer'[s] \in 0..effective_ei_interval(s, p) ELSE timer'[s] = NoTimer
BY IntervalFacts DEF rebuild_ei_timers

(* The scanners that are off have no timer, so a timer that is due belongs to one that is on. *)
LEMMA TimerFacts ==
  ASSUME IInv, startup = 4
  PROVE  /\ \A s \in Scanners : due(s) => s \in enabled /\ current_profile # "CriticalBattery"
         /\ current_profile \in Profiles
BY DEF IInv, TypeOK, TimersFit, due, NoTimer

-----------------------------------------------------------------------------
(* The steps *)

(* The running-software deltas. *)
LEMMA SoftwareStep == IInv /\ [Next]_vars => RunningTypeOK' /\ ViewInv'
<1> SUFFICES ASSUME IInv, [Next]_vars PROVE RunningTypeOK' /\ ViewInv'
  OBVIOUS
<1>0. TypeOK /\ RunningTypeOK /\ ViewInv /\ none \in Lists /\ MaxRefusals \in Nat
  BY ListFacts, RunningSoftwareAssumption DEF IInv, TypeOK
<1>1. CASE Tick
  BY <1>0, <1>1 DEF Tick, RunningTypeOK, ViewInv
<1>2. CASE Publish
  <2>1. view' \in Lists /\ DOMAIN view' = DOMAIN current /\ \A p \in DOMAIN current : same_process(view'[p], current[p])
    <3>1. CASE baseline_sent
      BY <1>0, <1>2, <3>1, ApplyFacts DEF Publish, RunningTypeOK, ViewInv
    <3>2. CASE ~baseline_sent
      BY <1>0, <1>2, <3>2 DEF Publish, RunningTypeOK, same_process
    <3>3. QED  BY <3>1, <3>2
  <2>2. QED  BY <1>0, <1>2, <2>1 DEF Publish, RunningTypeOK, ViewInv
<1>3. CASE PublishFails
  BY <1>0, <1>3 DEF PublishFails, refused, RunningTypeOK, ViewInv
<1>4. CASE ScanFails
  BY <1>0, <1>4 DEF ScanFails, RunningTypeOK, ViewInv
<1>5. ASSUME NEW p \in Pids, ProcessStarts(p) \/ ProcessEnds(p)
      PROVE  RunningTypeOK' /\ ViewInv'
  <2>1. running' \in Lists /\ starts' \in 0..MaxStarts
    BY <1>0, <1>5, RunningFacts
  <2>2. UNCHANGED <<pc, current, baseline_sent, previous, view, refusals>>
    BY <1>5 DEF ProcessStarts, ProcessEnds
  <2>3. QED  BY <1>0, <2>1, <2>2 DEF RunningTypeOK, ViewInv
<1>6. CASE UNCHANGED softwareVars
  BY <1>0, <1>6 DEF softwareVars, RunningTypeOK, ViewInv
<1>7. QED
  BY <1>1, <1>2, <1>3, <1>4, <1>5, <1>6
    , Zenon DEF Next, run, run_running_software_tick, Start, Enumerate, publish_update, ReceiveShutdown, PowerChanged,
         tick_ei_timer, OnDemand, ProcessEvent, Install, Request, Lagged, PowerShifts, Shutdown, Hour, Stopped, vars

(* The types of the loop's own variables. *)
LoopTypes ==
  /\ enabled \in SUBSET Scanners /\ profile \in Profiles /\ current_profile \in Profiles
  /\ on_demand \in BOOLEAN /\ seen \in BOOLEAN /\ found \in {"none", "current", "stale"} /\ stop \in BOOLEAN
  /\ job \in Scanners \cup {"select", "stopped"} /\ startup \in 0..4
  /\ timer \in [Scanners -> {NoTimer} \cup Nat] /\ fresh \in [Snapshots -> BOOLEAN]
  /\ requests \in 0..MaxRequests /\ commands \in 0..requests
  /\ shifts \in 0..MaxShifts /\ installs \in 0..MaxInstalls

(* The order of the branches lists the scanners. *)
LEMMA OrderFacts ==
  /\ DOMAIN order = 1..3 /\ \A n \in 1..3 : order[n] \in Scanners
  /\ Snapshots \subseteq Scanners
BY DEF order, Scanners, Snapshots

(* Every step keeps the types of the loop and the fit of its timers. *)
LEMMA LoopStep == IInv /\ [Next]_vars => LoopTypes' /\ TimersFit'
<1> SUFFICES ASSUME IInv, [Next]_vars PROVE LoopTypes' /\ TimersFit'
  OBVIOUS
<1>0. LoopTypes /\ TimersFit
  BY DEF IInv, TypeOK, LoopTypes
<1> USE <1>0, OrderFacts, EnhancedInventoryAssumption
<1>1. CASE Start
  <2>1. CASE startup = 3
    BY <1>1, <2>1, RebuildFacts DEF Start, config, power, bounds, LoopTypes, TimersFit
  <2>2. CASE startup # 3
    BY <1>1, <2>2 DEF Start, config, power, bounds, LoopTypes, TimersFit
  <2>3. QED  BY <2>1, <2>2
<1>2. CASE run_running_software_tick
  BY <1>2 DEF run_running_software_tick, Return, config, power, bounds, LoopTypes, TimersFit
<1>3. CASE Enumerate
  BY <1>3 DEF Enumerate, config, power, bounds, LoopTypes, TimersFit
<1>4. CASE publish_update
  BY <1>4 DEF publish_update, Return, config, power, bounds, LoopTypes, TimersFit
<1>5. CASE ScanFails
  BY <1>5 DEF ScanFails, Return, config, power, bounds, LoopTypes, TimersFit
<1>6. CASE ReceiveShutdown
  BY <1>6 DEF ReceiveShutdown, config, power, bounds, LoopTypes, TimersFit
<1>7. CASE PowerChanged
  <2>1. CASE profile # current_profile
    BY <1>7, <2>1, RebuildFacts DEF PowerChanged, config, bounds, LoopTypes, TimersFit
  <2>2. CASE profile = current_profile
    BY <1>7, <2>2 DEF PowerChanged, config, bounds, LoopTypes, TimersFit
  <2>3. QED  BY <2>1, <2>2
<1>8. CASE tick_ei_timer
  <2>1. PICK n \in 1..3 :
          /\ due(order[n])
          /\ job' = order[n]
          /\ timer' = [timer EXCEPT ![order[n]] = effective_ei_interval(order[n], current_profile)]
    BY <1>8, Zenon DEF tick_ei_timer
  <2>2. order[n] \in Scanners /\ current_profile \in Profiles \ {"CriticalBattery"} /\ order[n] \in enabled
    BY <1>8, <2>1, TimerFacts DEF tick_ei_timer, InLoop
  <2>3. effective_ei_interval(order[n], current_profile) \in Nat
    BY <2>2, IntervalFacts
  <2>4. QED  BY <1>8, <2>1, <2>2, <2>3 DEF tick_ei_timer, config, power, bounds, LoopTypes, TimersFit
<1>9. CASE OnDemand
  BY <1>9 DEF OnDemand, config, power, bounds, LoopTypes, TimersFit, Scanners
<1>10. CASE ProcessEvent
  BY <1>10 DEF ProcessEvent, config, power, bounds, LoopTypes, TimersFit
<1>11. CASE Install
  BY <1>11 DEF Install, Outdate, config, power, LoopTypes, TimersFit
<1>12. CASE Request
  BY <1>12 DEF Request, Outdate, config, power, LoopTypes, TimersFit
<1>13. CASE Lagged
  BY <1>13 DEF Lagged, config, power, bounds, LoopTypes, TimersFit
<1>14. CASE PowerShifts
  <2>1. profile' \in Profiles
    BY <1>14 DEF PowerShifts
  <2>2. shifts' \in 0..MaxShifts
    BY <1>14 DEF PowerShifts, LoopTypes
  <2>3. UNCHANGED <<config, current_profile, job, startup, timer, commands, found, fresh, stop, installs, requests>>
    BY <1>14 DEF PowerShifts
  <2>4. LoopTypes'
    BY <1>14, <2>1, <2>2, <2>3, Zenon DEF PowerShifts, config, LoopTypes
  <2>5. TimersFit'
    BY <2>3 DEF config, TimersFit
  <2>6. QED  BY <2>4, <2>5
<1>15. CASE Shutdown
  BY <1>15 DEF Shutdown, config, power, bounds, LoopTypes, TimersFit
<1>16. CASE Hour
  BY <1>16, IntervalFacts DEF Hour, due, NoTimer, config, power, bounds, LoopTypes, TimersFit
<1>17. CASE UNCHANGED vars
  BY <1>17 DEF vars, config, power, bounds, LoopTypes, TimersFit
<1>18. QED
  BY <1>1, <1>2, <1>3, <1>4, <1>5, <1>6, <1>7, <1>8, <1>9, <1>10, <1>11, <1>12, <1>13, <1>14, <1>15, <1>16, <1>17
     DEF Next, run, Stopped

(* The types, the timers and the view hold together at every step. *)
LEMMA Inductive == Spec => []IInv
<1>1. Init => IInv
  <2> SUFFICES ASSUME Init PROVE IInv
    OBVIOUS
  <2>1. RunningTypeOK /\ ViewInv
    <3>1. none \in Lists
      BY ListFacts
    <3>2. RunningTypeOK
      <4>1. 0 \in 0..MaxStarts /\ 0 \in 0..MaxRefusals
        BY RunningSoftwareAssumption
      <4>2. QED  BY <3>1, <4>1, Zenon DEF Init, RunningInit, RunningTypeOK
    <3>3. ViewInv
      BY Zenon DEF Init, RunningInit, ViewInv
    <3>4. QED  BY <3>2, <3>3
  <2>2. LoopTypes
    <3>1. /\ enabled \in SUBSET Scanners /\ profile \in Profiles /\ current_profile \in Profiles
          /\ on_demand \in BOOLEAN /\ seen \in BOOLEAN /\ stop \in BOOLEAN
          /\ timer \in [Scanners -> {NoTimer} \cup Nat] /\ fresh \in [Snapshots -> BOOLEAN]
      BY EnhancedInventoryAssumption, Zenon DEF Init
    <3>2. QED  BY <3>1, EnhancedInventoryAssumption DEF Init, LoopTypes
  <2>3. TimersFit
    BY DEF Init, TimersFit
  <2>4. QED  BY <2>1, <2>2, <2>3 DEF IInv, TypeOK, LoopTypes
<1>2. IInv /\ [Next]_vars => IInv'
  BY SoftwareStep, LoopStep DEF IInv, TypeOK, LoopTypes
<1>3. QED  BY <1>1, <1>2, PTL DEF Spec

(* The variables keep their types. *)
THEOREM TypesHold == Spec => []TypeOK
<1>1. IInv => TypeOK
  BY DEF IInv
<1>2. QED  BY <1>1, Inductive, PTL

(* The manager's list is that of the last snapshot published, for any number of
   processes, PIDs used again and updates refused: no delta is lost, none is applied
   twice. *)
THEOREM ViewHolds == Spec => []ViewIsPrevious
<1>1. IInv => ViewIsPrevious
  BY DEF IInv, ViewInv, ViewIsPrevious, programs, same_process
<1>2. QED  BY <1>1, Inductive, PTL

(* However the power profile shifts while scans run: no timer is lost, none is left over. *)
THEOREM TimersHold == Spec => []TimersFit
<1>1. IInv => TimersFit
  BY DEF IInv
<1>2. QED  BY <1>1, Inductive, PTL

----------------------------------------------------------------------------
(* Rootcheck: hidden processes *)

(* The scans for hidden processes, as HiddenAreFound states them, on any host: for any
   processes with any stories, and whatever the highest process to be probed. *)
THEOREM HiddenFound ==
  ASSUME input \in ScanHosts
  PROVE  HiddenAreFound
<1> DEFINE is(stories) == {pid \in DOMAIN input.procs : input.procs[pid] \in stories}
           some == R!enumerate_proc_pids(input) # {}
<1>1. input.listable \in BOOLEAN /\ DOMAIN input.procs = HostPids /\ \A pid \in HostPids : input.procs[pid] \in R!Stories
  BY DEF ScanHosts
<1>2. \A pid : pid \in R!enumerate_proc_pids(input) <=>
                 pid \in HostPids /\ input.listable /\ input.procs[pid] \in {"lasts", "ends", "denied"}
  BY <1>1 DEF R!enumerate_proc_pids, R!listed
<1>3. R!linux_scan(input, HighestPid) = 1..HighestPid \cap (is({"hidden", "starts", "thread"}) \cup
                                                    IF input.listable THEN {} ELSE is({"lasts"}))
  BY <1>1, <1>2 DEF R!linux_scan, R!unix_pid_exists, R!Stories
<1>4. some => input.listable
  BY <1>2
<1>5. R!macos_scan(input, HighestPid) = 1..HighestPid \cap IF some THEN is({"hidden", "starts", "thread"}) ELSE {}
  BY <1>3, <1>4 DEF R!macos_scan, R!enumerate_sysctl_pids
<1>6. {pid \in is({"hidden"}) : some /\ pid <= HighestPid /\ pid % 4 = 0} \subseteq R!windows_scan(input, HighestPid)
  BY <1>1, <1>2 DEF R!windows_scan, R!enumerate_snapshot_pids, R!pid_exists
<1>7. R!windows_scan(input, HighestPid) \subseteq IF some THEN is({"hidden", "starts"}) ELSE {}
  BY <1>1, <1>2 DEF R!windows_scan, R!enumerate_snapshot_pids, R!pid_exists, R!Stories
<1> QED
  BY <1>3, <1>5, <1>6, <1>7 DEF HiddenAreFound

(* The sections of the configuration whose Default is derived or written out: what serde
   puts for the missing fields of a section is what the section is by default. *)
LEMMA DefaultsAgree ==
  \A s \in DOMAIN C!AgentConfig : C!AgentConfig[s].default = C!AgentConfig[s].fields
<1>1. /\ C!ServerConfig_default = C!ServerConfig /\ C!EnhancedProtocolConfig_default = C!EnhancedProtocolConfig
      /\ C!EnrollmentConfig_default = C!EnrollmentConfig /\ C!FimConfig_default = C!FimConfig
      /\ C!InventoryConfig_default = C!InventoryConfig /\ C!RootcheckConfig_default = C!RootcheckConfig
      /\ C!LocalDetectionConfig_default = C!LocalDetectionConfig /\ C!RunningSoftwareConfig_default = C!RunningSoftwareConfig
      /\ C!BrowserExtensionsConfig_default = C!BrowserExtensionsConfig /\ C!SbomConfig_default = C!SbomConfig
      /\ C!ScaConfig_default = C!ScaConfig /\ C!UpdateConfig_default = C!UpdateConfig
      /\ C!ActiveResponseConfig_default = C!ActiveResponseConfig /\ C!ResourceLimits_default = C!ResourceLimits
      /\ C!LoggingConfig_default = C!LoggingConfig
  BY Zenon DEF C!ServerConfig, C!ServerConfig_default, C!EnhancedProtocolConfig, C!EnhancedProtocolConfig_default,
          C!EnrollmentConfig, C!EnrollmentConfig_default, C!FimConfig, C!FimConfig_default, C!InventoryConfig,
          C!InventoryConfig_default, C!RootcheckConfig, C!RootcheckConfig_default, C!LocalDetectionConfig,
          C!LocalDetectionConfig_default, C!RunningSoftwareConfig, C!RunningSoftwareConfig_default,
          C!BrowserExtensionsConfig, C!BrowserExtensionsConfig_default, C!SbomConfig, C!SbomConfig_default,
          C!ScaConfig, C!ScaConfig_default, C!UpdateConfig, C!UpdateConfig_default, C!ActiveResponseConfig,
          C!ActiveResponseConfig_default, C!ResourceLimits, C!ResourceLimits_default, C!LoggingConfig,
          C!LoggingConfig_default
<1> DEFINE agree(sec) == sec.default = sec.fields
<1>2. \A a, b : a = b => agree(C!section(a, b))
  BY DEF C!section
<1> HIDE DEF agree
<1>3. /\ agree(C!section(C!FimConfig, C!FimConfig_default)) /\ agree(C!section(C!InventoryConfig, C!InventoryConfig_default))
      /\ agree(C!section(C!ScaConfig, C!ScaConfig_default)) /\ agree(C!section(C!ActiveResponseConfig, C!ActiveResponseConfig_default))
      /\ agree(C!section(C!RootcheckConfig, C!RootcheckConfig_default)) /\ agree(C!section(C!LocalDetectionConfig, C!LocalDetectionConfig_default))
      /\ agree(C!section(C!UpdateConfig, C!UpdateConfig_default)) /\ agree(C!section(C!LogCollectorConfig, C!LogCollectorConfig))
      /\ agree(C!section(C!EnhancedInventoryConfig, C!EnhancedInventoryConfig))
  BY <1>1, <1>2, Zenon
<1>4. \A s \in DOMAIN C!ModulesConfig : agree(C!ModulesConfig[s])
  BY <1>3 DEF C!ModulesConfig
<1>5. /\ agree(C!section(C!ServerConfig, C!ServerConfig_default)) /\ agree(C!section(C!EnhancedProtocolConfig, C!EnhancedProtocolConfig_default))
      /\ agree(C!section(C!EnrollmentConfig, C!EnrollmentConfig_default)) /\ agree(C!section(C!LoggingConfig, C!LoggingConfig_default))
      /\ agree(C!section(C!RunningSoftwareConfig, C!RunningSoftwareConfig_default)) /\ agree(C!section(C!BrowserExtensionsConfig, C!BrowserExtensionsConfig_default))
      /\ agree(C!section(C!SbomConfig, C!SbomConfig_default)) /\ agree(C!section(C!ResourceLimits, C!ResourceLimits_default))
      /\ agree(C!section(C!SecurityConfig, C!SecurityConfig)) /\ agree(C!section(C!TamperConfig, C!TamperConfig))
  BY <1>1, <1>2, Zenon
<1>6. \A s \in DOMAIN C!TopConfig : agree(C!TopConfig[s])
  BY <1>5, SMTT(20) DEF C!TopConfig
<1> QED
  BY <1>4, <1>6, Zenon DEF C!AgentConfig, agree

(* A value the file does not give is the one the agent has without any file, as
   OmittedIsDefault states it, for any file whatever. *)
THEOREM OmittedDefault == OmittedIsDefault
<1>1. ASSUME NEW s \in DOMAIN C!AgentConfig, NEW f \in DOMAIN C!AgentConfig[s].fields
      PROVE  C!load_default(TRUE, input)[s][f] =
               IF s \in DOMAIN input /\ f \in DOMAIN input[s] THEN input[s][f] ELSE C!load_default(FALSE, input)[s][f]
  BY <1>1, DefaultsAgree, Zenon DEF C!load_default, C!from_yaml
<1> QED
  BY <1>1, Zenon DEF OmittedIsDefault

(* The disks a sweep may meet, and what the sweeps of a host leave: the baseline holds
   every binary that was recorded, with what it was when it first was. *)
Disks == [Binaries -> Hashes \cup {"missing", "unreadable"}]
Known(disks) == {b \in Binaries : Recorded(disks, b) # {}}
BaselineOK(disks, baseline) ==
  /\ disks \in Seq(Disks)
  /\ baseline = [b \in Known(disks) |-> Trusted(disks, b)]
DriftOK(i) ==
  \A b \in Binaries : <<"binary_integrity", b>> \in i.alerts <=>
                        /\ Recorded(i.seen, b) # {} /\ "binary_integrity" \notin i.last.panics
                        /\ i.last.disk[b] \notin {Trusted(i.seen, b), "unreadable"}
SweepInv == test = "sweep" => BaselineOK(input.seen, input.baseline) /\ DriftOK(input)

(* What the recording of another disk adds: a binary that was recorded before keeps what
   it was, one that is new is as the disk has it. *)
LEMMA RecordingAdds ==
  ASSUME NEW disks \in Seq(Disks), NEW disk \in Disks, NEW b \in Binaries
  PROVE  LET now == Append(disks, disk)
         IN  /\ Recorded(now, b) # {} <=> Recorded(disks, b) # {} \/ R!readable(disk[b])
             /\ Recorded(disks, b) # {} => Trusted(now, b) = Trusted(disks, b)
             /\ Recorded(disks, b) = {} /\ R!readable(disk[b]) => Trusted(now, b) = disk[b]
<1> DEFINE now == Append(disks, disk)
           N == Len(disks)
           old == Recorded(disks, b)
           new == Recorded(now, b)
<1>1. /\ N \in Nat /\ DOMAIN disks = 1..N /\ DOMAIN now = 1..(N + 1)
      /\ now[N + 1] = disk /\ \A n \in 1..N : now[n] = disks[n]
  BY SMTT(20)
<1>2. /\ old = {n \in 1..N : R!readable(disks[n][b])}
      /\ new = {n \in 1..(N + 1) : R!readable(now[n][b])}
  BY <1>1 DEF Recorded
<1>3. new = old \cup IF R!readable(disk[b]) THEN {N + 1} ELSE {}
  <2>1. \A n : n \in 1..(N + 1) <=> n \in 1..N \/ n = N + 1
    BY <1>1
  <2>2. \A n : n \in new <=> n \in old \/ (n = N + 1 /\ R!readable(disk[b]))
    BY <1>1, <1>2, <2>1, Zenon
  <2> QED
    BY <2>2, Zenon
<1>4. ASSUME old # {} PROVE Trusted(now, b) = Trusted(disks, b)
  <2>1. old \subseteq Nat
    BY <1>1, <1>2
  <2>2. \E m \in old : \A n \in old : ~(<<n, m>> \in OpToRel(<, Nat))
    BY <1>4, <2>1, WFMin, NatLessThanWellFounded, Zenon
  <2> HIDE DEF old
  <2>3. PICK m \in old : \A n \in old : m <= n
    <3>1. PICK m \in old : \A n \in old : ~(n < m)
      BY <2>1, <2>2, Zenon DEF OpToRel
    <3> QED
      BY <2>1, <3>1
  <2>4. m \in new /\ m \in 1..N /\ \A n \in new : m <= n
    <3>1. m \in 1..N /\ m <= N + 1
      BY <1>1, <1>2, <2>3
    <3>2. \A n \in new : n \in old \/ n = N + 1
      BY <1>3, Zenon
    <3> QED
      BY <1>3, <2>3, <3>1, <3>2, Zenon
  <2>5. (CHOOSE n \in old : \A k \in old : n <= k) = m
    <3>1. \A n \in old : (\A k \in old : n <= k) => n = m
      BY <2>1, <2>3
    <3> QED
      BY <2>3, <3>1, Zenon
  <2>6. (CHOOSE n \in new : \A k \in new : n <= k) = m
    <3>1. new \subseteq Nat
      BY <1>1, <1>2
    <3> HIDE DEF new
    <3>2. \A n \in new : (\A k \in new : n <= k) => n = m
      BY <2>1, <2>4, <3>1
    <3> QED
      BY <2>4, <3>2, Zenon
  <2> HIDE DEF now, old, new
  <2>7. Trusted(now, b) = now[m][b] /\ Trusted(disks, b) = disks[m][b]
    BY <2>5, <2>6, Zenon DEF Trusted, old, new
  <2> QED
    BY <1>1, <2>4, <2>7
<1>5. ASSUME old = {}, R!readable(disk[b]) PROVE Trusted(now, b) = disk[b]
  <2>1. new = {N + 1}
    BY <1>3, <1>5
  <2>2. (CHOOSE n \in new : \A k \in new : n <= k) = N + 1
    BY <1>1, <2>1
  <2> HIDE DEF now, new
  <2> QED
    BY <1>1, <2>2, Zenon DEF Trusted, new
<1>6. new # {} <=> old # {} \/ R!readable(disk[b])
  BY <1>3
<1> QED
  BY <1>4, <1>5, <1>6

(* What a binary is trusted to be was read. *)
LEMMA TrustedWasRead ==
  ASSUME NEW disks \in Seq(Disks), NEW b \in Binaries, Recorded(disks, b) # {}
  PROVE  R!readable(Trusted(disks, b))
<1> DEFINE old == Recorded(disks, b)
<1>1. old \subseteq Nat /\ \A n \in old : R!readable(disks[n][b])
  BY DEF Recorded
<1> HIDE DEF old
<1>2. \E m \in old : \A n \in old : ~(<<n, m>> \in OpToRel(<, Nat))
  BY <1>1, WFMin, NatLessThanWellFounded, Zenon DEF old
<1>3. PICK m \in old : \A n \in old : ~(n < m)
  BY <1>1, <1>2, Zenon DEF OpToRel
<1>4. \A n \in old : m <= n
  BY <1>1, <1>3
<1>5. (CHOOSE n \in old : \A k \in old : n <= k) \in old
  BY <1>4, Zenon
<1> QED
  BY <1>1, <1>5, Zenon DEF Trusted, old

(* The check of the binaries: what has drifted is reported, and the baseline, if it is
   saved, is what the recording of the disk adds (lib.rs, run_binary_integrity). *)
Checked(disks, baseline, disk, saves, swept) ==
  /\ swept.baseline = IF saves THEN [b \in Known(Append(disks, disk)) |-> Trusted(Append(disks, disk), b)]
                      ELSE baseline
  /\ swept.alerts = {b \in Known(disks) : disk[b] \notin {Trusted(disks, b), "unreadable"}}

(* It does so whatever the baseline and the disk hold (lib.rs, run_binary_integrity). *)
LEMMA IntegrityCheck ==
  ASSUME NEW disks, NEW baseline, BaselineOK(disks, baseline), NEW disk \in Disks, NEW saves
  PROVE  Checked(disks, baseline, disk, saves, R!run_binary_integrity(baseline, disk, saves))
<1> DEFINE swept == R!run_binary_integrity(baseline, disk, saves)
           now == Append(disks, disk)
           c == R!compare(baseline, disk)
           known == Known(disks)
           legible == {x \in Binaries : R!readable(disk[x])}
           U == [b \in Known(now) |-> Trusted(now, b)]
<1>1. /\ disks \in Seq(Disks) /\ baseline = [b \in known |-> Trusted(disks, b)] /\ DOMAIN baseline = known
      /\ DOMAIN disk = Binaries /\ known \subseteq Binaries
  BY DEF BaselineOK, Disks, Known
<1>2. /\ \A b \in Binaries : b \in known <=> Recorded(disks, b) # {}
      /\ \A b \in Binaries : b \in Known(now) <=> Recorded(now, b) # {}
  BY DEF Known
<1> HIDE DEF known
<1>3. Known(now) = known \cup legible
  BY <1>1, <1>2, RecordingAdds DEF Known
<1>4. \A b \in known \cup legible : Trusted(now, b) = IF b \in known THEN Trusted(disks, b) ELSE disk[b]
  BY <1>1, <1>2, RecordingAdds
<1>5. c.updated = [b \in known \cup legible |-> IF b \in known THEN Trusted(disks, b) ELSE disk[b]]
  BY <1>1 DEF R!compare, R!hash_file
<1>6. c.updated = U
  BY <1>3, <1>4, <1>5, Zenon
<1>7. c.drift = {b \in known : disk[b] \notin {Trusted(disks, b), "unreadable"}}
  <2>1. c.drift = {b \in Binaries : /\ b \in known
                                    /\ disk[b] = "missing" \/ (R!readable(disk[b]) /\ disk[b] # baseline[b])}
    BY <1>1 DEF R!compare, R!hash_file
  <2>2. \A b \in known : R!readable(Trusted(disks, b)) /\ baseline[b] = Trusted(disks, b)
    BY <1>1, <1>2, TrustedWasRead
  <2> QED
    BY <1>1, <2>1, <2>2, Zenon DEF R!readable
<1>8. Cardinality(DOMAIN U) = Cardinality(DOMAIN baseline) => U = baseline
  <2>1. DOMAIN U = known \cup legible /\ IsFiniteSet(known \cup legible) /\ known \subseteq known \cup legible
    BY <1>1, <1>3, HostAssumption, FS_Subset
  <2>2. Cardinality(known \cup legible) = Cardinality(known) => known \cup legible = known
    BY <2>1, FS_Subset
  <2> QED
    BY <1>1, <1>3, <1>4, <2>1, <2>2
<1>9. baseline = <<>> => c.drift = {}
  BY <1>1, <1>7
<1> HIDE DEF U, now
<1>10. \A Q : R!Cardinality(Q) = Cardinality(Q)
  BY Zenon DEF R!Cardinality, Cardinality
<1>11. swept = [baseline |-> IF Cardinality(DOMAIN c.updated) # Cardinality(DOMAIN baseline)
                           THEN R!save(saves, c.updated, baseline) ELSE baseline,
              alerts |-> IF baseline = <<>> THEN {} ELSE c.drift]
  BY <1>10, Zenon DEF R!run_binary_integrity
<1> HIDE DEF swept, c
<1>12. swept.alerts = c.drift
  BY <1>9, <1>11, Zenon
<1>13. swept.baseline = IF saves THEN U ELSE baseline
  BY <1>6, <1>8, <1>11 DEF R!save
<1> QED
  BY <1>7, <1>12, <1>13, Zenon DEF Checked, U, now, known, swept

(* A sweep: of its four checks only that of the binaries reports binaries, if it runs. *)
LEMMA SweepReports ==
  ASSUME NEW host \in SweepHosts, NEW baseline, NEW b
  PROVE  LET after == R!run_sweep(SweepConfig, host, baseline)
             swept == R!run_binary_integrity(baseline, host.disk, host.saves)
             runs == "binary_integrity" \notin host.panics
         IN  /\ after.baseline = IF runs THEN swept.baseline ELSE baseline
             /\ <<"binary_integrity", b>> \in after.alerts <=> runs /\ b \in swept.alerts
<1> DEFINE after == R!run_sweep(SweepConfig, host, baseline)
           swept == R!run_binary_integrity(baseline, host.disk, host.saves)
           going(check) == check \in SweepConfig.checks /\ check \notin host.panics
           integrity == IF going("binary_integrity") THEN swept ELSE [baseline |-> baseline, alerts |-> {}]
           alarms == [signature |-> R!signatures_scan(host.files, SweepConfig.signature_paths),
                     content |-> R!content_scan(host.etc),
                     hidden_process |-> R!linux_scan(host, SweepConfig.max_pid),
                     binary_integrity |-> integrity.alerts]
           alerts == UNION {R!publish_alert(c, alarms[c]) : c \in {x \in R!Checks : going(x)}}
<1>1. after = [baseline |-> integrity.baseline, alerts |-> alerts]
  BY Zenon DEF R!run_sweep
<1>2. SweepConfig.checks = R!Checks /\ "binary_integrity" \in R!Checks
  BY DEF SweepConfig, R!Checks
<1>3. going("binary_integrity") <=> "binary_integrity" \notin host.panics
  BY <1>2
<1> HIDE DEF after, swept
<1>4. alarms["binary_integrity"] = integrity.alerts
  BY Zenon
<1> HIDE DEF alarms, integrity
<1>5. <<"binary_integrity", b>> \in alerts <=> going("binary_integrity") /\ b \in alarms["binary_integrity"]
  <2>1. \A c : <<"binary_integrity", b>> \in R!publish_alert(c, alarms[c]) <=> c = "binary_integrity" /\ b \in alarms[c]
    BY DEF R!publish_alert
  <2> QED
    BY <1>2, <2>1
<1>6. after.baseline = integrity.baseline /\ after.alerts = alerts
  BY <1>1
<1> HIDE DEF alerts
<1>7. /\ after.baseline = IF "binary_integrity" \notin host.panics THEN swept.baseline ELSE baseline
      /\ <<"binary_integrity", b>> \in after.alerts <=> "binary_integrity" \notin host.panics /\ b \in swept.alerts
  BY <1>3, <1>4, <1>5, <1>6, SMTT(20) DEF integrity
<1> QED
  BY <1>7 DEF after, swept

(* After a sweep the baseline holds what was first recorded, and what differs from that is
   reported (lib.rs, run_sweep and run_binary_integrity). *)
LEMMA SweepKeepsBaseline ==
  ASSUME NEW disks, NEW baseline, BaselineOK(disks, baseline), NEW host \in SweepHosts
  PROVE  LET i == Swept(disks, baseline, host) IN BaselineOK(i.seen, i.baseline) /\ DriftOK(i)
<1> DEFINE i == Swept(disks, baseline, host)
           after == R!run_sweep(SweepConfig, host, baseline)
           swept == R!run_binary_integrity(baseline, host.disk, host.saves)
           runs == "binary_integrity" \notin host.panics
           disk == host.disk
           now == Append(disks, disk)
<1>1. disk \in Disks /\ host.saves \in BOOLEAN /\ disks \in Seq(Disks)
  BY DEF SweepHosts, Disks, BaselineOK
<1>2. /\ i.seen = IF Records(host) THEN now ELSE disks
      /\ i.last = host /\ i.baseline = after.baseline /\ i.alerts = after.alerts
  BY DEF Swept
<1> HIDE DEF i
<1>3. /\ after.baseline = IF runs THEN swept.baseline ELSE baseline
      /\ \A b : <<"binary_integrity", b>> \in after.alerts <=> runs /\ b \in swept.alerts
  BY SweepReports, Zenon
<1>4. /\ swept.baseline = IF host.saves THEN [b \in Known(now) |-> Trusted(now, b)] ELSE baseline
      /\ swept.alerts = {b \in Known(disks) : disk[b] \notin {Trusted(disks, b), "unreadable"}}
  <2>1. Checked(disks, baseline, disk, host.saves, swept)
    BY <1>1, IntegrityCheck, Zenon
  <2> QED
    BY <2>1 DEF Checked
<1> HIDE DEF after, swept, disk, now
<1>5. now \in Seq(Disks)
  BY <1>1 DEF now
<1>6. BaselineOK(i.seen, i.baseline)
  <2>1. CASE Records(host)
    BY <1>2, <1>3, <1>4, <1>5, <2>1 DEF Records, BaselineOK
  <2>2. CASE ~Records(host)
    <3>1. i.seen = disks /\ i.baseline = baseline
      BY <1>2, <1>3, <1>4, <2>2, Zenon DEF Records
    <3> QED
      BY <3>1
  <2> QED
    BY <2>1, <2>2
<1>7. ASSUME NEW b \in Binaries
      PROVE  <<"binary_integrity", b>> \in i.alerts <=>
               /\ Recorded(i.seen, b) # {} /\ "binary_integrity" \notin i.last.panics
               /\ i.last.disk[b] \notin {Trusted(i.seen, b), "unreadable"}
  <2>1. <<"binary_integrity", b>> \in i.alerts
          <=> runs /\ Recorded(disks, b) # {} /\ disk[b] \notin {Trusted(disks, b), "unreadable"}
    <3>1. <<"binary_integrity", b>> \in i.alerts <=> runs /\ b \in swept.alerts
      BY <1>2, <1>3, Zenon
    <3>2. b \in swept.alerts <=> b \in Known(disks) /\ disk[b] \notin {Trusted(disks, b), "unreadable"}
      BY <1>4, Zenon
    <3>3. b \in Known(disks) <=> Recorded(disks, b) # {}
      BY Zenon DEF Known
    <3> QED
      BY <3>1, <3>2, <3>3, Zenon
  <2>2. CASE Records(host)
    <3>1. /\ Recorded(now, b) # {} <=> Recorded(disks, b) # {} \/ R!readable(disk[b])
          /\ Recorded(disks, b) # {} => Trusted(now, b) = Trusted(disks, b)
          /\ Recorded(disks, b) = {} /\ R!readable(disk[b]) => Trusted(now, b) = disk[b]
      BY <1>1, RecordingAdds, Zenon DEF now
    <3> QED
      BY <1>2, <2>1, <2>2, <3>1, Zenon DEF disk
  <2>3. CASE ~Records(host)
    BY <1>2, <2>1, <2>3, Zenon DEF disk
  <2> QED
    BY <2>2, <2>3
<1> QED
  BY <1>6, <1>7, Zenon DEF DriftOK, i

(* A binary is measured against what it was when it was first recorded, as DriftIsReported
   states it, for any set of binaries, any number of sweeps and whatever fails in them. *)
THEOREM DriftAlwaysReported == HostSpec => []DriftIsReported
<1>1. HostTest => SweepInv
  <2>1. ASSUME SweepTests PROVE SweepInv
    <3>1. PICK host \in SweepHosts : input = Swept(<<>>, <<>>, host)
      BY <2>1 DEF SweepTests
    <3>2. BaselineOK(<<>>, <<>>)
      <4>1. Known(<<>>) = {}
        BY DEF Known, Recorded
      <4> QED
        BY <4>1 DEF BaselineOK
    <3> QED
      BY <3>1, <3>2, SweepKeepsBaseline, Zenon DEF SweepInv
  <2>2. ASSUME test # "sweep" PROVE SweepInv
    BY <2>2 DEF SweepInv
  <2> QED
    BY <2>1, <2>2, Zenon DEF HostTest, ScanTests, ScaTests, ConfigTests
<1>2. SweepInv /\ [Sweep]_<<test, input>> => SweepInv'
  <2> SUFFICES ASSUME SweepInv, [Sweep]_<<test, input>> PROVE SweepInv'
    OBVIOUS
  <2>1. CASE Sweep
    <3>1. PICK host \in SweepHosts : input' = Swept(input.seen, input.baseline, host)
      BY <2>1 DEF Sweep
    <3>2. BaselineOK(input.seen, input.baseline)
      BY <2>1 DEF Sweep, SweepInv
    <3>3. BaselineOK(input'.seen, input'.baseline) /\ DriftOK(input')
      BY <3>1, <3>2, SweepKeepsBaseline, Zenon
    <3> QED
      BY <3>3, Zenon DEF SweepInv
  <2>2. CASE UNCHANGED <<test, input>>
    BY <2>2 DEF SweepInv
  <2> QED
    BY <2>1, <2>2
<1>3. SweepInv => DriftIsReported
  BY Zenon DEF SweepInv, DriftOK, DriftIsReported
<1> QED
  BY <1>1, <1>2, <1>3, PTL DEF HostSpec

(* A check comes to the result that its evidence calls for (sda-sca, evaluate_check). *)
LEMMA CheckHasEvidence ==
  ASSUME NEW c \in S!ScaCheck(Nat)
  PROVE  S!evaluate_check(c) = verdict(c)
<1>1. /\ c.type \in {"file", "process", "registry", "command"} /\ c.given \in BOOLEAN /\ c.stat \in {"found", "missing", "denied"}
      /\ c.pattern \in {S!None, "valid", "invalid"}
      /\ c.type # "command" => c.text \in {"match", "other", "unreadable"}
      /\ c.type = "command" => /\ c.text \in {"match", "other"} /\ c.expected \in {S!None, "1", "-1"}
                               /\ c.outcome \in {"0", "1", "signal", "timeout", "not executed"}
  BY Zenon DEF S!ScaCheck, S!CheckParams
<1>2. CASE c.type = "file"
  <2>1. S!evaluate_check(c) = S!evaluate_file_check(c)
    BY <1>2 DEF S!evaluate_check
  <2>2. /\ presumed(c) <=> c.given /\ c.stat = "denied"
        /\ established(c) <=> /\ c.given /\ c.stat # "denied"
                              /\ c.stat = "found" /\ c.pattern # S!None => c.pattern = "valid" /\ c.text # "unreadable"
        /\ holds(c) <=> c.stat = "found" /\ (c.pattern = S!None \/ c.text = "match")
    BY <1>2 DEF presumed, established, holds
  <2>3. S!Searched(c.pattern, c.text) = IF c.pattern = "invalid" \/ c.text = "unreadable" THEN "error"
                                        ELSE IF c.text = "match" THEN "passed" ELSE "failed"
    BY DEF S!Searched
  <2> QED
    BY <1>1, <1>2, <2>1, <2>2, <2>3 DEF S!evaluate_file_check, S!exists, S!None, verdict
<1>3. CASE c.type = "process"
  BY <1>1, <1>3 DEF S!evaluate_check, S!evaluate_process_check, S!check_process_running, verdict, presumed, established, holds
<1>4. CASE c.type = "command"
  <2>1. S!evaluate_check(c) = S!evaluate_command_check(c)
    BY <1>4 DEF S!evaluate_check
  <2>2. /\ ~presumed(c)
        /\ established(c) <=> /\ c.given /\ c.outcome \notin {"timeout", "not executed"}
                              /\ exits(c) /\ c.pattern # S!None => c.pattern = "valid"
        /\ holds(c) <=> exits(c) /\ (c.pattern = S!None \/ c.text = "match")
    BY <1>4 DEF presumed, established, holds
  <2>3. S!Searched(c.pattern, c.text) = IF c.pattern = "invalid" \/ c.text = "unreadable" THEN "error"
                                        ELSE IF c.text = "match" THEN "passed" ELSE "failed"
    BY DEF S!Searched
  <2>4. c.outcome \notin {"timeout", "not executed"} =>
          (exits(c) <=> (IF c.outcome = "signal" THEN "-1" ELSE c.outcome) = IF c.expected = S!None THEN "0" ELSE c.expected)
    BY <1>1, <1>4, Zenon DEF exits, S!None
  <2> QED
    BY <1>1, <1>4, <2>1, <2>2, <2>3, <2>4, Zenon DEF S!evaluate_command_check, S!None, verdict
<1>5. CASE c.type = "registry"
  BY <1>5, SMTT(20) DEF S!evaluate_check, verdict, presumed, established
<1> QED
  BY <1>1, <1>2, <1>3, <1>4, <1>5, Zenon

(* Results need evidence, as VerdictsHaveEvidence states it, for any set of policy files
   with any number of checks, and wherever the queue to the server is full. *)
THEOREM VerdictsAreEvident ==
  ASSUME test = "sca" => \A f \in input.files : /\ f.parses \in BOOLEAN /\ f.extension \in {"yaml", "yml", "txt"}
                                                /\ f.checks \in Seq(S!ScaCheck(Nat))
  PROVE  VerdictsHaveEvidence
<1> DEFINE result(f, n, r) == [policy |-> f.id, check |-> f.checks[n].id, result |-> r,
                               server |-> <<f.id, n>> \notin input.full]
           results(f) == [n \in DOMAIN f.checks |-> result(f, n, verdict(f.checks[n]))]
           evaluated(f) == [n \in DOMAIN f.checks |-> result(f, n, S!evaluate_check(f.checks[n]))]
           good == {g \in input.files : g.parses /\ g.extension # "txt"}
<1>1. ASSUME test = "sca"
      PROVE  S!evaluate_all(S!load_policies_from_dir(input.files), input.full) = [f \in good |-> results(f)]
  <2>1. S!load_policies_from_dir(input.files) = good
    BY <1>1 DEF S!load_policies_from_dir, S!load_policy_file
  <2>2. ASSUME NEW f \in good PROVE evaluated(f) = results(f)
    <3>1. \A n \in DOMAIN f.checks : f.checks[n] \in S!ScaCheck(Nat)
      BY <1>1, <2>2
    <3>2. \A n \in DOMAIN f.checks : S!evaluate_check(f.checks[n]) = verdict(f.checks[n])
      BY <3>1, CheckHasEvidence
    <3> HIDE DEF result
    <3> QED
      BY <3>2
  <2>3. S!evaluate_all(good, input.full) = [f \in good |-> evaluated(f)]
    BY DEF S!evaluate_all
  <2> HIDE DEF good, evaluated, results
  <2> QED
    BY <2>1, <2>2, <2>3
<1> QED
  BY <1>1, Zenon DEF VerdictsHaveEvidence
=============================================================================
