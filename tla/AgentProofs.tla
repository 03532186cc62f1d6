----------------------------- MODULE AgentProofs -----------------------------
(***************************************************************************)
(* Proofs about Agent, for any configuration, any intervals of the modules *)
(* and any number of faults: the agent keeps its identity, and the modules *)
(* that scan honour a pause.  And about what paces its modules: the        *)
(* reference definitions of PaceTests hold of the power profile, of the    *)
(* timers and of the rate of scans, for any host, configured number and    *)
(* number of scans.                                                        *)
(***************************************************************************)
EXTENDS Agent, PaceTests, TLAPS

(* The boot sequence.  From the end of the key's save to the end of the process the key
   in memory is the one in the file; the key the agent has connected with is there to
   stay until the file cannot be read, since only a process that finds no key enrolls;
   and the manager has registered the agent once for every fault, and once more for the
   key that is kept. *)
Keyed == {"drop", "connect", "start", "run", "join", "exit"}
Found == load_agent_key(TRUE)
KeyInv ==
  /\ phase \in Keyed => key = keyFile /\ Found # None
  /\ phase \in {"enroll", "save"} => misread \/ Found = None
  /\ phase \in {"save", "saving"} => key \in Keys /\ key.cut = "no"
  /\ identity # None /\ ~misread => keyFile = identity /\ Found # None /\ phase # "saving"
  /\ issued <= faults + (IF phase \in {"save", "saving"} \/ (Found # None /\ phase # "enroll") THEN 1 ELSE 0)

(* The loops.  A loop that has seen the value of the power channel goes by it: inventory
   has no timer while the battery is critical, sca skips its ticks.  A collection that
   starts under a pause is one whose timer was polled before the loop could see it. *)
Paused(l) == ~allowed(l, profile)
LoopInv ==
  /\ \A l \in Loops : ~Paused(l) => late[l] = 0
  /\ \A l \in Receivers : seen[l] /\ pc[l] \notin {"off", "start"} => cur[l] = profile
  /\ cur["inventory"] = "CriticalBattery" =>
       /\ pc["inventory"] \in {"select", "collect"} => timer["inventory"] = None
       /\ pc["inventory"] # "tick"
  /\ late["inventory"] > 0 => pc["inventory"] # "tick"
  /\ late["sca"] > 0 /\ pc["sca"] = "tick" => ~sca_enabled(cur["sca"])
  /\ PauseIsHonoured

IInv == TypeOK /\ KeyInv /\ LoopInv

(* A key that is complete is no missing key. *)
LEMMA KeyFacts ==
  /\ \A n \in Nat, c \in {"no", "key", "fields"} :
       AgentKey(n, c) \in Keys /\ AgentKey(n, c) # None /\ AgentKey(n, c).cut = c
  /\ \A k \in Keys : k # None
BY AgentAssumption DEF AgentKey, Keys

(* Every step keeps the facts about the key: the steps of main, a crash, and those of the
   loops, which know nothing of it. *)
LEMMA KeyStep == IInv /\ [Next]_vars => KeyInv'
<1> SUFFICES ASSUME IInv, [Next]_vars PROVE KeyInv'
  OBVIOUS
<1>0. /\ TypeOK /\ KeyInv /\ issued \in Nat /\ faults \in Nat
      /\ keyFile \in Keys \cup {None} /\ key \in Keys \cup {None}
  BY AgentAssumption DEF IInv, TypeOK
<1> USE <1>0, KeyFacts DEF KeyInv, Keyed, Found, load_agent_key
<1>1. CASE Exec
  BY <1>1 DEF Exec, Goes, Exits
<1>2. CASE Load
  BY <1>2 DEF Load, Goes
<1>3. CASE enroll
  BY <1>3 DEF enroll, Goes
<1>4. CASE EnrollFails
  BY <1>4 DEF EnrollFails, Fails
<1>5. CASE save_agent_key
  BY <1>5 DEF save_agent_key, Goes, Fails
<1>6. CASE Saved
  BY <1>6 DEF Saved, Goes, Fails
<1>7. CASE drop_privileges
  BY <1>7 DEF drop_privileges, Goes, Fails
<1>8. CASE Connect
  BY <1>8 DEF Connect, Goes, Fails
<1>9. CASE StartModules
  BY <1>9 DEF StartModules, Goes
<1>10. CASE wait_for_shutdown
  BY <1>10 DEF wait_for_shutdown, Goes
<1>11. ASSUME NEW l \in Loops, Join(l) PROVE KeyInv'
  BY <1>11 DEF Join
<1>12. CASE Exit
  BY <1>12 DEF Exit, Gone, Exits, Goes
<1>13. CASE Crash
  BY <1>13 DEF Crash, Gone, Fails
<1>14. CASE UNCHANGED bootVars
  BY <1>14 DEF bootVars
<1>15. CASE Return
  BY <1>15 DEF Return, Goes
<1>16. ASSUME NEW l \in Loops, WorkEnds(l) PROVE KeyInv'
  BY <1>16 DEF WorkEnds
<1> HIDE <1>0, KeyFacts DEF KeyInv, Keyed, Found, load_agent_key
<1>17. QED
  BY <1>1, <1>2, <1>3, <1>4, <1>5, <1>6, <1>7, <1>8, <1>9, <1>10, <1>11, <1>12, <1>13, <1>14, <1>15, <1>16
     DEF Next, Boot, Signal, Ending, vars

(* What the loops need of the types. *)
LoopTypes ==
  /\ pc \in [Loops -> {"off", "start", "first", "select", "tick", "collect", "stopped"}]
  /\ enabled \subseteq Loops /\ shutdown \in BOOLEAN /\ power \in Profiles /\ profile \in Profiles
  /\ poller \in Profiles \cup {"off", "wait"} /\ cur \in [Loops -> Profiles]
  /\ seen \in [Loops -> BOOLEAN] /\ timer \in [Loops -> Nat \cup {None}] /\ late \in [Loops -> 0..2]

(* The intervals are whole numbers of hours. *)
LEMMA IntervalFacts ==
  /\ \A p \in Profiles : effective_inventory_interval(p) \in Nat \cup {None}
  /\ effective_inventory_interval("CriticalBattery") = None
  /\ atLeastOne(configured["sca"]) \in Nat /\ atLeastOne(configured["rootcheck"]) \in Nat
BY LoopsAssumption DEF effective_inventory_interval, inventory_interval, atLeastOne, Profiles, Loops

(* Every step of the loops, the poll task and their environment keeps the types. *)
LEMMA LoopTypesStep == LoopTypes /\ LoopsStep => LoopTypes'
<1> SUFFICES ASSUME LoopTypes, LoopsStep PROVE LoopTypes'
  OBVIOUS
<1> USE IntervalFacts, LoopsAssumption DEF LoopTypes, Loops
<1>1. ASSUME NEW l \in Loops, SeeShutdown(l) PROVE LoopTypes'
  BY <1>1 DEF SeeShutdown, Goto
<1>2. ASSUME NEW l \in Loops, PollTimer(l) PROVE LoopTypes'
  BY <1>2 DEF PollTimer, Goto
<1>3. ASSUME NEW l \in Loops, EndCollect(l) PROVE LoopTypes'
  BY <1>3 DEF EndCollect, Goto
<1>4. CASE InventoryBegin
  BY <1>4 DEF InventoryBegin, Collect, Goto, Arm, rebuild_inventory_timer
<1>5. CASE InventoryEnter
  BY <1>5 DEF InventoryEnter, Goto, Arm, rebuild_inventory_timer
<1>6. CASE InventoryPower
  BY <1>6 DEF InventoryPower, Arm, rebuild_inventory_timer
<1>7. CASE InventoryTick
  BY <1>7 DEF InventoryTick, Collect, Goto, Arm, rebuild_inventory_timer
<1>8. CASE ScaBegin
  BY <1>8 DEF ScaBegin, Collect, Goto, Arm, ScaTimer
<1>9. CASE ScaEnter
  BY <1>9 DEF ScaEnter, Goto, Arm, ScaTimer
<1>10. CASE ScaPower
  BY <1>10 DEF ScaPower
<1>11. CASE ScaTick
  BY <1>11 DEF ScaTick, Collect, Goto, Arm, ScaTimer
<1>12. CASE RootcheckBegin
  BY <1>12 DEF RootcheckBegin, Collect, Goto
<1>13. CASE RootcheckEnter
  BY <1>13 DEF RootcheckEnter, Goto, Arm, RootcheckTimer
<1>14. CASE RootcheckTick
  BY <1>14 DEF RootcheckTick, Collect, Goto, Arm, RootcheckTimer
<1>15. CASE Detect
  BY <1>15 DEF Detect
<1>16. CASE Send
  BY <1>16 DEF Send
<1>17. CASE PollerStops
  BY <1>17 DEF PollerStops
<1>18. CASE PowerShifts
  BY <1>18 DEF PowerShifts
<1>19. CASE Hour
  BY <1>19 DEF Hour
<1> HIDE IntervalFacts, LoopsAssumption DEF LoopTypes, Loops
<1>20. QED
  BY <1>1, <1>2, <1>3, <1>4, <1>5, <1>6, <1>7, <1>8, <1>9, <1>10, <1>11, <1>12, <1>13, <1>14, <1>15, <1>16, <1>17, <1>18, <1>19
     DEF LoopsStep, Inventory, Sca, Rootcheck, Finish, PollerStep

(* And it keeps the facts about them. *)
LEMMA LoopsKeepInv == LoopTypes /\ LoopInv /\ LoopsStep => LoopInv'
<1> SUFFICES ASSUME LoopTypes, LoopInv, LoopsStep PROVE LoopInv'
  OBVIOUS
<1> USE IntervalFacts, LoopsAssumption DEF LoopTypes, Loops, Receivers, LoopInv, Paused, PauseIsHonoured, allowed, sca_enabled
<1>1. ASSUME NEW l \in Loops, SeeShutdown(l) PROVE LoopInv'
  BY <1>1 DEF SeeShutdown, Goto
<1>2. ASSUME NEW l \in Loops, PollTimer(l) PROVE LoopInv'
  BY <1>2 DEF PollTimer, Goto
<1>3. ASSUME NEW l \in Loops, EndCollect(l) PROVE LoopInv'
  BY <1>3 DEF EndCollect, Goto
<1>4. CASE InventoryBegin
  BY <1>4 DEF InventoryBegin, Collect, Goto, Arm, rebuild_inventory_timer
<1>5. CASE InventoryEnter
  BY <1>5 DEF InventoryEnter, Goto, Arm, rebuild_inventory_timer
<1>6. CASE InventoryPower
  BY <1>6 DEF InventoryPower, Arm, rebuild_inventory_timer
<1>7. CASE InventoryTick
  BY <1>7 DEF InventoryTick, Collect, Goto, Arm, rebuild_inventory_timer
<1>8. CASE ScaBegin
  BY <1>8 DEF ScaBegin, Collect, Goto, Arm, ScaTimer
<1>9. CASE ScaEnter
  BY <1>9 DEF ScaEnter, Goto, Arm, ScaTimer
<1>10. CASE ScaPower
  BY <1>10 DEF ScaPower
<1>11. CASE ScaTick
  BY <1>11 DEF ScaTick, Collect, Goto, Arm, ScaTimer
<1>12. CASE RootcheckBegin
  BY <1>12 DEF RootcheckBegin, Collect, Goto
<1>13. CASE RootcheckEnter
  BY <1>13 DEF RootcheckEnter, Goto, Arm, RootcheckTimer
<1>14. CASE RootcheckTick
  BY <1>14 DEF RootcheckTick, Collect, Goto, Arm, RootcheckTimer
<1>15. CASE Detect
  BY <1>15 DEF Detect
<1>16. CASE Send
  <2>1. \A l \in Loops : late'[l] = IF allowed(l, profile') THEN 0 ELSE late[l]
    BY <1>16, Zenon DEF Send
  <2>2. \A l \in Receivers : ~seen'[l]
    BY <1>16, Zenon DEF Send
  <2>3. UNCHANGED <<pc, cur, timer>>
    BY <1>16 DEF Send
  <2>4. QED  BY <2>1, <2>2, <2>3
<1>17. CASE PollerStops
  BY <1>17 DEF PollerStops
<1>18. CASE PowerShifts
  BY <1>18 DEF PowerShifts
<1>19. CASE Hour
  BY <1>19 DEF Hour
<1> HIDE IntervalFacts, LoopsAssumption DEF LoopTypes, Loops, Receivers, LoopInv, Paused, PauseIsHonoured, allowed, sca_enabled
<1>20. QED
  BY <1>1, <1>2, <1>3, <1>4, <1>5, <1>6, <1>7, <1>8, <1>9, <1>10, <1>11, <1>12, <1>13, <1>14, <1>15, <1>16, <1>17, <1>18, <1>19
     DEF LoopsStep, Inventory, Sca, Rootcheck, Finish, PollerStep

(* The loops of a process that does not run have the right types. *)
LEMMA OffTypes ==
  /\ [l \in Loops |-> "off"] \in [Loops -> {"off", "start", "first", "select", "tick", "collect", "stopped"}]
  /\ [l \in Loops |-> None] \in [Loops -> Nat \cup {None}]
  /\ [l \in Loops |-> TRUE] \in [Loops -> BOOLEAN]
  /\ [l \in Loops |-> 0] \in [Loops -> 0..2]
  /\ "Normal" \in Profiles /\ [l \in Loops |-> "Normal"] \in [Loops -> Profiles]
BY DEF Profiles

(* The same for every step of the agent: its main and the loops share only the spawning,
   the shutdown signal and the end of the process. *)
LEMMA LoopsOfAgent == IInv /\ [Next]_vars => LoopTypes' /\ LoopInv'
<1> SUFFICES ASSUME IInv, [Next]_vars PROVE LoopTypes' /\ LoopInv'
  OBVIOUS
<1>0. LoopTypes /\ LoopInv
  BY DEF IInv, TypeOK, LoopTypes
<1>1. CASE LoopsStep
  BY <1>0, <1>1, LoopTypesStep, LoopsKeepInv
<1>2. CASE UNCHANGED loopVars
  BY <1>0, <1>2 DEF loopVars, LoopTypes, LoopInv, Paused, PauseIsHonoured
<1>3. CASE StartModules
  <2>1. pc' \in [Loops -> {"off", "start"}]
    BY <1>3 DEF StartModules, LoopsSpawned
  <2>2. QED
    BY <1>0, <1>3, <2>1 DEF StartModules, LoopsSpawned, LoopTypes, LoopInv, Paused, PauseIsHonoured, Receivers, Loops
<1>4. CASE Signal
  BY <1>0, <1>4 DEF Signal, LoopTypes, LoopInv, Paused, PauseIsHonoured
<1>5. CASE LoopsGone
  <2>1. LoopTypes'
    BY <1>0, <1>5, OffTypes, Zenon DEF LoopsGone, LoopTypes
  <2>2. LoopInv'
    BY <1>0, <1>5 DEF LoopsGone, LoopInv, Paused, PauseIsHonoured, Receivers, Loops
  <2>3. QED  BY <2>1, <2>2
<1>6. QED
  BY <1>1, <1>2, <1>3, <1>4, <1>5
     DEF Next, Boot, Ending, Exec, Load, enroll, EnrollFails, save_agent_key, Saved, drop_privileges,
         Connect, wait_for_shutdown, Join, Return, WorkEnds, Exit, Crash, Gone, vars

(* The types of main's own variables. *)
LEMMA MainTypesStep == IInv /\ [Next]_vars => TypeOK'
<1> SUFFICES ASSUME IInv, [Next]_vars PROVE TypeOK'
  OBVIOUS
<1> DEFINE Phases == {"down", "load", "enroll", "save", "saving", "drop", "connect", "start", "run", "join", "exit"}
           Main == /\ phase \in Phases /\ faults \in 0..MaxFaults /\ root \in BOOLEAN /\ left \subseteq Loops
                   /\ keyFile \in Keys \cup {None} /\ key \in Keys \cup {None} /\ identity \in Keys \cup {None}
                   /\ issued \in Nat /\ misread \in BOOLEAN
<1>0. TypeOK /\ Main /\ enabled \subseteq Loops
  BY DEF IInv, TypeOK
<1>1. Main'
  <2> USE <1>0, KeyFacts, AgentAssumption
  <2>1. CASE Exec
    BY <2>1 DEF Exec, Goes, Exits
  <2>2. CASE Load
    <3>1. misread' \in BOOLEAN
      BY <2>2, Zenon DEF Load
    <3>2. phase' \in Phases /\ faults' \in 0..MaxFaults /\ key' \in Keys \cup {None}
      BY <2>2 DEF Load, load_agent_key
    <3>3. QED  BY <2>2, <3>1, <3>2 DEF Load
  <2>3. CASE enroll
    BY <2>3 DEF enroll, Goes
  <2>4. CASE EnrollFails
    BY <2>4 DEF EnrollFails, Fails
  <2>5. CASE save_agent_key
    <3>1. key.id \in Nat
      BY <2>5 DEF save_agent_key, IInv, KeyInv, Keys
    <3>2. QED  BY <2>5, <3>1 DEF save_agent_key, Goes, Fails
  <2>6. CASE Saved
    BY <2>6 DEF Saved, Goes, Fails
  <2>7. CASE drop_privileges
    <3>1. root' \in BOOLEAN
      BY <2>7, Zenon DEF drop_privileges
    <3>2. phase' \in Phases /\ faults' \in 0..MaxFaults
      BY <2>7 DEF drop_privileges, Goes, Fails
    <3>3. QED  BY <2>7, <3>1, <3>2 DEF drop_privileges
  <2>8. CASE Connect
    <3>1. misread' \in BOOLEAN
      BY <2>8, Zenon DEF Connect
    <3>2. QED  BY <2>8, <3>1 DEF Connect, Goes, Fails
  <2>9. CASE StartModules
    BY <2>9 DEF StartModules, Goes
  <2>10. CASE wait_for_shutdown
    BY <2>10 DEF wait_for_shutdown, Goes
  <2>11. ASSUME NEW l \in Loops, Join(l) PROVE Main'
    BY <2>11 DEF Join
  <2>12. CASE Exit
    BY <2>12 DEF Exit, Gone, Exits, Goes
  <2>13. CASE Crash
    BY <2>13 DEF Crash, Gone, Fails
  <2>14. CASE UNCHANGED bootVars
    BY <2>14 DEF bootVars
  <2>15. CASE Return
    BY <2>15 DEF Return, Goes
  <2>16. ASSUME NEW l \in Loops, WorkEnds(l) PROVE Main'
    BY <2>16 DEF WorkEnds
  <2>17. QED
    BY <2>1, <2>2, <2>3, <2>4, <2>5, <2>6, <2>7, <2>8, <2>9, <2>10, <2>11, <2>12, <2>13, <2>14, <2>15, <2>16
      , Zenon DEF Next, Boot, Signal, Ending, vars
<1>2. issued' \in 0..(MaxFaults + 1)
  <2>1. issued' \in Nat /\ faults' \in 0..MaxFaults
    BY <1>1, Zenon
  <2>2. \E n \in 0..1 : issued' <= faults' + n
    <3>1. issued' <= faults' + (IF phase' \in {"save", "saving"} \/ (Found' # None /\ phase' # "enroll") THEN 1 ELSE 0)
      BY KeyStep DEF KeyInv
    <3>2. QED  BY <3>1, 0 \in 0..1, 1 \in 0..1
  <2>3. \A i \in Nat, f \in 0..MaxFaults, n \in 0..1 : i <= f + n => i \in 0..(MaxFaults + 1)
    BY AgentAssumption
  <2>4. QED  BY <2>1, <2>2, <2>3, Zenon
<1>3. QED  BY <1>1, <1>2, LoopsOfAgent DEF TypeOK, LoopTypes

(* The key, the loops and the types hold together at every step. *)
LEMMA Inductive == Spec => []IInv
<1>1. Init => IInv
  <2>1. Init => TypeOK
    <3> SUFFICES ASSUME Init PROVE TypeOK
      OBVIOUS
    <3>1. power \in Profiles /\ enabled \subseteq Loops
      BY LoopsAssumption DEF Init
    <3>2. LoopTypes
      BY <3>1, OffTypes, Zenon DEF Init, LoopsOff, LoopTypes
    <3>3. misread \in BOOLEAN
      BY Zenon DEF Init
    <3>4. QED  BY <3>2, <3>3, AgentAssumption DEF Init, TypeOK, LoopTypes
  <2>2. Init => KeyInv
    BY DEF Init, KeyInv, Keyed, load_agent_key
  <2>3. Init => LoopInv
    BY DEF Init, LoopsOff, LoopInv, Paused, PauseIsHonoured, Loops, Receivers
  <2>4. QED  BY <2>1, <2>2, <2>3 DEF IInv
<1>2. IInv /\ [Next]_vars => IInv'
  BY KeyStep, LoopsOfAgent, MainTypesStep DEF IInv
<1>3. QED  BY <1>1, <1>2, PTL DEF Spec

(* The variables keep their types; in particular the manager registers the agent once,
   and once more for every fault at most. *)
THEOREM TypesHold == Spec => []TypeOK
<1>1. IInv => TypeOK
  BY DEF IInv
<1>2. QED  BY <1>1, Inductive, PTL

(* After a pause a module starts one collection at most, whatever the intervals, the
   profiles the power state goes through and the moment of each poll. *)
THEOREM PauseHolds == Spec => []PauseIsHonoured
<1>1. IInv => PauseIsHonoured
  BY DEF IInv, LoopInv
<1>2. QED  BY <1>1, Inductive, PTL

(* The identity survives any number of crashes and failed boots, as long as the key file
   can be read. *)
THEOREM IdentityHolds == Spec => IdentityIsKept
<1>1. IInv /\ [Next]_vars => (identity # None /\ identity' # identity => misread)
  <2> SUFFICES ASSUME IInv, [Next]_vars, identity # None, ~misread PROVE identity' = identity
    OBVIOUS
  <2>1. CASE Connect
    BY <2>1 DEF Connect, IInv, KeyInv, Keyed
  <2>2. CASE UNCHANGED identity
    BY <2>2
  <2>3. QED
    BY <2>1, <2>2
      , Zenon DEF Next, Boot, Signal, Ending, Exec, Load, enroll, EnrollFails, save_agent_key, Saved, drop_privileges,
           StartModules, wait_for_shutdown, Join, Return, WorkEnds, Exit, Crash, Gone, vars, bootVars
<1>2. QED  BY <1>1, Inductive, PTL DEF Spec, IdentityIsKept

----------------------------------------------------------------------------
(* Power *)

(* Supply m tells whether the mains are on and b is the battery, whatever the host has
   besides and in whatever order. *)
Listed(supplies, m, b) ==
  /\ supplies \in Seq([name : STRING, online : Int, capacity : Int])
  /\ m \in DOMAIN supplies /\ supplies[m].online \in {0, 1}
  /\ b \in DOMAIN supplies /\ supplies[b].name = "BAT0" /\ supplies[b].capacity \in Nat
  /\ \A i \in DOMAIN supplies \ {m} :
       supplies[i].online \notin {0, 1} /\ (supplies[i].name = "AC" => supplies[i].online = T!Absent)
  /\ \A i \in DOMAIN supplies \ {b} : supplies[i].name # "BAT0" /\ supplies[i].capacity \notin 0..255

Ordinary(supplies) == \E m, b \in Nat : Listed(supplies, m, b)

(* A counter of any number of ticks, read some time after the last input that is shorter
   than a turn of the counter. *)
PowerHost(host) ==
  CASE host.os = "linux" -> Ordinary(host.supplies) /\ host.hint \in Nat \cup {T!Absent} /\ host.now \in Nat
    [] host.os = "macos" -> Ordinary(host.supplies) /\ host.idle \in Nat \cup {T!Absent}
    [] OTHER -> /\ host.os = "windows" /\ host.line \in Nat /\ host.percent \in 0..255
                /\ host.wrap \in Nat \ {0} /\ host.dwTime \in 0..(host.wrap - 1) /\ host.elapsed \in 0..(host.wrap - 1)
                /\ host.now = (host.dwTime + host.elapsed) % host.wrap

(* The remainder of a number less than one turn away from the range. *)
LEMMA OneTurn ==
  ASSUME NEW w \in Nat \ {0}, NEW r \in 0..(w - 1)
  PROVE  r % w = r /\ (r + w) % w = r /\ (r - w) % w = r
<1>1. r % w = r
  OBVIOUS
<1>2. (r + w) % w = r
  OBVIOUS
<1>3. (r - w) % w = r
  OBVIOUS
<1> QED
  BY <1>1, <1>2, <1>3

(* The time since the last input is read from the tick counter, also where it has
   wrapped in between (power.rs, windows user_idle_duration). *)
LEMMA TicksSinceInput ==
  ASSUME NEW w \in Nat \ {0}, NEW at \in 0..(w - 1), NEW elapsed \in 0..(w - 1)
  PROVE  T!windows_user_idle_duration((at + elapsed) % w, at, w) = elapsed
<1>1. CASE at + elapsed < w
  <2>1. (at + elapsed) % w = at + elapsed
    BY <1>1, OneTurn
  <2>2. elapsed % w = elapsed
    BY OneTurn
  <2>3. (at + elapsed) - at = elapsed
    OBVIOUS
  <2> QED
    BY <2>1, <2>2, <2>3 DEF T!windows_user_idle_duration
<1>2. CASE at + elapsed >= w
  <2> DEFINE r == at + elapsed - w
  <2>1. r \in 0..(w - 1) /\ r + w = at + elapsed /\ r - at = elapsed - w
    BY <1>2
  <2>2. (at + elapsed) % w = r
    BY <2>1, OneTurn
  <2>3. (elapsed - w) % w = elapsed
    BY OneTurn
  <2> QED
    BY <2>1, <2>2, <2>3 DEF T!windows_user_idle_duration
<1> QED
  BY <1>1, <1>2

(* Where one source at most gives an answer, it is that one (power.rs, with_power_sources). *)
LEMMA OnlyAnswer ==
  ASSUME NEW sources, NEW k \in Nat, NEW answers, answers \subseteq {k}
  PROVE  T!first(sources, answers) = IF k \in answers THEN sources[k] ELSE T!NoSource
<1>1. CASE k \in answers
  <2>1. answers = {k}
    BY <1>1, Zenon
  <2>2. (CHOOSE i \in answers : \A j \in answers : i <= j) = k
    BY <2>1
  <2> QED
    BY <1>1, <2>1, <2>2 DEF T!first
<1>2. CASE k \notin answers
  <2>1. answers = {}
    BY <1>2
  <2> QED
    BY <1>2, <2>1, Zenon DEF T!first
<1> QED
  BY <1>1, <1>2

(* Linux reads the mains and the battery wherever they are listed (power.rs,
   linux_power_state and linux_battery_percentage). *)
LEMMA LinuxReads ==
  ASSUME NEW sup, NEW m, NEW b, Listed(sup, m, b)
  PROVE  /\ T!linux_power_state(sup) = IF sup[m].online = 0 THEN "Battery" ELSE "AC"
         /\ T!linux_battery_percentage(sup) = IF sup[b].capacity \in 0..255 THEN sup[b].capacity ELSE T!Absent
<1> DEFINE mains == {i \in DOMAIN sup : sup[i].name = "AC" /\ sup[i].online # T!Absent}
           telling == {i \in DOMAIN sup : sup[i].online \in {0, 1}}
           charged == {i \in DOMAIN sup : sup[i].capacity \in 0..255}
<1>1. m \in Nat /\ m \in DOMAIN sup /\ b \in Nat /\ b \in DOMAIN sup /\ sup[m].online \in {0, 1}
  BY SMTT(30) DEF Listed
<1>2. mains \subseteq {m} /\ telling \subseteq {m} /\ charged \subseteq {b}
  BY Zenon DEF Listed
<1>3. m \in telling /\ (b \in charged <=> sup[b].capacity \in 0..255)
  BY <1>1, Zenon
<1>4. /\ T!linux_power_state(sup)
           = T!PowerState(IF T!first(sup, mains) # T!NoSource THEN T!first(sup, mains).online
                          ELSE T!first(sup, telling).online)
      /\ T!linux_battery_percentage(sup) = T!first(sup, charged).capacity
  BY DEF T!linux_power_state, T!linux_battery_percentage
<1> HIDE DEF mains, telling, charged
<1>5. T!first(sup, telling) = sup[m] /\ T!first(sup, mains) \in {T!NoSource, sup[m]}
  BY <1>1, <1>2, <1>3, OnlyAnswer, Zenon
<1>6. T!first(sup, charged) = IF b \in charged THEN sup[b] ELSE T!NoSource
  BY <1>1, <1>2, OnlyAnswer, Zenon
<1>7. T!PowerState(sup[m].online) = IF sup[m].online = 0 THEN "Battery" ELSE "AC"
  BY <1>1 DEF T!PowerState
<1>8. T!NoSource.capacity = T!Absent
  BY DEF T!NoSource
<1> QED
  BY <1>3, <1>4, <1>5, <1>6, <1>7, <1>8, Zenon

(* macOS reads them from its list of sources (power.rs, macos_power_state and
   macos_battery_percentage). *)
LEMMA MacosReads ==
  ASSUME NEW sup, NEW m, NEW b, Listed(sup, m, b)
  PROVE  /\ T!macos_power_state(sup) = IF sup[m].online = 0 THEN "Battery" ELSE "AC"
         /\ T!macos_battery_percentage(sup) = IF sup[b].capacity \in 0..100 THEN sup[b].capacity ELSE T!Absent
<1> DEFINE telling == {i \in DOMAIN sup : sup[i].online \in {0, 1}}
           charged == {i \in DOMAIN sup : sup[i].capacity \in 0..100}
<1>1. m \in Nat /\ m \in DOMAIN sup /\ b \in Nat /\ b \in DOMAIN sup /\ sup[m].online \in {0, 1}
  BY SMTT(30) DEF Listed
<1>2. telling \subseteq {m} /\ charged \subseteq {b}
  <2>1. \A n : n \in 0..100 => n \in 0..255
    OBVIOUS
  <2>2. telling \subseteq {m}
    BY Zenon DEF Listed
  <2>3. ASSUME NEW i \in charged PROVE i = b
    <3>1. i \in DOMAIN sup /\ sup[i].capacity \in 0..100
      BY <2>3
    <3>2. sup[i].capacity \in 0..255
      BY <2>1, <3>1, SMTT(30)
    <3> QED
      BY <3>1, <3>2, Zenon DEF Listed
  <2> QED
    BY <2>2, <2>3, Zenon
<1>3. m \in telling /\ (b \in charged <=> sup[b].capacity \in 0..100)
  BY <1>1, Zenon
<1>4. /\ T!macos_power_state(sup) = T!PowerState(T!first(sup, telling).online)
      /\ T!macos_battery_percentage(sup) = T!first(sup, charged).capacity
  BY DEF T!macos_power_state, T!macos_battery_percentage
<1> HIDE DEF telling, charged
<1>5. T!first(sup, telling) = sup[m]
  BY <1>1, <1>2, <1>3, OnlyAnswer, Zenon
<1>6. T!first(sup, charged) = IF b \in charged THEN sup[b] ELSE T!NoSource
  BY <1>1, <1>2, OnlyAnswer, Zenon
<1>7. T!PowerState(sup[m].online) = IF sup[m].online = 0 THEN "Battery" ELSE "AC"
  BY <1>1 DEF T!PowerState
<1>8. T!NoSource.capacity = T!Absent
  BY DEF T!NoSource
<1> QED
  BY <1>3, <1>4, <1>5, <1>6, <1>7, <1>8, Zenon

(* The profile that is derived is the one the readings call for (power.rs, from_inputs). *)
LEMMA ProfileOfReadings ==
  ASSUME NEW supply, NEW idle \in BOOLEAN, NEW percent \in Nat, NEW read,
         read = percent \/ (read = T!Absent /\ percent >= 10)
  PROVE  T!from_inputs(supply, idle, read)
           = IF supply # "Battery" THEN IF idle THEN "IdleAC" ELSE "Normal"
             ELSE IF percent < 10 THEN "CriticalBattery" ELSE IF idle THEN "BatteryIdle" ELSE "BatteryActive"
BY DEF T!from_inputs, T!Absent

(* The profile fits the host, as ProfileFitsTheHost states it, for any listing of any
   number of supplies of which one tells about the mains and one is the battery, any idle
   time, and tick counters of any width. *)
THEOREM ProfileFits ==
  ASSUME test = "power" => PowerHost(input)
  PROVE  ProfileFitsTheHost
<1> DEFINE mains == CHOOSE m \in Range(input.supplies) : m.online \in {0, 1}
           battery == CHOOSE b \in Range(input.supplies) : b.name = "BAT0"
           called(onBattery, percent, idle) ==
             IF ~onBattery THEN IF idle THEN "IdleAC" ELSE "Normal"
             ELSE IF percent < 10 THEN "CriticalBattery" ELSE IF idle THEN "BatteryIdle" ELSE "BatteryActive"
<1> SUFFICES ASSUME test = "power" PROVE ProfileFitsTheHost
  BY Zenon DEF ProfileFitsTheHost
<1>1. ASSUME NEW m, NEW b, Listed(input.supplies, m, b)
      PROVE  input.supplies[m] = mains /\ input.supplies[b] = battery
  <2>1. \A s : s \in Range(input.supplies) <=> \E i \in DOMAIN input.supplies : s = input.supplies[i]
    BY Zenon DEF Range
  <2>2. /\ m \in DOMAIN input.supplies /\ input.supplies[m].online \in {0, 1}
        /\ \A i \in DOMAIN input.supplies : input.supplies[i].online \in {0, 1} => i = m
    BY <1>1, Zenon DEF Listed
  <2>3. /\ b \in DOMAIN input.supplies /\ input.supplies[b].name = "BAT0"
        /\ \A i \in DOMAIN input.supplies : input.supplies[i].name = "BAT0" => i = b
    BY <1>1, Zenon DEF Listed
  <2>4. /\ \A s \in Range(input.supplies) : s.online \in {0, 1} <=> s = input.supplies[m]
        /\ input.supplies[m] \in Range(input.supplies)
    BY <2>1, <2>2, Zenon
  <2>5. /\ \A s \in Range(input.supplies) : s.name = "BAT0" <=> s = input.supplies[b]
        /\ input.supplies[b] \in Range(input.supplies)
    BY <2>1, <2>3, SMTT(30)
  <2>6. mains = input.supplies[m]
    BY <2>4, Zenon
  <2>7. battery = input.supplies[b]
    BY <2>5, Zenon
  <2> QED
    BY <2>6, <2>7, Zenon
<1> HIDE DEF mains, battery
<1>2. CASE input.os = "linux"
  <2>1. Ordinary(input.supplies) /\ input.hint \in Nat \cup {T!Absent} /\ input.now \in Nat
    BY <1>2 DEF PowerHost
  <2> DEFINE idle == input.hint \in 1..(input.now - IdleTime)
  <2>2. T!is_user_idle(T!linux_user_idle_duration(input), IdleTime) = idle
    BY <2>1, PaceAssumption DEF T!is_user_idle, T!linux_user_idle_duration, T!parse_idle_since_hint, T!Absent
  <2>3. PICK m, b \in Nat : Listed(input.supplies, m, b)
    BY <2>1 DEF Ordinary
  <2>4. /\ T!linux_power_state(input.supplies) = IF mains.online = 0 THEN "Battery" ELSE "AC"
        /\ T!linux_battery_percentage(input.supplies) = IF battery.capacity \in 0..255 THEN battery.capacity ELSE T!Absent
        /\ battery.capacity \in Nat
    <3>1. /\ T!linux_power_state(input.supplies) = IF input.supplies[m].online = 0 THEN "Battery" ELSE "AC"
          /\ T!linux_battery_percentage(input.supplies)
               = IF input.supplies[b].capacity \in 0..255 THEN input.supplies[b].capacity ELSE T!Absent
      BY <2>3, LinuxReads, Zenon
    <3>2. input.supplies[b].capacity \in Nat
      BY <2>3, Zenon DEF Listed
    <3> QED
      BY <1>1, <2>3, <3>1, <3>2, Zenon
  <2>5. T!detect(input, IdleTime) = called(mains.online = 0, battery.capacity, idle)
    <3> DEFINE read == IF battery.capacity \in 0..255 THEN battery.capacity ELSE T!Absent
               supply == IF mains.online = 0 THEN "Battery" ELSE "AC"
    <3>1. read = battery.capacity \/ (read = T!Absent /\ battery.capacity >= 10)
      BY <2>4, SMTT(30)
    <3>2. supply = "Battery" <=> mains.online = 0
      OBVIOUS
    <3>3. T!detect(input, IdleTime) = T!from_inputs(supply, idle, read)
      BY <1>2, <2>2, <2>4 DEF T!detect
    <3> HIDE DEF idle, read, supply
    <3>4. idle \in BOOLEAN
      BY DEF idle
    <3> QED
      BY <2>4, <3>1, <3>2, <3>3, <3>4, ProfileOfReadings, SMTT(30)
  <2> QED
    BY <1>2, <2>5 DEF ProfileFitsTheHost, mains, battery
<1>3. CASE input.os = "macos"
  <2>1. Ordinary(input.supplies) /\ input.idle \in Nat \cup {T!Absent}
    BY <1>3 DEF PowerHost
  <2> DEFINE idle == input.idle >= IdleTime
  <2>2. T!is_user_idle(T!macos_user_idle_duration(input), IdleTime) = idle
    BY <2>1, PaceAssumption DEF T!is_user_idle, T!macos_user_idle_duration, T!Absent
  <2>3. PICK m, b \in Nat : Listed(input.supplies, m, b)
    BY <2>1 DEF Ordinary
  <2>4. /\ T!macos_power_state(input.supplies) = IF mains.online = 0 THEN "Battery" ELSE "AC"
        /\ T!macos_battery_percentage(input.supplies) = IF battery.capacity \in 0..100 THEN battery.capacity ELSE T!Absent
        /\ battery.capacity \in Nat
    <3>1. /\ T!macos_power_state(input.supplies) = IF input.supplies[m].online = 0 THEN "Battery" ELSE "AC"
          /\ T!macos_battery_percentage(input.supplies)
               = IF input.supplies[b].capacity \in 0..100 THEN input.supplies[b].capacity ELSE T!Absent
      BY <2>3, MacosReads, Zenon
    <3>2. input.supplies[b].capacity \in Nat
      BY <2>3, Zenon DEF Listed
    <3> QED
      BY <1>1, <2>3, <3>1, <3>2, Zenon
  <2>5. T!detect(input, IdleTime) = called(mains.online = 0, battery.capacity, idle)
    <3> DEFINE read == IF battery.capacity \in 0..100 THEN battery.capacity ELSE T!Absent
               supply == IF mains.online = 0 THEN "Battery" ELSE "AC"
    <3>1. read = battery.capacity \/ (read = T!Absent /\ battery.capacity >= 10)
      BY <2>4
    <3>2. supply = "Battery" <=> mains.online = 0
      OBVIOUS
    <3>3. T!detect(input, IdleTime) = T!from_inputs(supply, idle, read)
      BY <1>3, <2>2, <2>4 DEF T!detect
    <3> HIDE DEF idle, read, supply
    <3>4. idle \in BOOLEAN
      BY <2>1, PaceAssumption DEF idle, T!Absent
    <3> QED
      BY <2>4, <3>1, <3>2, <3>3, <3>4, ProfileOfReadings
  <2> QED
    BY <1>3, <2>5 DEF ProfileFitsTheHost, mains, battery
<1>4. CASE input.os = "windows"
  <2>1. /\ input.line \in Nat /\ input.percent \in 0..255
        /\ input.wrap \in Nat \ {0} /\ input.dwTime \in 0..(input.wrap - 1) /\ input.elapsed \in 0..(input.wrap - 1)
        /\ input.now = (input.dwTime + input.elapsed) % input.wrap
    BY <1>4 DEF PowerHost
  <2> DEFINE idle == input.elapsed >= IdleTime
  <2>2. T!windows_user_idle_duration(input.now, input.dwTime, input.wrap) = input.elapsed
    <3>1. T!windows_user_idle_duration((input.dwTime + input.elapsed) % input.wrap, input.dwTime, input.wrap) = input.elapsed
      BY <2>1, TicksSinceInput, Zenon
    <3> QED
      BY <2>1, <3>1, Zenon
  <2>3. T!is_user_idle(T!windows_user_idle_duration(input.now, input.dwTime, input.wrap), IdleTime) = idle
    BY <2>1, <2>2, PaceAssumption DEF T!is_user_idle, T!Absent
  <2>4. /\ T!PowerState(input.line) = "Battery" <=> input.line = 0
        /\ T!windows_battery_percentage(input.percent) = IF input.percent # 255 THEN input.percent ELSE T!Absent
    BY <2>1 DEF T!PowerState, T!windows_battery_percentage
  <2>5. T!detect(input, IdleTime) = called(input.line = 0, input.percent, idle)
    <3> DEFINE read == IF input.percent # 255 THEN input.percent ELSE T!Absent
    <3>1. T!detect(input, IdleTime) = T!from_inputs(T!PowerState(input.line), idle, read)
      BY <1>4, <2>3, <2>4 DEF T!detect
    <3>2. input.percent \in Nat /\ (read = input.percent \/ (read = T!Absent /\ input.percent >= 10))
      BY <2>1
    <3> HIDE DEF idle, read
    <3>3. idle \in BOOLEAN
      BY <2>1, PaceAssumption DEF idle
    <3> QED
      BY <2>4, <3>1, <3>2, <3>3, ProfileOfReadings
  <2> QED
    BY <1>4, <2>5 DEF ProfileFitsTheHost
<1> QED
  BY <1>2, <1>3, <1>4 DEF PowerHost

----------------------------------------------------------------------------
(* Timers and the rate of scans *)

(* The periods of the timers, for any configured number. *)
LEMMA TimersBounded ==
  ASSUME test = "timer" => input.configured \in Nat
  PROVE  TimersAreBounded
<1> SUFFICES ASSUME test = "timer" PROVE TimersAreBounded
  BY Zenon DEF TimersAreBounded
<1> DEFINE c == input.configured
           slower == <<"IdleAC", "Normal", "BatteryActive", "BatteryIdle">>
<1>1. c \in Nat
  OBVIOUS
<1> HIDE DEF c
<1> USE DEF T!effective_ei_interval, T!effective_scan_interval, T!effective_hash_budget, T!atLeast,
            T!fim_scan_rate, T!inventory_interval, T!log_batch_interval
<1>2. \A p \in T!Profiles \ {"CriticalBattery"} :
        T!effective_ei_interval(c, p) >= 1 /\ T!effective_scan_interval(c, p) >= 2
  BY <1>1 DEF T!Profiles
<1>3. \A n \in {T!effective_check_interval(c), T!rule_pull_period(c), T!offline_drain_period(c)} : n >= 1
  BY <1>1 DEF T!effective_check_interval, T!rule_pull_period, T!offline_drain_period
<1>4. \A i, j \in 1..4 : i < j => T!effective_ei_interval(c, slower[i]) <= T!effective_ei_interval(c, slower[j])
  BY <1>1
<1>5. \A i, j \in 1..4 : i < j => T!effective_scan_interval(c, slower[i]) <= T!effective_scan_interval(c, slower[j])
  BY <1>1
<1>6. \A i, j \in 1..4 : i < j => T!effective_hash_budget(c, slower[j]) <= T!effective_hash_budget(c, slower[i])
  BY <1>1
<1>7. \A i, j \in 1..4 : i < j => T!log_batch_interval(slower[i]) <= T!log_batch_interval(slower[j])
  OBVIOUS
<1>8. \A p \in T!Profiles : T!effective_hash_budget(c, p) = 0 <=> c = 0
  BY <1>1 DEF T!Profiles
<1>9. c > 0 => T!spawn_watchdog(c) >= 1 /\ (2 * T!spawn_watchdog(c) <= c \/ c = 1)
  BY <1>1 DEF T!spawn_watchdog
<1> HIDE DEF T!effective_ei_interval, T!effective_scan_interval, T!effective_hash_budget, T!atLeast,
            T!fim_scan_rate, T!inventory_interval, T!log_batch_interval
<1> QED
  BY <1>2, <1>3, <1>4, <1>5, <1>6, <1>7, <1>8, <1>9, Zenon DEF TimersAreBounded, c

(* Scans that are asked for one after the other.  All scans but those the window counts
   began before it, and all but as many more as the limit allows began a second before
   it; what the window counts is within the limit. *)
RateStates ==
  [limit : Nat, began : Seq(Nat), asked : Nat, at : Nat,
   rate : [limit : Nat \ {0}, count : Nat, window_started : Nat]]
RateOK(i) ==
  LET before == Len(i.began) - i.rate.count
  IN  /\ i \in RateStates
      /\ i.rate.limit = IF i.limit = 0 THEN 1 ELSE i.limit
      /\ i.rate.count <= i.rate.limit /\ before >= 0
      /\ i.rate.window_started <= i.at /\ i.at <= i.asked + Second
      /\ \A n \in DOMAIN i.began : i.began[n] <= i.at
      /\ \A n \in DOMAIN i.began : n <= before => i.began[n] <= i.rate.window_started
      /\ \A n \in DOMAIN i.began : n + i.rate.limit <= before => i.began[n] + Second <= i.rate.window_started
      /\ \A n \in DOMAIN i.began : n + 2 * i.rate.limit \in DOMAIN i.began =>
           i.began[n + 2 * i.rate.limit] >= i.began[n] + Second
RateInv == test = "rate" => RateOK(input)

(* When a scan begins: in the window, which then counts it, or in a new one, which begins
   a second later at the earliest (yara_scanner.rs, consume_or_wait and reset). *)
LEMMA ScanBegins ==
  ASSUME NEW L \in Nat \ {0}, NEW c \in Nat, c <= L, NEW w \in Nat, NEW now \in Nat, now >= w
  PROVE  \E at, v, d \in Nat :
           /\ T!rate_limited([limit |-> L, count |-> c, window_started |-> w], now, Second, LeastWait)
                = [rate |-> [limit |-> L, count |-> d, window_started |-> v], at |-> at]
           /\ d \in 1..L /\ v <= at /\ now <= at /\ at <= now + Second
           /\ (v = w /\ d = c + 1) \/ (v = at /\ v >= w + Second /\ d = 1)
<1> DEFINE r == [limit |-> L, count |-> c, window_started |-> w]
           a == T!consume_or_wait(r, now, Second, LeastWait)
           scan == T!rate_limited(r, now, Second, LeastWait)
<1>1. Second \in Nat \ {0} /\ LeastWait \in 1..Second
  BY PaceAssumption
<1>2. CASE now - w >= Second
  <2>1. a = [rate |-> [limit |-> L, count |-> 1, window_started |-> now], wait |-> 0]
    BY <1>1, <1>2 DEF T!consume_or_wait
  <2>2. scan = [rate |-> [limit |-> L, count |-> 1, window_started |-> now], at |-> now]
    BY <2>1, SMTT(30) DEF T!rate_limited
  <2> HIDE DEF scan
  <2>3. \E at, v, d \in Nat :
           /\ scan = [rate |-> [limit |-> L, count |-> d, window_started |-> v], at |-> at]
           /\ d \in 1..L /\ v <= at /\ now <= at /\ at <= now + Second
           /\ (v = w /\ d = c + 1) \/ (v = at /\ v >= w + Second /\ d = 1)
    BY <1>1, <1>2, <2>2
  <2> QED
    BY <2>3, Zenon DEF scan
<1>3. CASE now - w < Second /\ c < L
  <2>1. a = [rate |-> [limit |-> L, count |-> c + 1, window_started |-> w], wait |-> 0]
    BY <1>1, <1>3 DEF T!consume_or_wait
  <2>2. scan = [rate |-> [limit |-> L, count |-> c + 1, window_started |-> w], at |-> now]
    BY <2>1 DEF T!rate_limited
  <2> HIDE DEF scan
  <2>3. \E at, v, d \in Nat :
           /\ scan = [rate |-> [limit |-> L, count |-> d, window_started |-> v], at |-> at]
           /\ d \in 1..L /\ v <= at /\ now <= at /\ at <= now + Second
           /\ (v = w /\ d = c + 1) \/ (v = at /\ v >= w + Second /\ d = 1)
    BY <1>1, <1>3, <2>2
  <2> QED
    BY <2>3, Zenon DEF scan
<1>4. CASE now - w < Second /\ ~(c < L)
  <2> DEFINE wait == T!atLeast(Second - (now - w), LeastWait)
  <2>1. a = [rate |-> r, wait |-> wait]
    BY <1>1, <1>4 DEF T!consume_or_wait
  <2>2. wait \in 1..Second /\ wait >= Second - (now - w)
    BY <1>1, <1>4 DEF T!atLeast
  <2> HIDE DEF wait
  <2> DEFINE later == now + wait
  <2>3. scan = [rate |-> [limit |-> L, count |-> 1, window_started |-> later], at |-> later]
    BY <2>1, <2>2 DEF T!rate_limited, T!reset
  <2>4. later \in Nat /\ now <= later /\ later <= now + Second /\ later >= w + Second
    BY <1>1, <1>4, <2>2
  <2> HIDE DEF scan, later
  <2>5. \E at, v, d \in Nat :
           /\ scan = [rate |-> [limit |-> L, count |-> d, window_started |-> v], at |-> at]
           /\ d \in 1..L /\ v <= at /\ now <= at /\ at <= now + Second
           /\ (v = w /\ d = c + 1) \/ (v = at /\ v >= w + Second /\ d = 1)
    BY <1>1, <2>3, <2>4
  <2> QED
    BY <2>5, Zenon DEF scan
<1>5. now - w >= Second \/ now - w < Second
  BY <1>1
<1> QED
  BY <1>2, <1>3, <1>4, <1>5, Zenon

(* A scan keeps the invariant of the scans. *)
LEMMA ScanKeepsRate ==
  ASSUME NEW i, RateOK(i), NEW gap \in Nat
  PROVE  LET scan == T!rate_limited(i.rate, i.at + gap, Second, LeastWait)
         IN  RateOK([limit |-> i.limit, began |-> Append(i.began, scan.at),
                     asked |-> i.at + gap, at |-> scan.at, rate |-> scan.rate])
<1> DEFINE w == i.rate.window_started
           c == i.rate.count
           L == i.rate.limit
           s == i.began
           N == Len(s)
           now == i.at + gap
<1>0. /\ i.limit \in Nat /\ s \in Seq(Nat) /\ i.at \in Nat /\ i.rate = [limit |-> L, count |-> c, window_started |-> w]
  BY DEF RateOK, RateStates
<1>1. w \in Nat /\ c \in Nat /\ L \in Nat /\ L > 0
  BY DEF RateOK, RateStates
<1>2. Second \in Nat /\ Second > 0 /\ now \in Nat /\ N \in Nat /\ DOMAIN s = 1..N /\ \A n \in 1..N : s[n] \in Nat
  <2>1. s \in Seq(Nat) /\ i.at \in Nat /\ gap \in Nat /\ Second \in Nat \ {0}
    BY <1>0, PaceAssumption
  <2> HIDE DEF s
  <2> QED
    BY <2>1
<1>3. c <= L /\ c <= N /\ w <= now /\ \A n \in 1..N : s[n] <= now
  <2>1. c <= L /\ N - c >= 0 /\ w <= i.at /\ \A n \in DOMAIN s : s[n] <= i.at
    BY Zenon DEF RateOK
  <2>2. i.at <= now
    BY <1>0
  <2> HIDE DEF w, c, L, s, N, now
  <2>3. c <= N /\ w <= now
    BY <1>0, <1>1, <1>2, <2>1, <2>2
  <2>4. \A n \in 1..N : s[n] <= now
    BY <1>0, <1>2, <2>1, <2>2
  <2> QED
    BY <2>1, <2>3, <2>4
<1>4. L = IF i.limit = 0 THEN 1 ELSE i.limit
  BY DEF RateOK
<1>5. \A n \in 1..N : n <= N - c => s[n] <= w
  BY <1>2 DEF RateOK
<1>6. \A n \in 1..N : n + L <= N - c => s[n] + Second <= w
  BY <1>2 DEF RateOK
<1>7. \A n \in 1..N : n + 2 * L \in 1..N => s[n + 2 * L] >= s[n] + Second
  BY <1>2, Zenon DEF RateOK
<1> HIDE DEF w, c, L, s, N, now
<1> DEFINE old == [limit |-> L, count |-> c, window_started |-> w]
<1>8. PICK at, v, d \in Nat :
        /\ T!rate_limited(old, now, Second, LeastWait) = [rate |-> [limit |-> L, count |-> d, window_started |-> v], at |-> at]
        /\ d \in 1..L /\ v <= at /\ now <= at /\ at <= now + Second
        /\ (v = w /\ d = c + 1) \/ (v = at /\ v >= w + Second /\ d = 1)
  <2>1. L \in Nat \ {0} /\ now >= w
    BY <1>1, <1>2, <1>3
  <2> QED
    BY <1>1, <1>2, <1>3, <2>1, ScanBegins, Zenon
<1> HIDE DEF old
<1>9. d \in 1..L /\ v <= at /\ now <= at /\ at <= now + Second /\ ((v = w /\ d = c + 1) \/ (v = at /\ v >= w + Second /\ d = 1))
  BY <1>8, Zenon
<1> DEFINE b == Append(s, at)
<1>10. /\ b \in Seq(Nat) /\ Len(b) = N + 1 /\ DOMAIN b = 1..(N + 1) /\ b[N + 1] = at
       /\ \A n \in 1..N : b[n] = s[n]
  <2>1. s \in Seq(Nat) /\ at \in Nat /\ N = Len(s)
    BY <1>0, Zenon DEF N
  <2>2. b \in Seq(Nat) /\ Len(b) = N + 1
    BY <2>1
  <2>3. b[N + 1] = at
    BY <2>1
  <2>4. \A n \in 1..N : b[n] = s[n]
    BY <2>1
  <2> HIDE DEF b
  <2>5. DOMAIN b = 1..(N + 1)
    BY <2>2
  <2> QED
    BY <2>2, <2>3, <2>4, <2>5, Zenon
<1> HIDE DEF b
<1>11. \A n \in 1..(N + 1) : b[n] <= at
  BY <1>2, <1>3, <1>9, <1>10
<1>12. \A n \in 1..(N + 1) : n <= N + 1 - d => b[n] <= v
  BY <1>1, <1>2, <1>3, <1>5, <1>9, <1>10
<1>13. \A n \in 1..(N + 1) : n + L <= N + 1 - d => b[n] + Second <= v
  <2> SUFFICES ASSUME NEW n \in 1..(N + 1), n + L <= N + 1 - d PROVE b[n] + Second <= v
    OBVIOUS
  <2>1. n \in 1..N /\ b[n] = s[n] /\ s[n] \in Nat
    BY <1>1, <1>2, <1>9, <1>10
  <2>2. CASE v = w /\ d = c + 1
    BY <1>1, <1>2, <1>6, <2>1, <2>2
  <2>3. CASE v >= w + Second /\ d = 1
    BY <1>1, <1>2, <1>3, <1>5, <2>1, <2>3
  <2> QED
    BY <1>9, <2>2, <2>3
<1>14. \A n \in 1..(N + 1) : n + 2 * L \in 1..(N + 1) => b[n + 2 * L] >= b[n] + Second
  <2> SUFFICES ASSUME NEW n \in 1..(N + 1), n + 2 * L \in 1..(N + 1) PROVE b[n + 2 * L] >= b[n] + Second
    OBVIOUS
  <2>1. CASE n + 2 * L = N + 1
    <3>1. b[n] + Second <= v
      BY <1>1, <1>2, <1>9, <1>13, <2>1
    <3>2. b[n] \in Nat
      BY <1>10
    <3> QED
      BY <1>2, <1>9, <1>10, <2>1, <3>1, <3>2
  <2>2. CASE n + 2 * L # N + 1
    BY <1>1, <1>2, <1>7, <1>10, <2>2
  <2> QED
    BY <2>1, <2>2
<1> DEFINE r == [limit |-> L, count |-> d, window_started |-> v]
           j == [limit |-> i.limit, began |-> b, asked |-> now, at |-> at, rate |-> r]
<1>15. j \in RateStates
  BY <1>0, <1>1, <1>2, <1>10, SMTT(30) DEF RateStates
<1>16. d <= L /\ N + 1 - d >= 0
  BY <1>1, <1>2, <1>3, <1>9
<1>17. RateOK(j)
  <2>1. /\ j.limit = i.limit /\ j.began = b /\ j.asked = now /\ j.at = at
        /\ j.rate.limit = L /\ j.rate.count = d /\ j.rate.window_started = v
    OBVIOUS
  <2>2. \A n \in DOMAIN b : n <= Len(b) - d => b[n] <= v
    BY <1>1, <1>2, <1>10, <1>12
  <2>3. \A n \in DOMAIN b : n + L <= Len(b) - d => b[n] + Second <= v
    BY <1>1, <1>2, <1>10, <1>13
  <2>4. \A n \in DOMAIN b : n + 2 * L \in DOMAIN b => b[n + 2 * L] >= b[n] + Second
    BY <1>10, <1>14, Zenon
  <2>5. (\A n \in DOMAIN b : b[n] <= at) /\ Len(b) - d >= 0
    BY <1>2, <1>10, <1>11, <1>16
  <2> HIDE DEF j
  <2> QED
    BY <1>4, <1>9, <1>15, <1>16, <2>1, <2>2, <2>3, <2>4, <2>5, Zenon DEF RateOK
<1>18. T!rate_limited(i.rate, now, Second, LeastWait) = [rate |-> r, at |-> at]
  BY <1>0, <1>8, Zenon DEF old
<1> HIDE DEF r
<1> DEFINE scan == T!rate_limited(i.rate, now, Second, LeastWait)
<1>19. scan.at = at /\ scan.rate = r
  BY <1>18
<1> HIDE DEF scan
<1>20. RateOK([limit |-> i.limit, began |-> Append(s, scan.at), asked |-> now, at |-> scan.at, rate |-> scan.rate])
  BY <1>17, <1>19, Zenon DEF b
<1> QED
  BY <1>20, Zenon DEF s, now, scan

(* Nothing but the rate of scans and the configured numbers matters to the limits. *)
LimitsInv == RateInv /\ (test = "timer" => input.configured \in Nat)

(* No timer has a period of zero and scans keep to their limit, as LimitsHold states it, for
   any configured number, any limit and any number of scans at any times (the functions
   of Timers). *)
THEOREM LimitsAlwaysHold == PaceSpec => []LimitsHold
<1>1. PaceTest => LimitsInv
  <2>1. ASSUME RateTests PROVE LimitsInv
    <3>1. PICK limit \in Limits :
            input = [limit |-> limit, began |-> <<>>, asked |-> 0, at |-> 0, rate |-> T!RateWindow(limit, 0)]
      BY <2>1 DEF RateTests
    <3>2. limit \in Nat /\ Second \in Nat
      BY PaceAssumption
    <3> DEFINE L == IF limit = 0 THEN 1 ELSE limit
    <3>3. T!RateWindow(limit, 0) = [limit |-> L, count |-> 0, window_started |-> 0] /\ L \in Nat \ {0}
      BY <3>2 DEF T!RateWindow
    <3> HIDE DEF L
    <3>4. /\ input.limit = limit /\ input.began = <<>> /\ input.asked = 0 /\ input.at = 0
          /\ input.rate.limit = L /\ input.rate.count = 0 /\ input.rate.window_started = 0
      BY <3>1, <3>3
    <3>5. input \in RateStates
      BY <3>1, <3>2, <3>3, SMTT(30) DEF RateStates
    <3>6. RateOK(input)
      BY <3>2, <3>3, <3>4, <3>5, SMTT(30) DEF RateOK, L
    <3> QED
      BY <2>1, <3>6 DEF LimitsInv, RateInv, RateTests
  <2>2. ASSUME TimerTests PROVE LimitsInv
    <3>1. PICK n \in 0..MaxConfigured : input = [configured |-> n]
      BY <2>2 DEF TimerTests
    <3> QED
      BY <2>2, <3>1 DEF TimerTests, LimitsInv, RateInv
  <2>3. ASSUME test \notin {"rate", "timer"} PROVE LimitsInv
    BY <2>3 DEF LimitsInv, RateInv
  <2> QED
    BY <2>1, <2>2, <2>3, Zenon DEF PaceTest, PowerTests
<1>2. LimitsInv /\ [Scan]_<<test, input>> => LimitsInv'
  <2> SUFFICES ASSUME LimitsInv, [Scan]_<<test, input>> PROVE LimitsInv'
    OBVIOUS
  <2>1. CASE Scan
    <3>1. PICK gap \in 0..MaxGap :
            LET scan == T!rate_limited(input.rate, input.at + gap, Second, LeastWait)
            IN  input' = [limit |-> input.limit, began |-> Append(input.began, scan.at),
                          asked |-> input.at + gap, at |-> scan.at, rate |-> scan.rate]
      BY <2>1, Zenon DEF Scan
    <3>2. test = "rate" /\ test' = "rate" /\ RateOK(input)
      BY <2>1 DEF Scan, LimitsInv, RateInv
    <3>3. gap \in Nat
      BY PaceAssumption
    <3>4. RateOK(input')
      BY <3>1, <3>2, <3>3, ScanKeepsRate, Zenon
    <3> QED
      BY <3>2, <3>4, Zenon DEF LimitsInv, RateInv
  <2>2. CASE UNCHANGED <<test, input>>
    BY <2>2 DEF LimitsInv, RateInv
  <2> QED
    BY <2>1, <2>2
<1>3. LimitsInv => LimitsHold
  <2> SUFFICES ASSUME LimitsInv PROVE ScansAreRated
    BY TimersBounded DEF LimitsInv, LimitsHold
  <2> SUFFICES ASSUME test = "rate" PROVE ScansAreRated
    BY Zenon DEF ScansAreRated
  <2>1. RateOK(input)
    BY DEF LimitsInv, RateInv
  <2> QED
    BY <2>1, Zenon DEF RateOK, ScansAreRated
<1> QED
  BY <1>1, <1>2, <1>3, PTL DEF PaceSpec
=============================================================================
