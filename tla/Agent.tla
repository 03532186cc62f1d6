-------------------------------- MODULE Agent --------------------------------
(***************************************************************************)
(* The life of the agent process: the boot sequence of main (tamper check, *)
(* enrollment and the key file, privileges, connection), the modules that  *)
(* scan on a timer, the shutdown that joins them one after the other, and  *)
(* the runtime that waits for what they have left running.  The process    *)
(* can crash at any point; what the next one starts from is the key file   *)
(* and what the manager has registered.                                    *)
(*                                                                         *)
(* The transport tasks between "connect" and the shutdown message are the  *)
(* subject of the module Connection.                                       *)
(***************************************************************************)
EXTENDS ScanLoops

CONSTANTS
  run_as_user,   \* whether privileges are to be dropped
  MaxFaults      \* bound: crashes and failures to read the key, enroll, save, drop privileges or connect

(* A key: its number at the manager, and how much of its line is there: all of
   it, a part of the last field, or too few fields. *)
Keys == [id : Nat, cut : {"no", "key", "fields"}]

ASSUME AgentAssumption == run_as_user \in BOOLEAN /\ MaxFaults \in Nat /\ None \notin Keys

VARIABLES
  phase,      \* where main is; "down" when no process runs
  keyFile,    \* the key file: absent, whole, or cut off by a crash
  issued,     \* the registrations at the manager
  key,        \* the key in memory
  root,       \* whether the process runs as root
  identity,   \* the key the agent last connected with
  misread,    \* whether the key file could not be read since then
  left,       \* the modules still to be joined, then the blocking work that still runs
  faults

bootVars == <<phase, keyFile, issued, key, root, identity, misread, left, faults>>
vars == <<bootVars, loopVars>>

AgentKey(id, cut) == [id |-> id, cut |-> cut]

----------------------------------------------------------------------------
(* main, up to the modules *)

Goes(p) == phase' = p /\ UNCHANGED faults
Exits == Goes("down")
(* An error that main returns, or the death of the process. *)
Fails == faults < MaxFaults /\ faults' = faults + 1 /\ phase' = "down"

(* The hash the configuration pins, if any, and that of the executable,      *)
(* which the updater or a package manager may have replaced.                 *)
verify_self_integrity(pinned, actual) == pinned = None \/ actual = pinned

(* A process is executed as root: it checks its own hash first. *)
Exec ==
  /\ phase = "down"
  /\ root' = TRUE /\ key' = None
  /\ \E pinned \in {None, "original"}, actual \in {"original", "replaced"} :
       IF verify_self_integrity(pinned, actual) THEN Goes("load") ELSE Exits
  /\ UNCHANGED <<keyFile, issued, identity, misread, left, loopVars>>

(* A file that cannot be read is taken for one that is not there.            *)
(* from_keys_line takes anything with four fields, a key that was cut off    *)
(* included.                                                                 *)
load_agent_key(readable) == IF ~readable \/ keyFile = None \/ keyFile.cut = "fields" THEN None ELSE keyFile

Load ==
  /\ phase = "load"
  /\ \E readable \in BOOLEAN :
       /\ key' = load_agent_key(readable)
       /\ phase' = IF load_agent_key(readable) = None THEN "enroll" ELSE "drop"
       /\ IF readable THEN UNCHANGED <<faults, misread>>
          ELSE keyFile # None /\ faults < MaxFaults /\ faults' = faults + 1 /\ misread' = TRUE
  /\ UNCHANGED <<keyFile, issued, root, identity, left, loopVars>>

enroll ==
  /\ phase = "enroll"
  /\ issued' = issued + 1
  /\ key' = AgentKey(issued + 1, "no")
  /\ Goes("save")
  /\ UNCHANGED <<keyFile, root, identity, misread, left, loopVars>>

(* No connection, a refusal, or a reply that is lost after the manager has   *)
(* registered the agent.                                                     *)
EnrollFails ==
  /\ phase = "enroll"
  /\ issued' \in {issued, issued + 1}
  /\ Fails
  /\ UNCHANGED <<keyFile, key, root, identity, misread, left, loopVars>>

(* Mutation: a file that cannot be written is no error. *)
save_agent_key_Ignored ==
  /\ phase = "save"
  /\ \/ root /\ keyFile' \in {AgentKey(key.id, "fields"), AgentKey(key.id, "key")} /\ Goes("saving")
     \/ UNCHANGED keyFile /\ Goes("drop")
  /\ UNCHANGED <<issued, key, root, identity, misread, left, loopVars>>

(* fs::write truncates the file, which belongs to root, and then fills it;   *)
(* it may fail before.                                                       *)
save_agent_key ==
  /\ phase = "save"
  /\ \/ root /\ keyFile' \in {AgentKey(key.id, "fields"), AgentKey(key.id, "key")} /\ Goes("saving")
     \/ UNCHANGED keyFile /\ Fails
  /\ UNCHANGED <<issued, key, root, identity, misread, left, loopVars>>

(* The file is whole; setting its permissions may fail.  After 15 seconds    *)
(* main goes on.                                                             *)
Saved ==
  /\ phase = "saving"
  /\ keyFile' = key
  /\ Goes("drop") \/ Fails
  /\ UNCHANGED <<issued, key, root, identity, misread, left, loopVars>>

drop_privileges ==
  /\ phase = "drop"
  /\ IF run_as_user
     THEN (Goes("connect") /\ root' = FALSE) \/ (Fails /\ UNCHANGED root)
     ELSE Goes("connect") /\ UNCHANGED root
  /\ UNCHANGED <<keyFile, issued, key, identity, misread, left, loopVars>>

(* connect_with_retry and the startup message, whose failure ends main. *)
Connect ==
  /\ phase = "connect"
  /\ identity' = key /\ misread' = FALSE
  /\ Goes("start") \/ Fails
  /\ UNCHANGED <<keyFile, issued, key, root, left, loopVars>>

(* The power channel and its task, the modules, the signal handlers. *)
StartModules ==
  /\ phase = "start"
  /\ Goes("run")
  /\ LoopsSpawned
  /\ UNCHANGED <<keyFile, issued, key, root, identity, misread, left>>

----------------------------------------------------------------------------
(* Shutdown *)

(* SIGTERM or SIGINT, once the handlers are installed. *)
Signal ==
  /\ phase = "run" /\ ~shutdown
  /\ shutdown' = TRUE
  /\ UNCHANGED <<bootVars, enabled, power, profile, poller, pc, cur, seen, timer, late>>

(* wait_for_shutdown; the shutdown message is sent and the transport tasks   *)
(* have ended.                                                               *)
wait_for_shutdown ==
  /\ phase = "run" /\ shutdown
  /\ Goes("join") /\ left' = enabled
  /\ UNCHANGED <<keyFile, issued, key, root, identity, misread, loopVars>>

(* Mutation: the tasks are awaited without a timeout. *)
Join_NoTimeout(l) ==
  /\ phase = "join" /\ l \in left
  /\ pc[l] = "stopped"
  /\ left' = left \ {l}
  /\ UNCHANGED <<phase, keyFile, issued, key, root, identity, misread, faults, loopVars>>

(* A module that has stopped is joined; one that is in the middle of a       *)
(* collection is given up after 10 seconds.                                  *)
Join(l) ==
  /\ phase = "join" /\ l \in left
  /\ pc[l] \in {"stopped", "first", "collect"}
  /\ left' = left \ {l}
  /\ UNCHANGED <<phase, keyFile, issued, key, root, identity, misread, faults, loopVars>>

(* main returns and the runtime is dropped: the tasks go at their next       *)
(* await, but the runtime waits for the blocking work of a collection that   *)
(* was given up and still runs, for as long as it takes.                     *)
Return ==
  /\ phase = "join" /\ left = {}
  /\ left' \in SUBSET {l \in Loops : pc[l] \in {"first", "collect"}}
  /\ LoopsGone /\ Goes("exit")
  /\ UNCHANGED <<keyFile, issued, key, root, identity, misread>>

WorkEnds(l) ==
  /\ phase = "exit" /\ l \in left
  /\ left' = left \ {l}
  /\ UNCHANGED <<phase, keyFile, issued, key, root, identity, misread, faults, loopVars>>

(* Everything in memory goes with the process. *)
Gone == LoopsGone /\ left' = {} /\ UNCHANGED <<keyFile, issued, key, root, identity, misread>>

Exit == phase = "exit" /\ left = {} /\ Gone /\ Exits

(* The process is killed: by a fault, or by a signal before the handlers are *)
(* installed.                                                                *)
Crash == phase # "down" /\ Gone /\ Fails

----------------------------------------------------------------------------
Init ==
  /\ phase = "down"
  /\ keyFile = None /\ issued = 0 /\ key = None /\ root = TRUE /\ identity = None /\ misread = FALSE
  /\ left = {} /\ faults = 0
  /\ LoopsOff /\ power \in Occurring /\ enabled \in Configurations

Boot == Exec \/ Load \/ enroll \/ EnrollFails \/ save_agent_key \/ Saved \/ drop_privileges \/ Connect \/ StartModules

Ending == wait_for_shutdown \/ (\E l \in Loops : Join(l)) \/ Return \/ Exit

Next ==
  \/ Boot \/ Signal \/ Ending \/ Crash \/ \E l \in Loops : WorkEnds(l)
  \/ LoopsStep /\ UNCHANGED bootVars

Spec == Init /\ [][Next]_vars

(* The tasks are scheduled, time passes and main goes on.  The power state   *)
(* is polled so rarely that a loop gets to its timer in between.  A          *)
(* collection need not end, nor the work it has left: what it waits for has  *)
(* no timeout.                                                               *)
FairSpec ==
  /\ Spec
  /\ WF_vars(Boot) /\ WF_vars(Ending)
  /\ WF_vars(PollerStep /\ UNCHANGED bootVars) /\ WF_vars(Hour /\ UNCHANGED bootVars)
  /\ WF_vars(Inventory /\ UNCHANGED bootVars) /\ WF_vars(Sca /\ UNCHANGED bootVars)
  /\ WF_vars(Rootcheck /\ UNCHANGED bootVars)
  /\ \A l \in Loops : /\ WF_vars(SeeShutdown(l) /\ UNCHANGED bootVars)
                      /\ SF_vars(PollTimer(l) /\ UNCHANGED bootVars)

----------------------------------------------------------------------------
(* Properties *)

(* The variables keep their types. *)
TypeOK ==
  /\ phase \in {"down", "load", "enroll", "save", "saving", "drop", "connect", "start", "run", "join", "exit"}
  /\ keyFile \in Keys \cup {None} /\ key \in Keys \cup {None} /\ identity \in Keys \cup {None}
  /\ issued \in 0..(MaxFaults + 1) /\ faults \in 0..MaxFaults /\ root \in BOOLEAN /\ left \subseteq Loops
  /\ misread \in BOOLEAN
  /\ pc \in [Loops -> {"off", "start", "first", "select", "tick", "collect", "stopped"}]
  /\ enabled \subseteq Loops /\ shutdown \in BOOLEAN /\ power \in Profiles /\ profile \in Profiles
  /\ poller \in Profiles \cup {"off", "wait"} /\ cur \in [Loops -> Profiles]
  /\ seen \in [Loops -> BOOLEAN] /\ timer \in [Loops -> Nat \cup {None}] /\ late \in [Loops -> 0..2]

(* An agent that has connected once is the same agent for the manager ever   *)
(* after, unless its key file could not be read: the key it connected with   *)
(* was on disk before (main.rs:117), so no crash, no failed save and no      *)
(* failed boot makes it enroll again.                                        *)
IdentityIsKept == [][identity # None /\ identity' # identity => misread]_vars

(* A key that exists is never replaced (main.rs:81: "Check for existing      *)
(* agent key; enroll if missing").                                           *)
IdentityNeverChanges == [][identity # None => identity' = identity]_vars

(* After the power channel has said pause, a module starts at most the one   *)
(* collection whose timer was already being polled (the biased selects of    *)
(* the run loops).                                                           *)
PauseIsHonoured == \A l \in Loops : late[l] <= 1

(* When the profile settles on one that allows it, every module that is not  *)
(* stuck in a collection collects again and again; a pause is not for good.  *)
KeepsCollecting ==
  \A l \in Loops, p \in Occurring :
    <>[](phase = "run" /\ l \in enabled /\ ~shutdown /\ profile = p /\ allowed(l, p))
      => []<>(pc[l] \in {"first", "collect"})

(* Every module collects again and again as long as no critical battery      *)
(* pauses it, whatever the profile does otherwise (sda-inventory lib.rs:38:  *)
(* on battery "the scan interval is extended to match").                     *)
CollectsAtIntervals ==
  \A l \in Loops :
    <>[](phase = "run" /\ l \in enabled /\ ~shutdown /\ profile # "CriticalBattery") => []<>(pc[l] \in {"first", "collect"})

(* A shutdown ends, even while a module is stuck in a collection: main       *)
(* always returns (agent.rs:143: "with timeout"), and the process ends       *)
(* unless work that a collection left on the blocking pool never does.       *)
ShutdownEnds == shutdown ~> (phase = "down" \/ [](phase = "exit" /\ left # {}))

(* The process ends within its timeouts (agent.rs:142: "Wait for module      *)
(* tasks to complete (with timeout)").                                       *)
ProcessEnds == shutdown ~> phase = "down"
=============================================================================
