------------------------------ MODULE Updater -------------------------------
(***************************************************************************)
(* The self-updater (sda-updater): the run loop, the version check and the *)
(* steps of install_update on the files beside the program file, with      *)
(* failing steps, crashes (or an agent shutdown that stops waiting for the *)
(* module) between any two steps, and restarts from whatever is in place.  *)
(*                                                                         *)
(* A file holds a whole release, a part of one (or bytes that fail the     *)
(* verification), or does not exist.  Which releases run at all is given.  *)
(* The version in a manifest is that of its binary.                        *)
(***************************************************************************)
EXTENDS Version

CONSTANTS
  Versions,      \* the releases, by version
  First,         \* the one installed by the package
  Broken,        \* those that do not run: neither the smoke test nor a start
  None, Partial, \* no file; a file that is no whole, verified release
  Linux,         \* whether the path of a replaced program file is lost
  MaxFaults,     \* bound: failing steps
  MaxCrashes     \* bound: crashes and cut-off shutdowns

ASSUME UpdaterAssumption ==
  /\ Versions \subseteq Segments
  /\ First \in Versions /\ First \notin Broken
  /\ None \notin Versions /\ Partial \notin Versions /\ None # Partial
  /\ Linux \in BOOLEAN
  /\ MaxFaults \in Nat /\ MaxCrashes \in Nat

VARIABLES
  pc,          \* where run_once is; "idle" between ticks, "down" without a process
  manifest,    \* the version being installed
  current,     \* current_version
  exe,         \* whether current_exe() names the program file
  binary,      \* the program file
  bak,         \* its .bak sibling
  temp,        \* the download of this process
  advertised,  \* the version the update server offers
  faults, crashes

files == <<binary, bak, temp>>
env == <<advertised, faults, crashes>>
vars == <<pc, manifest, current, exe, files, env>>

Contents == Versions \cup {None, Partial}

TypeOK ==
  /\ pc \in {"idle", "download", "mode", "backup", "copy", "swap", "smoke", "rollback", "down"}
  /\ manifest \in Versions /\ current \in Versions /\ advertised \in Versions
  /\ exe \in BOOLEAN
  /\ binary \in Versions /\ bak \in Contents /\ temp \in Contents
  /\ faults \in 0..MaxFaults /\ crashes \in 0..MaxCrashes

Init ==
  /\ pc = "idle" /\ manifest = First /\ current = First /\ exe = TRUE
  /\ binary = First /\ bak = None /\ temp = None
  /\ advertised \in Versions /\ faults = 0 /\ crashes = 0

-----------------------------------------------------------------------------
(* A step fails: install_update returns the error, run_once logs it, the loop
   goes on with the same current_version. *)
fault ==
  /\ faults < MaxFaults
  /\ faults' = faults + 1
  /\ pc' = "idle"
  /\ UNCHANGED <<manifest, current, exe, advertised, crashes>>

(* Mutation: whatever the server offers is an update. *)
check_for_update_Different(v) == v # current

(* Mutation: versions of different lengths are not compared. *)
check_for_update_SameLength(v) == Len(v) = Len(current) /\ is_newer(v, current)

(* check_for_update finds an update; when it fails or finds none, nothing
   changes. *)
check_for_update(v) == is_newer(v, current)

Tick ==
  /\ pc = "idle" /\ check_for_update(advertised)
  /\ manifest' = advertised
  /\ temp' = Partial
  /\ pc' = "download"
  /\ UNCHANGED <<current, exe, binary, bak, env>>

(* download_and_verify: whole, with the digest and the signature right... *)
Verified ==
  /\ pc = "download"
  /\ temp' = manifest
  /\ pc' = "mode"
  /\ UNCHANGED <<manifest, current, exe, binary, bak, env>>

(* ...or not, and the download is removed. *)
DownloadFails ==
  /\ pc = "download"
  /\ temp' = None
  /\ fault
  /\ UNCHANGED <<binary, bak>>

(* preserve_mode reads the mode of the file current_exe() named, and fails when
   that path is lost (or for another reason); the download stays. *)
PreserveMode ==
  /\ pc = "mode" /\ exe
  /\ pc' = "backup"
  /\ UNCHANGED <<manifest, current, exe, files, env>>

PreserveModeFails ==
  /\ pc = "mode"
  /\ \/ ~exe /\ pc' = "idle" /\ UNCHANGED <<manifest, current, exe, env>>
     \/ exe /\ fault
  /\ UNCHANGED files

(* copy_file removes the old copy and writes the new one. *)
Backup ==
  /\ pc = "backup"
  /\ bak' = Partial
  /\ pc' = "copy"
  /\ UNCHANGED <<manifest, current, exe, binary, temp, env>>

(* Mutation: the copy is started and not awaited. *)
Copied_Early ==
  /\ pc = "copy"
  /\ pc' = "swap"
  /\ UNCHANGED <<manifest, current, exe, files, env>>

Copied ==
  /\ pc = "copy"
  /\ bak' = binary
  /\ pc' = "swap"
  /\ UNCHANGED <<manifest, current, exe, binary, temp, env>>

CopyFails ==
  /\ pc = "copy"
  /\ bak' \in {Partial, None}
  /\ fault
  /\ UNCHANGED <<binary, temp>>

(* The rename into place; on Linux /proc/self/exe now names a deleted file. *)
Swap ==
  /\ pc = "swap"
  /\ binary' = temp /\ temp' = None
  /\ exe' = ~Linux
  /\ pc' = "smoke"
  /\ UNCHANGED <<manifest, current, bak, env>>

SwapFails ==
  /\ pc = "swap"
  /\ fault
  /\ UNCHANGED files

(* run_smoke_test: --version exits with 0 in time... *)
SmokePasses ==
  /\ pc = "smoke" /\ binary \notin Broken
  /\ current' = manifest
  /\ pc' = "idle"
  /\ UNCHANGED <<manifest, exe, files, env>>

(* ...or not; a release that does run may still time out. *)
SmokeFails ==
  /\ pc = "smoke"
  /\ \/ binary \in Broken /\ UNCHANGED faults
     \/ binary \notin Broken /\ faults < MaxFaults /\ faults' = faults + 1
  /\ pc' = "rollback"
  /\ UNCHANGED <<manifest, current, exe, files, advertised, crashes>>

rollback ==
  /\ pc = "rollback" /\ bak # None
  /\ binary' = bak /\ bak' = None
  /\ pc' = "idle"
  /\ UNCHANGED <<manifest, current, exe, temp, env>>

RollbackFails ==
  /\ pc = "rollback"
  /\ fault
  /\ UNCHANGED files

-----------------------------------------------------------------------------
(* The server publishes another manifest. *)
Advertise ==
  /\ advertised' \in Versions \ {advertised}
  /\ UNCHANGED <<pc, manifest, current, exe, files, faults, crashes>>

(* A shutdown between ticks. *)
Stop ==
  /\ pc = "idle"
  /\ pc' = "down"
  /\ UNCHANGED <<manifest, current, exe, files, env>>

(* The process ends in the middle of an installation. *)
Crash ==
  /\ pc \notin {"idle", "down"} /\ crashes < MaxCrashes
  /\ crashes' = crashes + 1
  /\ pc' = "down"
  /\ UNCHANGED <<manifest, current, exe, files, advertised, faults>>

(* The service manager starts the program file, if it is one that runs; the
   compiled-in version is current, and the temporary file has a new name. *)
Restart ==
  /\ pc = "down" /\ binary \in Versions \ Broken
  /\ pc' = "idle" /\ current' = binary /\ exe' = TRUE /\ temp' = None
  /\ UNCHANGED <<manifest, binary, bak, env>>

install_update ==
  \/ Verified \/ DownloadFails \/ PreserveMode \/ PreserveModeFails \/ Backup \/ Copied \/ CopyFails
  \/ Swap \/ SwapFails \/ SmokePasses \/ SmokeFails \/ rollback \/ RollbackFails

Next == Tick \/ install_update \/ Advertise \/ Stop \/ Crash \/ Restart

(* The timer ticks, the steps of an installation are timed, and a service that
   is stopped is started again; the server need not change its manifest. *)
Fairness == WF_vars(Tick) /\ WF_vars(install_update) /\ WF_vars(Restart)

Spec == Init /\ [][Next]_vars
FairSpec == Spec /\ Fairness

-----------------------------------------------------------------------------
(* The abstract program file: current_version names the last release known to
   run, also while no process is there to remember it. *)
Binary == INSTANCE AgentBinary WITH installed <- binary, proven <- current

(* The updater implements AgentBinary: at every moment, also between two steps
   and after a crash, the program file is a whole release, replaced only by a
   newer one and taken back only for the one it replaced (installer.rs,
   "atomically replace the current binary"). *)
ImplementsBinary == Binary!Spec

(* While the program file holds a release that is not known to run, its .bak is
   the release known to run: there is "something to restore from"
   (installer.rs), whatever fails or crashes. *)
BackupIsKept == binary # current => bak = current

(* A process that has not replaced its program file yet installs the newer
   release that stays on offer (lib.rs, run), unless it keeps failing. *)
FirstUpdateIsInstalled ==
  \A v \in Versions :
    <>[](pc # "down" /\ exe /\ advertised = v) => <>[]~is_newer(v, current)

(* "When a newer version is advertised it downloads the binary, verifies [it]
   and atomically swaps the running binary" (lib.rs): a release that runs and
   stays on offer is not left uninstalled for ever. *)
NewerIsInstalled ==
  \A v \in Versions \ Broken :
    <>[](pc # "down" /\ advertised = v) => <>[]~is_newer(v, current)

(* current_version "tracks the version currently installed on disk" (lib.rs,
   run): it is that version whenever the loop waits for its timer. *)
TracksInstalledVersion == pc = "idle" => current = binary
=============================================================================
