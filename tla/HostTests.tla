------------------------------ MODULE HostTests ------------------------------
(***************************************************************************)
(* The operators that look at the host and at the configuration, against   *)
(* reference definitions: Rootcheck, Sca and Config.  A state is one test: *)
(* what is tested, and the input.  Sweeps of rootcheck follow one another: *)
(* the input of that test grows by steps.                                  *)
(***************************************************************************)
EXTENDS TestCase, Integers, Sequences, FiniteSets, Functions

CONSTANTS HostPids,       \* the processes there may be
          HighestPid,         \* the highest process that is probed everywhere
          Binaries,       \* the tracked binaries
          Hashes,         \* what a binary that can be read may hash to
          MaxSweeps,      \* bound: sweeps of rootcheck that record what they see
          Given           \* a value given in a configuration file

R == INSTANCE Rootcheck
S == INSTANCE Sca
C == INSTANCE Config

ASSUME HostAssumption ==
  /\ HostPids \subseteq Nat \ {0} /\ HighestPid \in Nat
  /\ IsFiniteSet(Binaries) /\ Hashes \cap {"missing", "unreadable"} = {}
  /\ MaxSweeps \in Nat

----------------------------------------------------------------------------
(* Rootcheck *)

(* Hosts whose processes live through any story while they are scanned. *)
ScanHosts == [listable : BOOLEAN, procs : [HostPids -> R!Stories]]
ScanTests == test = "scan" /\ input \in ScanHosts

Etc == [f \in R!INSPECTED_FILES |-> <<<<"#", "domain">>, <<"address", "domain">>, <<"allowed", "pattern">>>>]

(* Nothing but the binaries differs between the sweeps of a host. *)
SweepHosts ==
  [files : {{"signature"}}, etc : {Etc}, listable : {TRUE}, procs : {<<"lasts">>},
   disk : [Binaries -> Hashes \cup {"missing", "unreadable"}], saves : BOOLEAN,
   panics : {{}, {"content", "hidden_process"}, {"binary_integrity"}}]

SweepConfig == [checks |-> R!Checks, signature_paths |-> {}, max_pid |-> 1]

(* Whether a sweep of the host records what it sees, if that is new. *)
Records(host) == host.saves /\ "binary_integrity" \notin host.panics

(* After a sweep of the host: the disks that were recorded, the last host, *)
(* the baseline and the alerts of the last sweep.                          *)
Swept(seen, baseline, host) ==
  LET after == R!run_sweep(SweepConfig, host, baseline)
  IN  [seen |-> IF Records(host) THEN Append(seen, host.disk) ELSE seen, last |-> host,
       baseline |-> after.baseline, alerts |-> after.alerts]

SweepTests == test = "sweep" /\ \E host \in SweepHosts : input = Swept(<<>>, <<>>, host)

Sweep ==
  /\ test = "sweep" /\ UNCHANGED test
  /\ \E host \in SweepHosts :
       /\ Records(host) => Len(input.seen) < MaxSweeps
       /\ input' = Swept(input.seen, input.baseline, host)

----------------------------------------------------------------------------
(* Sca *)

(* One check of any kind, in a policy between two others, with the server's *)
(* queue full at any of the results.                                         *)
ScaTests ==
  /\ test = "sca"
  /\ \E c \in S!ScaCheck({1}), e \in {"yaml", "yml", "txt"}, p \in BOOLEAN, full \in SUBSET {<<"b", 1>>, <<"b", 2>>} :
       LET other == [c EXCEPT !.id = 2, !.type = "file", !.expected = S!None, !.outcome = "0"]
       IN  input = [files |-> {[id |-> "a", extension |-> "yaml", parses |-> TRUE, checks |-> <<other>>],
                               [id |-> "b", extension |-> e, parses |-> p, checks |-> <<other, c>>],
                               [id |-> "c", extension |-> "yml", parses |-> TRUE, checks |-> <<>>]},
                    full |-> full]

----------------------------------------------------------------------------
(* Config *)

(* A file with one or two sections that give at most one field each. *)
OneField(s) == {{}} \cup {{f} : f \in DOMAIN C!AgentConfig[s].fields}
ConfigTests ==
  /\ test = "config"
  /\ \E s, t \in DOMAIN C!AgentConfig : \E fs \in OneField(s), gs \in OneField(t) :
       /\ s = t => fs = gs
       /\ input = [x \in {s, t} |-> [f \in IF x = s THEN fs ELSE gs |-> Given]]

----------------------------------------------------------------------------
HostTest == ScanTests \/ SweepTests \/ ScaTests \/ ConfigTests

HostSpec == HostTest /\ [][Sweep]_<<test, input>>

(* Every process that stays hidden during the scan and can be probed is reported,
   however the other processes start and end between the listing and the probes, and
   nothing is reported but such processes, the ones that start in between, and threads
   (hidden_process.rs, the three scans).  A listing that fails reports nothing, except
   on Linux, where it reports every process. *)
HiddenAreFound ==
  LET is(stories) == {pid \in DOMAIN input.procs : input.procs[pid] \in stories}
      some == R!enumerate_proc_pids(input) # {}
  IN  test = "scan" =>
        /\ R!linux_scan(input, HighestPid) = 1..HighestPid \cap (is({"hidden", "starts", "thread"}) \cup
                                                       IF input.listable THEN {} ELSE is({"lasts"}))
        /\ R!macos_scan(input, HighestPid) = 1..HighestPid \cap IF some THEN is({"hidden", "starts", "thread"}) ELSE {}
        /\ {pid \in is({"hidden"}) : some /\ pid <= HighestPid /\ pid % 4 = 0} \subseteq R!windows_scan(input, HighestPid)
        /\ R!windows_scan(input, HighestPid) \subseteq IF some THEN is({"hidden", "starts"}) ELSE {}

(* The recording sweeps that could read a binary, and what the first of them read. *)
Recorded(seen, b) == {n \in DOMAIN seen : R!readable(seen[n][b])}
Trusted(seen, b) == seen[CHOOSE n \in Recorded(seen, b) : \A m \in Recorded(seen, b) : n <= m][b]

(* A binary is measured, in every sweep, against what it was in the first sweep that
   could read it and save the baseline: a change is reported until it is undone, and is
   never taken for the new baseline, whatever other binaries are added later, whichever
   saves fail and whichever checks panic (binary_integrity.rs, compare; lib.rs,
   run_binary_integrity). *)
DriftIsReported ==
  test = "sweep" =>
    \A b \in Binaries : <<"binary_integrity", b>> \in input.alerts <=>
                          /\ Recorded(input.seen, b) # {} /\ "binary_integrity" \notin input.last.panics
                          /\ input.last.disk[b] \notin {Trusted(input.seen, b), "unreadable"}

(* Whether a command ends as the check expects. *)
exits(c) == \/ c.expected = S!None /\ c.outcome = "0"
            \/ c.expected = c.outcome
            \/ c.expected = "-1" /\ c.outcome = "signal"

(* Whether what a check asks for can be told from what it meets, and whether it is so. *)
established(c) ==
  /\ c.given
  /\ CASE c.type = "file" -> /\ c.stat # "denied"
                             /\ c.stat = "found" /\ c.pattern # S!None => c.pattern = "valid" /\ c.text # "unreadable"
       [] c.type = "process" -> c.text # "unreadable"
       [] c.type = "command" -> /\ c.outcome \notin {"timeout", "not executed"}
                                /\ exits(c) /\ c.pattern # S!None => c.pattern = "valid"
       [] OTHER -> FALSE
holds(c) ==
  CASE c.type = "file" -> c.stat = "found" /\ (c.pattern = S!None \/ c.text = "match")
    [] c.type = "process" -> c.text = "match"
    [] c.type = "command" -> exits(c) /\ (c.pattern = S!None \/ c.text = "match")

(* What is taken for absent because the host does not let the agent look: a file whose *)
(* directory may not be searched, and a process when there is no listing.              *)
presumed(c) ==
  /\ c.given
  /\ \/ c.type = "file" /\ c.stat = "denied"
     \/ c.type = "process" /\ c.text = "unreadable"

(* The result there should be, with that presumption. *)
verdict(c) == IF presumed(c) THEN "failed" ELSE IF ~established(c) THEN "error"
              ELSE IF holds(c) THEN "passed" ELSE "failed"

(* Every check of every policy that parses has its one result, in order, whatever the
   others come to, and the server gets it unless its queue is full just then.  A check
   passes only on evidence and is an error when what it asks for could not be
   established, with the two presumptions of absence above, where it fails instead
   (lib.rs, evaluate_all and evaluate_check). *)
VerdictsHaveEvidence ==
  test = "sca" =>
    S!evaluate_all(S!load_policies_from_dir(input.files), input.full)
      = [f \in {g \in input.files : g.parses /\ g.extension # "txt"} |->
           [n \in DOMAIN f.checks |-> [policy |-> f.id, check |-> f.checks[n].id, result |-> verdict(f.checks[n]),
                                       server |-> <<f.id, n>> \notin input.full]]]

(* What is not in the file does not depend on what is: a value the file does not give is
   the one the agent has without any file, whether its section is missing or gives
   something else (config.rs, the serde defaults against the Default implementations). *)
OmittedIsDefault ==
  test = "config" =>
    \A s \in DOMAIN C!AgentConfig : \A f \in DOMAIN C!AgentConfig[s].fields :
      C!load_default(TRUE, input)[s][f] =
        IF s \in DOMAIN input /\ f \in DOMAIN input[s] THEN input[s][f] ELSE C!load_default(FALSE, input)[s][f]

(* "Omitting a module leaves it on with defaults" (docs/configuration-reference.md). *)
OmittedModuleIsOn ==
  test = "config" =>
    \A m \in DOMAIN C!ModulesConfig \ DOMAIN input : C!load_default(TRUE, input)[m].enabled

(* "Only meaningful on Linux; no-op on other platforms." (sda-core/src/config.rs:369, of the
   check for hidden processes) *)
HiddenOnlyOnLinux ==
  test = "scan" => R!macos_scan(input, HighestPid) = {} /\ R!windows_scan(input, HighestPid) = {}

(* "On Windows the parameter is only used to cap the Toolhelp32-derived probe range."
   (hidden_process.rs:30-31, of max_pid) *)
MaxPidCaps == test = "scan" => \A pid \in R!windows_scan(input, HighestPid) : pid <= HighestPid

(* "file does not exist: {}" (sda-sca/src/lib.rs:392, the reason given for a file that may not
   be looked at) *)
FailuresHaveEvidence ==
  test = "sca" =>
    \A f \in input.files : \A n \in DOMAIN f.checks :
      S!evaluate_check(f.checks[n]) = "failed" => established(f.checks[n])

(* "Supports four check types: [...] registry (Windows only): check registry key existence /
   value." (sda-sca/src/lib.rs:6-10) *)
RegistryIsChecked ==
  test = "sca" =>
    \A f \in input.files : \A n \in DOMAIN f.checks :
      LET c == f.checks[n]
      IN  c.type = "registry" /\ c.given /\ c.pattern = S!None => S!evaluate_check(c) # "error"
=============================================================================
