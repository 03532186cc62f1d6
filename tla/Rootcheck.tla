------------------------------ MODULE Rootcheck ------------------------------
(***************************************************************************)
(* A sweep of sda-rootcheck: known signatures, suspicious lines of         *)
(* configuration files, hidden processes, and the integrity of system      *)
(* binaries against a baseline that is kept on disk.                       *)
(*                                                                         *)
(* What the sweep meets is its argument.  A process is described by its    *)
(* story during the sweep, which lists the processes first and probes them *)
(* one by one later: it may start or end in between.  A thread answers the *)
(* probe like a process but is not listed.                                 *)
(***************************************************************************)
EXTENDS Naturals, Sequences, FiniteSets, Functions

None == "none"

----------------------------------------------------------------------------
(* Hidden processes *)

Stories == {"none", "lasts", "hidden", "starts", "ends", "thread", "denied"}

listed(story) == story \in {"lasts", "ends", "denied"}

(* A probe that is not permitted counts as no process. *)
unix_pid_exists(story) == story \in {"lasts", "hidden", "starts", "thread"}
pid_exists(story) == story \in {"lasts", "hidden", "starts"}

(* An enumeration that fails lists nothing. *)
enumerate_proc_pids(host) == {pid \in DOMAIN host.procs : host.listable /\ listed(host.procs[pid])}

linux_scan(host, max_pid) ==
  {pid \in 1..max_pid : /\ pid \notin enumerate_proc_pids(host)
                        /\ pid \in DOMAIN host.procs /\ unix_pid_exists(host.procs[pid])}

enumerate_sysctl_pids(host) == enumerate_proc_pids(host)

macos_scan(host, max_pid) ==
  IF enumerate_sysctl_pids(host) = {} THEN {} ELSE linux_scan(host, max_pid)

enumerate_snapshot_pids(host) == enumerate_proc_pids(host)

(* Mutation: only the range up to the highest listed process is probed. *)
windows_scan_Listed(host, max_pid) ==
  LET visible == enumerate_snapshot_pids(host)
  IN  {pid \in DOMAIN host.procs : /\ \E v \in visible : pid <= v
                                   /\ pid % 4 = 0 /\ pid \notin visible /\ pid_exists(host.procs[pid])}

(* Multiples of four up to max_pid or the highest listed process. *)
windows_scan(host, max_pid) ==
  LET visible == enumerate_snapshot_pids(host)
  IN  {pid \in DOMAIN host.procs : /\ visible # {}
                                   /\ pid <= max_pid \/ \E v \in visible : pid <= v
                                   /\ pid % 4 = 0 /\ pid \notin visible /\ pid_exists(host.procs[pid])}

----------------------------------------------------------------------------
(* Binary integrity.  A binary on disk has a hash, cannot be read, or is     *)
(* missing; the baseline maps the binaries it knows to their hashes.         *)

hash_file(onDisk) == onDisk
readable(onDisk) == onDisk \notin {"missing", "unreadable"}

(* Mutation: a hash that changed is taken over. *)
compare_Refresh(baseline, disk) ==
  [drift |-> {b \in DOMAIN disk : b \in DOMAIN baseline /\ disk[b] \notin {baseline[b], "unreadable"}},
   updated |-> [b \in DOMAIN baseline \cup {x \in DOMAIN disk : readable(disk[x])} |->
                  IF b \in DOMAIN disk /\ readable(disk[b]) THEN hash_file(disk[b]) ELSE baseline[b]]]

(* A known binary that is missing or differs has drifted; a new one is added *)
(* as trusted.                                                               *)
compare(baseline, disk) ==
  [drift |-> {b \in DOMAIN disk : /\ b \in DOMAIN baseline
                                  /\ disk[b] = "missing" \/ (readable(disk[b]) /\ hash_file(disk[b]) # baseline[b])},
   updated |-> [b \in DOMAIN baseline \cup {x \in DOMAIN disk : readable(disk[x])} |->
                  IF b \in DOMAIN baseline THEN baseline[b] ELSE hash_file(disk[b])]]

(* The baseline is saved, by a rename: wholly or not at all. *)
save(saves, updated, baseline) == IF saves THEN updated ELSE baseline

(* It is saved when an entry is new.  Nothing is reported on a first run.    *)
run_binary_integrity(baseline, disk, saves) ==
  LET c == compare(baseline, disk)
  IN  [baseline |-> IF Cardinality(DOMAIN c.updated) # Cardinality(DOMAIN baseline)
                    THEN save(saves, c.updated, baseline) ELSE baseline,
       alerts |-> IF baseline = <<>> THEN {} ELSE c.drift]

----------------------------------------------------------------------------
(* Signatures and configuration files.  A file is None or a sequence of      *)
(* lines; a line is the sequence of its words.                               *)

INSPECTED_FILES == {"ld.so.preload", "crontab", "hosts", "crontabs/root", "cron/root"}

(* One member stands for each of the built-in lists. *)
LD_PRELOAD_ALLOWLIST == {"allowed"}
SUSPICIOUS_HOSTS_DOMAINS == {"domain"}
SUSPICIOUS_CRON_PATTERNS == {"pattern"}
BUILTIN_SIGNATURES == {"signature"}

(* The lines that are neither empty nor a comment. *)
entries(file) == {line \in Range(file) : line # <<>> /\ line[1] # "#"}

inspect_ld_so_preload(file) ==
  {line[1] : line \in {l \in entries(file) : ~(Len(l) = 1 /\ l[1] \in LD_PRELOAD_ALLOWLIST)}}

inspect_crontab(file) == {line \in entries(file) : Range(line) \cap SUSPICIOUS_CRON_PATTERNS # {}}

(* The hosts of a line end where a comment begins. *)
inspect_hosts(file) ==
  LET hosts(line) == {line[i] : i \in {n \in 2..Len(line) : \A m \in 2..n : line[m] # "#"}}
  IN  UNION {{<<line[1], h>> : h \in hosts(line) \cap SUSPICIOUS_HOSTS_DOMAINS} :
               line \in {l \in entries(file) : l[1] # "loopback"}}

content_scan(etc) ==
  UNION {CASE f = "ld.so.preload" -> {<<f, i>> : i \in inspect_ld_so_preload(etc[f])}
           [] f = "hosts" -> {<<f, i>> : i \in inspect_hosts(etc[f])}
           [] OTHER -> {<<f, i>> : i \in inspect_crontab(etc[f])} :
             f \in INSPECTED_FILES \cap DOMAIN etc}

signatures_scan(files, extra_paths) == files \cap (BUILTIN_SIGNATURES \cup extra_paths)

----------------------------------------------------------------------------
(* A sweep.  A check that panics finds nothing; one may be switched off.     *)

Checks == {"signature", "content", "hidden_process", "binary_integrity"}

(* What one check finds on a host, as alerts. *)
publish_alert(category, subjects) == {<<category, s>> : s \in subjects}

run_sweep(config, host, baseline) ==
  LET runs(check) == check \in config.checks /\ check \notin host.panics
      integrity == IF runs("binary_integrity")
                   THEN run_binary_integrity(baseline, host.disk, host.saves)
                   ELSE [baseline |-> baseline, alerts |-> {}]
      found == [signature |-> signatures_scan(host.files, config.signature_paths),
                content |-> content_scan(host.etc),
                hidden_process |-> linux_scan(host, config.max_pid),
                binary_integrity |-> integrity.alerts]
  IN  [baseline |-> integrity.baseline,
       alerts |-> UNION {publish_alert(c, found[c]) : c \in {x \in Checks : runs(x)}}]
=============================================================================
