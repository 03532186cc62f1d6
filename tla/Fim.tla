-------------------------------- MODULE Fim --------------------------------
(***************************************************************************)
(* File integrity monitoring (sda-fim): the run loop that turns debounced  *)
(* watcher events into database writes and batched events, the hash tasks  *)
(* it spawns, and the baseline scans that run beside it on their own       *)
(* database connection.                                                    *)
(*                                                                         *)
(* A file has a content c (what its SHA-256 tells apart) and metadata m    *)
(* (size, permissions, owner, mtime); a write within the same second may   *)
(* leave m as it was.  The timestamps the code compares, an entry's        *)
(* last_scan with the start of a running scan, are modelled by the number  *)
(* of running scans that started before: an entry is older than the i-th   *)
(* running scan iff its stamp is less than i.                              *)
(***************************************************************************)
EXTENDS Naturals, Sequences, FiniteSets, SequencesExt

CONSTANTS
  Files,          \* the paths under a watched directory
  Excluded,       \* those an exclude pattern matches
  Hashed,         \* those under a directory with check_sha256
  batch_size,     \* of the batcher
  None,           \* no file, no entry, no hash
  MaxScans,       \* bound: baseline scans alive at the same time
  MaxOverlap,     \* bound: baseline scans alive and changes of the file system, together
  MaxDisturbances \* bound: changes of the file system, changes of the power profile, exits of the agent

ASSUME FimAssumption ==
  /\ Excluded \subseteq Files /\ Hashed \subseteq Files /\ IsFiniteSet(Files)
  /\ batch_size \in Nat
  /\ {MaxScans, MaxOverlap, MaxDisturbances} \subseteq Nat
  /\ None \notin Nat

VARIABLES
  \* the disk: the files, and the state database
  fs, db,
  \* the watcher: raw events, and the latest kind per path being debounced
  raw, pending,
  \* the run loop: alive or not, what it handles, its batch and scan timer
  up, work, batch, timer, critical,
  \* hash tasks in flight; scans that wait for idle; scans that run
  jobs, spawned, scans,
  \* the files whose present state the server channel has taken, and those
  \* for which it has refused every event about it
  told, refused,
  changes, pauses, exits

disk == <<fs, db>>
watcher == <<raw, pending>>
loop == <<up, work, batch, timer, critical>>
tasks == <<jobs, spawned, scans>>
news == <<told, refused>>
bounds == <<changes, pauses, exits>>
vars == <<disk, watcher, loop, tasks, news, bounds>>

----------------------------------------------------------------------------
(* Files, entries, events *)

Bounded == changes + pauses + exits < MaxDisturbances
Alive == spawned + Len(scans)

IsFile(f) == fs[f] # None /\ fs[f].kind = "file"
IsDir(f) == fs[f] # None /\ fs[f].kind = "dir"

should_check_sha256(f) == f \in Hashed
hash_file(f) == IF IsFile(f) THEN fs[f].c ELSE None

(* The entry of a path that exists.  last_scan is the present. *)
collect_metadata(f, hashed) ==
  [m |-> fs[f].m, sha256 |-> IF hashed THEN hash_file(f) ELSE None, last_scan |-> Len(scans)]

(* The payload of an event is abstracted to whether the metadata and hash it *)
(* tells are the file's present ones, the event to its path and payload.     *)
format_syscheck_event(f, new) ==
  /\ new # None /\ IsFile(f) /\ new.m = fs[f].m
  /\ should_check_sha256(f) => new.sha256 = fs[f].c
build_event_kind(f, new) == [path |-> f, current |-> format_syscheck_event(f, new)]
Outdate(f, events) ==
  [k \in DOMAIN events |-> [events[k] EXCEPT !.current = @ /\ events[k].path # f]]

metadata_changed(old, new) == old = None \/ old.m # new.m

(* The state database *)
upsert_entry(f, entry) == [db EXCEPT ![f] = entry]
delete_entry(f) == [db EXCEPT ![f] = None]
update_last_scan(f, i) == IF db[f] = None THEN db ELSE [db EXCEPT ![f].last_scan = i]

----------------------------------------------------------------------------
(* The file system and the watcher's callback, which runs while the agent    *)
(* does.  Metadata changes are handled like other modifications.             *)

convert_event(change) ==
  CASE change = "create" -> "Created"
    [] change \in {"write", "chmod"} -> "Modified"
    [] change = "move" -> "Renamed"
    [] change = "remove" -> "Deleted"

Change(f, new, change) ==
  /\ Bounded /\ Alive + changes < MaxOverlap
  /\ changes' = changes + 1
  /\ fs' = [fs EXCEPT ![f] = new]
  /\ raw' = IF up THEN Append(raw, [path |-> f, kind |-> convert_event(change)]) ELSE raw
  /\ told' = told \ {f} /\ refused' = refused \ {f}
  /\ batch' = Outdate(f, batch)
  /\ scans' = [i \in DOMAIN scans |-> [scans[i] EXCEPT !.events = Outdate(f, @)]]
  /\ UNCHANGED <<db, pending, up, work, timer, critical, jobs, spawned, pauses, exits>>

NewFile == [kind |-> "file", c |-> changes + 1, m |-> changes + 1]
NewDir == [kind |-> "dir", c |-> None, m |-> changes + 1]

Create(f) == fs[f] = None /\ \E new \in {NewFile, NewDir} : Change(f, new, "create")
Write(f) == /\ IsFile(f)
            /\ \E new \in {NewFile, [NewFile EXCEPT !.m = fs[f].m]} : Change(f, new, "write")
(* Bound: metadata change by themselves only before anything else does. *)
Chmod(f) == IsFile(f) /\ changes = 0 /\ Change(f, [NewFile EXCEPT !.c = fs[f].c], "chmod")
Unlink(f) == fs[f] # None /\ Change(f, None, "remove")
MoveIn(f) == ~IsDir(f) /\ Change(f, NewFile, "move")
MoveOut(f) == fs[f] # None /\ Change(f, None, "move")

FileSystem ==
  \E f \in Files : Create(f) \/ Write(f) \/ Chmod(f) \/ Unlink(f) \/ MoveIn(f) \/ MoveOut(f)

(* next_event takes a raw event: the latest kind per path is kept. *)
Recv ==
  /\ up /\ work.pc = "select" /\ raw # <<>>
  /\ raw' = Tail(raw)
  /\ pending' = [pending EXCEPT ![Head(raw).path] = Head(raw).kind]
  /\ UNCHANGED <<disk, loop, tasks, news, bounds>>

----------------------------------------------------------------------------
(* The run loop *)

Select == [pc |-> "select"]

(* publish_to_server for every event.  A server channel that is full refuses *)
(* one, which is logged and goes no further.                                 *)
publish(events) ==
  LET current == {e.path : e \in {x \in ToSet(events) : x.current}} IN
    \E lost \in SUBSET current :
      /\ told' = told \cup (current \ lost)
      /\ refused' = (refused \cup lost) \ told'

(* push, then flush if the batch is full (a size of 0 counts as 1). *)
is_full(b) == Len(b) >= IF batch_size = 0 THEN 1 ELSE batch_size
flush(b) == publish(b) /\ batch' = <<>>
PushAll(events) ==
  LET b == batch \o events IN
    IF is_full(b) THEN flush(b) ELSE batch' = b /\ UNCHANGED news

(* process_fs_event up to its reads: the stored entry and the stat of the    *)
(* path.  Events of directories and of files that are gone go no further.    *)
process_fs_event(f) ==
  /\ up /\ work.pc = "select" /\ pending[f] # None
  /\ pending' = [pending EXCEPT ![f] = None]
  /\ LET kind == pending[f]
         new == IF fs[f] = None THEN None ELSE collect_metadata(f, FALSE)
         skipped == IF kind \in {"Created", "Modified"}
                    THEN IsDir(f) \/ new = None ELSE FALSE
     IN  work' = IF skipped THEN Select
                 ELSE [pc |-> "write", path |-> f, kind |-> kind, new |-> new,
                       known |-> db[f] # None, changed |-> new # None /\ metadata_changed(db[f], new)]
  /\ UNCHANGED <<disk, raw, up, batch, timer, critical, tasks, news, bounds>>

(* What the handler does with its reads: the database it leaves and the      *)
(* events it pushes.                                                         *)
Created(w) ==
  [db |-> upsert_entry(w.path, w.new), events |-> <<build_event_kind(w.path, w.new)>>]
Modified(w) ==
  IF w.changed
  THEN [db |-> upsert_entry(w.path, w.new),
        events |-> <<build_event_kind(w.path, w.new)>>]
  ELSE [db |-> db, events |-> <<>>]
Deleted(w) ==
  [db |-> delete_entry(w.path), events |-> <<build_event_kind(w.path, None)>>]
Renamed(w) ==
  [db |-> IF w.new # None THEN upsert_entry(w.path, w.new)
          ELSE IF w.known THEN delete_entry(w.path) ELSE db,
   events |-> (IF w.known THEN <<build_event_kind(w.path, None)>> ELSE <<>>)
              \o (IF w.new # None THEN <<build_event_kind(w.path, w.new)>> ELSE <<>>)]
Outcome(w) ==
  CASE w.kind = "Created" -> Created(w)
    [] w.kind = "Modified" -> Modified(w)
    [] w.kind = "Deleted" -> Deleted(w)
    [] w.kind = "Renamed" -> Renamed(w)

PendingHashJob(w) == [path |-> w.path, new |-> w.new, read |-> FALSE, hash |-> None]

(* The job waits for the rate limiter, then runs beside the loop. *)
dispatch_hash_job(job) == Append(jobs, job)

Apply ==
  /\ up /\ work.pc = "write"
  /\ LET o == Outcome(work) IN
       /\ db' = o.db
       /\ PushAll(o.events)
  /\ work' = Select
  /\ jobs' = IF should_check_sha256(work.path) /\ work.kind # "Deleted" /\ work.new # None
             THEN dispatch_hash_job(PendingHashJob(work)) ELSE jobs
  /\ UNCHANGED <<fs, watcher, up, timer, critical, spawned, scans, bounds>>

hash_file_async(i) ==
  /\ ~jobs[i].read
  /\ jobs' = [jobs EXCEPT ![i].read = TRUE, ![i].hash = hash_file(jobs[i].path)]
  /\ UNCHANGED <<disk, watcher, loop, spawned, scans, news, bounds>>

(* A result the loop receives: a failed hash is dropped, another is written  *)
(* with the entry of its event, whatever the database holds by now.          *)
handle_hash_result(i) ==
  /\ up /\ work.pc = "select" /\ jobs[i].read
  /\ jobs' = RemoveAt(jobs, i)
  /\ LET j == jobs[i]
         entry == [j.new EXCEPT !.sha256 = j.hash]
     IN  IF j.hash = None THEN UNCHANGED <<db, batch, news>>
         ELSE /\ db' = upsert_entry(j.path, entry)
              /\ PushAll(<<build_event_kind(j.path, entry)>>)
  /\ UNCHANGED <<fs, watcher, up, work, timer, critical, spawned, scans, bounds>>

Flush ==
  /\ up /\ work.pc = "select" /\ batch # <<>>
  /\ flush(batch)
  /\ UNCHANGED <<disk, watcher, up, work, timer, critical, tasks, bounds>>

----------------------------------------------------------------------------
(* Baseline scans *)

(* A rebuilt timer fires at once; later ticks come an interval apart, which  *)
(* is longer than a scan takes.                                              *)
rebuild_scan_timer(paused) == IF paused THEN "none" ELSE "first"

ScanTick ==
  /\ up /\ work.pc = "select" /\ timer # "none" /\ Alive < MaxScans /\ Alive + changes < MaxOverlap
  /\ timer = "armed" => Alive = 0
  /\ timer' = "armed"
  /\ spawned' = spawned + 1
  /\ UNCHANGED <<disk, watcher, up, work, batch, critical, jobs, scans, news, bounds>>

(* power_rx.changed with another profile: one that pauses scans, one that     *)
(* ends the pause, or another of those that do not pause them.                *)
PowerChanged(paused) ==
  /\ up /\ work.pc = "select" /\ ~(critical /\ paused)
  /\ critical' = paused
  /\ timer' = rebuild_scan_timer(paused)
  /\ UNCHANGED <<disk, watcher, up, work, batch, tasks, news, changes, exits>>
EnterCritical == Bounded /\ pauses' = pauses + 1 /\ PowerChanged(TRUE)
LeaveCritical == critical /\ UNCHANGED pauses /\ PowerChanged(FALSE)
Retune == ~critical /\ Bounded /\ pauses' = pauses + 1 /\ PowerChanged(FALSE)

(* wait_for_idle is over: the scan takes its timestamp and walks. *)
BeginScan ==
  /\ spawned > 0
  /\ spawned' = spawned - 1
  /\ scans' = Append(scans, [todo |-> Files, found |-> None, walked |-> FALSE, stale |-> {},
                             events |-> <<>>, seen |-> {}])
  /\ UNCHANGED <<disk, watcher, loop, jobs, news, bounds>>

is_excluded(f) == f \in Excluded

(* The walk reaches a path: anything but a readable, included file is        *)
(* passed over; the metadata and the hash of a file are read.                *)
ScanCollect(i) ==
  /\ scans[i].found = None
  /\ \E f \in scans[i].todo :
       scans' = [scans EXCEPT
         ![i].todo = @ \ {f},
         ![i].found = IF IsFile(f) /\ ~is_excluded(f)
                      THEN [path |-> f, new |-> collect_metadata(f, should_check_sha256(f))] ELSE None]
  /\ UNCHANGED <<disk, watcher, loop, jobs, spawned, news, bounds>>

(* The walk compares what it read with the entry stored by now.              *)
ScanCompare(i) ==
  /\ scans[i].found # None
  /\ LET f == scans[i].found.path
         new == scans[i].found.new
         old == db[f]
         changed == old = None \/ (old.sha256 # new.sha256 \/ metadata_changed(old, new))
     IN  /\ db' = IF changed THEN upsert_entry(f, new) ELSE update_last_scan(f, i)
         /\ scans' = [scans EXCEPT
              ![i].found = None, ![i].seen = @ \cup {f},
              ![i].events = IF changed
                            THEN Append(@, build_event_kind(f, new))
                            ELSE @]
  /\ UNCHANGED <<fs, watcher, loop, jobs, spawned, news, bounds>>

(* Mutation: the files of this scan are old too. *)
get_entries_with_old_scan_Equal(i) == {f \in Files : db[f] # None /\ db[f].last_scan <= i}

get_entries_with_old_scan(i) == {f \in Files : db[f] # None /\ db[f].last_scan < i}

StaleQuery(i) ==
  /\ ~scans[i].walked /\ scans[i].todo = {} /\ scans[i].found = None
  /\ scans' = [scans EXCEPT ![i].walked = TRUE, ![i].stale = get_entries_with_old_scan(i)]
  /\ UNCHANGED <<disk, watcher, loop, jobs, spawned, news, bounds>>

(* The scan is over: its events are published, and the stamps that counted   *)
(* it count one scan less.                                                   *)
Renumber(e, i) == IF e # None /\ e.last_scan >= i THEN [e EXCEPT !.last_scan = @ - 1] ELSE e

DeletedEvents(i) == SetToSeq({build_event_kind(f, None) : f \in scans[i].stale})

(* Mutation: a scan reports only what it finds deleted. *)
ScanEvents_Deleted(i) == DeletedEvents(i)

ScanEvents(i) == scans[i].events \o DeletedEvents(i)

EndScan(i) ==
  /\ scans[i].walked
  /\ publish(ScanEvents(i))
  /\ db' = [f \in Files |-> IF f \in scans[i].stale THEN None ELSE Renumber(db[f], i)]
  /\ jobs' = [k \in DOMAIN jobs |-> [jobs[k] EXCEPT !.new = Renumber(@, i)]]
  /\ work' = IF work.pc = "write" THEN [work EXCEPT !.new = Renumber(@, i)] ELSE work
  /\ scans' = RemoveAt([k \in DOMAIN scans |->
                IF scans[k].found = None THEN scans[k]
                ELSE [scans[k] EXCEPT !.found.new = Renumber(@, i)]], i)
  /\ UNCHANGED <<fs, watcher, up, batch, timer, critical, spawned, bounds>>

ScanStep ==
  \E i \in DOMAIN scans :
    ScanCollect(i) \/ ScanCompare(i) \/ StaleQuery(i) \/ EndScan(i)

----------------------------------------------------------------------------
(* Start, stop and crash *)

(* Everything but the database goes with the process. *)
Down ==
  /\ up' = FALSE /\ work' = Select /\ batch' = <<>> /\ timer' = "none"
  /\ raw' = <<>> /\ pending' = [f \in Files |-> None]
  /\ jobs' = <<>> /\ spawned' = 0 /\ scans' = <<>>
  /\ db' = [f \in Files |-> IF db[f] = None THEN None ELSE [db[f] EXCEPT !.last_scan = 0]]
  /\ Bounded /\ exits' = exits + 1
  /\ UNCHANGED <<fs, critical, changes, pauses>>

Stop == up /\ work.pc = "select" /\ publish(batch) /\ Down
Crash == up /\ Down /\ UNCHANGED news

(* run: the watches are in place before the initial scan is spawned. *)
Start ==
  /\ ~up /\ up' = TRUE
  /\ timer' = rebuild_scan_timer(critical)
  /\ spawned' = IF critical THEN 0 ELSE 1
  /\ UNCHANGED <<disk, watcher, work, batch, critical, jobs, scans, news, bounds>>

Init ==
  /\ fs \in [Files -> {None, [kind |-> "file", c |-> 0, m |-> 0]}]
  /\ db = [f \in Files |-> None] /\ told = {} /\ refused = {}
  /\ raw = <<>> /\ pending = [f \in Files |-> None]
  /\ up = FALSE /\ work = Select /\ batch = <<>> /\ timer = "none" /\ critical = FALSE
  /\ jobs = <<>> /\ spawned = 0 /\ scans = <<>>
  /\ changes = 0 /\ pauses = 0 /\ exits = 0

Loop ==
  \/ Recv \/ Apply \/ Flush
  \/ \E f \in Files : process_fs_event(f)
  \/ \E i \in DOMAIN jobs : handle_hash_result(i)

Hashing == \E i \in DOMAIN jobs : hash_file_async(i)

Next ==
  \/ FileSystem \/ Loop \/ Hashing \/ BeginScan \/ ScanStep
  \/ ScanTick \/ EnterCritical \/ LeaveCritical \/ Retune \/ Start \/ Stop \/ Crash

Spec == Init /\ [][Next]_vars

(* The loop is scheduled, and so is one of the hash tasks and scans that can *)
(* run; the timers fire, the battery is charged again and a stopped agent is *)
(* started.                                                                  *)
FairSpec ==
  /\ Spec
  /\ WF_vars(Loop) /\ WF_vars(Hashing \/ BeginScan \/ ScanStep)
  /\ WF_vars(ScanTick \/ LeaveCritical \/ Start)

----------------------------------------------------------------------------
(* Properties *)

Entries == [m : 0..MaxDisturbances, sha256 : (0..MaxDisturbances) \cup {None}, last_scan : 0..MaxScans]
FsKinds == {"Created", "Modified", "Deleted", "Renamed"}
Events == [path : Files, current : BOOLEAN]

(* The variables keep their types; the batch is below its size between two   *)
(* handlers and no more scans are alive than the bound.                      *)
TypeOK ==
  /\ \A f \in Files : fs[f] = None \/ (fs[f].kind \in {"file", "dir"} /\ fs[f].m \in 0..MaxDisturbances)
  /\ db \in [Files -> Entries \cup {None}]
  /\ raw \in Seq([path : Files, kind : FsKinds]) /\ pending \in [Files -> FsKinds \cup {None}]
  /\ up \in BOOLEAN /\ work.pc \in {"select", "write"} /\ critical \in BOOLEAN
  /\ batch \in Seq(Events) /\ ~is_full(batch) /\ timer \in {"none", "first", "armed"}
  /\ \A i \in DOMAIN jobs : jobs[i].path \in Files /\ jobs[i].new \in Entries
  /\ spawned \in Nat /\ Alive <= MaxScans
  /\ told \subseteq Files /\ refused \subseteq Files \ told
  /\ changes \in 0..MaxDisturbances /\ pauses \in 0..MaxDisturbances /\ exits \in 0..MaxDisturbances

(* The database describes a file as it is. *)
Agrees(f) ==
  IF IsFile(f)
  THEN db[f] # None /\ db[f].m = fs[f].m /\ db[f].sha256 = (IF should_check_sha256(f) THEN fs[f].c ELSE None)
  ELSE db[f] = None

(* Once the file system is quiet, the state database comes to describe every *)
(* file that is not excluded and stays that way, whatever the order of the   *)
(* hash results (lib.rs:760 writes an entry read at the event's time), the   *)
(* scans and the events, through stops, crashes and changes made while the   *)
(* agent was down.                                                           *)
BaselineCatchesUp == <>[](\A f \in Files \ Excluded : Agrees(f))

(* The state every file ends up in has been handed to the server channel     *)
(* with its hash, if the agent never went down: no interleaving of           *)
(* debouncing, hashing and scanning lets the database learn of a change that *)
(* nobody tries to tell.                                                     *)
ChangesAreTold ==
  <>[](exits = 0 =>
        \A f \in Files \ Excluded : IsFile(f) => f \in told \cup refused)

(* The server learns the state every file ends up in, if the agent never     *)
(* went down.  It does not: a refused event is only logged (batcher.rs:81),  *)
(* the database was written before, and no scan reports again what the       *)
(* database knows.                                                           *)
ServerLearnsOfChanges ==
  <>[](exits = 0 => \A f \in Files \ Excluded : IsFile(f) => f \in told)

(* The timer starts no scan beside the initial one (lib.rs:464: "consuming   *)
(* the immediate first tick so the timer doesn't fire a redundant scan right *)
(* after startup").                                                          *)
NoRedundantScan == Alive <= 1

(* A scan takes for deleted only files that its walk has not seen            *)
(* (db.rs:173: "Used by the baseline scanner to detect files that were not   *)
(* seen during the current walk").                                           *)
StaleWereNotSeen == \A i \in DOMAIN scans : scans[i].stale \cap scans[i].seen = {}
=============================================================================
