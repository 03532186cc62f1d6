# Verification of the SN360 desktop agent

TLA+ models of the agent, TLC configurations that check them on small
instances, and TLAPS proofs for every value of the constants. Paths are
relative to `src/crates/`. `PROJECT.json` holds the exact correspondence: for
each definition the lines it models, for each run its properties, the mutations
that show each property can fail, the hazards, and the findings.

## 1. The system

`sda-agent` is one tokio process on a multi-threaded runtime. `main.rs` checks
itself, enrolls or loads its key, connects, and registers the modules with
`sda-core`'s `Agent`, which starts each as a task. The tasks share four things:

- the **event bus**: a lossy broadcast channel between modules, and a bounded
  channel of events for the server;
- the **server connection**: one `ConnectionManager` behind one async mutex,
  used by the forward loop (which empties the server channel), the receive
  loop, the keepalive loop and the start-up and shutdown code;
- the **power profile**: a watch channel a polling task writes, which makes the
  modules rebuild their timers and pause on a critical battery;
- the **shutdown signal**, after which `Agent` waits ten seconds for each module.

| Crate | What it does | Modules here | Left out |
|---|---|---|---|
| `sda-event-bus` | broadcast and server channels | `EventBus` | |
| `sda-agent` | boot, forward and receive loops, shutdown | `Agent`, `Connection` | command line, system calls |
| `sda-comms` | connection, keepalive, enrollment, ciphers | `Connection`, `Agent` | UDP, codecs, ciphers, TLS and HTTP/2 set-up |
| `sda-core` | lifecycle, signals, power task, configuration | `Agent`, `ScanLoops`, `Config` | YAML syntax |
| `sda-pal` | power state; watcher, system facts | `Power`, `Timers` | everything but power |
| `sda-local-detection` | rules, alerts, offline queue, responses | `LocalDetection`, `Behavioral`, `Detectors`, `Timers` | rule file syntax |
| `sda-active-response` | server commands, timed undo | `ActiveResponse`, `ResponseActions` | command lines |
| `sda-updater` | self-update | `Updater`, `AgentBinary`, `Version` | |
| `sda-logcollector` | follows logs, batches lines | `LogCollector` | the readers' parsers |
| `sda-fim` | file integrity monitoring | `Fim`, `Timers` | database errors |
| `sda-inventory` | system inventory | `ScanLoops` | collectors |
| `sda-enhanced-inventory` | running software, SBOM, extensions | `EnhancedInventory`, `RunningSoftware`, `SoftwareInventory` | reading the operating system |
| `sda-sca` | policy checks | `Sca`, `ScanLoops` | regular expressions |
| `sda-rootcheck` | hidden processes, binaries, files | `Rootcheck`, `ScanLoops` | |

There are two kinds of models. The first ones are state machines, one or two
per task or group of tasks that interleave. The others are the algorithms
without a state of their own, as operators, which `MCOperators` compares with
reference definitions: a state of it is one test, what is tested and the input.

## 2. The state machines

**EventBus** (`sda-event-bus/src/bus.rs`). `log` is the order of broadcasts and
the ring is its last `Capacity` entries; `next[s]` is a receiver's cursor.
`publish_to_server` is two steps, `TrySend` and `Broadcast`, because two
publishers on two threads interleave between them. `Lagged` and `Recv` are the
two arms of `EventReceiver::recv`.

**LocalDetection** (`sda-local-detection/src/lib.rs`, `offline_queue.rs`). One
alert's way through `publish_alert`, `enqueue_at`, `drain_offline_queue` and
`ack`, the server channel and the forward loop. Every SQLite statement is a
step that may fail, and the process may crash between any two. `disk` survives
a crash; `mem`, the queue used when the file cannot be opened, does not. Here
an event raises any number of alerts; which ones is the subject of
`Behavioral` and `Detectors`.

**Connection** (`sda-comms/src/connection.rs`, `keepalive.rs`,
`sda-agent/src/main.rs`). Four tasks and a FIFO mutex (tokio's is fair).
`stream` may be dead before anyone notices; a frame arrives as length and body,
so that a cancelled `receive` can fall between them.

**Updater**, over **Version**, implementing **AgentBinary** (`sda-updater`).
The files are the program, the download and the backup. Every step of
`install_update` may fail and the process may end after any of them.
`AgentBinary` is what an operator relies on: the program file is always a whole
release, is replaced only by a newer one, and only once the present one is
known to run. `Version` is `is_newer` with its padding of shorter versions.

**ActiveResponse** (`sda-active-response`, `sda-local-detection/src/response.rs`).
Server commands, detached undo timers and the local engine's own blocks act on
the firewall and the accounts, which outlive the process. `Counted` targets are
iptables rules (one deletion removes one rule); the others are switches. A
command that fails may have had its effect, since it may have been killed at its
time-out.

**LogCollector** (`sda-logcollector`). A file reader, the journal reader, the
flush task and the forward loop around the batching sink. A line may be written
in two writes, may not be UTF-8, and the file may be truncated.

**EnhancedInventory**, over **RunningSoftware** (`sda-enhanced-inventory/src/lib.rs`).
The run loop with its three timers, the power channel, the requests of the
manager and the shutdown. Running software is sent as a baseline and deltas,
from which the manager builds its list while processes come and go, PIDs are
used again and the channel refuses updates. The extensions and the SBOM are
snapshots; `fresh` says whether the manager's one is up to date.

**Fim** (`sda-fim`). Raw watcher events, the debouncer, the handler of
`process_fs_event` in two steps (its reads, then its writes), hash tasks that
finish in any order, and baseline scans on a second connection to the same
database, with pauses on battery, clean stops and crashes. A file has a content
and metadata, and a write may leave the metadata as they were. The timestamps
the code compares are counted by the scans running at the time. `told` holds
the files whose present state has been handed to the bus, and `refused` those
whose event the bus refused: the code logs that after the database has been
written. Changes of the power profile are the pause (`PowerChanged`), its end
(`LeaveCritical`) and those that only rebuild the timer (`Retune`).

**Agent**, over **ScanLoops** and **Power** (`sda-agent/src/main.rs`,
`sda-core`, `sda-comms/src/enrollment.rs`, the `run` loops of `sda-inventory`,
`sda-sca` and `sda-rootcheck`). The boot, in which each step may fail or the
process be killed; the key file, which may be left half-written, or be there
and not be readable (`misread`), which the code takes for no key; the polling
task and the watch channel; three loops whose biased selects are polled branch
by branch, so that a profile may change between two branches; and the shutdown
with its joins. A collection runs on a blocking thread: when `main` returns
(`Return`) the runtime is dropped, which waits for those still running
(`WorkEnds`) before the process can end (`Exit`). `Connection` models what happens on the connection meanwhile.

## 3. The operators

| Module | Models |
|---|---|
| `ResponseActions` | the reading of a server message and what each response does on each platform |
| `Behavioral` | thresholds, sequences and the eviction of tracked entities |
| `Detectors` | string, digest and address indicators, YARA rules, the quarantine |
| `Rootcheck` | the three hidden-process scans, configuration files, signatures, the binary baseline |
| `Sca` | the loading of policies and each kind of check |
| `Config` | the value of each field for each file: serde defaults against `Default` implementations |
| `Power`, `Timers` | the power profile on three platforms; every period and budget derived from it, and the rate of YARA scans |
| `SoftwareInventory` | extensions of three browsers, packages of each package manager, package URLs |

What the host does is part of the input: a process has a story (it lasts,
starts or ends between the listing and the probe, is hidden, is a thread), a
file operation succeeds or fails, a check carries what it will meet. The tests
are in `ResponseTests`, `DetectorTests` (`Behavioral`, `Detectors`),
`InventoryTests`, `HostTests` (`Rootcheck`, `Sca`, `Config`) and `PaceTests`
(`Power`, `Timers`); `MCOperators` puts them together. Sweeps of rootcheck and
scans for YARA rules follow one another, so those tests take steps.

## 4. The runs

| Run | Shows |
|---|---|
| `event_bus` | a receiver misses only what the ring overwrote, and catches up; the forward loop gets exactly the accepted events, in order, and gets them all |
| `local_detection` | no alert vanishes without a recorded reason; the table exceeds its capacity, and an alert is sent twice, only for a crash or fault; replay is FIFO; a spooled alert leaves the queue |
| `connection` | events and commands in order and at most once; one error per break; at most one event after the shutdown message |
| `connection_live` | every task gets the mutex; shutdown ends if the server comes back |
| `updater` | `AgentBinary` is implemented; the backup is there when needed; the first newer release on offer is installed |
| `active_response` | timers, the loop and the local engine do not undo one another's counted blocks; timed actions end |
| `log_collector` | over a rotation and an unreadable line, a stop or a crash, or two stops: a line read is on its way or refused and the buffer is bounded; no line twice, as long as the offset can be saved, and none out of order; what is written under the watcher is read |
| `enhanced_inventory` | the manager's list is the last one published; list and snapshots catch up however timers are rebuilt, updates refused and scans put off |
| `fim` | the database comes to describe the files, and every file's last state is published, or refused by the bus, whatever the order of hash results, scans and events |
| `agent` | an agent that has connected keeps its identity unless its key file cannot be read; pauses are kept and end; the modules keep collecting; a shutdown ends unless blocking work never does |
| `operators` | the algorithms of section 3 agree with their reference definitions |
| `newer_is_installed` (violation) | after one replacement a process no longer finds its program file; the finding quotes the comment that says otherwise |

### Further disagreements

The modules also state what other comments and documents say and the code does
not do. Each of these definitions quotes its line in a comment; none is part of
a run, and TLC finds each violated with the constants of the module's run
unless something else is said here.

| Module, definition | The code |
|---|---|
| `LocalDetection` `SpooledIsDurable` | acks a row while its alert is only in memory |
| `LocalDetection` `NeverOverCapacity` | a crash between INSERT and DELETE leaves the table over capacity |
| `Connection` `ShutdownCompletes`, under `OutageSpec` | a reconnecting task keeps the mutex, and shutdown never ends |
| `Connection` `NoFrameSkipped` | the receive timeout drops a frame on a healthy connection |
| `Connection` `ShutdownIsLast` | an event follows the shutdown message |
| `Updater` `TracksInstalledVersion` | a failed rollback leaves `current_version` wrong |
| `ActiveResponse` `TimeoutIsNotPermanent` | a restart drops the undo timers; a command killed at its time-out schedules none |
| `ActiveResponse` `PermanentStays` | an old timer lifts a later permanent action |
| `ResponseTests` `ElidedIsExecuted` | a bare timeout that begins with 1 is read as an undo |
| `ResponseTests` `ShellSurvivesUndos` | on macOS a second undo replaces the user's shell by `/bin/zsh` |
| `ResponseTests` `GoalStateReached` | a `pkill` that may not signal a process it finds is reported like one that finds none |
| `ResponseTests` `UnblockRemoves` | on macOS and Windows the present block's removal fails and that of an older build's entry succeeds: a success, and the block stays |
| `LogCollector` `NoFinalLoss` | the final flush goes to a channel nobody reads |
| `LogCollector` `ResumesWhereItLeftOff` | a saved offset of 0 counts as none |
| `LogCollector` `OneEventPerLine` | a line being written becomes two events |
| `LogCollector` `EachLineOnce` | a line that is not UTF-8 makes the reader repeat those before it |
| `LogCollector` `RotationDetected` | a rotated file grown to the old offset is not recognised |
| `RunningSoftware` `PidReuseDetected` | a program restarted under its old PID is not reported |
| `EnhancedInventory` `DeferredIsDone` | a request logged as deferred on critical battery is dropped; the next timer answers it |
| `Fim` `StaleWereNotSeen` | an older scan's timestamp overwrites a newer one's: the newer scan deletes the entry of a file it has just seen and reports it deleted |
| `Fim` `NoRedundantScan` | the timer's immediate first tick starts a second scan beside the initial one |
| `Fim` `ServerLearnsOfChanges` | a change is stored and its event refused; no scan reports it again |
| `Agent` `IdentityNeverChanges` | a key file that cannot be read counts as none: the agent enrolls again and writes its new key over it |
| `Agent` `ProcessEnds` | the runtime waits without limit for a blocking collection, after the ten-second joins |
| `Agent` `CollectsAtIntervals`, with the profiles `Normal` and `BatteryActive` | each change of the profile restarts the interval: a host that flaps between two never collects |
| `DetectorTests` `SequenceIsSeen` | a sequence that begins twice is timed from its first beginning and missed |
| `DetectorTests` `EntitiesAreTracked` | the limit counts entries of a rule and an entity: with two rules, two entities under a limit of two lose their counts |
| `DetectorTests` `EveryStringIsReported` | a string that overlaps an earlier match is not reported |
| `DetectorTests` `AddressesAreNoticed` | no IPv6 address is taken from a message, so an IPv6 indicator never matches |
| `DetectorTests` `DigestIsReturned` | a text that is no digest hides a digest under a later name |
| `InventoryTests` `ProductsAreDescribed` | on Windows a comma ends the name of a product and shifts its version |
| `PaceTests` `ScansWithinLimit` | twice the limit of YARA scans begin within a second around the end of a window |
| `HostTests` `HiddenOnlyOnLinux` | the scan for hidden processes works on macOS and Windows as well |
| `HostTests` `MaxPidCaps` | on Windows the probe goes up to the highest process listed, past `max_pid` |
| `HostTests` `FailuresHaveEvidence` | a file that may not be looked at fails the check as one that does not exist, and so does a process where there is no listing |
| `HostTests` `RegistryIsChecked` | a registry check is always an error |
| `HostTests` `OmittedModuleIsOn` | most modules that the file omits are off |

Modelling also showed these, which are not stated as formulas:

- a `running_software` interval below an hour is never used, since
  `effective_ei_interval` takes the larger of it and the profile's
  (`sda-enhanced-inventory/src/lib.rs`), while `docs/admin-guide.md` speaks of
  a snapshot every ten seconds;
- an extension whose newest manifest is malformed is not listed although an
  older version is intact; the comment above the choice says "lexically
  greatest" where the code compares numbers;
- on Linux a `/proc` that cannot be listed makes the hidden-process scan report
  every process;
- a rule bundle that cannot be loaded, or an accepted YARA file that has gone
  bad, leaves a scanner without rules and a log line;
- an empty saved-shell file on macOS keeps later shells from being saved;
- `keepalive_interval: 0` panics the keepalive task, and
  `watchdog_interval_secs: 1` gives a watchdog period as long as its limit;
- the key file is written in place: after a crash in the middle, a start
  without a usable key enrolls again (before the agent has ever connected);
- a result of an SCA check that finds the server's channel full is dropped
  without a log line.

### Bounds

Each bound is a constant named `Max...` or a capacity. They are chosen so that
each limit is passed, not just reached:

- Bus: three events in a ring of two lap a receiver. Two publishers are enough
  for each interleaving of two calls. One receiver is enough because receivers
  only read; the proofs cover any number.
- Detection: four alerts in a queue of two evict and need two batches; a channel
  of one is filled by one event of another module; two faults allow a failing
  step inside the handling of a failing step.
- Connection: one break with two events and two frames gives a retry on a fresh
  connection with something behind it. Two breaks were too large to check.
- Updater: two crashes and two faults allow a failed rollback followed by a
  crash during the next installation.
- Active response: six commands stack timed and permanent actions on both kinds
  of target, with one failure and one restart.
- Log: a batch of two and a channel of one are overrun by the two readers. A bad
  line, a rotation, a stop, a crash and a journal entry come one at a time
  (`FewFaults`), and two at a time where there is no journal and neither buffer
  nor channel is full: the product is too large. Two stops are what it takes to
  resume from an outdated offset. The proofs cover any number of each.
- Enhanced inventory: one PID, two programs and two starts reuse a PID with the
  same and with another program; two shifts of the profile are a pause and its
  end. Two scanners are enabled at a time: the deltas and the SBOM, or both
  snapshots.
- Fim: one file, since no handler relates two paths; two disturbances (changes,
  pauses, exits) give a second change while the first is hashed, or scanned, or
  while the agent is down; two scans at a time are the initial one and the
  timer's first, with one change besides (`MaxOverlap`), and two changes come
  during one scan.
- Agent: one fault anywhere, a key file that cannot be read included; inventory
  runs beside rootcheck, which never pauses, and sca by itself, since all three
  together are too large.
- Operators: inputs long enough for each case and one more: two sweeps
  that record (a baseline, a change) with any number of others between and after
  them, five scans under limits of up to two in a second of four ticks (twice
  the limit and one more), tick counters of four bits, which wrap, four events
  for two thresholds and a sequence, of which one to three entries are kept, in
  windows of one and two seconds, texts of five characters for two patterns of
  up to three, nine tokens around an address of seven, names of three characters
  from the escaped ones, one that is not ASCII and those of an escape.

`CHECK_DEADLOCK FALSE` stands where a bounded run, or a stopped agent, may end.

### Fairness

Weak fairness, of two kinds. The runtime polls a task that can run, so a
started call, a receiver in its loop and the forward loop proceed. Timers tick
and platform commands end (they have time-outs). The one use of strong fairness
is `PollTimer` in `Agent`: the power state is polled every 30 seconds, so
rarely that a loop gets to its timer branch in between, although a change makes
the biased select start over. A collection need not end, neither in the loop nor when the runtime
waits for it. In `Fim` the hash tasks
and the scans are fair only together: either may keep the other waiting. Restarts are fair where
a service manager restarts the agent, and a critical battery is charged in the
end in `Fim`; in `EnhancedInventory` and `Agent` that is a hypothesis of the
property instead. Nobody is obliged to publish, to write a log line or a file,
to send a command or to stop. The return of the server is fair in
`connection_live` only; `OutageSpec` leaves it out, and shutdown then need not
end. In the loops with biased selects events and shutdown go before timers; the
runs bound the number of events, so they say that a drain or a flush happens
once events stop arriving, not under an endless stream.

## 5. The proofs

All for every value of the constants, under the named assumption of each module
(capacities and batch sizes are positive, bounds are natural numbers, the
release installed first runs, a model value is not a number). Each module
`XProofs` proves its results from an inductive invariant: it holds initially,
every step keeps it, and it implies the property. The invariants were checked
with TLC on the constants of the runs before they were proved.

**EventBusProofs**: `TypeOK`, `NoGapUnlessOverwritten`,
`LocalBroadcastUnconditional`, `BroadcastOrder`, `ServerFifo`. The inductive
invariant `BusInv` adds to them `CursorInv` (a cursor is past its subscription)
and `CallInv` (the event of an unfinished call is the caller's newest and not
yet broadcast); without `CallInv` a broadcast could repeat or overtake.

**LocalDetectionProofs**: `TypeOK`, `NoSilentLoss`, `ExcessHasACause` and the
action property `ReplayFifo`. `SpoolInv` adds `RowsInv` (rows are raised alerts,
the one being handled is not a row yet), `BatchInv` (a batch holds rows),
`AckInv` (a row about to be acked is somewhere else already) and `PassedInv`
(rows the drain has passed were handed over or cannot be read). `AckInv` carries
`NoSilentLoss` across the deletion; `PassedInv` carries `ReplayFifo` across
broken-off batches. For `ExcessHasACause`, `CopiesInv` counts the copies of an
alert against the faults and crashes that have happened, depending on where its
handling stands, and `SizeInv` the rows of each queue in the same way; both need
facts on cardinalities, since INSERT and DELETE each change a set by one.

**ConnectionProofs**: `TypeOK` (with the exclusion of the mutex),
`EventsInOrderOnce`, `CommandsInOrderOnce`.

- `MutexInv`: the queue of the mutex holds once each the tasks that own or await
  it, and whoever is inside is at its head. Everything else rests on it: a
  second sender would break the order.
- `MsgInv`, `OrderInv`: what each task may be sending; the server has no event
  newer than the last one taken, and not yet the one the forward loop holds, so
  a retry after a reconnection is no duplicate.
- `FailedInv`: a second attempt that meets a dead stream has a break of its own,
  hence one failed message per break.
- `LastInv`: an event after the shutdown message is the one the forward loop
  held, and it takes no other.
- `WireInv`, `ReadInv`, `PublishedInv`: the pieces on the wire are lengths
  followed by their bodies in the order of the commands, and all are newer than
  what was published. A cancelled `receive` loses a frame and a reconnection
  drops some, but neither can bring one back.

**ActiveResponseProofs**: `TypeOK`, `BlockedWhileDue`. With the types,
`BlockedWhileDue` is inductive by itself: it weighs the rules in force and the
undos asked for against the permanent blocks and the timers, and each action
moves both sides alike. The proof is the accounting, action by action, for any number of targets.

**LogCollectorProofs**: `TypeOK`, `ReadIsKept`, `WatchedIsRead`, `InOrderOnce`.

- `TaskInv`, `BufferInv`, `KeptInv`: a task has a batch exactly while it sends,
  so no flush overwrites another's; the buffer exceeds its limit by the readers
  that are about to flush it; what was read is held somewhere or was dropped.
- `WatchInv`: the reader's offset, position and saved offset are within the
  file, and what lies before them was read or was there before it watched.
- `FileInv`, `LineInv`, `HeldInv`: no unit is in the file twice, lines are
  numbered in order, and nothing held is newer than what was written.
- `FreshInv`: what is still to be read, from the place where the reader or the
  next process will go on, is disjoint from what is held. This is what makes a
  restart safe, and it is lost exactly by a crash, a line that cannot be read or
  a save that leaves an older offset in place.
- `OnceInv`, `OrderInv`: each event is in one place; while only the flush task
  flushes, an event further on its way is not younger.

The attempt to prove `InOrderOnce` as first stated (for clean restarts, whether
or not the offset could be saved) failed at `Save`: a save that fails in the
*second* stop leaves the first one's offset, and the lines in between are sent
again. One stop does not show it, since without an older offset the next process
starts at the end of the file. `InOrderOnce` now names the condition (`outdated`
records a save that left an older offset), and the run has two stops.

**EnhancedInventoryProofs**: `TypeOK`, `ViewIsPrevious`, and `TimersFit`, which
is a result of its own: in the loop a scanner has a timer exactly when it is
enabled and the battery not critical, with the interval of the profile the loop
knows. `ViewInv` is `ViewIsPrevious` PID by PID; its proof is that applying
the delta (`added`, `removed`) to the old list gives the new one, for any two
lists. The module also holds the results about the operators of `HostTests`:

- `HiddenFound`: `HiddenAreFound`, for any processes and any highest one probed.
- `DriftAlwaysReported`: `DriftIsReported` over any number of sweeps, binaries and
  hashes. The inductive invariant `BaselineOK` says that the baseline holds the
  binaries some recording sweep could read, each with what the *first* of them
  read. `compare` saves only when the number of entries has changed, so the proof
  needs that a superset of a finite set with as many elements is that set.
- `VerdictsAreEvident`: `VerdictsHaveEvidence`, for any policy files with any
  checks and any places at which the server's channel is full. The property
  names the two cases in which absence is presumed (`presumed`): a file that may
  not be looked at and a process listing that fails.
- `OmittedDefault`: `OmittedIsDefault`, for any file whatever, by comparing the
  serde defaults with the `Default` implementation section by section
  (`DefaultsAgree`).

**AgentProofs**: `TypeOK`, `PauseIsHonoured` and the action property
`IdentityIsKept`. `KeyInv`: from the end of the save on, the key in memory is the
one in the file; a process enrolls only when it finds none there, or could not
read the one that is; hence a key the agent has connected with is replaced only
by a process that has `misread` it. `LoopInv`: a loop that has seen the profile
goes by it, so that a collection under a pause is one whose timer was polled
before the loop could see it, and there is one such at most. The module also
holds the results about the operators of `PaceTests`:

- `ProfileFits`: `ProfileFitsTheHost`, for any list of supplies in which one tells
  about the mains and one is the battery (`Listed`; whatever else is listed does
  not look like either), any idle time and counters that wrap at any number.
- `LimitsAlwaysHold`: `LimitsHold`, for any configured number, any scans and any
  least wait of up to a second. It is twice the limit that holds in a second; the
  limit itself does not (`ScansWithinLimit`). The
  inductive invariant `RateOK` says that all scans but those the window counts
  began before it, and all but as many more as the limit allows a second before
  it. The second part is needed where a window ends: only then are the scans of
  the window before it known to be a second old.

**UpdaterProofs**: `TypeOK` on every platform. On Linux (an assumption of the
theorem, since elsewhere a process may replace its file repeatedly)
`BackupIsKept` and that `Updater` implements `AgentBinary`, from `DownloadInv`
(the download is the verified release of the manifest) and `SwapInv` (backup
before swap, and what the process can still name). `NewerOrder`: `is_newer` is
asymmetric and transitive for any number of segments.

Model-checked only:

- every liveness property: fairness and ENABLED are out of the prover's reach.
  All that `Fim` checks is of this kind: the database and the reports are right
  in the end, and on the way they need not be;
- of the operators of section 3, those that go through a sequence element by element:
  the parsing of server messages and the platform responses
  (`MessagesDoAsTheySay`, `ReportsAreTrue`), the detectors
  (`MatchesAreWarranted`, `IndicatorsAreNoticed`, `OneFailureCostsNoOther`) and
  the package URLs and listings (`PurlsTellApart`, `InstalledIsListed`). What such
  a definition computes for every input needs induction over data, which is out
  of reach too;
- the type invariant of `Fim`, which is stated beside its variables, holds in its
  run's instance and is not among the run's properties.

## 6. Not modelled

- Codecs, ciphers, the wire format of enrollment, TLS and HTTP/2 set-up: pure
  byte transformations and library objects. A payload is a model value here.
- The collectors of `sda-inventory`, the process listings of
  `sda-enhanced-inventory`, the Event Log and OSLog readers: reads of the
  operating system followed by formatting.
- UDP transport; log rotation by rename; YAML and regular-expression syntax.
- Power failures: crashes end the process and keep what the system calls wrote;
  WAL and page cache are not modelled, nor are database errors in `Fim`.
- In `Fim` a scan compares and writes one file in one step, and removes and
  reports the deleted ones in one step; later ticks of its timer are assumed to
  come after the scan before has ended.
- Time is nondeterministic except in `ScanLoops`, `EnhancedInventory` (hours) and
  the windows of `Behavioral` and `Detectors` (ticks of the test).

## 7. Plan

1. A safety invariant for `Fim` that says what a database entry may be stale about.
2. Framing and counters of a message (`sda-comms/src/protocol.rs`) as operators.
3. Rotation by rename, and a second file, in `LogCollector`.
