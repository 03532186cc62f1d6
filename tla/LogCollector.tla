---------------------------- MODULE LogCollector ----------------------------
(***************************************************************************)
(* The log collector (sda-logcollector): a file reader that follows one    *)
(* log file, a second reader (the journal) that shares the batching sink,  *)
(* the flush task, and the forward loop at the end of the server channel.  *)
(*                                                                         *)
(* The file is a sequence of units: a line written at once ("line"), the   *)
(* two halves of a line written in two writes ("head", "tail"), or a line  *)
(* that is not UTF-8 ("bad").  An offset counts units.  An event is the    *)
(* sequence of units one read_line returned.  The log is rotated by        *)
(* truncation.                                                             *)
(***************************************************************************)
EXTENDS Integers, Sequences, Functions

CONSTANTS
  MaxBatch,     \* MAX_BATCH_SIZE
  Capacity,     \* of the server channel
  None,         \* no offset saved
  MaxLines,     \* bound: lines written to the file
  MaxJournal,   \* bound: journal entries
  MaxBad,       \* bound: lines that are not UTF-8
  MaxRotations, \* bound: truncations of the file
  MaxStops,     \* bound: clean stops
  MaxCrashes    \* bound: crashes

ASSUME LogCollectorAssumption ==
  /\ MaxBatch \in Nat \ {0} /\ Capacity \in Nat \ {0} /\ None \notin Nat
  /\ {MaxLines, MaxJournal, MaxBad, MaxRotations, MaxStops, MaxCrashes} \subseteq Nat

VARIABLES
  \* the log file
  file, lines,
  \* the file reader
  offset, saved, position, notify, watching,
  \* the tasks: where each is, where it goes after its flush, what it flushes
  pc, back, batch,
  \* the sink's buffer, the server channel, what the forward loop took from it
  buffer, channel, forwarded,
  shutdown,
  \* what each process read and what was in the file before it watched; events
  \* the full channel refused; whether a flush was forced; whether a save that
  \* failed has left an older offset on disk
  read, past, dropped, forced, outdated,
  journal, bad, rotations, stops, crashes

log == <<file, lines>>
reader == <<offset, saved, position, notify, watching>>
tasks == <<pc, back, batch>>
sink == <<buffer, channel, forwarded>>
ghosts == <<read, past, dropped, forced, outdated>>
bounds == <<journal, bad, rotations, stops, crashes>>
vars == <<log, reader, tasks, sink, shutdown, ghosts, bounds>>

Tasks == {"file", "journal", "task"}
Units == [line : 1..MaxLines, part : {"line", "head", "tail", "bad"}]
                       \cup [line : 1..MaxJournal, part : {"journal"}]
Events == Seq(Units) \ {<<>>}

TypeOK ==
  /\ file \in Seq(Units) /\ lines \in 0..MaxLines
  /\ offset \in Nat /\ saved \in Nat \cup {None} /\ position \in Nat
  /\ notify \in BOOLEAN /\ watching \in BOOLEAN
  /\ pc \in [Tasks -> {"down", "read", "watch", "wait", "join", "take", "send", "done"}]
  /\ back \in [Tasks -> {"read", "wait", "done"}] /\ batch \in [Tasks -> Seq(Events)]
  /\ buffer \in Seq(Events) /\ channel \in Seq(Events) /\ Len(channel) <= Capacity
  /\ forwarded \in Seq(Events) /\ {shutdown, forced, outdated} \subseteq BOOLEAN
  /\ read \subseteq Units /\ past \subseteq Units /\ dropped \subseteq Units
  /\ journal \in 0..MaxJournal /\ bad \in 0..MaxBad /\ rotations \in 0..MaxRotations
  /\ stops \in 0..MaxStops /\ crashes \in 0..MaxCrashes

all(x) == [t \in Tasks |-> x]

Init ==
  /\ file = <<>> /\ lines = 0
  /\ offset = 0 /\ saved = None /\ position = 0 /\ notify = FALSE /\ watching = FALSE
  /\ pc = all("down") /\ back = all("wait") /\ batch = all(<<>>)
  /\ buffer = <<>> /\ channel = <<>> /\ forwarded = <<>> /\ shutdown = FALSE
  /\ read = {} /\ past = {} /\ dropped = {} /\ forced = FALSE /\ outdated = FALSE
  /\ journal = 0 /\ bad = 0 /\ rotations = 0 /\ stops = 0 /\ crashes = 0

goto(t, l) == pc' = [pc EXCEPT ![t] = l]

-----------------------------------------------------------------------------
(* The program that writes the log: whole lines, or a line in two writes. *)
write(unit) ==
  /\ file' = Append(file, unit)
  /\ notify' = (notify \/ watching)
  /\ past' = IF watching THEN past ELSE past \cup {unit}
  /\ UNCHANGED <<offset, saved, position, watching, tasks, sink, shutdown,
                 read, dropped, forced, outdated, journal, rotations, stops, crashes>>

halfWritten == file # <<>> /\ file[Len(file)].part = "head"

WriteLine ==
  /\ lines < MaxLines /\ ~halfWritten
  /\ lines' = lines + 1
  /\ \E part \in {"line", "head"} : write([line |-> lines + 1, part |-> part])
  /\ UNCHANGED bad

WriteBad ==
  /\ lines < MaxLines /\ ~halfWritten /\ bad < MaxBad
  /\ lines' = lines + 1 /\ bad' = bad + 1
  /\ write([line |-> lines + 1, part |-> "bad"])

WriteTail ==
  /\ halfWritten
  /\ write([line |-> lines, part |-> "tail"])
  /\ UNCHANGED <<lines, bad>>

Rotate ==
  /\ rotations < MaxRotations /\ file # <<>> /\ ~halfWritten
  /\ rotations' = rotations + 1
  /\ file' = <<>>
  /\ notify' = (notify \/ watching)
  /\ UNCHANGED <<lines, offset, saved, position, watching, tasks, sink, shutdown, ghosts,
                 journal, bad, stops, crashes>>

-----------------------------------------------------------------------------
(* FileReader::run up to the first read: an offset of zero, saved or not, means
   a new file. *)
initial_offset == IF saved \in {None, 0} THEN Len(file) ELSE saved

(* Mutation: every read begins at the beginning. *)
seek_to_Zero(at) == 0

seek_to(at) == IF Len(file) < at THEN 0 ELSE at

Start ==
  /\ pc = all("down")
  /\ pc' = [file |-> "read", journal |-> "wait", task |-> "wait"]
  /\ offset' = initial_offset
  /\ position' = seek_to(initial_offset)
  /\ past' = {file[i] : i \in 1..Len(file)}
  /\ UNCHANGED <<log, saved, notify, watching, back, batch, sink, shutdown, read, dropped,
                 forced, outdated, bounds>>

(* read_line: up to the end of the line or of the file. *)
lineEnd(i) == IF file[i].part = "head" /\ i < Len(file) THEN i + 1 ELSE i

needs_flush(b) == Len(b) >= MaxBatch

(* LogBatchSink::publish_to_server: always Ok; a full buffer is flushed in line. *)
publish(t, event, next) ==
  /\ buffer' = Append(buffer, event)
  /\ back' = [back EXCEPT ![t] = next]
  /\ goto(t, IF needs_flush(buffer') THEN "take" ELSE next)
  /\ forced' = (forced \/ needs_flush(buffer'))
  /\ UNCHANGED <<batch, channel, forwarded>>

(* read_new_lines, one line. *)
ReadLine ==
  /\ pc["file"] = "read" /\ position < Len(file) /\ file[position + 1].part # "bad"
  /\ LET event == SubSeq(file, position + 1, lineEnd(position + 1)) IN
       /\ publish("file", event, "read")
       /\ position' = position + Len(event)
       /\ read' = read \cup Range(event)
  /\ UNCHANGED <<log, offset, saved, notify, watching, shutdown, past, dropped, outdated, bounds>>

(* End of the file (or of a truncated one): set_offset. *)
ReadEnd ==
  /\ pc["file"] = "read" /\ position >= Len(file)
  /\ offset' = position /\ position' = 0
  /\ goto("file", IF watching THEN "wait" ELSE "watch")
  /\ UNCHANGED <<log, saved, notify, watching, back, batch, sink, shutdown, ghosts,
                 bounds>>

(* read_line fails on a line that is not UTF-8: the offset stays where it was. *)
ReadFails ==
  /\ pc["file"] = "read" /\ position < Len(file) /\ file[position + 1].part = "bad"
  /\ position' = 0
  /\ goto("file", IF watching THEN "wait" ELSE "watch")
  /\ UNCHANGED <<log, offset, saved, notify, watching, back, batch, sink, shutdown, ghosts,
                 bounds>>

(* The watcher is set up after the initial read. *)
Watch ==
  /\ pc["file"] = "watch"
  /\ watching' = TRUE
  /\ goto("file", "wait")
  /\ UNCHANGED <<log, offset, saved, position, notify, back, batch, sink, shutdown, ghosts,
                 bounds>>

(* Mutation: a notification that is dropped. *)
Notified_Dropped ==
  /\ pc["file"] = "wait" /\ ~shutdown /\ notify
  /\ notify' = FALSE
  /\ UNCHANGED <<log, offset, saved, position, watching, tasks, sink, shutdown, ghosts, bounds>>

Notified ==
  /\ pc["file"] = "wait" /\ ~shutdown /\ notify
  /\ notify' = FALSE
  /\ position' = seek_to(offset)
  /\ goto("file", "read")
  /\ UNCHANGED <<log, offset, saved, watching, back, batch, sink, shutdown, ghosts, bounds>>

(* Shutdown: SeekState::save, which may fail before or after fs::write has emptied the
   file, and the wait for the journal. *)
Save ==
  /\ pc["file"] = "wait" /\ shutdown
  /\ saved' \in {offset, saved, None}
  /\ outdated' = (outdated \/ saved' \notin {offset, None})
  /\ goto("file", "join")
  /\ UNCHANGED <<log, offset, position, notify, watching, back, batch, sink, shutdown, read,
                 past, dropped, forced, bounds>>

(* Mutation: the tasks have one batch between them, which the next to flush replaces. *)
take_Shared(t) == batch' = [all(<<>>) EXCEPT ![t] = buffer] /\ buffer' = <<>>

(* std::mem::take under the buffer's lock. *)
take(t) == batch' = [batch EXCEPT ![t] = buffer] /\ buffer' = <<>>

(* flush_now takes the buffer; Send publishes the events one by one. *)
flush_now(t, next) ==
  /\ take(t)
  /\ back' = [back EXCEPT ![t] = next]
  /\ goto(t, IF buffer = <<>> THEN next ELSE "send")
  /\ UNCHANGED <<channel, forwarded>>

(* The final flush of run. *)
FinalFlush ==
  /\ pc["file"] = "join" /\ pc["journal"] = "done"
  /\ flush_now("file", "done")
  /\ UNCHANGED <<log, reader, shutdown, ghosts, bounds>>

-----------------------------------------------------------------------------
(* The journal reader, which empties the journal before it looks for a shutdown. *)
JournalEntry ==
  /\ pc["journal"] = "wait" /\ journal < MaxJournal
  /\ journal' = journal + 1
  /\ LET unit == [line |-> journal + 1, part |-> "journal"] IN
       /\ publish("journal", <<unit>>, "wait")
       /\ read' = read \cup {unit}
  /\ UNCHANGED <<log, reader, shutdown, past, dropped, outdated, bad, rotations, stops, crashes>>

JournalStops ==
  /\ pc["journal"] = "wait" /\ shutdown
  /\ goto("journal", "done")
  /\ UNCHANGED <<log, reader, back, batch, sink, shutdown, ghosts, bounds>>

(* The flush task: a tick, unless there is nothing to flush, or the shutdown
   signal (biased). *)
FlushTick ==
  /\ pc["task"] = "wait" /\ (shutdown \/ buffer # <<>>)
  /\ flush_now("task", IF shutdown THEN "done" ELSE "wait")
  /\ UNCHANGED <<log, reader, shutdown, ghosts, bounds>>

(* The flush of a reader that filled the buffer, which another task may have taken
   by now. *)
ForcedFlush(t) ==
  /\ pc[t] = "take"
  /\ flush_now(t, back[t])
  /\ UNCHANGED <<log, reader, shutdown, ghosts, bounds>>

(* EventBus::publish_to_server: refused when the channel is full, and only logged. *)
publish_to_server(event) ==
  IF Len(channel) < Capacity
    THEN channel' = Append(channel, event) /\ UNCHANGED dropped
    ELSE dropped' = dropped \cup Range(event) /\ UNCHANGED channel

Send(t) ==
  /\ pc[t] = "send"
  /\ publish_to_server(Head(batch[t]))
  /\ batch' = [batch EXCEPT ![t] = Tail(@)]
  /\ goto(t, IF Len(batch[t]) = 1 THEN back[t] ELSE "send")
  /\ UNCHANGED <<log, reader, back, buffer, forwarded, shutdown, read, past, forced, outdated, bounds>>

(* The forward loop (sda-agent/src/main.rs), which the shutdown signal ends. *)
Forward ==
  /\ ~shutdown /\ channel # <<>>
  /\ forwarded' = Append(forwarded, Head(channel))
  /\ channel' = Tail(channel)
  /\ UNCHANGED <<log, reader, tasks, buffer, shutdown, ghosts, bounds>>

-----------------------------------------------------------------------------
Shutdown ==
  /\ stops < MaxStops /\ ~shutdown /\ pc # all("down")
  /\ shutdown' = TRUE
  /\ stops' = stops + 1
  /\ UNCHANGED <<log, reader, tasks, sink, ghosts, journal, bad, rotations, crashes>>

(* The end of the process, and of what it holds in memory. *)
exit ==
  /\ pc' = all("down") /\ back' = all("wait") /\ batch' = all(<<>>)
  /\ buffer' = <<>> /\ channel' = <<>> /\ shutdown' = FALSE
  /\ watching' = FALSE /\ notify' = FALSE /\ offset' = 0 /\ position' = 0
  /\ read' = {} /\ past' = {} /\ dropped' = {}
  /\ UNCHANGED <<log, saved, forwarded, forced, outdated, journal, bad, rotations, stops>>

Exit == pc = all("done") /\ exit /\ UNCHANGED crashes

Crash == pc # all("down") /\ crashes < MaxCrashes /\ exit /\ crashes' = crashes + 1

FileReader == Start \/ ReadLine \/ ReadFails \/ ReadEnd \/ Watch \/ Notified \/ Save \/ FinalFlush
Flush(t) == ForcedFlush(t) \/ Send(t)

Next ==
  \/ WriteLine \/ WriteBad \/ WriteTail \/ Rotate \/ Shutdown \/ Exit \/ Crash
  \/ FileReader \/ JournalEntry \/ JournalStops \/ FlushTick \/ Forward
  \/ \E t \in Tasks : Flush(t)

Spec == Init /\ [][Next]_vars

(* The tasks run, ticks come, and a process whose tasks are done ends. *)
FairSpec ==
  /\ Spec
  /\ WF_vars(FileReader) /\ WF_vars(JournalStops) /\ WF_vars(FlushTick) /\ WF_vars(Forward)
  /\ WF_vars(Exit)
  /\ \A t \in Tasks : WF_vars(Flush(t))

-----------------------------------------------------------------------------
units(events) == UNION {Range(events[i]) : i \in 1..Len(events)}
flushing == units(batch["file"]) \cup units(batch["journal"]) \cup units(batch["task"])

(* A line that was read is on its way or was refused by the full channel, whatever
   the readers, the forced flushes and the flush task do at the same time
   (batch.rs, flush_now); "so memory stays bounded" (publish_to_server): the buffer
   holds no more than MAX_BATCH_SIZE events and one more for every other reader. *)
ReadIsKept ==
  /\ read \subseteq units(buffer) \cup flushing \cup units(channel) \cup units(forwarded) \cup dropped
  /\ Len(buffer) <= MaxBatch + 1

(* No line is sent twice, over rotations and clean restarts, as long as it can be read and
   the offset can be saved (file_reader.rs, read_new_lines; state.rs); and as long as no
   flush is forced and nobody stops the agent, the lines of the file are forwarded in the
   order they were written (batch.rs). *)
once ==
  LET sent == forwarded \o channel \o batch["file"] \o batch["journal"] \o batch["task"] \o buffer
  IN  \A i, j \in 1..Len(sent) : i # j => Range(sent[i]) \cap Range(sent[j]) = {}
inOrder ==
  LET sent == forwarded \o channel
  IN  \A i, j \in 1..Len(sent) :
        i < j /\ sent[i][1].part # "journal" /\ sent[j][1].part # "journal"
          => sent[i][1].line <= sent[j][1].line
InOrderOnce ==
  crashes = 0 /\ bad = 0 /\ ~outdated => once /\ (~forced /\ stops = 0 => inOrder)

(* When the reader waits and no notification is pending, it has read whatever was
   written since it began to watch, if it can be read (file_reader.rs, run). *)
caughtUp == pc["file"] = "wait" /\ ~notify => Range(file) \ past \subseteq read
WatchedIsRead == rotations = 0 /\ bad = 0 => caughtUp

(* "so we never lose the final window of log events on shutdown" (lib.rs, run). *)
NoFinalLoss == pc = all("done") => read \subseteq units(forwarded) \cup dropped

(* "so the agent resumes from where it left off after restart" (state.rs). *)
ResumesWhereItLeftOff == [][Start /\ saved # None => offset' = saved]_vars

(* "publishes one event per log line" (batch.rs). *)
OneEventPerLine ==
  \A i \in 1..Len(forwarded) : forwarded[i][Len(forwarded[i])].part # "head"

(* The same line, of the lines before one that is not UTF-8. *)
EachLineOnce == once

(* "detect rotated files" (docs/device-agent-proposal.md). *)
RotationDetected == caughtUp
=============================================================================
