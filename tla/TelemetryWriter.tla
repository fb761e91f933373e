---------------------------- MODULE TelemetryWriter ----------------------------
(***************************************************************************)
(* The telemetry of one recording on its way to disk                       *)
(* (recorder/src/poller/persistence.rs, league-data/src/observation/       *)
(* journal.rs): the acquisition thread admits packets to a bounded queue,  *)
(* a worker commits them to the journal in batches, and a reader of the    *)
(* library imports committed batches in pages, while the journal grows or  *)
(* after the process died.                                                 *)
(*                                                                         *)
(* A packet is its number in order of admission and whether it may use the *)
(* reserve for control; a slot stands for its slot and its bytes.  The     *)
(* journal is a sequence of lines.  A checkpoint or manifest is the        *)
(* position it claims: the number of packets committed.                    *)
(***************************************************************************)
EXTENDS Integers, Sequences, FiniteSetsExt

CONSTANTS
    MaxPackets,    \* bound on the admissions that are tried
    Slots,         \* QUEUE_SLOTS
    ControlSlots,  \* CONTROL_SLOTS, the part of Slots that data may not use
    MaxBatch,      \* packets that one commit takes; MAX_BATCH_RECORDS
    PageBatches    \* max_batches of a page

WriterAssumption == Slots \in Nat /\ ControlSlots \in 0 .. Slots

VARIABLES
    producer,  \* the admission under way, and the number of those tried
    gate,      \* Budget::admission is held
    queue,     \* packets sent to the worker and not yet received
    flags,     \* closing, abandoned and failed of the budget
    worker,    \* where the worker stands, with its batch and deferred packet
    session,   \* WriterSession, from start to the end of stop
    disk,      \* the journal's lines, how many of them are synced, the hints
    reader,    \* the position and the packets that the library imported
    admitted   \* packets that the sink accepted

vars == <<producer, gate, queue, flags, worker, session, disk, reader, admitted>>

Entry(p) == [frame |-> "entry", packet |-> p]
Commit(n) == [frame |-> "commit", last |-> n]
Header == [frame |-> "header"]

Packets == [id : 1 .. MaxPackets, control : BOOLEAN]
Places == {"create", "manifest", "receive", "timedOut", "gather", "append", "commit",
           "sync", "committed", "checkpoint", "checkpointManifest", "finalCheckpoint",
           "finalManifest", "ended", "dead"}

TypeOK ==
    /\ producer \in [step : {"free", "checked", "locked"}, packet : Packets, tried : 0 .. MaxPackets]
    /\ gate \in BOOLEAN
    /\ flags \in [closing : BOOLEAN, abandoned : BOOLEAN, failed : BOOLEAN]
    /\ worker.at \in Places /\ worker.failed \in BOOLEAN
    /\ \A i \in DOMAIN worker.batch : worker.batch[i] \in Packets
    /\ session \in {"starting", "open", "stopping", "drained", "failed", "timedOut"}
    /\ disk.synced \in 0 .. Len(disk.lines)
    /\ \A i \in DOMAIN queue : queue[i] \in Packets

Owned == ~flags.abandoned
At(place) == worker.at = place
Goto(place) == worker' = [worker EXCEPT !.at = place]

-----------------------------------------------------------------------------
(* Admission: QueueSink::try_admit on the acquisition thread.              *)

\* Packets that hold a slot: those queued, and those the worker has not let go.
InUse == Len(queue) + Len(worker.batch) + Len(worker.deferred)

Tried(p) == producer' = [step |-> "free", packet |-> p, tried |-> producer.tried + 1]

\* The flags are looked at before the packet is weighed, outside the gate.
CheckFlags(control) ==
    /\ producer.step = "free" /\ producer.tried < MaxPackets /\ session \in {"open", "stopping"}
    /\ producer' = IF flags.closing \/ flags.failed THEN [producer EXCEPT !.tried = @ + 1]
                   ELSE [producer EXCEPT !.step = "checked",
                            !.packet = [id |-> Len(admitted) + 1, control |-> control]]
    /\ UNCHANGED <<gate, queue, flags, worker, session, disk, reader, admitted>>

\* try_lock: while close() holds the gate the packet is refused, not delayed.
TryGate ==
    /\ producer.step = "checked"
    /\ IF gate THEN Tried(producer.packet) /\ UNCHANGED gate
       ELSE gate' = TRUE /\ producer' = [producer EXCEPT !.step = "locked"]
    /\ UNCHANGED <<queue, flags, worker, session, disk, reader, admitted>>

\* Budget::reserve looks at the flags again under the gate.
Reserves(p) ==
    /\ ~flags.closing /\ ~flags.failed
    /\ InUse < (IF p.control THEN Slots ELSE Slots - ControlSlots)

\* A queue whose worker has ended is disconnected, and the lease goes back.
Send ==
    LET p == producer.packet IN
    /\ producer.step = "locked"
    /\ Tried(p) /\ gate' = FALSE
    /\ IF Reserves(p) /\ ~At("ended")
       THEN queue' = Append(queue, p) /\ admitted' = Append(admitted, p)
       ELSE UNCHANGED <<queue, admitted>>
    /\ UNCHANGED <<flags, worker, session, disk, reader>>

-----------------------------------------------------------------------------
(* The worker.                                                             *)

\* The worker ends without its last checkpoint; the packets it held are let go.
Fail == worker' = [worker EXCEPT !.at = "ended", !.failed = TRUE, !.batch = <<>>, !.deferred = <<>>]

\* The journal is created and its header flushed before the sink exists; an
\* initial manifest follows.
CreateJournal ==
    /\ At("create")
    /\ \/ /\ Owned /\ Goto("manifest")
          /\ disk' = [disk EXCEPT !.lines = <<Header>>, !.synced = 1] /\ UNCHANGED flags
       \/ Fail /\ flags' = [flags EXCEPT !.failed = TRUE] /\ UNCHANGED disk
    /\ UNCHANGED <<producer, gate, queue, session, reader, admitted>>

\* The session may have been given up before the worker could report.
FirstManifest ==
    /\ At("manifest")
    /\ \/ /\ Owned /\ disk' = [disk EXCEPT !.manifest = 0] /\ UNCHANGED flags
          /\ IF session = "starting" THEN session' = "open" /\ Goto("receive")
             ELSE Goto("ended") /\ UNCHANGED session
       \/ /\ Fail /\ flags' = [flags EXCEPT !.failed = TRUE]
          /\ UNCHANGED <<disk, session>>
    /\ UNCHANGED <<producer, gate, queue, reader, admitted>>

\* The top of the loop: a deferred packet, the next packet of the queue, or the
\* timeout of an empty one.  closing is only looked at after that timeout.
Receive ==
    /\ At("receive")
    /\ \/ ~Owned /\ Fail /\ UNCHANGED queue
       \/ /\ Owned /\ worker.deferred # <<>>
          /\ worker' = [worker EXCEPT !.at = "gather", !.batch = worker.deferred, !.deferred = <<>>]
          /\ UNCHANGED queue
       \/ /\ Owned /\ worker.deferred = <<>> /\ queue # <<>>
          /\ worker' = [worker EXCEPT !.at = "gather", !.batch = <<Head(queue)>>]
          /\ queue' = Tail(queue)
       \/ /\ Owned /\ worker.deferred = <<>> /\ queue = <<>>
          /\ Goto("timedOut") /\ UNCHANGED queue
    /\ UNCHANGED <<producer, gate, flags, session, disk, reader, admitted>>

TimedOut ==
    /\ At("timedOut")
    /\ Goto(IF flags.closing THEN "finalCheckpoint" ELSE "receive")
    /\ UNCHANGED <<producer, gate, queue, flags, session, disk, reader, admitted>>

\* More packets join the batch until it is full, its flush interval is over, or
\* nothing waits; a packet that would not fit is deferred to the next batch.
Gather ==
    /\ At("gather")
    /\ \/ /\ Len(worker.batch) < MaxBatch /\ queue # <<>>
          /\ queue' = Tail(queue)
          /\ \/ worker' = [worker EXCEPT !.batch = Append(@, Head(queue))]
             \/ worker' = [worker EXCEPT !.at = "append", !.deferred = <<Head(queue)>>]
       \/ Goto("append") /\ UNCHANGED queue
    /\ UNCHANGED <<producer, gate, flags, session, disk, reader, admitted>>

CommittedIn(lines) ==
    LET commits == {i \in DOMAIN lines : lines[i].frame = "commit"}
    IN IF commits = {} THEN 0 ELSE lines[Max(commits)].last

\* Writer::commit, one write after the other.  A batch the journal cannot take
\* (Invalid, Capacity) writes nothing; a failed write leaves what it wrote and
\* poisons the writer, as does a failed flush.
Put(line) == disk' = [disk EXCEPT !.lines = Append(@, line)]
Broken == Fail /\ flags' = [flags EXCEPT !.failed = TRUE]

AppendEntries ==
    /\ At("append")
    /\ \/ ~Owned /\ Broken /\ UNCHANGED disk
       \/ /\ Owned
          /\ \/ /\ disk' = [disk EXCEPT !.lines = @ \o
                               [i \in DOMAIN worker.batch |-> Entry(worker.batch[i])]]
                /\ Goto("commit") /\ UNCHANGED flags
             \/ /\ Broken
                /\ \E n \in 0 .. Len(worker.batch) :
                      disk' = [disk EXCEPT !.lines = @ \o
                                  [i \in 1 .. n |-> Entry(worker.batch[i])]]
    /\ UNCHANGED <<producer, gate, queue, session, reader, admitted>>

\* Mutant: the batch is acknowledged before it is flushed.
AppendCommitEarly ==
    /\ At("commit")
    /\ Put(Commit(CommittedIn(disk.lines) + Len(worker.batch)))
    /\ worker' = [worker EXCEPT !.at = "sync", !.acknowledged = @ + Len(worker.batch)]
    /\ UNCHANGED <<producer, gate, queue, flags, session, reader, admitted>>

AppendCommit ==
    /\ At("commit")
    /\ \/ Put(Commit(CommittedIn(disk.lines) + Len(worker.batch))) /\ Goto("sync") /\ UNCHANGED flags
       \/ Broken /\ UNCHANGED disk
    /\ UNCHANGED <<producer, gate, queue, session, reader, admitted>>

\* sync_data accepted the batch: only now is it reported, and its leases and
\* the checkpoint's state follow.
Sync ==
    /\ At("sync")
    /\ \/ /\ disk' = [disk EXCEPT !.synced = Len(disk.lines)]
          /\ worker' = [worker EXCEPT !.at = "committed", !.batch = <<>>,
                           !.acknowledged = @ + Len(worker.batch)]
          /\ UNCHANGED flags
       \/ Broken /\ UNCHANGED disk
    /\ UNCHANGED <<producer, gate, queue, session, reader, admitted>>

\* An owner that left ends the loop; the periodic checkpoint may be due.
Committed ==
    /\ At("committed")
    /\ IF Owned THEN Goto("receive") \/ Goto("checkpoint") ELSE Fail
    /\ UNCHANGED <<producer, gate, queue, flags, session, disk, reader, admitted>>

After(place) == CASE place = "checkpoint" -> "checkpointManifest"
                  [] place = "checkpointManifest" -> "receive"
                  [] place = "finalCheckpoint" -> "finalManifest"
                  [] place = "finalManifest" -> "ended"

\* persist_checkpoint and persist_manifest: a replacement that fails, or that is
\* no longer owned, leaves the file of before and does not fail the writer.
Persist ==
    /\ worker.at \in {"checkpoint", "checkpointManifest", "finalCheckpoint", "finalManifest"}
    /\ Goto(After(worker.at))
    /\ \/ /\ Owned
          /\ disk' = IF worker.at \in {"checkpoint", "finalCheckpoint"}
                     THEN [disk EXCEPT !.checkpoint = worker.acknowledged]
                     ELSE [disk EXCEPT !.manifest = worker.acknowledged]
       \/ UNCHANGED disk
    /\ UNCHANGED <<producer, gate, queue, flags, session, reader, admitted>>

-----------------------------------------------------------------------------
(* The session.                                                            *)

\* close() takes the gate, so that an admission it waited for is queued first.
Close ==
    /\ session = "open" /\ ~gate
    /\ session' = "stopping" /\ flags' = [flags EXCEPT !.closing = TRUE]
    /\ UNCHANGED <<producer, gate, queue, worker, disk, reader, admitted>>

\* stop() returns the worker's report.
Join ==
    /\ session = "stopping" /\ At("ended")
    /\ session' = IF worker.failed THEN "failed" ELSE "drained"
    /\ UNCHANGED <<producer, gate, queue, flags, worker, disk, reader, admitted>>

\* The deadline of the start or of the stop passes, or the owner drops the
\* session: the worker is kept, and told that nobody owns it.
Abandon ==
    /\ session \in {"starting", "open", "stopping"} /\ ~gate
    /\ session' = "timedOut"
    /\ flags' = [flags EXCEPT !.closing = TRUE, !.abandoned = TRUE]
    /\ UNCHANGED <<producer, gate, queue, worker, disk, reader, admitted>>

\* The process or the machine dies: lines that were not synced survive up to
\* any point, a torn line being no line.
Crash ==
    /\ worker' = [worker EXCEPT !.at = "dead"]
    /\ session' = IF session \in {"starting", "open", "stopping"} THEN "timedOut" ELSE session
    /\ \E n \in disk.synced .. Len(disk.lines) :
          disk' = [disk EXCEPT !.lines = SubSeq(@, 1, n), !.synced = n]
    /\ reader' = [reader EXCEPT !.live = FALSE]
    /\ UNCHANGED <<producer, gate, queue, flags, admitted>>

-----------------------------------------------------------------------------
(* The library's import: recover_after, a page at a time.                  *)

\* The commit lines after a position, in order, and the entries before one.
CommitsAfter(n) == {i \in n + 1 .. Len(disk.lines) : disk.lines[i].frame = "commit"}
EntriesIn(from, to) ==
    LET entries == {i \in from + 1 .. to : disk.lines[i].frame = "entry"}
        nth(k) == CHOOSE i \in entries : Cardinality({j \in entries : j <= i}) = k
    IN [k \in 1 .. Cardinality(entries) |-> disk.lines[nth(k)].packet]

\* The page starts after the cached commit and ends with a commit line; what is
\* after the last one is a tail of unknown durability and is not imported.  A
\* journal shorter than the cached position is no longer the cached source.
ImportPage ==
    /\ disk.lines # <<>> /\ reader.live
    /\ LET from == IF reader.offset = 0 THEN 1 ELSE reader.offset
           commits == CommitsAfter(from)
           page == {i \in commits : Cardinality({j \in commits : j <= i}) <= PageBatches}
       IN /\ page # {}
          /\ reader' = [reader EXCEPT !.offset = Max(page),
                           !.packets = @ \o EntriesIn(from, Max(page))]
    /\ UNCHANGED <<producer, gate, queue, flags, worker, session, disk, admitted>>

\* After a crash the cache's anchor may lie behind the end of the journal: it is
\* discarded, and the import starts again.
Reopen ==
    /\ ~reader.live /\ disk.lines # <<>>
    /\ reader' = IF reader.offset > Len(disk.lines)
                 THEN [offset |-> 0, packets |-> <<>>, live |-> TRUE]
                 ELSE [reader EXCEPT !.live = TRUE]
    /\ UNCHANGED <<producer, gate, queue, flags, worker, session, disk, admitted>>

-----------------------------------------------------------------------------

Init ==
    /\ producer = [step |-> "free", packet |-> [id |-> 1, control |-> FALSE], tried |-> 0]
    /\ gate = FALSE /\ queue = <<>>
    /\ flags = [closing |-> FALSE, abandoned |-> FALSE, failed |-> FALSE]
    /\ worker = [at |-> "create", batch |-> <<>>, deferred |-> <<>>, failed |-> FALSE,
                 acknowledged |-> 0]
    /\ session = "starting"
    /\ disk = [lines |-> <<>>, synced |-> 0, checkpoint |-> -1, manifest |-> -1]
    /\ reader = [offset |-> 0, packets |-> <<>>, live |-> TRUE]
    /\ admitted = <<>>

Producer == (\E control \in BOOLEAN : CheckFlags(control)) \/ TryGate \/ Send
Worker ==
    \/ CreateJournal \/ FirstManifest \/ Receive \/ TimedOut \/ Gather
    \/ AppendEntries \/ AppendCommit \/ Sync \/ Committed \/ Persist
Import == ImportPage \/ Reopen
Session == Close \/ Join \/ Abandon

Next == Import \/ (~At("dead") /\ (Producer \/ Worker \/ Session \/ Crash))

Spec == Init /\ [][Next]_vars

-----------------------------------------------------------------------------

InOrder(packets) == \A i \in DOMAIN packets : packets[i] = admitted[i]

\* What a reader finds behind the last commit line: nothing else of the journal
\* is promised.
Recovered == EntriesIn(0, LET commits == CommitsAfter(0)
                          IN IF commits = {} THEN 0 ELSE Max(commits))

\* A torn or failed batch, a crash at any write, or a worker that was given up
\* and writes on: what recovery finds is a prefix of what was admitted, in that
\* order, and has everything the worker acknowledged.
JournalIsDurable ==
    /\ InOrder(Recovered)
    /\ Len(Recovered) >= worker.acknowledged

\* The checkpoint and the manifest never point past what a reader of the journal
\* can validate, whichever of the files the process died before.
HintsAreCommitted ==
    /\ disk.checkpoint <= Len(Recovered)
    /\ disk.manifest <= Len(Recovered)

\* An import that follows the growing journal, or goes on after a crash, has
\* whole batches in order of admission, each once.
ImportIsPrefix ==
    /\ InOrder(reader.packets)
    /\ reader.live => reader.offset <= Len(disk.lines)

\* Data never takes the slots that the records which account for a loss need: as
\* long as those leave a slot of their own, one more of them is admitted.
ControlHasRoom ==
    LET held == queue \o worker.batch \o worker.deferred
        controls == {i \in DOMAIN held : held[i].control}
    IN ~flags.closing /\ ~flags.failed /\ Cardinality(controls) < ControlSlots
       => Reserves([id |-> 1, control |-> TRUE])

\* Normal stop closes admission and drains accepted packets.
GracefulStopDrains == session = "drained" => worker.acknowledged = Len(admitted)
=============================================================================
