---------------------------- MODULE NativeEncoder ----------------------------
(***************************************************************************)
(* The ring of textures between the worker and the hardware encoder.  The  *)
(* worker converts an image into a free slot and submits it; a thread of   *)
(* its own waits for the encoder's completions in the order of submission, *)
(* writes the output and frees the slot.  Closing drains, cancels what     *)
(* does not end, and keeps everything alive when the thread is stuck.      *)
(* recorder/src/native/convert.rs (the ring), encode.rs.                   *)
(***************************************************************************)
EXTENDS Integers, Sequences, FiniteSets

CONSTANTS Slots,        \* the ring: NATIVE_ENCODER_SLOT_COUNT textures
          MaxSubmitted  \* bound of a run

\* What the constants must satisfy.
EncoderAssumption ==
    Slots # {} /\ IsFiniteSet(Slots) /\ "none" \notin Slots /\ MaxSubmitted \in Nat

VARIABLES slots,      \* NativeNv12SlotStates
          hardware,   \* what the encoder does with each slot
          mapped,     \* the slots whose input is mapped
          queue,      \* the commands for the completion thread
          thread,     \* where the completion thread is, and its slot
          telemetry,  \* CompletionTelemetry: errors and abort_cleanup, and the counts
          worker,     \* where the encoder's owner is, and its slot
          abort,      \* NativeNvencEncoder::abort_cleanup
          channel,    \* the sender, the EOS acknowledgement, and the cancellation event
          session,    \* what has become of the session and its resources
          order       \* the frames: as submitted, and as written

vars == <<slots, hardware, mapped, queue, thread, telemetry, worker, abort, channel, session, order>>

None == "none"
Frame(s) == [kind |-> "frame", slot |-> s]
Barrier == [kind |-> "barrier", slot |-> None]
Eos == [kind |-> "eos", slot |-> None]
Capacity == Cardinality(Slots) + 2
AllFree == \A s \in Slots : slots[s] = "free"

Init ==
    /\ slots = [s \in Slots |-> "free"]
    /\ hardware = [s \in Slots |-> "idle"]
    /\ mapped = {} /\ queue = <<>>
    /\ thread = [at |-> "receive", slot |-> None]
    /\ telemetry = [errors |-> 0, abort |-> FALSE, completed |-> 0]
    /\ worker = [at |-> "run", slot |-> None, failed |-> FALSE, patience |-> 2]
    /\ abort = FALSE
    /\ channel = [open |-> TRUE, eos |-> FALSE, ack |-> FALSE, cancelled |-> FALSE]
    /\ session = "open"
    /\ order = [submitted |-> <<>>, written |-> <<>>]

Goes(at) == worker' = [worker EXCEPT !.at = at]
\* An error of the worker ends the session: the encoder is closed.
GivesUp == worker' = [worker EXCEPT !.at = "close", !.slot = None, !.failed = TRUE]
ThreadGoes(at) == thread' = [thread EXCEPT !.at = at]

-----------------------------------------------------------------------------
(* The worker: convert_staged, submit and drain.                             *)

Acquire ==
    /\ worker.at = "run" /\ Len(order.submitted) < MaxSubmitted
    /\ \E s \in Slots :
        /\ slots[s] = "free"
        /\ slots' = [slots EXCEPT ![s] = "converted"]
        /\ worker' = [worker EXCEPT !.at = "converted", !.slot = s]
    /\ UNCHANGED <<hardware, mapped, queue, thread, telemetry, abort, channel, session, order>>

\* The lease of a frame that is not submitted frees its slot: the conversion or the
\* mapping failed, or the output thread already had.
Release ==
    /\ worker.at = "converted"
    /\ slots' = [slots EXCEPT ![worker.slot] = "free"]
    /\ GivesUp
    /\ UNCHANGED <<hardware, mapped, queue, thread, telemetry, abort, channel, session, order>>

MapInput ==
    /\ worker.at = "converted" /\ telemetry.errors = 0
    /\ mapped' = mapped \cup {worker.slot}
    /\ slots' = [slots EXCEPT ![worker.slot] = "submitted"]
    /\ Goes("submit")
    /\ UNCHANGED <<hardware, queue, thread, telemetry, abort, channel, session, order>>

\* The encoder rejects the picture: the mapping is undone, unless that fails too.
Rejected ==
    /\ worker.at = "submit"
    /\ GivesUp
    /\ \/ /\ mapped' = mapped \ {worker.slot}
          /\ slots' = [slots EXCEPT ![worker.slot] = "free"]
          /\ UNCHANGED <<abort, telemetry>>
       \/ /\ abort' = TRUE /\ telemetry' = [telemetry EXCEPT !.abort = TRUE]
          /\ UNCHANGED <<mapped, slots>>
    /\ UNCHANGED <<hardware, queue, thread, channel, session, order>>

Accepted ==
    /\ worker.at = "submit"
    /\ hardware' = [hardware EXCEPT ![worker.slot] = "encoding"]
    /\ order' = [order EXCEPT !.submitted = Append(@, worker.slot)]
    /\ Goes("enqueue")
    /\ UNCHANGED <<slots, mapped, queue, thread, telemetry, abort, channel, session>>

\* A full queue would leave an orphan; it has a place for every slot, and two more.
Enqueue ==
    /\ worker.at = "enqueue"
    /\ IF thread.at = "gone"
       THEN /\ abort' = TRUE /\ telemetry' = [telemetry EXCEPT !.abort = TRUE]
            /\ GivesUp /\ UNCHANGED queue
       ELSE /\ queue' = Append(queue, Frame(worker.slot))
            /\ worker' = [worker EXCEPT !.at = "run", !.slot = None]
            /\ UNCHANGED <<abort, telemetry>>
    /\ UNCHANGED <<slots, hardware, mapped, thread, channel, session, order>>

\* drain, before the converter is reconfigured.
DrainBegins ==
    /\ worker.at = "run" /\ Len(order.submitted) > 0
    /\ queue' = IF thread.at = "gone" THEN queue ELSE Append(queue, Barrier)
    /\ Goes("drain")
    /\ UNCHANGED <<slots, hardware, mapped, thread, telemetry, abort, channel, session, order>>

\* The barrier is acknowledged when the thread reaches it; it may be too late, or
\* the thread gone.
DrainEnds ==
    /\ worker.at = "drain"
    /\ \/ /\ thread.at = "barrier" /\ ThreadGoes("receive")
          /\ IF telemetry.errors = 0 /\ AllFree THEN Goes("run") ELSE GivesUp
          /\ UNCHANGED <<abort, telemetry, channel>>
       \/ /\ UNCHANGED thread /\ GivesUp
          /\ abort' = TRUE /\ telemetry' = [telemetry EXCEPT !.abort = TRUE]
          /\ channel' = [channel EXCEPT !.cancelled = TRUE]
    /\ UNCHANGED <<slots, hardware, mapped, queue, session, order>>

-----------------------------------------------------------------------------
(* The encoder, and the completion thread.                                   *)

Encoded ==
    /\ \E s \in Slots :
        /\ hardware[s] = "encoding"
        /\ hardware' = [hardware EXCEPT ![s] = "done"]
    /\ UNCHANGED <<slots, mapped, queue, thread, telemetry, worker, abort, channel, session, order>>

Receive ==
    /\ thread.at = "receive" /\ queue # <<>>
    /\ queue' = Tail(queue)
    /\ thread' = [at |-> Head(queue).kind, slot |-> Head(queue).slot]
    /\ UNCHANGED <<slots, hardware, mapped, telemetry, worker, abort, channel, session, order>>

\* One who sent a barrier and has given up no longer waits for it.
BarrierUnheard ==
    /\ thread.at = "barrier" /\ worker.at # "drain"
    /\ ThreadGoes("receive")
    /\ UNCHANGED <<slots, hardware, mapped, queue, telemetry, worker, abort, channel, session, order>>

\* wait_for_event: the event, the cancellation or the deadline.
FrameDone ==
    /\ thread.at = "frame" /\ hardware[thread.slot] = "done"
    /\ hardware' = [hardware EXCEPT ![thread.slot] = "idle"]
    /\ ThreadGoes("write")
    /\ UNCHANGED <<slots, mapped, queue, telemetry, worker, abort, channel, session, order>>

FrameLate ==
    /\ thread.at = "frame" /\ hardware[thread.slot] # "done"
    /\ ThreadGoes("error")
    /\ UNCHANGED <<slots, hardware, mapped, queue, telemetry, worker, abort, channel, session, order>>

\* The output is written while the bitstream is locked; then the input is unmapped
\* and the slot is free, also when the write failed.
Written ==
    /\ thread.at = "write"
    /\ mapped' = mapped \ {thread.slot}
    /\ slots' = [slots EXCEPT ![thread.slot] = "free"]
    /\ telemetry' = [telemetry EXCEPT !.completed = @ + 1]
    /\ \/ ThreadGoes("receive") /\ order' = [order EXCEPT !.written = Append(@, thread.slot)]
       \/ ThreadGoes("error") /\ UNCHANGED order
    /\ UNCHANGED <<hardware, queue, worker, abort, channel, session>>

\* The driver fails to lock, unlock or unmap: the slot stays as it is.
DriverFails ==
    /\ thread.at = "write"
    /\ ThreadGoes("error")
    /\ UNCHANGED <<slots, hardware, mapped, queue, telemetry, worker, abort, channel, session, order>>

\* The end of the stream is acknowledged before its own error is recorded.
EosDone ==
    /\ thread.at = "eos"
    /\ channel' = [channel EXCEPT !.ack = TRUE]
    /\ \/ (\A s \in Slots : hardware[s] # "encoding") /\ ThreadGoes("receive")
       \/ ThreadGoes("error")
    /\ UNCHANGED <<slots, hardware, mapped, queue, telemetry, worker, abort, session, order>>

RecordError ==
    /\ thread.at = "error"
    /\ telemetry' = [telemetry EXCEPT !.errors = @ + 1, !.abort = TRUE]
    /\ thread' = [at |-> "gone", slot |-> None]
    /\ queue' = <<>>
    /\ UNCHANGED <<slots, hardware, mapped, worker, abort, channel, session, order>>

\* The sender is dropped and the queue empty: the output is flushed.
Flush ==
    /\ thread.at = "receive" /\ queue = <<>> /\ ~channel.open
    /\ \/ thread' = [at |-> "gone", slot |-> None]
       \/ ThreadGoes("error")
    /\ UNCHANGED <<slots, hardware, mapped, queue, telemetry, worker, abort, channel, session, order>>

-----------------------------------------------------------------------------
(* close_inner.                                                              *)

Finish ==
    /\ worker.at = "run"
    /\ Goes("close")
    /\ UNCHANGED <<slots, hardware, mapped, queue, thread, telemetry, abort, channel, session, order>>

Healthy == ~abort /\ telemetry.errors = 0 /\ ~telemetry.abort
Aborts == abort' = TRUE /\ worker' = [worker EXCEPT !.at = "stop", !.failed = TRUE]

SubmitEos ==
    /\ worker.at = "close" /\ Healthy
    /\ \/ /\ thread.at # "gone"
          /\ queue' = Append(queue, Eos) /\ Goes("eos") /\ UNCHANGED abort
       \/ Aborts /\ UNCHANGED queue
    /\ UNCHANGED <<slots, hardware, mapped, thread, telemetry, channel, session, order>>

SkipEos ==
    /\ worker.at = "close" /\ ~Healthy
    /\ Goes("stop")
    /\ UNCHANGED <<slots, hardware, mapped, queue, thread, telemetry, abort, channel, session, order>>

\* Acknowledged, too late, or the thread gone; every slot must then be free.
EosEnds ==
    /\ worker.at = "eos"
    /\ \/ /\ channel.ack
          /\ IF AllFree THEN Goes("stop") /\ UNCHANGED abort ELSE Aborts
       \/ Aborts
    /\ UNCHANGED <<slots, hardware, mapped, queue, thread, telemetry, channel, session, order>>

\* request_completion_abort when something went wrong, and the sender is dropped.
DropSender ==
    /\ worker.at = "stop"
    /\ abort' = (abort \/ telemetry.abort)
    /\ telemetry' = [telemetry EXCEPT !.abort = abort']
    /\ channel' = [channel EXCEPT !.open = FALSE, !.cancelled = @ \/ abort']
    /\ Goes("join")
    /\ UNCHANGED <<slots, hardware, mapped, queue, thread, session, order>>

\* wait_and_join_completion: twice at most, the second time after a cancellation.
JoinLate ==
    /\ worker.at = "join" /\ thread.at # "gone" /\ worker.patience > 0
    /\ abort' = TRUE
    /\ telemetry' = [telemetry EXCEPT !.abort = TRUE]
    /\ channel' = [channel EXCEPT !.cancelled = TRUE]
    /\ worker' = [worker EXCEPT !.patience = @ - 1, !.failed = TRUE,
                                !.at = IF worker.patience = 1 THEN "closed" ELSE "join"]
    /\ session' = IF worker.patience = 1 THEN "retained" ELSE session
    /\ UNCHANGED <<slots, hardware, mapped, queue, thread, order>>

\* Mutant: the abort of the statistics is not asked for.
CleanupUnabandoned == ~abort

CleanupSafe == ~abort /\ ~telemetry.abort

\* The registrations are undone when nothing went wrong; the session always is.
Join ==
    /\ worker.at = "join" /\ thread.at = "gone"
    /\ session' = IF CleanupSafe THEN "cleaned" ELSE "destroyed"
    /\ worker' = [worker EXCEPT !.at = "closed", !.failed = @ \/ telemetry.errors > 0]
    /\ UNCHANGED <<slots, hardware, mapped, queue, thread, telemetry, abort, channel, order>>

Thread ==
    \/ Receive \/ BarrierUnheard \/ FrameDone \/ FrameLate \/ Written \/ DriverFails
    \/ EosDone \/ RecordError \/ Flush

Worker ==
    \/ Acquire \/ Release \/ MapInput \/ Rejected \/ Accepted \/ Enqueue
    \/ DrainBegins \/ DrainEnds \/ Finish

Closer == SubmitEos \/ SkipEos \/ EosEnds \/ DropSender \/ JoinLate \/ Join

Next == Worker \/ Encoded \/ Thread \/ Closer

\* The waits of the closer are bounded; the thread may be stuck in a write.
Fairness == WF_vars(Closer)
Spec == Init /\ [][Next]_vars /\ Fairness

-----------------------------------------------------------------------------
Queued == {queue[k].slot : k \in {i \in 1 .. Len(queue) : queue[i].kind = "frame"}}
InThread == IF thread.at \in {"frame", "write"} THEN {thread.slot} ELSE {}

\* A texture that the encoder may read, or that the thread has still to complete, is
\* not handed to the converter again, and each submission is completed once.
SlotsAreOwned ==
    /\ \A s \in Slots : slots[s] = "free" => s \notin mapped /\ hardware[s] # "encoding"
    /\ \A s \in Queued \cup InThread : slots[s] = "submitted"
    /\ Queued \cap InThread = {}
    /\ \A i, j \in 1 .. Len(queue) :
        queue[i].kind = "frame" /\ queue[i] = queue[j] => i = j
    /\ Len(queue) <= Capacity

\* The output is that of the frames in the order of their submission.
OutputIsInOrder ==
    /\ Len(order.written) <= Len(order.submitted)
    /\ order.written = SubSeq(order.submitted, 1, Len(order.written))

\* A recording that is finished without an error has every frame in its output, and
\* its resources were given back with every slot free.
FinishIsComplete ==
    worker.at = "closed" /\ ~worker.failed =>
        /\ order.written = order.submitted
        /\ telemetry.completed = Len(order.submitted)
        /\ session = "cleaned" /\ AllFree /\ mapped = {}

\* Nothing is given back under a thread that may still use it, and registrations are
\* undone only when the encoder is known to be done with them.
CleanupIsSafe ==
    /\ session \in {"cleaned", "destroyed"} => thread.at = "gone"
    /\ session = "cleaned" => telemetry.errors = 0 /\ \A s \in Slots : hardware[s] # "encoding"

EncoderIsSound == SlotsAreOwned /\ OutputIsInOrder /\ FinishIsComplete /\ CleanupIsSafe

\* Closing ends, whatever the thread is stuck in.
CloseEnds == worker.at \in {"close", "stop"} ~> worker.at = "closed"
=============================================================================
