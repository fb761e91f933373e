---------------------------- MODULE NativeSession ----------------------------
(***************************************************************************)
(* The worker of a native recording.  Frames arrive when Windows composes  *)
(* them; the video has a tick every Period, counted from the first frame.  *)
(* The worker shows at each tick the newest frame captured before it,      *)
(* catches up after a delay, follows the target through resizes and loss,  *)
(* and stops after the last tick before the stop.                          *)
(* recorder/src/native/session.rs, clock.rs, source.rs and capture.rs; the *)
(* callbacks are those of FrameCapture.                                    *)
(***************************************************************************)
EXTENDS Integers, Sequences

CONSTANTS Sizes,          \* content sizes that the converter accepts; one more it does not
          Slots,          \* NATIVE_ENCODER_SLOT_COUNT
          Period,         \* time from one tick to the next
          CatchUp,        \* FINAL_CATCH_UP_TIMEOUT
          Retry,          \* between two attempts to attach
          Batch,          \* MAX_CATCH_UP_SUBMISSIONS_PER_PASS
          MaxTime, MaxFrames, MaxLeaves, MaxLag      \* bounds of a run

\* What the constants must satisfy.
SessionAssumption ==
    /\ Sizes # {} /\ Slots \in Nat \ {0} /\ Period \in Nat \ {0} /\ Batch \in Nat \ {0}
    /\ CatchUp \in Nat /\ Retry \in Nat /\ MaxTime \in Nat /\ MaxFrames \in Nat /\ MaxLeaves \in Nat /\ MaxLag \in Nat

VARIABLES time,       \* the monotonic clock; 0 is when the first frame was captured
          cfr,        \* NativeCfrClock
          source,     \* NativeWgcSource and its replaceable leaf
          counts,     \* what was admitted, replaced, discarded, copied, and arrived
          converter,  \* the snapshot: its size and whether it holds an image; free slots
          resize,     \* pending_resize: a set of at most one size
          worker,     \* where run_until_stopped is
          control,    \* stop, the end of the game, the evidence and the request for recovery
          shown       \* the frame that each tick shows

vars == <<time, cfr, source, counts, converter, resize, worker, control, shown>>

Tiny == "tiny"
Never == -1
Deadline(k) == k * Period
Due == time >= Deadline(cfr.tick)
Through == Deadline(cfr.tick)           \* next_qpc_100ns
Stopping == worker.stopAt # Never

\* start_with_stop: the first usable frame is staged, and is that of tick zero.
Init ==
    /\ time = 0
    /\ cfr = [tick |-> 0, latest |-> 0, pending |-> TRUE, discards |-> 0]
    /\ LET s == CHOOSE size \in Sizes : TRUE IN
        /\ source = [attached |-> TRUE, closed |-> FALSE, size |-> s, generation |-> 0,
                     handoff |-> <<>>, pending |-> <<>>, last |-> 0]
        /\ converter = [size |-> s, populated |-> TRUE, free |-> Slots]
    /\ counts = [admitted |-> 1, replaced |-> 0, discards |-> 0, copies |-> 1, arrived |-> 0]
    /\ resize = {}
    /\ worker = [at |-> "top", stopAt |-> Never, next |-> 0, batch |-> 0, failed |-> "no"]
    /\ control = [stop |-> Never, ended |-> FALSE,
                  evidence |-> [generation |-> 0, latest |-> 0, stale |-> FALSE], request |-> {}]
    /\ shown = <<>>

-----------------------------------------------------------------------------
(* The world: frames, the target, the encoder's completions, the service.    *)

FrameArrives ==
    /\ source.attached /\ ~source.closed /\ counts.arrived < MaxFrames
    /\ worker.at \notin {"finished", "failed"}
    /\ \E at \in {source.last} \cup {t \in source.last .. time : t >= time - MaxLag}, size \in Sizes \cup {Tiny}, fits \in BOOLEAN :
        /\ size # source.size => fits = FALSE
        /\ IF source.handoff = <<>>
           THEN /\ source' = [source EXCEPT !.last = at,
                        !.handoff = <<[at |-> at, size |-> size, fits |-> fits]>>]
                /\ counts' = [counts EXCEPT !.arrived = @ + 1, !.admitted = @ + 1]
           ELSE /\ source' = [source EXCEPT !.last = at]
                /\ counts' = [counts EXCEPT !.arrived = @ + 1]
    /\ UNCHANGED <<time, cfr, converter, resize, worker, control, shown>>

TargetCloses ==
    /\ source.attached /\ ~source.closed /\ MaxLeaves > 0
    /\ source' = [source EXCEPT !.closed = TRUE]
    /\ UNCHANGED <<time, cfr, counts, converter, resize, worker, control, shown>>

Completes ==
    /\ converter.free < Slots
    /\ converter' = [converter EXCEPT !.free = @ + 1]
    /\ UNCHANGED <<time, cfr, source, counts, resize, worker, control, shown>>

Tick ==
    /\ time < IF Stopping THEN worker.stopAt + CatchUp ELSE MaxTime
    /\ time' = time + 1
    /\ UNCHANGED <<cfr, source, counts, converter, resize, worker, control, shown>>

Stop ==
    /\ control.stop = Never
    /\ control' = [control EXCEPT !.stop = time]
    /\ UNCHANGED <<time, cfr, source, counts, converter, resize, worker, shown>>

GameEnds ==
    /\ ~control.ended /\ MaxLeaves > 0
    /\ control' = [control EXCEPT !.ended = TRUE]
    /\ UNCHANGED <<time, cfr, source, counts, converter, resize, worker, shown>>

\* The service sees no progress in the evidence, and asks for another source.
AskRecovery ==
    /\ control.request = {} /\ MaxLeaves > 0
    /\ control' = [control EXCEPT !.request = {control.evidence}]
    /\ UNCHANGED <<time, cfr, source, counts, converter, resize, worker, shown>>

-----------------------------------------------------------------------------
(* Frames: PendingFrame, and what is done to the leaf.                       *)

Eligible(pending) == pending # <<>> /\ pending[1].at <= Through

\* offer_for_tick: the newest eligible frame, otherwise the earliest future one.
Displaces(f, pending) ==
    \/ pending = <<>>
    \/ IF Eligible(pending) THEN f.at > pending[1].at /\ f.at <= Through
                            ELSE f.at < pending[1].at

\* poll_for_tick and receive_for_tick: what has become of the source, the counts
\* and the clock's discards when the handoff has been looked at.
Received ==
    IF Eligible(source.pending) \/ source.handoff = <<>>
    THEN [source |-> source, counts |-> counts, discards |-> 0]
    ELSE LET f == source.handoff[1]
             empty == [source EXCEPT !.handoff = <<>>]
         IN  IF f.at <= cfr.latest \/ ~Displaces(f, source.pending)
             THEN [source |-> empty, counts |-> [counts EXCEPT !.discards = @ + 1], discards |-> 0]
             ELSE [source |-> [empty EXCEPT !.pending = <<f>>],
                   counts |-> [counts EXCEPT !.replaced = @ + Len(source.pending)],
                   discards |-> Len(source.pending)]

\* recreate, and shutdown, close every surface of the pool.
Emptied(s) == [s EXCEPT !.handoff = <<>>, !.pending = <<>>]
Held(s) == Len(s.handoff) + Len(s.pending)
Detached(s) == [Emptied(s) EXCEPT !.attached = FALSE, !.closed = FALSE]

-----------------------------------------------------------------------------
(* run_until_stopped.                                                        *)

Goes(at) == worker' = [worker EXCEPT !.at = at]
Fails(why) == worker' = [worker EXCEPT !.at = "failed", !.failed = why]

\* What the turn comes to: the end, a tick that is due, or a wait for the source.
Chosen(w) ==
    IF w.stopAt # Never /\ Deadline(cfr.tick) >= w.stopAt THEN [w EXCEPT !.at = "finished"]
    ELSE IF w.stopAt # Never /\ time >= w.stopAt + CatchUp
    THEN [w EXCEPT !.at = "failed", !.failed = "late"]
    ELSE [w EXCEPT !.at = IF Due THEN "submit" ELSE "receive", !.batch = 0]

Seen == IF Stopping \/ control.stop = Never THEN worker ELSE [worker EXCEPT !.stopAt = time]

\* A stop that is seen keeps the source as it is.
TurnStopping ==
    /\ worker.at = "top" /\ Seen.stopAt # Never
    /\ worker' = Chosen(Seen)
    /\ UNCHANGED <<time, cfr, source, counts, converter, resize, control, shown>>

\* recover_source.  A target that closed leaves the timeline as it is.
Left == IF source.attached /\ source.closed THEN Detached(source) ELSE source
Leaves(left) ==
    /\ source' = left
    /\ counts' = [counts EXCEPT !.discards = @ + Held(source) - Held(left)]
    /\ resize' = IF left.attached THEN resize ELSE {}

Matching == {r \in control.request : r.generation = source.generation /\ r.latest = cfr.latest}
Gone == control.stop # Never \/ control.ended
NothingToRecover == (Left.attached /\ Matching = {}) \/ time < worker.next

RecoverNothing ==
    /\ worker.at = "top" /\ Seen.stopAt = Never /\ NothingToRecover
    /\ Leaves(Left)
    /\ worker' = Chosen(worker)
    /\ UNCHANGED <<time, cfr, converter, control, shown>>

\* The game has ended, the window is unavailable, or only in the background.
TryLater ==
    /\ worker.at = "top" /\ Seen.stopAt = Never /\ ~NothingToRecover
    /\ Leaves(Left)
    /\ worker' = Chosen([worker EXCEPT !.next = time + Retry])
    /\ UNCHANGED <<time, cfr, converter, control, shown>>

Rebuild ==
    /\ worker.at = "top" /\ Seen.stopAt = Never /\ ~NothingToRecover /\ ~Gone
    /\ Leaves(IF source.attached THEN Detached(source) ELSE source)
    /\ worker' = [worker EXCEPT !.at = "attach", !.next = time + Retry]
    /\ UNCHANGED <<time, cfr, converter, control, shown>>

\* attach: the leaf is prepared with the window's size, and started if it still may.
Attach ==
    /\ worker.at = "attach"
    /\ \/ worker' = Chosen(worker) /\ UNCHANGED source            \* the window has gone
       \/ \E s \in Sizes :
            IF Gone THEN source' = [source EXCEPT !.size = s] /\ worker' = Chosen(worker)
            ELSE /\ source.generation < MaxLeaves
                 /\ source' = [source EXCEPT !.attached = TRUE, !.size = s]
                 /\ Goes("attached")
    /\ UNCHANGED <<time, cfr, counts, converter, resize, control, shown>>

Attached ==
    /\ worker.at = "attached"
    /\ IF Gone THEN Leaves(Detached(source))
       ELSE /\ source' = [source EXCEPT !.generation = @ + 1]
            /\ resize' = {source.size}
            /\ UNCHANGED counts
    /\ worker' = Chosen(worker)
    /\ UNCHANGED <<time, cfr, converter, control, shown>>

-----------------------------------------------------------------------------
(* submit_due_batch: one tick after the other.                               *)

MaySubmit ==
    /\ worker.batch < Batch /\ Due
    /\ Stopping => Deadline(cfr.tick) < worker.stopAt
HasFreeSlot == converter.free > 0

\* submit_tick and commit: the tick is that of the image that the snapshot holds.
Commits(clock, snapshot) ==
    IF ~snapshot.populated THEN Fails("unpopulated") /\ cfr' = clock /\ converter' = snapshot
                                /\ UNCHANGED shown
    ELSE IF snapshot.free = 0
    THEN Goes("receive") /\ cfr' = clock /\ converter' = snapshot /\ UNCHANGED shown
    ELSE /\ converter' = [snapshot EXCEPT !.free = @ - 1]
         /\ cfr' = [clock EXCEPT !.tick = @ + 1, !.pending = FALSE]
         /\ shown' = Append(shown, clock.latest)
         /\ worker' = [worker EXCEPT !.batch = @ + 1]

\* observe_source.
Observed(clock, at) ==
    [clock EXCEPT !.latest = at, !.pending = TRUE,
                  !.discards = IF clock.pending THEN @ + 1 ELSE @]

\* A frame has been shown: the service no longer knows the latest.
Freshened == [control EXCEPT !.evidence.stale = TRUE,
                             !.request = {[r EXCEPT !.stale = TRUE] : r \in @}]

\* stage_pending_source_for_tick when there is nothing to stage.
SubmitRepeated(got, clock) ==
    /\ cfr.tick = 0 \/ ~Eligible(got.source.pending)
    /\ source' = got.source /\ counts' = got.counts
    /\ Commits(clock, converter)
    /\ UNCHANGED <<resize, control>>

\* ... when the frame is stale or not one of the pool's size: it closes, and may resize
\* the pool.
SubmitResized(f, got, clock) ==
    /\ f.at <= clock.latest \/ f.size # got.source.size \/ f.size = Tiny
    /\ LET taken == [got.source EXCEPT !.pending = <<>>]
       IN  IF f.at <= clock.latest \/ f.size = Tiny
           THEN /\ source' = taken /\ UNCHANGED resize
                /\ counts' = [got.counts EXCEPT !.discards = @ + 1]
           ELSE /\ source' = [Emptied(taken) EXCEPT !.size = f.size]
                /\ counts' = [got.counts EXCEPT !.discards = @ + 1 + Held(taken)]
                /\ resize' = {f.size}
    /\ Commits(clock, converter)
    /\ UNCHANGED control

\* ... stage_source_snapshot: after a resize the encoder is drained first, and the
\* processor made anew; a surface smaller than its content is closed unused.
Fitting(f) ==
    IF resize # {} /\ f.fits
    THEN [converter EXCEPT !.free = Slots, !.size = f.size,
                           !.populated = @ /\ converter.size = f.size]
    ELSE converter

SubmitStaged(f, got, clock) ==
    /\ f.at > clock.latest /\ f.size = got.source.size /\ f.size # Tiny
    /\ source' = [got.source EXCEPT !.pending = <<>>]
    /\ LET fitted == Fitting(f)
       IN  IF (resize # {} => f.fits) /\ fitted.size # f.size
           THEN Fails("size") /\ UNCHANGED <<cfr, converter, counts, resize, shown, control>>
           ELSE IF ~f.fits
           THEN /\ counts' = [got.counts EXCEPT !.discards = @ + 1]
                /\ Commits(clock, fitted)
                /\ UNCHANGED <<resize, control>>
           ELSE IF f.at > Through
           THEN Fails("order") /\ UNCHANGED <<cfr, converter, counts, resize, shown, control>>
           ELSE /\ counts' = [got.counts EXCEPT !.copies = @ + 1]
                /\ resize' = {}
                /\ control' = Freshened
                /\ Commits(Observed(clock, f.at), [fitted EXCEPT !.populated = TRUE])

SubmitTick ==
    /\ worker.at = "submit" /\ MaySubmit /\ HasFreeSlot
    /\ LET got == IF cfr.tick = 0 THEN [source |-> source, counts |-> counts, discards |-> 0]
                  ELSE Received
           clock == [cfr EXCEPT !.discards = @ + got.discards]
       IN  \/ SubmitRepeated(got, clock)
           \/ /\ cfr.tick # 0 /\ Eligible(got.source.pending)
              /\ LET f == got.source.pending[1]
                 IN  SubmitResized(f, got, clock) \/ SubmitStaged(f, got, clock)
    /\ UNCHANGED time

\* receive_source: nothing is received when a tick is due.  Then, now and then, the
\* evidence is published.
ReceiveSource ==
    /\ worker.at = "receive" \/ (worker.at = "submit" /\ ~(MaySubmit /\ HasFreeSlot))
    /\ IF Due THEN UNCHANGED <<source, counts, cfr>>
       ELSE /\ source' = Received.source /\ counts' = Received.counts
            /\ cfr' = [cfr EXCEPT !.discards = @ + Received.discards]
    /\ \/ UNCHANGED control
       \/ control' = [control EXCEPT !.evidence =
            [generation |-> source.generation, latest |-> cfr.latest, stale |-> FALSE]]
    /\ Goes("top")
    /\ UNCHANGED <<time, converter, resize, shown>>

\* A call of the operating system, the driver or the mux fails.
WindowsFails ==
    /\ worker.at \notin {"finished", "failed"}
    /\ Fails("windows")
    /\ UNCHANGED <<time, cfr, source, counts, converter, resize, control, shown>>

World == FrameArrives \/ TargetCloses \/ Stop \/ GameEnds \/ AskRecovery \/ WindowsFails
Recover == RecoverNothing \/ TryLater \/ Rebuild \/ Attach \/ Attached
Work == TurnStopping \/ Recover \/ SubmitTick \/ ReceiveSource

Next == World \/ Completes \/ Tick \/ Work

Fairness == WF_vars(Work) /\ WF_vars(Tick)
Spec == Init /\ [][Next]_vars /\ Fairness

-----------------------------------------------------------------------------
\* What finish demands of a recording that went well, at every moment: each frame
\* admitted was copied, replaced, discarded or is held, each replaced one is one the
\* clock discarded, and no more was copied than there are ticks to show it.
FramesAddUp ==
    /\ counts.admitted = counts.copies + counts.replaced + counts.discards + Held(source)
    /\ cfr.discards = counts.replaced
    /\ counts.copies <= cfr.tick + 1

\* A tick shows a frame captured before it, never one older than the tick before
\* showed; what waits is newer than what is shown.
TicksAreInOrder ==
    /\ \A k \in 1 .. Len(shown) :
        shown[k] <= Deadline(k - 1) /\ (k > 1 => shown[k - 1] <= shown[k])
    /\ Len(shown) = cfr.tick
    /\ source.pending # <<>> => source.pending[1].at > cfr.latest

\* No check of the worker's own state ends a healthy recording.
NoCheckFails == worker.failed \in {"no", "late", "windows"}

\* A recording that ends well has every tick up to the stop, and none after the
\* worker saw it.
StopIsExact ==
    worker.at = "finished" =>
        /\ Deadline(cfr.tick) >= control.stop
        /\ cfr.tick > 0 => Deadline(cfr.tick - 1) <= worker.stopAt

\* A source that works is never torn down on an old request.
LiveSourceStays ==
    [][source.attached /\ ~source'.attached /\ ~source.closed /\ ~Gone
       => \E r \in control.request : ~r.stale]_vars

\* A stop ends the recording, whatever the encoder and the target do.
StopEnds == control.stop # Never ~> worker.at \in {"finished", "failed"}

SessionIsSound == FramesAddUp /\ TicksAreInOrder /\ NoCheckFails /\ StopIsExact
=============================================================================
