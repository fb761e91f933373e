-------------------------- MODULE RecordingService --------------------------
(***************************************************************************)
(* The recorder's service loop (recorder/src/service.rs, Windows build):   *)
(* it watches for the League process, owns at most one capture startup or  *)
(* one active recording, and finalizes it when the process ends.           *)
(*                                                                         *)
(* The loop is sequential, but its awaits interleave with the owned        *)
(* startup task, the native GPU worker, the processes it watches and the   *)
(* shutdown command.  pc is the await or stage the loop has reached; one   *)
(* watcher tick runs from "cancel" or "settle" back to "select".           *)
(* A process generation (PID with its creation time) is one element of     *)
(* Processes; the retained handle answers for exactly that generation.     *)
(***************************************************************************)
EXTENDS Naturals, FiniteSets

CONSTANTS
    Processes,   \* League process generations
    NoProcess    \* None

ASSUME ServiceAssumption == NoProcess \notin Processes

Option == Processes \cup {NoProcess}

VARIABLES
    life,        \* [Processes -> {"unborn", "alive", "ended"}]
    attempt,     \* [Processes -> Attempt]: the startup task and its capture
    unproven,    \* native callback cleanup is unproven in this recorder
    pc,          \* where the service loop is
    requested,   \* a Shutdown command is queued
    stopping,    \* the loop handles it
    previous,    \* previous_process
    current,     \* current_process of the tick
    active,      \* the process of the active recording
    starting,    \* the process of the owned startup task
    blocked,     \* blocked_original
    closing,     \* the recording being stopped and finalized
    retry,       \* RecordingStartupRetryState
    status,      \* the availability projection
    recorded,    \* history: processes whose recording became active
    published,   \* history: processes whose recording was published
    gaveUp       \* history: processes whose startup failed terminally

external == <<life, unproven, requested>>
history == <<recorded, published, gaveUp>>
vars == <<external, attempt, pc, stopping, previous, current, active,
          starting, blocked, closing, retry, status, history>>

-----------------------------------------------------------------------------
(* Startup tasks, native captures and the stop they end in.                *)

Dispositions == {"none", "cancelled", "retryable", "terminal"}

Attempt == [phase       : {"none", "waiting", "native", "ready", "failed",
                           "panicked", "recording", "closing"},
            cancelled   : BOOLEAN,       \* the startup cancellation channel
            disposition : Dispositions,  \* of a failed startup
            exited      : BOOLEAN,       \* the worker stopped on its own
            stalled     : BOOLEAN]       \* a confirmed progress stall

NoAttempt == [phase |-> "none", cancelled |-> FALSE, disposition |-> "none",
              exited |-> FALSE, stalled |-> FALSE]

\* The native graph of this capture exists: WGC, encoder and mux.
Live(p) == attempt[p].phase \in {"native", "ready", "recording", "closing"}

TaskFinished(p) == attempt[p].phase \in {"ready", "failed", "panicked"}

\* What stop_recording_inner was called with.
Stop == [process  : Option,
         failed   : BOOLEAN,     \* a failure reason, stall or early exit
         required : BOOLEAN,     \* process_end_required
         next     : {"retire", "reset", "observe", "block", "skip"}]

NoStop == [process |-> NoProcess, failed |-> FALSE, required |-> FALSE,
           next |-> "reset"]

-----------------------------------------------------------------------------
(* The retry state and the availability projection.                        *)

Retry == [process : Option, due : BOOLEAN, terminal : BOOLEAN]

NoRetry == [process |-> NoProcess, due |-> TRUE, terminal |-> FALSE]

Permits(p) == retry.process = p => ~retry.terminal /\ retry.due

\* record_failure: backoff, terminal, or nothing after a cancellation.
RecordFailure(p, disposition) ==
    [cancelled |-> NoRetry,
     retryable |-> [process |-> p, due |-> FALSE,
                    terminal |-> retry.process = p /\ retry.terminal],
     terminal  |-> [process |-> p, due |-> TRUE, terminal |-> TRUE]
    ][disposition]

BlockActiveProcess(p) ==
    [process |-> p, due |-> TRUE, terminal |-> p # NoProcess]

Activities == {"idle", "starting", "recording", "finalizing"}
Status == [service  : {"available", "stopping", "stopped", "failed"},
           activity : Activities,
           problem  : {"none", "startup", "finalization"}]

\* Status::apply for Capture(activity).
Capture(s, activity) ==
    IF \/ s.service = "available"
       \/ s.service = "stopping" /\ activity \in {"finalizing", "idle"}
    THEN [s EXCEPT !.activity = activity,
                   !.problem = IF activity \in {"starting", "recording"}
                               THEN "none" ELSE s.problem]
    ELSE s

\* Status::apply for CaptureError(problem), Stopping, Stopped, ServiceError.
CaptureError(s, problem) ==
    [s EXCEPT !.problem = problem, !.activity = "idle"]

Become(s, service) ==
    IF s.service = "failed" THEN s
    ELSE [s EXCEPT !.service = service, !.activity = "idle"]

-----------------------------------------------------------------------------
(* The environment: processes, the command, failing captures.              *)

ProcessStarts(p) ==
    /\ life[p] = "unborn"
    /\ life' = [life EXCEPT ![p] = "alive"]
    /\ UNCHANGED <<attempt, unproven, pc, requested, stopping, previous,
                   current, active, starting, blocked, closing, retry,
                   status, history>>

ProcessEnds(p) ==
    /\ life[p] = "alive"
    /\ life' = [life EXCEPT ![p] = "ended"]
    /\ UNCHANGED <<attempt, unproven, pc, requested, stopping, previous,
                   current, active, starting, blocked, closing, retry,
                   status, history>>

\* Tray Quit, Ctrl+C, or a closed command channel.
RequestShutdown ==
    /\ ~requested
    /\ requested' = TRUE
    /\ UNCHANGED <<life, attempt, unproven, pc, stopping, previous, current,
                   active, starting, blocked, closing, retry, status,
                   history>>

\* The GPU worker ends without a stop request, or encode or mux progress
\* stays silent for the stall timeout.
CaptureBreaks(p) ==
    /\ attempt[p].phase \in {"ready", "recording"}
    /\ \/ attempt' = [attempt EXCEPT ![p].exited = TRUE]
       \/ attempt' = [attempt EXCEPT ![p].stalled = TRUE]
    /\ UNCHANGED <<external, pc, stopping, previous, current, active,
                   starting, blocked, closing, retry, status, history>>

\* A capture leaf cannot prove that its callbacks were released.
CleanupUnproven(p) ==
    /\ Live(p) /\ ~unproven
    /\ unproven' = TRUE
    /\ UNCHANGED <<life, requested, attempt, pc, stopping, previous, current,
                   active, starting, blocked, closing, retry, status,
                   history>>

\* The retry deadline passes.
BackoffElapses ==
    /\ ~retry.due
    /\ retry' = [retry EXCEPT !.due = TRUE]
    /\ UNCHANGED <<external, attempt, pc, stopping, previous, current, active,
                   starting, blocked, closing, status, history>>

-----------------------------------------------------------------------------
(* The startup task: start_recording.                                      *)

taskFrame == <<external, pc, stopping, previous, current, active, starting,
               blocked, closing, retry, history>>

Fail(p, disposition) ==
    attempt' = [attempt EXCEPT ![p].phase = "failed",
                               ![p].disposition = disposition]

\* The window was ready and the target is visible; the last cancellation and
\* identity checks pass, storage suffices, and the bundle is created.
StartupAdmits(p) ==
    /\ attempt[p].phase = "waiting" /\ ~attempt[p].cancelled
    /\ life[p] = "alive"
    /\ attempt' = [attempt EXCEPT ![p].phase = "native"]
    /\ status' = Capture(status, "starting")
    /\ UNCHANGED taskFrame

\* A cancelled wait or changed identity; a hidden target may be retried; an
\* observation, adapter or storage error is terminal.
StartupRefuses(p) ==
    /\ attempt[p].phase = "waiting"
    /\ \/ /\ attempt[p].cancelled \/ life[p] = "ended"
          /\ Fail(p, "cancelled")
       \/ Fail(p, "retryable")
       \/ Fail(p, "terminal")
       \/ attempt' = [attempt EXCEPT ![p].phase = "panicked"]
    /\ UNCHANGED <<taskFrame, status>>

\* NativeRecordingSession::start: a failed graph is joined before the task
\* ends; a first frame with encode and mux progress makes it ready.  The
\* cancellation may come after the last check of the flag.
NativeEnds(p) ==
    /\ attempt[p].phase = "native"
    /\ \/ attempt[p].cancelled /\ Fail(p, "cancelled")
       \/ Fail(p, "terminal")
       \/ attempt' = [attempt EXCEPT ![p].phase = "ready"]
    /\ UNCHANGED <<taskFrame, status>>

-----------------------------------------------------------------------------
(* The tick: what the watcher observed, and the transition it means.       *)

loopFrame == <<external, published, recorded>>

\* The process whose retained handle decides: the active recording's, else
\* the startup's, else that of the recording that failed last.
Owner == IF active # NoProcess THEN active
         ELSE IF starting # NoProcess THEN starting ELSE blocked

\* ProcessWatcher::refresh: one listed generation, or none when there is no
\* process or the enumeration or identity query fails.
Observations == {NoProcess} \cup {p \in Processes : life[p] # "unborn"}

\* Mutant: the enumeration decides even while the owner lives.
CurrentAsListed(listed) == listed

Current(listed) ==
    IF Owner = NoProcess THEN listed
    ELSE IF life[Owner] # "ended" THEN Owner
    ELSE IF listed = Owner THEN NoProcess ELSE listed

\* transition(): an appearance only resets the retry state; a replacement or
\* disappearance first retires whatever the loop owns.
Tick(listed) ==
    LET now == Current(listed) IN
    /\ pc = "select"
    /\ current' = now
    /\ IF now = previous
       THEN pc' = "settle" /\ UNCHANGED retry
       ELSE IF previous = NoProcess
       THEN pc' = "settle" /\ retry' = NoRetry
       ELSE pc' = "cancel" /\ UNCHANGED retry
    /\ UNCHANGED <<loopFrame, attempt, stopping, previous, active, starting,
                   blocked, closing, status, gaveUp>>

\* has_ended() cannot answer: run returns the error.  Dropping the recording
\* joins its worker and leaves a partial; dropping the startup closes its
\* cancellation channel.
RunFails ==
    /\ pc = "select" /\ Owner # NoProcess
    /\ pc' = "failed"
    /\ attempt' = [p \in Processes |->
                    IF p = active THEN NoAttempt
                    ELSE IF p = starting /\ attempt[p].phase = "ready"
                    THEN NoAttempt
                    ELSE [attempt[p] EXCEPT !.cancelled = @ \/ p = starting]]
    /\ active' = NoProcess /\ starting' = NoProcess
    /\ status' = [status EXCEPT !.service = "failed", !.activity = "idle"]
    /\ UNCHANGED <<loopFrame, stopping, previous, current, blocked, closing,
                   retry, gaveUp>>

-----------------------------------------------------------------------------
(* Cancelling a startup and stopping a recording.                          *)

\* stop_recording_inner up to its first await: a given reason, a confirmed
\* stall or a worker that already exited make the stop a failure.
Close(p, failed, required, next) ==
    /\ closing' = [process |-> p, required |-> required, next |-> next,
                   failed |-> \/ failed \/ attempt[p].stalled
                              \/ attempt[p].exited]
    /\ attempt' = [attempt EXCEPT ![p].phase = "closing"]
    /\ status' = Capture(status, "finalizing")
    /\ pc' = "closing"

CancelStarting ==
    /\ pc = "cancel"
    /\ IF starting = NoProcess
       THEN pc' = "retire" /\ UNCHANGED attempt
       ELSE /\ pc' = "joining"
            /\ attempt' = [attempt EXCEPT ![starting].cancelled = TRUE]
    /\ UNCHANGED <<loopFrame, stopping, previous, current, active, starting,
                   blocked, closing, retry, status, gaveUp>>

\* Mutant: the cancelled startup is not joined.
JoinStartingAbandons ==
    /\ pc = "joining"
    /\ starting' = NoProcess
    /\ pc' = "retire"
    /\ status' = Capture(status, "idle")
    /\ UNCHANGED <<loopFrame, attempt, stopping, previous, current, active,
                   blocked, closing, retry, gaveUp>>

\* Mutant: a startup that failed while it was cancelled reports nothing.
JoinStartingSilently ==
    /\ pc = "joining" /\ TaskFinished(starting)
    /\ starting' = NoProcess
    /\ IF attempt[starting].phase = "ready"
       THEN Close(starting, FALSE, ~stopping, "retire")
       ELSE /\ pc' = "retire"
            /\ attempt' = [attempt EXCEPT ![starting] = NoAttempt]
            /\ UNCHANGED <<status, closing>>
    /\ UNCHANGED <<loopFrame, stopping, previous, current, active, blocked,
                   retry, gaveUp>>

\* Mutant: only a task that returned counts as joined.
JoinStartingReturned ==
    /\ pc = "joining" /\ attempt[starting].phase \in {"ready", "failed"}
    /\ starting' = NoProcess
    /\ IF attempt[starting].phase = "ready"
       THEN Close(starting, FALSE, ~stopping, "retire")
       ELSE /\ pc' = "retire"
            /\ attempt' = [attempt EXCEPT ![starting] = NoAttempt]
            /\ status' = Capture(status, "idle")
            /\ UNCHANGED closing
    /\ UNCHANGED <<loopFrame, stopping, previous, current, active, blocked,
                   retry, gaveUp>>

\* The owned task is always joined, past the warning deadline too; a
\* recording that became ready meanwhile is stopped like an active one.
JoinStarting ==
    /\ pc = "joining" /\ TaskFinished(starting)
    /\ starting' = NoProcess
    /\ IF attempt[starting].phase = "ready"
       THEN Close(starting, FALSE, ~stopping, "retire")
       ELSE /\ pc' = "retire"
            /\ attempt' = [attempt EXCEPT ![starting] = NoAttempt]
            /\ status' = Capture(status, "idle")
            /\ UNCHANGED closing
    /\ UNCHANGED <<loopFrame, stopping, previous, current, active, blocked,
                   retry, gaveUp>>

\* Mutant: a replacement keeps the old recording.
RetireActiveUnlessReplaced ==
    /\ pc = "retire"
    /\ IF active = NoProcess \/ (current # NoProcess /\ ~stopping)
       THEN pc' = "reset" /\ UNCHANGED <<active, attempt, closing, status>>
       ELSE Close(active, FALSE, ~stopping, "reset") /\ active' = NoProcess
    /\ UNCHANGED <<loopFrame, stopping, previous, current, starting, blocked,
                   retry, gaveUp>>

RetireActive ==
    /\ pc = "retire"
    /\ active' = NoProcess
    /\ IF active = NoProcess
       THEN pc' = "reset" /\ UNCHANGED <<attempt, closing, status>>
       ELSE Close(active, FALSE, ~stopping, "reset")
    /\ UNCHANGED <<loopFrame, stopping, previous, current, starting, blocked,
                   retry, gaveUp>>

\* Mutant: an early worker exit does not spoil the candidate.
CanPublishAnyExit(stop) ==
    stop.required => life[stop.process] = "ended"

\* The joined video may become a candidate.
CanPublish(stop) ==
    /\ ~stop.failed
    /\ stop.required => life[stop.process] = "ended"

\* The owners are joined, then the candidate is validated and published, or
\* its artifacts stay private.
FinishClosing ==
    LET p == closing.process IN
    /\ pc = "closing"
    /\ \/ /\ CanPublish(closing)
          /\ published' = published \cup {p}
          /\ status' = Capture(status, "idle")
       \/ /\ status' = CaptureError(status, "finalization")
          /\ UNCHANGED published
    /\ attempt' = [attempt EXCEPT ![p] = NoAttempt]
    /\ closing' = NoStop
    /\ pc' = closing.next
    /\ UNCHANGED <<external, stopping, previous, current, active, starting,
                   blocked, retry, recorded, gaveUp>>

\* The transition or the shutdown has retired every owner.
Reset ==
    /\ pc = "reset"
    /\ IF stopping THEN pc' = "maintenance" /\ UNCHANGED retry
                   ELSE pc' = "settle" /\ retry' = NoRetry
    /\ UNCHANGED <<loopFrame, attempt, stopping, previous, current, active,
                   starting, blocked, closing, status, gaveUp>>

-----------------------------------------------------------------------------
(* The rest of a tick: a finished startup, the active capture, admission.  *)

\* The ready recording becomes active, unless its process changed; a failed
\* task is classified, a panicked one is terminal.
Settle ==
    /\ pc = "settle"
    /\ IF starting = NoProcess \/ ~TaskFinished(starting)
       THEN /\ pc' = "observe"
            /\ UNCHANGED <<attempt, active, starting, retry, status, recorded,
                           closing, gaveUp>>
       ELSE /\ starting' = NoProcess
            /\ IF attempt[starting].phase = "ready"
               THEN IF current = starting
                    THEN /\ active' = starting
                         /\ attempt' = [attempt EXCEPT
                                          ![starting].phase = "recording"]
                         /\ recorded' = recorded \cup {starting}
                         /\ retry' = NoRetry
                         /\ status' = Capture(status, "recording")
                         /\ pc' = "observe"
                         /\ UNCHANGED <<closing, gaveUp>>
                    ELSE /\ Close(starting, FALSE, TRUE, "observe")
                         /\ UNCHANGED <<active, recorded, retry, gaveUp>>
               ELSE LET disposition ==
                            IF attempt[starting].phase = "panicked"
                            THEN "terminal" ELSE attempt[starting].disposition
                    IN
                    /\ retry' = RecordFailure(starting, disposition)
                    /\ gaveUp' = IF disposition = "terminal"
                                 THEN gaveUp \cup {starting} ELSE gaveUp
                    /\ status' = IF disposition = "cancelled"
                                 THEN Capture(status, "idle")
                                 ELSE CaptureError(status, "startup")
                    /\ attempt' = [attempt EXCEPT ![starting] = NoAttempt]
                    /\ pc' = "observe"
                    /\ UNCHANGED <<active, recorded, closing>>
    /\ UNCHANGED <<external, published, stopping, previous, current, blocked>>

\* Mutant: the failed recording's process handle is not kept.
ObserveForgets(next, failed) ==
    /\ Close(active, failed, FALSE, next)
    /\ active' = NoProcess
    /\ UNCHANGED blocked

\* The recording is given up while its process may live on.
GiveUp(next, failed) ==
    /\ Close(active, failed, FALSE, next)
    /\ blocked' = active
    /\ active' = NoProcess

\* The target or its rediscovery fails, the watchdog confirms a stall, or the
\* backend exited; a failing rediscovery of a detached source skips the rest
\* of the tick.
ObserveFailure ==
    /\ pc = "observe" /\ active # NoProcess
    /\ \/ GiveUp("block", TRUE)
       \/ GiveUp("skip", TRUE)
       \/ attempt[active].exited /\ GiveUp("block", FALSE)
    /\ UNCHANGED <<loopFrame, stopping, previous, current, starting, retry,
                   gaveUp>>

ObserveHealthy ==
    /\ pc = "observe"
    /\ active # NoProcess => ~attempt[active].exited /\ ~attempt[active].stalled
    /\ pc' = "admit"
    /\ UNCHANGED <<loopFrame, attempt, stopping, previous, current, active,
                   starting, blocked, closing, retry, status, gaveUp>>

\* block_active_process(current), after the stop was awaited.
Block ==
    /\ pc \in {"block", "skip"}
    /\ retry' = BlockActiveProcess(current)
    /\ pc' = IF pc = "skip" THEN "select" ELSE "admit"
    /\ UNCHANGED <<loopFrame, attempt, stopping, previous, current, active,
                   starting, blocked, closing, status, gaveUp>>

\* Mutant: an active recording does not prevent another startup.
IsCandidateWhileActive ==
    /\ current # NoProcess /\ starting = NoProcess /\ Permits(current)

\* startup_candidate.
IsCandidate ==
    /\ current # NoProcess /\ active = NoProcess /\ starting = NoProcess
    /\ Permits(current)

\* Nothing to start, or the process has no capturable window yet.
AdmitNothing ==
    /\ pc = "admit"
    /\ previous' = current
    /\ pc' = "select"
    /\ UNCHANGED <<loopFrame, attempt, stopping, current, active, starting,
                   blocked, closing, retry, status, gaveUp>>

\* OriginalProcess::open fails, as it must for an ended process; this leaves
\* the tick early, before previous_process is updated.
AdmitUnopenable ==
    /\ pc = "admit" /\ IsCandidate
    /\ retry' = BlockActiveProcess(current)
    /\ pc' = "select"
    /\ UNCHANGED <<loopFrame, attempt, stopping, previous, current, active,
                   starting, blocked, closing, status, gaveUp>>

\* So does a cleanup that is still unproven.
AdmitUnproven ==
    /\ pc = "admit" /\ IsCandidate /\ life[current] = "alive" /\ unproven
    /\ pc' = "select"
    /\ UNCHANGED <<loopFrame, attempt, stopping, previous, current, active,
                   starting, blocked, closing, retry, status, gaveUp>>

AdmitStart ==
    /\ pc = "admit" /\ IsCandidate /\ life[current] = "alive" /\ ~unproven
    /\ attempt' = [attempt EXCEPT ![current] =
                        [NoAttempt EXCEPT !.phase = "waiting"]]
    /\ starting' = current
    /\ previous' = current
    /\ pc' = "select"
    /\ UNCHANGED <<loopFrame, stopping, current, active, blocked, closing,
                   retry, status, gaveUp>>

-----------------------------------------------------------------------------
(* Shutdown.                                                               *)

BeginShutdown ==
    /\ pc = "select" /\ requested
    /\ stopping' = TRUE
    /\ status' = Become(status, "stopping")
    /\ pc' = "cancel"
    /\ UNCHANGED <<loopFrame, attempt, previous, current, active, starting,
                   blocked, closing, retry, gaveUp>>

\* Post-game work and the maintenance pass are joined, then the service ends.
FinishShutdown ==
    /\ pc = "maintenance"
    /\ status' = Become(status, "stopped")
    /\ pc' = "stopped"
    /\ UNCHANGED <<loopFrame, attempt, stopping, previous, current, active,
                   starting, blocked, closing, retry, gaveUp>>

-----------------------------------------------------------------------------
Init ==
    /\ life \in [Processes -> {"unborn", "alive"}]
    /\ attempt = [p \in Processes |-> NoAttempt]
    /\ unproven = FALSE /\ requested = FALSE /\ stopping = FALSE
    /\ pc = "select"
    /\ previous = NoProcess /\ current = NoProcess
    /\ active = NoProcess /\ starting = NoProcess /\ blocked = NoProcess
    /\ closing = NoStop
    /\ retry = NoRetry
    /\ status = [service |-> "available", activity |-> "idle",
                 problem |-> "none"]
    /\ recorded = {} /\ published = {} /\ gaveUp = {}

Environment ==
    \/ \E p \in Processes : \/ ProcessStarts(p) \/ ProcessEnds(p)
                            \/ CaptureBreaks(p) \/ CleanupUnproven(p)
    \/ RequestShutdown \/ BackoffElapses

StartupTask(p) == StartupAdmits(p) \/ StartupRefuses(p) \/ NativeEnds(p)

\* One tick, from the watcher's answer to the admission.
TickBegins == RunFails \/ \E listed \in Observations : Tick(listed)

TickContinues ==
    \/ CancelStarting \/ JoinStarting \/ RetireActive \/ FinishClosing
    \/ Reset \/ Settle \/ ObserveFailure \/ ObserveHealthy \/ Block
    \/ AdmitNothing \/ AdmitUnopenable \/ AdmitUnproven \/ AdmitStart

Next ==
    \/ Environment
    \/ \E p \in Processes : StartupTask(p)
    \/ TickBegins \/ TickContinues
    \/ BeginShutdown \/ FinishShutdown

Spec == Init /\ [][Next]_vars

\* The loop keeps ticking, and an idle loop with a queued command takes it
\* between two ticks; a cancelled startup task notices, and a native start
\* has an absolute deadline.
FairSpec ==
    /\ Spec
    /\ WF_vars(TickBegins) /\ WF_vars(TickContinues \/ FinishShutdown)
    /\ SF_vars(BeginShutdown)
    /\ \A p \in Processes :
        WF_vars(attempt[p].cancelled /\ StartupRefuses(p))
            /\ WF_vars(NativeEnds(p))

-----------------------------------------------------------------------------
(* Properties.                                                             *)

\* Every variable has its type, and the loop never owns a startup and a
\* recording together: the two options encode one owner.
TypeOK ==
    /\ active # NoProcess => starting = NoProcess
    /\ life \in [Processes -> {"unborn", "alive", "ended"}]
    /\ attempt \in [Processes -> Attempt]
    /\ unproven \in BOOLEAN /\ requested \in BOOLEAN /\ stopping \in BOOLEAN
    /\ pc \in {"select", "cancel", "joining", "retire", "closing", "reset",
               "settle", "observe", "block", "skip", "admit", "maintenance",
               "stopped", "failed"}
    /\ previous \in Option /\ current \in Option
    /\ active \in Option /\ starting \in Option /\ blocked \in Option
    /\ closing \in Stop
    /\ retry \in Retry
    /\ status \in Status
    /\ recorded \subseteq Processes /\ published \subseteq Processes
    /\ gaveUp \subseteq Processes

\* At most one native capture graph exists at any time, and none while the
\* shutdown maintenance pass runs: cancelled startups and stopped recordings
\* are joined before anything else starts.
OneCaptureOwner ==
    /\ \A p, q \in Processes : Live(p) /\ Live(q) => p = q
    /\ pc \in {"maintenance", "stopped"} => \A p \in Processes : ~Live(p)

\* Between two ticks the projected activity is the loop's own: "recording"
\* exactly while a recording is active, "starting" only while a startup is
\* owned, and never "finalizing".
StatusMatchesOwner ==
    pc = "select" /\ status.service = "available" =>
        /\ status.activity = "recording" <=> active # NoProcess
        /\ status.activity = "starting" => starting # NoProcess
        /\ status.activity # "finalizing"

\* Enumeration never ends a recording: it is left only when its process has
\* ended, its capture failed, or the service itself stops.
OnlyEndedProcessesRetire ==
    [][\A p \in Processes :
        active = p /\ active' # p =>
            \/ life[p] = "ended" \/ stopping \/ blocked' = p
            \/ pc' = "failed"]_vars

\* A process generation is recorded at most once: a failed or finished
\* recording is never followed by a second one of the same game process.
RecordedOnce ==
    [][\A p \in Processes : active' = p /\ active # p => p \notin recorded]_vars

\* A recording is published only after its process was confirmed ended, or by
\* a shutdown: never after its worker gave up on a running game.
PublishedAfterItsProcess ==
    [][\A p \in published' \ published : life[p] = "ended" \/ stopping]_vars

\* A requested shutdown completes, or the service has already failed.
ShutdownCompletes == requested ~> pc \in {"stopped", "failed"}

\* A recording whose process ended is stopped.
EndedRecordingsAreStopped ==
    \A p \in Processes :
        active = p /\ life[p] = "ended" ~> active # p

\* Doc, windows-capture.md: any native initialization failure suppresses
\* further initialization for that process identity.
TerminalFailureSuppresses ==
    [][\A p \in gaveUp :
        attempt[p].phase = "none" => attempt'[p].phase = "none"]_vars

=============================================================================
