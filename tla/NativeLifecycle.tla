---------------------------- MODULE NativeLifecycle ----------------------------
(***************************************************************************)
(* One native recording after the other.  A worker thread builds the graph  *)
(* of source, mux and encoder in stages, runs it and tears it down; the     *)
(* service waits for its evidence, cancels it, and joins it.  Two threads   *)
(* of system audio may outlive the recording, and then keep a reservation   *)
(* that the next recording finds.                                           *)
(* recorder/src/native/lifecycle.rs, the start and finish of session.rs,    *)
(* and the owners of audio/mod.rs.                                          *)
(***************************************************************************)
EXTENDS Integers, FiniteSets

CONSTANTS Stages,         \* of start_with_stop: source, content, mux, encoder, writer, completion
          MaxSessions     \* bound of a run

\* What the constants must satisfy.
LifecycleAssumption == Stages \in Nat \ {0} /\ MaxSessions \in Nat \ {0}

Session == 1 .. MaxSessions
Threads == {"capture", "pump"}

VARIABLES session,    \* the current one
          service,    \* start, stop, and what has become of the session
          stop,       \* NativeWorker::stop
          late,       \* whether startup_deadline has passed
          worker,     \* run_native_worker
          evidence,   \* the watch channel
          audio,      \* the owner of each session
          inUse, disabled,     \* AUDIO_IN_USE, AUDIO_DISABLED
          after       \* stages that were finished after the stop

vars == <<session, service, stop, late, worker, evidence, audio, inUse, disabled, after>>

Unborn == [at |-> "none", threads |-> {}, retained |-> FALSE, stopped |-> FALSE, over |-> FALSE]
NoEvidence == [ready |-> FALSE, error |-> FALSE, terminal |-> FALSE]

Init ==
    /\ session = 0
    /\ service = [at |-> "idle", outcome |-> "none", exited |-> FALSE]
    /\ stop = FALSE /\ late = FALSE /\ after = 0
    /\ worker = [at |-> "ended", stage |-> 0, built |-> 0, failed |-> FALSE, asked |-> TRUE]
    /\ evidence = NoEvidence
    /\ audio = [s \in Session |-> Unborn]
    /\ inUse = FALSE /\ disabled = FALSE

Owner == audio[session]
Reserved(s) == audio[s].at = "live" \/ audio[s].threads # {}

-----------------------------------------------------------------------------
(* The owners of system audio.                                               *)

\* Mutant: the reservation ends with the handle, whatever its threads do.
ReturnedHandle(owners, s) == IF owners[s].at # "live" THEN FALSE ELSE inUse

\* A reservation is given back with the last reference to what the owner shares.
Returned(owners, s) ==
    IF owners[s].at # "live" /\ owners[s].threads = {} THEN FALSE ELSE inUse

\* A thread returns: it may find that its registration cannot be undone, or that it
\* was left behind and its deadline has passed.
ThreadReturns(s) ==
    \E t \in audio[s].threads :
        /\ t = "pump" \/ audio[s].stopped
        /\ audio' = [audio EXCEPT ![s].threads = @ \ {t}]
        /\ \/ disabled' = TRUE /\ t = "capture"
           \/ disabled' = (disabled \/ (audio[s].retained /\ audio[s].over))
        /\ inUse' = Returned(audio', s)
        /\ UNCHANGED <<session, service, stop, late, worker, evidence, after>>

DeadlinePasses(s) ==
    /\ audio[s].stopped /\ ~audio[s].over
    /\ audio' = [audio EXCEPT ![s].over = TRUE]
    /\ UNCHANGED <<session, service, stop, late, worker, evidence, inUse, disabled, after>>

\* NativeAudio::drop: what has not finished keeps its own state, and the reservation.
DropAudio ==
    IF Owner.at # "live" THEN UNCHANGED <<audio, inUse, disabled>>
    ELSE /\ audio' = [audio EXCEPT ![session] =
                       [Owner EXCEPT !.at = "dropped", !.stopped = TRUE,
                                     !.retained = @ \/ Owner.threads # {}]]
         /\ disabled' = (disabled \/ (Owner.threads # {} /\ Owner.over))
         /\ inUse' = Returned(audio', session)

-----------------------------------------------------------------------------
(* The worker.                                                               *)

\* NativeAudio::start reads the latch first and then reserves; without audio the
\* video is recorded alone.
CheckAudio ==
    /\ worker.at = "audio"
    /\ \/ disabled /\ worker' = [worker EXCEPT !.at = "check"]
       \/ ~disabled /\ worker' = [worker EXCEPT !.at = "reserve"]
    /\ UNCHANGED <<session, service, stop, late, evidence, audio, inUse, disabled, after>>

Reserve ==
    /\ worker.at = "reserve"
    /\ worker' = [worker EXCEPT !.at = "check"]
    /\ \/ inUse /\ UNCHANGED <<audio, inUse>>
       \/ /\ ~inUse /\ inUse' = TRUE
          /\ audio' = [audio EXCEPT ![session] = [@ EXCEPT !.at = "live", !.threads = {"capture"}]]
       \/ ~inUse /\ UNCHANGED <<audio, inUse>>        \* an event or the thread cannot be created
    /\ UNCHANGED <<session, service, stop, late, evidence, disabled, after>>

\* startup_stage: the stop and the deadline are checked before and after.
Refused == stop \/ late
StageBegins ==
    /\ worker.at = "check"
    /\ worker' = [worker EXCEPT !.at = IF Refused THEN "unwind" ELSE "construct"]
    /\ UNCHANGED <<session, service, stop, late, evidence, audio, inUse, disabled, after>>

\* A stage may fail.  With the mux the PCM transport begins; the encoder waits for
\* the handshake, and gives up the audio when it does not come.
StageEnds ==
    /\ worker.at = "construct"
    /\ \/ worker' = [worker EXCEPT !.at = "unwind"]
          /\ UNCHANGED <<audio, inUse, disabled, after>>
       \/ /\ worker' = [worker EXCEPT !.at = "checked", !.built = @ + 1]
          /\ after' = IF stop THEN after + 1 ELSE after
          /\ \/ UNCHANGED <<audio, inUse, disabled>>
             \/ /\ Owner.at = "live" /\ Owner.threads = {"capture"} /\ worker.stage = 0
                /\ audio' = [audio EXCEPT ![session].threads = Threads]
                /\ UNCHANGED <<inUse, disabled>>
             \/ Owner.at = "live" /\ worker.stage > 0 /\ DropAudio
    /\ UNCHANGED <<session, service, stop, late, evidence>>

StageChecked ==
    /\ worker.at = "checked"
    /\ worker' = IF Refused THEN [worker EXCEPT !.at = "unwind"]
                 ELSE IF worker.built = Stages THEN [worker EXCEPT !.at = "run"]
                 ELSE [worker EXCEPT !.at = "check", !.stage = @ + 1]
    /\ UNCHANGED <<session, service, stop, late, evidence, audio, inUse, disabled, after>>

\* What was built is dropped, the source last.
Unwind ==
    /\ worker.at = "unwind"
    /\ DropAudio
    /\ worker' = [worker EXCEPT !.at = "ended", !.built = 0, !.failed = TRUE, !.asked = stop]
    /\ UNCHANGED <<session, service, stop, late, evidence, after>>

PublishEvidence ==
    /\ worker.at = "run" /\ ~evidence.ready
    /\ evidence' = [evidence EXCEPT !.ready = TRUE]
    /\ UNCHANGED <<session, service, stop, late, worker, audio, inUse, disabled, after>>

\* run_until_stopped returns because of the stop, or of an error.
RunEnds ==
    /\ worker.at = "run"
    /\ \/ stop /\ worker' = [worker EXCEPT !.at = "finish"]
       \/ worker' = [worker EXCEPT !.at = "finish", !.failed = TRUE, !.asked = stop]
    /\ audio' = [audio EXCEPT ![session].stopped = @ \/ Owner.at = "live"]
    /\ UNCHANGED <<session, service, stop, late, evidence, inUse, disabled, after>>

\* finish: the encoder, the mux and the source, in this order.  When they are well the
\* summary of the audio waits for its threads, until their deadline.
Drained ==
    /\ worker.at = "finish"
    /\ \/ Owner.at = "live" /\ worker' = [worker EXCEPT !.at = "summary", !.built = 0]
       \/ Owner.at # "live" /\ worker' = [worker EXCEPT !.at = "report", !.built = 0]
       \/ worker' = [worker EXCEPT !.at = "report", !.built = 0, !.failed = TRUE]
    /\ UNCHANGED <<session, service, stop, late, evidence, audio, inUse, disabled, after>>

Summarize ==
    /\ worker.at = "summary"
    /\ Owner.threads = {} \/ Owner.over
    /\ disabled' = (disabled \/ Owner.threads # {})
    /\ worker' = [worker EXCEPT !.at = "report"]
    /\ UNCHANGED <<session, service, stop, late, evidence, audio, inUse, after>>

Report ==
    /\ worker.at = "report"
    /\ DropAudio
    /\ evidence' = IF worker.failed THEN [evidence EXCEPT !.error = TRUE]
                                    ELSE [evidence EXCEPT !.terminal = TRUE]
    /\ worker' = [worker EXCEPT !.at = "ended"]
    /\ UNCHANGED <<session, service, stop, late, after>>

-----------------------------------------------------------------------------
(* The service.                                                              *)

Start ==
    /\ service.at = "idle" /\ session < MaxSessions
    /\ session' = session + 1
    /\ service' = [at |-> "await", outcome |-> "none", exited |-> FALSE]
    /\ stop' = FALSE /\ late' = FALSE /\ after' = 0
    /\ evidence' = NoEvidence
    /\ \E at \in {"audio", "check"} :                 \* the source of audio is configured
        worker' = [at |-> at, stage |-> 0, built |-> 0, failed |-> FALSE, asked |-> FALSE]
    /\ UNCHANGED <<audio, inUse, disabled>>

\* Mutant: the worker is waited for and not told to stop.
JoinUnasked(outcome) ==
    /\ service' = [service EXCEPT !.at = "join", !.outcome = outcome, !.exited = worker.at = "ended"]
    /\ UNCHANGED <<session, stop, late, worker, evidence, audio, inUse, disabled, after>>

Join(outcome) ==
    /\ stop' = TRUE
    /\ service' = [service EXCEPT !.at = "join", !.outcome = outcome, !.exited = worker.at = "ended"]
    /\ UNCHANGED <<session, late, worker, evidence, audio, inUse, disabled, after>>

\* await_startup: cancelled, failed, too late, ready or gone, in this order.
Cancel == service.at = "await" /\ Join("cancelled")
Fails == service.at = "await" /\ evidence.error /\ Join("terminal")
Expires == service.at = "await" /\ ~evidence.error /\ late /\ Join("terminal")
IsReady ==
    /\ service.at = "await" /\ ~evidence.error /\ ~late /\ evidence.ready
    /\ service' = [service EXCEPT !.at = "recording"]
    /\ UNCHANGED <<session, stop, late, worker, evidence, audio, inUse, disabled, after>>
Gone ==
    /\ service.at = "await" /\ ~evidence.ready /\ ~evidence.error /\ ~late
    /\ worker.at = "ended" /\ Join("terminal")

Late ==
    /\ service.at = "await" /\ ~late
    /\ late' = TRUE
    /\ UNCHANGED <<session, service, stop, worker, evidence, audio, inUse, disabled, after>>

\* stop, and stop_with_failure.
Stop == service.at = "recording" /\ (Join("stopped") \/ Join("failed"))

\* stop_inner when the worker has been joined.
Outcome ==
    IF service.outcome # "stopped" THEN service.outcome
    ELSE IF worker.failed \/ service.exited \/ evidence.error \/ ~evidence.terminal THEN "failed"
    ELSE "candidate"

Joined ==
    /\ service.at = "join" /\ worker.at = "ended"
    /\ service' = [service EXCEPT !.at = "idle", !.outcome = Outcome]
    /\ UNCHANGED <<session, stop, late, worker, evidence, audio, inUse, disabled, after>>

Worker ==
    \/ CheckAudio \/ Reserve \/ StageBegins \/ StageEnds \/ StageChecked \/ Unwind
    \/ RunEnds \/ Drained \/ Summarize \/ Report
Await == Fails \/ Expires \/ IsReady \/ Gone \/ Joined

Next ==
    \/ Worker \/ PublishEvidence \/ Await \/ Start \/ Cancel \/ Late \/ Stop
    \/ \E s \in Session : ThreadReturns(s) \/ DeadlinePasses(s)

\* Each step of the worker ends; time passes.  The run itself goes on until its stop.
Fairness ==
    /\ WF_vars(Worker /\ (worker.at # "run" \/ stop)) /\ WF_vars(Await)
    /\ \A s \in Session : WF_vars(DeadlinePasses(s))

Spec == Init /\ [][Next]_vars /\ Fairness

-----------------------------------------------------------------------------
\* There is never more than one owner of system audio, whatever threads are left of
\* earlier recordings, and the reservation is that of the one there is.
OneOwner ==
    /\ Cardinality({s \in Session : Reserved(s)}) <= 1
    /\ inUse <=> \E s \in Session : Reserved(s)

\* The graph is gone when the service goes on, and a cancelled start adds at most
\* the stage that was being built.
GraphIsGone == service.at = "idle" => worker.at = "ended" /\ worker.built = 0
StopIsHeard == after <= 1

\* Only a recording that ran until it was told to stop, and was torn down well, is
\* offered for publication.
CandidateIsEarned ==
    service.outcome = "candidate" /\ service.at = "idle" => evidence.terminal /\ ~worker.failed /\ ~service.exited

\* An owner that was still running at its deadline leaves no audio to the recordings
\* that come after it.
StuckDisables ==
    \A s \in Session : audio[s].at = "dropped" /\ audio[s].over /\ audio[s].threads # {}
        => disabled \/ inUse

LifecycleIsSound == OneOwner /\ GraphIsGone /\ StopIsHeard /\ CandidateIsEarned /\ StuckDisables

\* A cancelled or stopped session ends, and so does one whose start takes too long,
\* whatever the threads of its audio are stuck in.
JoinEnds == service.at = "join" \/ late ~> service.at = "idle"
================================================================================
