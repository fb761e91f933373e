------------------------------- MODULE NativeMC -------------------------------
(***************************************************************************)
(* The native recording engine of Windows, part by part: the callbacks of  *)
(* the capture, the worker that turns its frames into a steady picture,    *)
(* the encoder, the queue of a sound device, the pipes into FFmpeg, the    *)
(* lifecycle that owns all of them, and the watch over its window and its  *)
(* progress.  A behaviour chooses one part and leaves the others where     *)
(* they start.                                                             *)
(***************************************************************************)
EXTENDS Integers, Sequences

CONSTANTS callbacks, slotSet,      \* interchangeable
          Handlers, Surfaces, MaxRecreations,
          Sizes, Ring, Period, CatchUp, Retry, Batch, LastTick, MaxFrames, MaxLeaves, MaxLag,
          MaxSubmitted,
          Lead, Prefix, Second, StartupWait, StopWait, MuxWait, Horizon,
          Stages, MaxSessions,
          Windows, Cadence, MaxGap, MaxResolution, Stall, MaxTime

VARIABLES part,
          gate, active, owners, lock, callback, releasing, owner, pool, handoff,
          pending, offered,
          time, cfr, source, counts, converter, resize, picture, control, shown,
          slots, hardware, mapped, submitted, thread, telemetry, nvenc, abort,
          channel, encoder, order,
          due, room, ending, flow, video, feeder, mux, muxing,
          clock, device, queue, epoch, loss, pump, tally, output,
          session, service, stop, late, worker, evidence, audio, inUse, disabled, after,
          phase, now, window, cancelled, readiness, target, looks, watched, watch, verdict,
          progress, gapAt

captureVars == <<gate, active, owners, lock, callback, releasing, owner, pool, handoff,
                 pending, offered>>
pictureVars == <<time, cfr, source, counts, converter, resize, picture, control, shown>>
encoderVars == <<slots, hardware, mapped, submitted, thread, telemetry, nvenc, abort,
                 channel, encoder, order>>
muxVars == <<due, room, ending, flow, video, feeder, mux, muxing>>
queueVars == <<clock, device, queue, epoch, loss, pump, tally, output>>
ownerVars == <<session, service, stop, late, worker, evidence, audio, inUse, disabled, after>>
watchVars == <<phase, now, window, cancelled, readiness, target, looks, watched, watch, verdict,
               progress, gapAt>>

Capture == INSTANCE FrameCapture WITH
    Callbacks <- callbacks, MaxFrames <- Surfaces, tally <- offered

Picture == INSTANCE NativeSession WITH
    Slots <- Ring, MaxTime <- LastTick, worker <- picture

Encoder == INSTANCE NativeEncoder WITH
    Slots <- slotSet, queue <- submitted, worker <- nvenc, session <- encoder

Mux == INSTANCE NativeMux WITH
    Stall <- Second, stop <- ending, pump <- feeder, session <- muxing

\* Many packets of one frame, and packets that do not divide into frames.
Packets == INSTANCE AudioQueue WITH
    Sizes <- {1, 2}, PreRoll <- 3, Capacity <- 2, Pool <- 2, Block <- 2, PerFrame <- 1,
    MaxTime <- 4, MaxPackets <- 3, MaxReopens <- 1
Rounding == INSTANCE AudioQueue WITH
    Sizes <- {1, 2}, PreRoll <- 3, Capacity <- 2, Pool <- 2, Block <- 2, PerFrame <- 2,
    MaxTime <- 6, MaxPackets <- 2, MaxReopens <- 1

Lifecycle == INSTANCE NativeLifecycle

Watch == INSTANCE CaptureWatch WITH capture <- watched

ASSUME NativeAssumption ==
    /\ Capture!CaptureAssumption /\ Picture!SessionAssumption
    /\ Encoder!EncoderAssumption /\ Mux!MuxAssumption
    /\ Packets!QueueAssumption /\ Rounding!QueueAssumption /\ Lifecycle!LifecycleAssumption
    /\ Watch!WatchAssumption

Parts == {"capture", "leaving", "resizing", "encoder", "mux", "packets", "rounding",
          "lifecycle", "watch"}

Init ==
    /\ part \in Parts
    /\ Capture!Init /\ Picture!Init /\ Encoder!Init /\ Mux!Init /\ Lifecycle!Init /\ Watch!Init
    /\ part # "watch" => window = "none"
    /\ IF part = "rounding" THEN Rounding!Init ELSE Packets!Init

\* A source that is left and found again, while it has a frame at most, all of one
\* size and none late, and the encoder gives a slot back when it has them all; or
\* frames of two sizes that queue up, of a source that stays.
OneFrame ==
    /\ converter'.free > converter.free => converter.free = 0 \/ picture' # picture
    /\ counts'.arrived <= 1 /\ source'.last \in {source.last, time}
    /\ \A k \in 1 .. Len(source'.handoff) : source'.handoff[k].size = converter.size
OneSource == ~source'.closed /\ ~control'.ended /\ control'.request = {}

PictureNext ==
    /\ Picture!Next
    /\ \/ part = "leaving" /\ OneFrame
       \/ part = "resizing" /\ OneSource
QueueNext ==
    \/ part = "packets" /\ Packets!Next
    \/ part = "rounding" /\ Rounding!Next

Next ==
    /\ \/ /\ part = "capture" /\ Capture!Next
          /\ UNCHANGED <<pictureVars, encoderVars, muxVars, queueVars, ownerVars, watchVars>>
       \/ /\ PictureNext
          /\ UNCHANGED <<captureVars, encoderVars, muxVars, queueVars, ownerVars, watchVars>>
       \/ /\ part = "encoder" /\ Encoder!Next
          /\ UNCHANGED <<captureVars, pictureVars, muxVars, queueVars, ownerVars, watchVars>>
       \/ /\ part = "mux" /\ Mux!Next
          /\ UNCHANGED <<captureVars, pictureVars, encoderVars, queueVars, ownerVars, watchVars>>
       \/ /\ QueueNext
          /\ UNCHANGED <<captureVars, pictureVars, encoderVars, muxVars, ownerVars, watchVars>>
       \/ /\ part = "lifecycle" /\ Lifecycle!Next
          /\ UNCHANGED <<captureVars, pictureVars, encoderVars, muxVars, queueVars, watchVars>>
       \/ /\ part = "watch" /\ Watch!Next
          /\ UNCHANGED <<captureVars, pictureVars, encoderVars, muxVars, queueVars, ownerVars>>
    /\ UNCHANGED part

\* The fairness of each part, while it is the one that runs.
Fairness ==
    /\ WF_pictureVars(part = "leaving" /\ Picture!Work)
    /\ WF_pictureVars(part = "leaving" /\ Picture!Tick)
    /\ WF_encoderVars(part = "encoder" /\ Encoder!Closer)
    /\ WF_muxVars(part = "mux" /\ Mux!Pump) /\ WF_muxVars(part = "mux" /\ Mux!Session)
    /\ WF_muxVars(part = "mux" /\ Mux!Tick) /\ WF_muxVars(part = "mux" /\ Mux!VideoFails)
    /\ WF_muxVars(part = "mux" /\ Mux!ReadVideo /\ ~Mux!HasAudio)
    /\ WF_ownerVars(part = "lifecycle" /\ Lifecycle!Worker /\ (worker.at # "run" \/ stop))
    /\ WF_ownerVars(part = "lifecycle" /\ Lifecycle!Await)
    /\ \A s \in Lifecycle!Session : WF_ownerVars(part = "lifecycle" /\ Lifecycle!DeadlinePasses(s))

Spec ==
    /\ Init /\ Fairness
    /\ [][Next]_<<part, captureVars, pictureVars, encoderVars, muxVars, queueVars, ownerVars,
              watchVars>>

\* Picture: no callback runs against a pool that is being recreated or closed,
\* every frame that was admitted is accounted for, and there is one frame per tick,
\* in order, from the newest frame that was due, until the very tick of the stop.
\* Encoding: a surface belongs to one of the worker, the encoder and the output
\* thread and is released once; sound keeps its place and its length; what is saved
\* has all of its video and its sound.  Lifecycle: one owner of the sound devices,
\* a graph that is gone before the next session begins, a stop that every later
\* stage hears, and a recording that is only handed on after a clean end.  Watch: the
\* window that is captured was steady, and what stood still is noticed, but nobody is
\* blamed for the time in which the observer itself stood still.
PipelineIsSound ==
    /\ part = "capture" => Capture!CaptureIsSound
    /\ part \in {"leaving", "resizing"} => Picture!SessionIsSound
    /\ part = "encoder" => Encoder!EncoderIsSound
    /\ part = "mux" => Mux!MuxIsSound
    /\ part = "packets" => Packets!QueueIsSound
    /\ part = "rounding" => Rounding!QueueIsSound
    /\ part = "lifecycle" => Lifecycle!LifecycleIsSound
    /\ part = "watch" => Watch!WatchIsSound

\* A source is left only when a check that is still about it says so, and the
\* sound gives up its lead only for video that stands still.
StepsAreJustified == Picture!LiveSourceStays /\ Mux!EscapeIsGenuine

\* A stop ends the picture, the close of an encoder ends, video flows while the
\* sound leads, and every session and every join come to an end.
EverythingEnds ==
    /\ part = "leaving" => Picture!StopEnds
    /\ part = "encoder" => Encoder!CloseEnds
    /\ part = "mux" => Mux!VideoFlows /\ Mux!SessionEnds
    /\ part = "lifecycle" => Lifecycle!JoinEnds
=============================================================================
