------------------------------- MODULE NativeMux -------------------------------
(***************************************************************************)
(* FFmpeg has two inputs, the encoder's video and the pump's PCM, and reads *)
(* whichever it likes.  The pump may lead the frames that FFmpeg reports by *)
(* no more than Lead, and so it can be what FFmpeg waits for while the      *)
(* video waits for FFmpeg.  Only the end of the audio then lets the video   *)
(* go on.  Before any video is written the pump must have delivered a first *)
(* prefix, or FFmpeg is started again without audio.                        *)
(* recorder/src/native/audio (mod, flow, pipe), mux.rs, and what            *)
(* session.rs does with them at its start and its end.                      *)
(*                                                                          *)
(* Positions are relative to what the pump has written, so that a recording *)
(* may go on for ever.  A tick is the duration of a block of audio.         *)
(***************************************************************************)
EXTENDS Integers

CONSTANTS Lead,         \* LEAD, in blocks
          Prefix,       \* blocks of the first write
          Stall,        \* a second: LeadEscape, and the deadline of a write
          StartupWait, StopWait, MuxWait,   \* the deadlines, in ticks
          Horizon       \* bound of a run: what is further away counts as this far

\* What the constants must satisfy.
MuxAssumption ==
    /\ Prefix \in Nat \ {0} /\ Stall \in Nat \ {0} /\ StopWait \in Nat /\ MuxWait \in Nat
    /\ Lead \in Nat /\ Lead >= Prefix /\ Horizon \in Nat /\ Horizon >= Prefix
    /\ StartupWait \in Nat /\ StartupWait > Prefix

VARIABLES due,      \* blocks whose time has come and that are not written
          room,     \* blocks that may be written before the lead is used up
          stop,     \* whether the audio is to stop, since when, and blocks left to its end
          flow,     \* LeadEscape: ticks since it was armed, whether AudioFlow has moved
                    \* since; and the ticks that AudioFlow has been quiet
          video,    \* the writer of the video
          pump,     \* the thread of the PCM pipe
          mux,      \* FFmpeg, and what its progress has said
          session   \* start_with_stop, the recording and finish

vars == <<due, room, stop, flow, video, pump, mux, session>>

Least(a, b) == IF a <= b THEN a ELSE b
Unarmed == -1
PumpLives == pump.at \in {"connect", "loop", "write"}
HasAudio == mux.audio /\ PumpLives

NewMux(audio) == [audio |-> audio, at |-> "running", backlog |-> 0, ended |-> FALSE, age |-> 0]

\* begin_transport, and FFmpeg is spawned.
Init ==
    /\ due = 0 /\ room = Lead
    /\ stop = [set |-> FALSE, age |-> 0, left |-> 0]
    /\ flow = [armed |-> Unarmed, moved |-> FALSE, quiet |-> 0]
    /\ video = "none"
    /\ pump = [at |-> "connect", blocks |-> 0, age |-> 0, startup |-> 0, ready |-> FALSE]
    /\ mux = NewMux(TRUE)
    /\ session = "handshake"

\* AudioFlow's generation or frames have changed.
Moves == flow' = [flow EXCEPT !.moved = TRUE, !.quiet = 0]

-----------------------------------------------------------------------------
(* pump.                                                                     *)

\* What the pump leaves behind: FFmpeg finds the end of the audio.
PumpEnds(how) == pump' = [pump EXCEPT !.at = how, !.blocks = 0]

StartupOver == pump.startup >= StartupWait
StopOver == stop.set /\ stop.age >= StopWait

Connect ==
    /\ pump.at = "connect"
    /\ \/ mux.at = "running" /\ mux.audio /\ pump' = [pump EXCEPT !.at = "loop"]
       \/ (StartupOver \/ StopOver) /\ PumpEnds("failed")
    /\ UNCHANGED <<due, room, stop, flow, video, mux, session>>

Block == IF pump.ready THEN 1 ELSE Prefix
Target == Least(Block, room)
Blocks == Least(IF stop.set THEN stop.left ELSE due, Target)
Enough ==
    /\ Blocks > 0
    /\ \/ Blocks = Target /\ (pump.ready \/ Blocks = Prefix)
       \/ stop.set /\ pump.ready
Capped == (IF stop.set THEN stop.left ELSE due) > 0 /\ room <= 0
\* Mutant: video that has ended counts as video that stands still.
QualifiesCapped == Capped

Qualifies == Capped /\ video = "writing"
\* Mutant: video that never moves is waited for.
StalledNever == FALSE

Stalled == Qualifies /\ flow.armed >= Stall /\ ~flow.moved

\* LeadEscape::deadline: armed by a write that is pending, and again when AudioFlow
\* has moved.
Armed ==
    IF ~Qualifies THEN [flow EXCEPT !.armed = Unarmed]
    ELSE IF flow.armed = Unarmed \/ flow.moved THEN [flow EXCEPT !.armed = 0, !.moved = FALSE]
    ELSE flow

\* A turn of the pump's loop: it looks at the flow once.
Finished == stop.set /\ (stop.left <= 0 \/ StopOver)
PumpFinishes ==
    /\ pump.at = "loop" /\ Finished
    /\ PumpEnds("done")
    /\ UNCHANGED <<due, room, stop, flow, video, mux, session>>

PumpExpires ==
    /\ pump.at = "loop" /\ ~Finished /\ ~pump.ready /\ StartupOver
    /\ PumpEnds("failed")
    /\ UNCHANGED <<due, room, stop, flow, video, mux, session>>

Goes == pump.at = "loop" /\ ~Finished /\ (pump.ready \/ ~StartupOver)

Escape ==
    /\ Goes /\ Stalled
    /\ PumpEnds("escaped")
    /\ UNCHANGED <<due, room, stop, flow, video, mux, session>>

\* Otherwise the escape is armed or disarmed, and a block is written if one is due.
PumpTurn ==
    /\ Goes /\ ~Stalled
    /\ flow' = Armed
    /\ pump' = IF Enough THEN [pump EXCEPT !.at = "write", !.blocks = Blocks, !.age = 0] ELSE pump
    /\ UNCHANGED <<due, room, stop, video, mux, session>>

\* FFmpeg takes the block.
ReadAudio ==
    /\ pump.at = "write" /\ mux.at = "running" /\ mux.audio
    /\ due' = IF due >= pump.blocks THEN due - pump.blocks ELSE 0
    /\ room' = room - pump.blocks
    /\ stop' = IF stop.set THEN [stop EXCEPT !.left = @ - pump.blocks] ELSE stop
    /\ pump' = [pump EXCEPT !.at = "loop", !.blocks = 0, !.ready = TRUE]
    /\ UNCHANGED <<flow, video, mux, session>>

WriteLate == IF pump.ready THEN pump.age >= Stall ELSE StartupOver
WriteFails ==
    /\ pump.at = "write"
    /\ WriteLate \/ StopOver \/ mux.at # "running" \/ ~mux.audio
    /\ PumpEnds("failed")
    /\ UNCHANGED <<due, room, stop, flow, video, mux, session>>

-----------------------------------------------------------------------------
(* The video: NativeMuxVideoWriter, on the encoder's completion thread.      *)

BeginWrite ==
    /\ video = "idle" /\ session \in {"recording", "encoder"} /\ mux.at = "running"
    /\ mux.backlog < Horizon
    /\ video' = "writing" /\ Moves
    /\ UNCHANGED <<due, room, stop, pump, mux, session>>

\* FFmpeg takes the frame.
ReadVideo ==
    /\ video = "writing" /\ mux.at = "running"
    /\ video' = "idle" /\ Moves
    /\ mux' = [mux EXCEPT !.backlog = @ + 1]
    /\ UNCHANGED <<due, room, stop, pump, session>>

\* The pipe is broken, or its reader has said that FFmpeg exited.
VideoFails ==
    /\ video \in {"idle", "writing"} /\ mux.at # "running"
    /\ video' = "failed" /\ Moves
    /\ UNCHANGED <<due, room, stop, pump, mux, session>>

-----------------------------------------------------------------------------
(* FFmpeg, and the readers of its output.                                    *)

\* A line of progress names frames that FFmpeg has got.
Report ==
    /\ mux.at = "running" /\ mux.backlog > 0
    /\ mux' = [mux EXCEPT !.backlog = @ - 1]
    /\ room' = Least(room + 1, Lead + Horizon)
    /\ Moves
    /\ UNCHANGED <<due, stop, video, pump, session>>

\* Both inputs have ended: the rest is muxed and the last line is progress=end.
Exit ==
    /\ mux.at = "running" /\ video = "closed" /\ ~HasAudio /\ mux.backlog = 0
    /\ mux' = [mux EXCEPT !.at = "ok", !.ended = TRUE]
    /\ UNCHANGED <<due, room, stop, flow, video, pump, session>>

Dies ==
    /\ mux.at = "running"
    /\ mux' = [mux EXCEPT !.at = "failed"]
    /\ UNCHANGED <<due, room, stop, flow, video, pump, session>>

-----------------------------------------------------------------------------
(* The session.                                                              *)

\* await_handshake, before the encoder takes the writer.
Ready ==
    /\ session = "handshake" /\ pump.ready
    /\ session' = "recording" /\ video' = "idle"
    /\ UNCHANGED <<due, room, stop, flow, pump, mux>>

StopsAudio(left) ==
    stop' = IF stop.set THEN stop ELSE [set |-> TRUE, age |-> 0, left |-> left]

\* The pump failed, the deadline passed or the recording is to stop: the child is
\* killed, and another is started that has no audio.
TryAgain ==
    /\ session = "handshake" /\ ~pump.ready
    /\ StopsAudio(0)
    /\ \/ /\ mux' = NewMux(FALSE)
          /\ session' = "recording" /\ video' = "idle"
       \/ /\ mux' = [mux EXCEPT !.at = "killed"]
          /\ session' = "failed" /\ UNCHANGED video
    /\ UNCHANGED <<due, room, flow, pump>>

\* finish: the audio's end is set before the encoder is drained.
Finish ==
    /\ session = "recording"
    /\ \E left \in -1 .. Horizon : StopsAudio(left)
    /\ session' = "encoder"
    /\ UNCHANGED <<due, room, flow, video, pump, mux>>

\* The encoder gives back the writer, or gives up on the thread that holds it.
EncoderEnds ==
    /\ session = "encoder"
    /\ \/ video = "idle" /\ video' = "closed"
       \/ video \in {"writing", "failed"} /\ mux.age >= MuxWait /\ UNCHANGED video
       \/ video = "failed" /\ UNCHANGED video
    /\ session' = "mux"
    /\ mux' = [mux EXCEPT !.age = 0]
    /\ UNCHANGED <<due, room, stop, flow, pump>>

\* finish_inner: FFmpeg exits, or is killed when it has had its time.
MuxExits ==
    /\ session = "mux" /\ mux.at # "running"
    /\ session' = IF mux.at = "ok" /\ mux.ended THEN "saved" ELSE "failed"
    /\ UNCHANGED <<due, room, stop, flow, video, pump, mux>>

Kill ==
    /\ session = "mux" /\ mux.at = "running" /\ mux.age >= MuxWait
    /\ mux' = [mux EXCEPT !.at = "killed"]
    /\ UNCHANGED <<due, room, stop, flow, video, pump, session>>

Aged(n, most) == Least(n + 1, most)
Tick ==
    /\ session \notin {"saved", "failed"}
    /\ due' = Least(due + 1, Horizon)
    /\ stop' = IF stop.set THEN [stop EXCEPT !.age = Aged(@, StopWait)] ELSE stop
    /\ flow' = [flow EXCEPT !.armed = IF @ = Unarmed THEN @ ELSE Aged(@, Stall),
                            !.quiet = Aged(@, Stall)]
    /\ pump' = [pump EXCEPT !.age = IF pump.at = "write" THEN Aged(@, Stall) ELSE 0,
                            !.startup = Aged(@, StartupWait)]
    /\ mux' = [mux EXCEPT !.age = IF session \in {"encoder", "mux"} THEN Aged(@, MuxWait) ELSE 0]
    /\ UNCHANGED <<room, video, session>>

Pump == Connect \/ PumpFinishes \/ PumpExpires \/ Escape \/ PumpTurn \/ WriteFails
Session == Ready \/ TryAgain \/ EncoderEnds \/ MuxExits \/ Kill
Next ==
    \/ Pump \/ ReadAudio \/ BeginWrite \/ ReadVideo \/ VideoFails
    \/ Report \/ Exit \/ Dies \/ Session \/ Finish \/ Tick

\* The threads of the recorder run and time passes.  FFmpeg may leave either input
\* alone as long as it likes, but one input it must read when the other has ended.
Fairness ==
    /\ WF_vars(Pump) /\ WF_vars(Session) /\ WF_vars(Tick) /\ WF_vars(VideoFails)
    /\ WF_vars(ReadVideo /\ ~HasAudio)

Spec == Init /\ [][Next]_vars /\ Fairness

-----------------------------------------------------------------------------
\* The audio never leads what FFmpeg has reported by more than Lead, with the block
\* that is being written.
LeadIsBounded == room - pump.blocks >= 0

\* The first video is written when FFmpeg has the prefix, or to one without audio;
\* audio that has failed is never waited for by the second.
VideoHasItsAudio ==
    video # "none" => pump.ready \/ (~mux.audio /\ stop.set)

\* A recording is saved when FFmpeg ended by itself, with every frame it was given.
SavedIsWhole ==
    session = "saved" => mux.at = "ok" /\ mux.ended /\ mux.backlog = 0 /\ video = "closed"

MuxIsSound == LeadIsBounded /\ VideoHasItsAudio /\ SavedIsWhole

\* The audio is given up only for a video write that has been stuck all along,
\* while nothing of it was reported either.
EscapeIsGenuine ==
    [][pump.at # "escaped" /\ pump'.at = "escaped"
       => video = "writing" /\ flow.quiet >= Stall]_vars

\* FFmpeg may wait for audio that the lead forbids, but not for ever: a video write
\* always ends, and so does the session.
VideoFlows == video = "writing" ~> video # "writing"
SessionEnds == session = "encoder" ~> session \in {"saved", "failed"}
================================================================================
