-------------------------- MODULE PlaybackController --------------------------
(***************************************************************************)
(* The controller of the video element of the viewer                       *)
(* (playbackController.ts with viewerSeekState.ts): opening, seeking,      *)
(* playing, timeouts and recovery.  Every call gets a promise.  There is   *)
(* one native seek at a time, the newest request waits behind it, and a    *)
(* request is answered when a frame of its target has been presented.      *)
(* Whatever the element still says of an earlier source, seek or play must *)
(* do nothing.                                                             *)
(*                                                                         *)
(* A handler is one operator from a state to the next, as in the code,     *)
(* where one calls the other.  Time is left out: a timer that runs may     *)
(* fire.  The captured generation, version, intent and epoch of a frame    *)
(* callback change together when it is cancelled, and so it is in force or *)
(* not; the same holds for the token of a native play.  Rates, loops,      *)
(* sound, metrics and browsers without frame callbacks are left out.       *)
(***************************************************************************)
EXTENDS Naturals, FiniteSets

CONSTANTS
    End,           \* positions are 0 .. End, in frames
    Attempts,      \* recoveries within ten seconds, and in a row
    MaxCalls,      \* bound: calls of the viewer
    MaxTroubles    \* bound: what the browser does unasked, and attempts that are forgotten

PlayerAssumption ==
    End \in Nat \ {0} /\ Attempts \in Nat \ {0} /\ MaxCalls \in Nat /\ MaxTroubles \in Nat

VARIABLES
    player,      \* the controller, the element, and what the viewer waits for
    calls, troubles

vars == <<player, calls, troubles>>

Positions == 0 .. End
None == [at |-> "none"]
Nowhere == End + 1        \* no position

Init ==
    /\ player = [
         \* the controller
         readiness |-> "closed", generation |-> 0, desired |-> FALSE,
         active |-> None, pending |-> None, waiter |-> None,
         dispatched |-> Nowhere, presented |-> Nowhere, recent |-> FALSE,
         armed |-> FALSE, playing |-> FALSE, opening |-> FALSE,
         started |-> FALSE, metadata |-> FALSE, timers |-> {},
         retarget |-> Nowhere, attempts |-> 0, failures |-> 0,
         \* the element: source, position, picture, and native plays
         source |-> 0, position |-> 0, picture |-> [source |-> 0, at |-> 0, late |-> FALSE],
         seeking |-> FALSE, paused |-> TRUE, native |-> {}, ghost |-> None,
         \* promises that are owed, where the viewer wants to be, and by which picture it is
         owed |-> [seek |-> 0, play |-> 0, open |-> 0], wish |-> Nowhere, shown |-> None]
    /\ calls = 0 /\ troubles = 0

IsLive(s) == s.readiness \notin {"closed", "disposed"}
CurrentSource(s) == s.source = s.generation
------------------------------------------------------------------------------
(* Promises, frames and plays. *)

\* settle: at most once.
Settle(s, slot, how) ==
    IF s[slot] = None \/ s[slot].how # "open" THEN s
    ELSE [s EXCEPT ![slot].how = how, !.owed.seek = @ - 1,
                   !.wish = IF how = "presented" THEN Nowhere ELSE @]

ClearTimer(s, name) == [s EXCEPT !.timers = @ \ {name}]
Later(s, name) == [s EXCEPT !.timers = @ \cup {name}]

\* The element may have composed a frame for a callback that is cancelled.
CancelFrames(s) ==
    [s EXCEPT !.armed = FALSE, !.ghost = IF s.armed THEN [s.picture EXCEPT !.late = TRUE] ELSE @]
ArmFrame(s) == IF IsLive(s) /\ s.readiness # "degraded" THEN [s EXCEPT !.armed = TRUE] ELSE s

CancelPlay(s) ==
    LET t == [ClearTimer(s, "play") EXCEPT !.native = IF @ = {} THEN {} ELSE {"stale"}]
    IN  IF s.playing THEN [t EXCEPT !.playing = FALSE, !.owed.play = @ - 1] ELSE t

FinishOpen(s) == IF s.opening THEN [s EXCEPT !.opening = FALSE, !.owed.open = @ - 1] ELSE s

\* Mutant: the request behind the native seek is forgotten.
CancelAllButPending(s) ==
    LET frames == CancelFrames([s EXCEPT !.timers = {}])
        seeks == Settle(Settle(frames, "active", "failed"), "waiter", "failed")
    IN  FinishOpen(CancelPlay([seeks EXCEPT !.active = None, !.pending = None, !.waiter = None,
            !.recent = FALSE, !.started = FALSE, !.metadata = FALSE]))

CancelWork(s) ==
    LET frames == CancelFrames([s EXCEPT !.timers = {}])
        seeks == Settle(Settle(Settle(frames, "active", "failed"), "pending", "failed"),
                        "waiter", "failed")
    IN  FinishOpen(CancelPlay([seeks EXCEPT !.active = None, !.pending = None, !.waiter = None,
            !.recent = FALSE, !.started = FALSE, !.metadata = FALSE]))

StartPlay(s) ==
    LET t == CancelPlay(s)
    IN  IF s.readiness # "ready" THEN t
        ELSE Later([t EXCEPT !.playing = TRUE, !.owed.play = @ + 1, !.paused = FALSE,
                             !.native = @ \cup {"current"}], "play")

Pause(s) == [s EXCEPT !.paused = TRUE]
ResumeDesired(s) ==
    IF ~s.desired \/ s.readiness # "ready" THEN Pause(s)
    ELSE IF s.paused THEN StartPlay(s) ELSE s
------------------------------------------------------------------------------
(* Opening and recovery. *)

\* The element drops its frames and takes the new source when it starts to load it.
BeginLoad(s) ==
    ArmFrame(Later([Pause(s) EXCEPT !.seeking = FALSE, !.position = 0], "readiness"))

Degrade(s) == [Pause(CancelWork(s)) EXCEPT !.readiness = "degraded", !.wish = Nowhere]

\* Mutant: the target of the seek that failed is not kept.
TargetPresented(s) == IF s.presented # Nowhere THEN s.presented ELSE 0

\* Where to go on: the newest request, or what was presented, or what was wanted before.
RecoveryTarget(s) ==
    IF s.pending # None THEN s.pending.target
    ELSE IF s.waiter # None THEN s.waiter.target
    ELSE IF s.active # None THEN s.active.target
    ELSE IF s.presented # Nowhere THEN s.presented
    ELSE IF s.retarget # Nowhere THEN s.retarget ELSE 0

Recover(s) ==
    IF s.attempts >= Attempts \/ s.failures >= Attempts THEN Degrade(s)
    ELSE BeginLoad([CancelWork(s) EXCEPT
            !.retarget = RecoveryTarget(s), !.generation = @ + 1, !.readiness = "recovering",
            !.dispatched = Nowhere, !.presented = Nowhere, !.shown = None,
            !.attempts = @ + 1, !.failures = @ + 1])

Open(s) ==
    LET t == [CancelWork(s) EXCEPT
                !.generation = @ + 1, !.dispatched = Nowhere, !.presented = Nowhere,
                !.shown = None, !.desired = FALSE, !.attempts = 0, !.failures = 0,
                !.retarget = Nowhere, !.wish = Nowhere, !.readiness = "loading"]
    IN  BeginLoad([t EXCEPT !.opening = TRUE, !.owed.open = @ + 1])

Dispose(s) ==
    [Pause(CancelWork(s)) EXCEPT !.readiness = "disposed", !.desired = FALSE, !.wish = Nowhere]
------------------------------------------------------------------------------
(* Seeking. *)

\* What is there already needs no seek.
Deduplicate(s) ==
    ResumeDesired(ArmFrame(CancelFrames(
        [Settle(s, "pending", "presented") EXCEPT !.pending = None, !.dispatched = Nowhere])))

Dispatch(s) ==
    LET t == Later(ArmFrame(CancelFrames(Pause(s))), "native")
    IN  [t EXCEPT !.active = s.pending, !.pending = None, !.dispatched = s.pending.target,
                  !.recent = TRUE, !.position = s.pending.target, !.seeking = TRUE]

\* At most one native seek, and one in a tenth of a second.
DispatchPending(s) ==
    LET t == ClearTimer(s, "dispatch")
    IN  IF s.active # None \/ s.pending = None \/ s.readiness # "ready" \/ ~s.metadata THEN t
        ELSE IF s.recent THEN Later(t, "dispatch")
        ELSE IF s.position = s.pending.target /\ s.presented = s.pending.target
             THEN Deduplicate(t)
        ELSE Dispatch(t)

Request(t) == [at |-> "slot", target |-> t, how |-> "open"]

\* Mutant: the newest request of the same frame counts, also when another one is behind it.
RepeatedActive(s, t) ==
    \/ s.pending # None /\ s.pending.target = t
    \/ s.active # None /\ s.active.target = t
    \/ s.active = None /\ s.waiter # None /\ s.waiter.target = t

\* The same frame is on its way already.
Repeated(s, t) ==
    \/ s.pending # None /\ s.pending.target = t
    \/ /\ s.pending = None
       /\ \/ s.active # None /\ s.active.target = t
          \/ s.active = None /\ s.waiter # None /\ s.waiter.target = t

\* Mutant: the request for which a frame is awaited is left alone.
SupersedeButWaiter(s) == Settle(Settle(s, "active", "superseded"), "pending", "superseded")

Supersede(s) ==
    Settle(Settle(Settle(s, "active", "superseded"), "waiter", "superseded"),
           "pending", "superseded")

\* after: play or pause after the seek, or "keep".
Seek(s, t, after) ==
    LET wanted == [CancelPlay(s) EXCEPT !.desired = IF after = "keep" THEN @ ELSE after = "play"]
        fresh == CancelFrames([ClearTimer(Supersede(wanted), "presentation") EXCEPT !.waiter = None])
    IN  IF ~IsLive(s) \/ s.readiness = "degraded" THEN s
        ELSE IF Repeated(s, t) THEN wanted
        ELSE DispatchPending([fresh EXCEPT
                !.pending = Request(t), !.owed.seek = @ + 1, !.wish = t,
                !.retarget = IF s.readiness = "recovering" THEN t ELSE @])

\* The native seek has ended: what it was for still awaits its frame.
OnSeeked(s) ==
    IF s.active = None \/ s.seeking \/ s.position # s.active.target THEN s
    ELSE LET t == [ClearTimer(s, "native") EXCEPT !.active = None]
         IN  IF s.pending # None THEN DispatchPending(t)
             ELSE IF s.active.how # "open" THEN ResumeDesired(t)
             ELSE Later([t EXCEPT !.waiter = s.active], "presentation")

\* A frame counts once the new source is there.
OfThisSource(s) == s.metadata /\ CurrentSource(s)

Answer(s, slot) ==
    LET t == ClearTimer(Settle(s, slot, "presented"), "presentation")
        u == IF slot = "waiter" THEN [t EXCEPT !.waiter = None] ELSE t
    IN  IF u.active = None THEN ResumeDesired(u) ELSE u

\* The callback of a frame that is in force.
FramePresented(s, picture) ==
    LET slot == IF s.active # None THEN "active" ELSE "waiter"
        fits == s.dispatched \in {Nowhere, picture.at}
        t == [s EXCEPT !.presented = picture.at, !.dispatched = Nowhere, !.shown = picture]
    IN  IF ~OfThisSource(s) \/ s.pending # None \/ ~fits THEN ArmFrame(s)
        ELSE IF s[slot] # None /\ s[slot].how = "open" /\ s[slot].target = picture.at
             THEN ArmFrame(Answer(t, slot))
        ELSE ArmFrame(t)

\* The metadata of the source are there.
Metadata(s) ==
    LET t == FinishOpen([ClearTimer(s, "readiness") EXCEPT
                !.metadata = TRUE, !.readiness = "ready"])
    IN  ArmFrame(IF t.pending # None THEN DispatchPending(t)
                 ELSE IF t.retarget # Nowhere
                 THEN Seek([t EXCEPT !.retarget = Nowhere], t.retarget, "keep")
                 ELSE ResumeDesired(t))

\* The promise of a play in force is answered.
Complete(s) == [ClearTimer(s, "play") EXCEPT !.playing = FALSE, !.owed.play = @ - 1]

Timeout(s, name) ==
    LET t == ClearTimer(s, name)
    IN  CASE name = "native" -> Recover(Settle(t, "active", "failed"))
          [] name = "presentation" -> Recover(Settle(t, "waiter", "failed"))
          [] name = "play" -> Recover(Complete(t))
          [] name = "readiness" -> Recover(FinishOpen(t))
          [] name = "dispatch" -> DispatchPending([t EXCEPT !.recent = FALSE])
------------------------------------------------------------------------------
(* What happens. *)

Becomes(s) == player' = s
Call == calls < MaxCalls /\ calls' = calls + 1 /\ UNCHANGED troubles
Trouble == troubles < MaxTroubles /\ troubles' = troubles + 1 /\ UNCHANGED calls
Free == UNCHANGED <<calls, troubles>>

\* The viewer.
ViewerOpens == Call /\ player.readiness # "disposed" /\ Becomes(Open(player))
ViewerSeeks ==
    /\ Call
    /\ \E t \in Positions, after \in {"play", "pause", "keep"} : Becomes(Seek(player, t, after))
ViewerPlays == Call /\ IsLive(player) /\ Becomes(StartPlay([player EXCEPT !.desired = TRUE]))
ViewerPauses == Call /\ IsLive(player) /\ Becomes(Pause(CancelPlay([player EXCEPT !.desired = FALSE])))
ViewerRetries ==
    Call /\ IsLive(player) /\ Becomes(Recover([player EXCEPT !.attempts = 0, !.failures = 0]))
ViewerLeaves == Call /\ player.readiness # "disposed" /\ Becomes(Dispose(player))

\* Timers.
TimerFires(name) == Free /\ name \in player.timers /\ Becomes(Timeout(player, name))
SpacingPasses == Free /\ player.recent /\ Becomes([player EXCEPT !.recent = FALSE])

\* Ten seconds pass, or ten seconds of undisturbed playback.
AttemptsExpire ==
    /\ Trouble /\ player.attempts > 0
    /\ Becomes([player EXCEPT !.attempts = 0,
                  !.failures = IF player.desired /\ player.active = None /\ player.waiter = None
                                  /\ player.presented # Nowhere THEN 0 ELSE @])

\* The element; its listeners are those of the current generation.
Heard == IsLive(player) /\ player.readiness # "degraded"
LoadStarts ==
    /\ Free /\ Heard /\ ~player.started
    /\ Becomes([player EXCEPT !.started = TRUE, !.source = player.generation])
OldLoadStarts ==
    Trouble /\ Heard /\ ~player.started /\ Becomes([player EXCEPT !.started = TRUE])
SourceArrives ==
    /\ Free /\ Heard /\ player.started /\ ~CurrentSource(player)
    /\ Becomes([player EXCEPT !.source = player.generation])
LoadedMetadata ==
    /\ Free /\ Heard /\ player.started /\ CurrentSource(player) /\ ~player.metadata
    /\ Becomes(Metadata(player))
Compose ==
    /\ Free /\ ~player.seeking
    /\ player.picture # [source |-> player.source, at |-> player.position, late |-> FALSE]
    /\ Becomes([player EXCEPT !.picture =
                  [source |-> player.source, at |-> player.position, late |-> FALSE]])
SeekEnds ==
    /\ Free /\ player.seeking /\ Becomes([player EXCEPT !.seeking = FALSE])
SeekMisses ==
    /\ Trouble /\ player.seeking
    /\ \E p \in Positions : Becomes([player EXCEPT !.seeking = FALSE, !.position = p])
Seeked ==
    /\ Free /\ Heard /\ player.started /\ CurrentSource(player) /\ player.metadata
    /\ player.active # None /\ Becomes(OnSeeked(player))
Frame ==
    /\ Free /\ player.armed /\ player.picture.source = player.source
    /\ Becomes(FramePresented([player EXCEPT !.armed = FALSE], player.picture))
PictureAdvances ==
    /\ Free /\ ~player.paused /\ ~player.seeking /\ player.metadata /\ player.position < End
    /\ Becomes([player EXCEPT !.position = @ + 1])
Ended ==
    /\ Free /\ ~player.paused /\ Heard /\ player.metadata /\ player.position = End
    /\ Becomes([player EXCEPT !.desired = FALSE, !.paused = TRUE])

\* Mutant: a callback that was cancelled is heard.
GhostIsHeard(s) == FramePresented(s, s.ghost)

\* A callback that was cancelled finds that it is.
GhostFrame(s) == s
LateFrame ==
    /\ Free /\ player.ghost # None
    /\ Becomes([GhostFrame(player) EXCEPT !.ghost = None])

\* A native play is answered or refused, also one that nobody waits for any more.
NativePlay(which) ==
    /\ Free /\ which \in player.native
    /\ LET t == [player EXCEPT !.native = @ \ {which}]
       IN  Becomes(IF which = "current" /\ t.playing THEN Complete(t) ELSE t)
NativePlayRefused ==
    /\ Trouble /\ "current" \in player.native /\ player.playing
    /\ LET t == Complete([player EXCEPT !.native = @ \ {"current"}, !.paused = TRUE])
       IN  Becomes(t) \/ Becomes(Recover(t))
MediaError ==
    /\ Trouble /\ Heard /\ player.started /\ CurrentSource(player) /\ Becomes(Recover(player))
Buffers ==
    /\ Trouble /\ player.readiness = "ready" /\ player.desired
    /\ player.active = None /\ player.pending = None /\ player.waiter = None
    /\ Becomes(Recover(player))

Viewer == ViewerOpens \/ ViewerSeeks \/ ViewerPlays \/ ViewerPauses \/ ViewerRetries \/ ViewerLeaves
Element ==
    \/ LoadStarts \/ OldLoadStarts \/ SourceArrives \/ LoadedMetadata \/ Compose \/ SeekEnds
    \/ SeekMisses \/ Seeked \/ Frame \/ PictureAdvances \/ Ended \/ LateFrame
    \/ NativePlay("current") \/ NativePlay("stale") \/ NativePlayRefused \/ MediaError \/ Buffers
Timers == {"native", "presentation", "play", "readiness", "dispatch"}

Next ==
    \/ Viewer \/ Element \/ SpacingPasses \/ AttemptsExpire
    \/ \E name \in Timers : TimerFires(name)

Spec == Init /\ [][Next]_vars
------------------------------------------------------------------------------
Slots == {"active", "pending", "waiter"}
OpenSlots == {x \in Slots : player[x] # None /\ player[x].how = "open"}

\* Every call is answered once: what is owed is owed by one request, and a timer
\* runs that will answer it if nothing else does.  At most one seek is owed: the
\* newest.  A controller that has given up or was disposed of owes nothing.
CallsAreAnswered ==
    /\ player.owed.seek = Cardinality(OpenSlots) /\ player.owed.seek <= 1
    /\ player.owed.play = (IF player.playing THEN 1 ELSE 0)
    /\ player.owed.open = (IF player.opening THEN 1 ELSE 0)
    /\ player.playing => "play" \in player.timers
    /\ player.opening => "readiness" \in player.timers
    /\ player.active # None => "native" \in player.timers
    /\ "waiter" \in OpenSlots => "presentation" \in player.timers
    /\ player.pending # None =>
          player.active # None \/ player.timers \cap {"dispatch", "readiness"} # {}
    /\ ~Heard => player.timers = {} /\ ~player.armed /\ player.owed = [seek |-> 0, play |-> 0, open |-> 0]

\* A repeated seek shares the promise of one that is still wanted.
RepeatsAreWanted ==
    \A t \in Positions : Heard /\ Repeated(player, t) =>
       \E x \in Slots :
          player[x] # None /\ player[x].target = t /\ player[x].how \in {"open", "presented"}

\* The position that is presented is that of a frame of this source which was
\* composed for a callback that nobody has cancelled.
PositionIsSeen ==
    player.presented # Nowhere => player.shown.source = player.generation /\ ~player.shown.late

\* A viewer that does not want to play is not left with a running picture.
PauseIsHonoured ==
    ~player.desired /\ ~player.paused => \E x \in Slots : player[x] # None

\* Where the viewer wanted to go is not forgotten, in any recovery, until a frame of
\* it is there or the controller gives up.
WishIsKept ==
    player.wish # Nowhere =>
       \/ player.retarget = player.wish
       \/ \E x \in Slots : player[x] # None /\ player[x].target = player.wish

PlayerIsSound ==
    CallsAreAnswered /\ RepeatsAreWanted /\ PositionIsSeen /\ PauseIsHonoured /\ WishIsKept
=============================================================================
