----------------------------- MODULE CaptureWatch -----------------------------
(***************************************************************************)
(* Which window the recorder captures, and whether the capture goes on.    *)
(* Before the capture the window of the game must have been the same for a *)
(* while (launch_readiness.rs).  During it the service compares counters   *)
(* of the capture with those it saw before (CaptureProgressWatchdog of     *)
(* service.rs): a silent source is asked for again, silence of the encoder *)
(* or of the file is fatal, and an observer that was itself away for long  *)
(* must not blame anybody for what it did not see.                         *)
(***************************************************************************)
EXTENDS Integers

CONSTANTS
    Windows,         \* what the game shows
    Cadence, MaxGap, MaxResolution,   \* of launch_readiness.rs
    Stall,           \* CAPTURE_PROGRESS_STALL_TIMEOUT
    MaxTime          \* bound: the clock of either phase

WatchAssumption ==
    /\ Windows # {} /\ "none" \notin Windows
    /\ Cadence \in Nat \ {0} /\ MaxGap \in Nat /\ Cadence <= MaxGap
    /\ MaxResolution \in Nat /\ Stall \in Nat \ {0} /\ MaxTime \in Nat

VARIABLES
    phase,       \* "sleep", "resolve", "admitted"; "watch", "failed", "clean"; "ended"
    now,
    window,      \* the usable window of the process, or "none"
    cancelled,
    readiness,   \* what has been sampled
    target,      \* what the window was resolved to
    looks,       \* history: every sample
    capture,     \* of the graph: who progressed since the last observation, and its source
    watch,       \* CaptureProgressWatchdog
    verdict,     \* of its last observation
    progress,    \* history: when the encoder and the file last progressed
    gapAt        \* history: the last observation after a gap, or the start

vars == <<phase, now, window, cancelled, readiness, target, looks,
          capture, watch, verdict, progress, gapAt>>
admission == <<window, cancelled, readiness, target, looks>>
watching == <<capture, watch, verdict, progress, gapAt>>

Kinds == {"source", "encoded", "muxed"}
Never == -1
Shown == Windows \cup {"none"}
NoReadiness == [previous |-> "none", at |-> 0, first |-> 0, count |-> 0]

NewCapture == [fresh |-> {}, regenerated |-> FALSE, detached |-> FALSE]
NewWatch ==
    [waiting |-> FALSE, observed |-> 0, confirm |-> Never, advanced |-> [k \in Kinds |-> 0]]

Init ==
    /\ phase = "sleep" /\ now = 0
    /\ window \in Shown /\ cancelled = FALSE
    /\ readiness = NoReadiness /\ target = "none" /\ looks = {}
    /\ capture = NewCapture /\ watch = NewWatch
    /\ verdict = "none" /\ progress = [k \in {"encoded", "muxed"} |-> 0] /\ gapAt = 0

Tick ==
    /\ phase \in {"sleep", "resolve", "watch"} /\ now < MaxTime /\ now' = now + 1
    /\ UNCHANGED <<phase, admission, watching>>

------------------------------------------------------------------------------
(* Admission. *)

\* The game shows another window, moves or resizes it, or hides it.
WindowChanges ==
    /\ phase \in {"sleep", "resolve"} /\ window' \in Shown \ {window}
    /\ UNCHANGED <<phase, now, cancelled, readiness, target, looks, watching>>

Cancel ==
    /\ phase \in {"sleep", "resolve"} /\ ~cancelled /\ cancelled' = TRUE
    /\ UNCHANGED <<phase, now, window, readiness, target, looks, watching>>

\* A wait that was cancelled ends as soon as it looks, and any query may fail.
GiveUp ==
    /\ (cancelled /\ phase = "sleep") \/ (~cancelled /\ phase \in {"sleep", "resolve"})
    /\ phase' = "ended"
    /\ UNCHANGED <<now, admission, watching>>

Restarted == [previous |-> window, at |-> now, first |-> now, count |-> 1]

\* Mutant: a gap between two samples does not count.
ObservedAcrossGaps ==
    IF window = "none" THEN NoReadiness
    ELSE IF readiness.previous # window THEN Restarted
    ELSE [readiness EXCEPT !.at = now, !.count = @ + 1]

\* Readiness::observe.
Observed ==
    IF window = "none" THEN NoReadiness
    ELSE IF readiness.previous # window \/ now - readiness.at \notin 1 .. MaxGap THEN Restarted
    ELSE [readiness EXCEPT !.at = now, !.count = @ + 1]

IsReady(r) == r.count >= 2 /\ r.at - r.first >= Cadence

\* The sleep takes at least its time.
Sample ==
    /\ phase = "sleep" /\ ~cancelled
    /\ looks # {} => \A l \in looks : now - l.at >= Cadence
    /\ readiness' = Observed
    /\ looks' = looks \cup {[at |-> now, window |-> window]}
    /\ phase' = IF IsReady(readiness') THEN "resolve" ELSE "sleep"
    /\ UNCHANGED <<now, window, cancelled, target, watching>>

\* The window is resolved to a target.
Resolve ==
    /\ phase = "resolve" /\ target = "none" /\ window # "none"
    /\ target' = window
    /\ UNCHANGED <<phase, now, window, cancelled, readiness, looks, watching>>

\* Mutant: the window is not asked for again.
AcceptedAtOnce == target = readiness.previous

\* It must be what was sampled, and the window must still be, soon after.
Accepted ==
    /\ target = readiness.previous /\ window = readiness.previous
    /\ now - readiness.at <= MaxResolution

Admit ==
    /\ phase = "resolve" /\ target # "none"
    /\ IF cancelled
       THEN phase' = "ended" /\ UNCHANGED <<readiness, target>>
       ELSE IF Accepted
            THEN phase' = "admitted" /\ UNCHANGED <<readiness, target>>
            ELSE phase' = "sleep" /\ readiness' = NoReadiness /\ target' = "none"
    /\ UNCHANGED <<now, window, cancelled, looks, watching>>

\* Capture starts some time later, with a clock and a watchdog of its own.
Start ==
    /\ phase = "admitted" /\ phase' = "watch" /\ now' = 0
    /\ window' = "none" /\ readiness' = NoReadiness /\ target' = "none" /\ looks' = {}
    /\ UNCHANGED <<cancelled, watching>>

------------------------------------------------------------------------------
(* The capture. *)

Progress(k) ==
    /\ phase = "watch" /\ k \notin capture.fresh
    /\ k = "source" => ~capture.detached
    /\ capture' = [capture EXCEPT !.fresh = capture.fresh \cup {k}]
    /\ progress' = IF k = "source" THEN progress ELSE [progress EXCEPT ![k] = now]
    /\ UNCHANGED <<phase, now, admission, watch, verdict, gapAt>>

\* The session loses its source, and attaches to it again as another generation.
Detach ==
    /\ phase = "watch"
    /\ capture' = [capture EXCEPT !.detached = ~capture.detached,
                                  !.regenerated = capture.regenerated \/ capture.detached]
    /\ UNCHANGED <<phase, now, admission, watch, verdict, progress, gapAt>>
------------------------------------------------------------------------------
(* The watchdog. *)

Gap == now - watch.observed > Stall

\* Mutant: an observer that was away blames the others.
AdvancedInSpiteOfGap(k) ==
    IF k \in capture.fresh \/ (k = "source" /\ capture.regenerated)
    THEN now ELSE watch.advanced[k]

\* When each was last seen to advance; a gap begins all of it anew.
Advanced(k) ==
    IF Gap \/ k \in capture.fresh \/ (k = "source" /\ capture.regenerated)
    THEN now ELSE watch.advanced[k]

Silent(k) == now - Advanced(k) >= Stall

\* Mutant: what was confirmed before the gap remains confirmed.
ConfirmForgotten == Never

\* A gap is to be confirmed, by an advance of both that was seen after it.
Confirm ==
    LET asked == IF Gap THEN now ELSE watch.confirm
    IN  IF \A k \in {"encoded", "muxed"} : Advanced(k) > asked THEN Never ELSE asked

\* CaptureProgressWatchdog::observe; the diagnostics may have failed (error).
Observation(visible, error) ==
    LET unavailable == capture.detached \/ ~visible
        stalled == \E k \in {"encoded", "muxed"} : Silent(k)
    IN  [watch |-> [waiting |-> \/ unavailable \/ Silent("source")
                                \/ (watch.waiting /\ "source" \notin capture.fresh),
                    observed |-> now,
                    confirm |-> Confirm,
                    advanced |-> [k \in Kinds |-> Advanced(k)]],
         verdict |-> IF error THEN "error"
                     ELSE IF stalled THEN "stalled"
                     ELSE IF ~Gap /\ ~unavailable /\ Silent("source") THEN "recover" ELSE "none"]

Remember(o) ==
    /\ verdict' = o.verdict
    /\ gapAt' = IF Gap THEN now ELSE gapAt
    /\ UNCHANGED <<now, admission, progress>>

\* The recording is given up or has ended, and its watchdog with it.
Ended(o, as) ==
    /\ phase' = as /\ Remember(o)
    /\ watch' = NewWatch /\ capture' = NewCapture

\* The tick of the service; a stall fails the recording.
Observe ==
    /\ phase = "watch"
    /\ \E visible, error \in BOOLEAN :
          LET o == Observation(visible, error)
          IN  IF o.verdict \in {"error", "stalled"}
              THEN Ended(o, "failed")
              ELSE /\ Remember(o) /\ watch' = o.watch
                   /\ capture' = [capture EXCEPT !.fresh = {}, !.regenerated = FALSE]
                   /\ UNCHANGED phase

\* failure_before_stop: with the last visibility that is known, as the window may be gone.
Stop ==
    /\ phase = "watch"
    /\ \E error \in BOOLEAN :
          LET o == Observation(~watch.waiting, error)
          IN  Ended(o, IF o.verdict \in {"error", "stalled"} \/ o.watch.confirm # Never
                       THEN "failed" ELSE "clean")

Next ==
    \/ Tick \/ WindowChanges \/ Cancel \/ GiveUp \/ Sample \/ Resolve \/ Admit \/ Start
    \/ \E k \in Kinds : Progress(k)
    \/ Detach \/ Observe \/ Stop

Spec == Init /\ [][Next]_vars
------------------------------------------------------------------------------
\* What is captured was the window in every sample over at least Cadence, none of
\* them long after the other, and still was when it had been resolved, soon after.
AdmissionIsSteady ==
    phase = "admitted" =>
        /\ target = window /\ ~cancelled
        /\ \E first, last \in looks :
              /\ \A s \in looks : s.at <= last.at /\ (s.at >= first.at => s.window = target)
              /\ last.at - first.at >= Cadence /\ now - last.at <= MaxResolution
              /\ \A t \in first.at .. last.at - 1 : \E s \in looks : s.at - t \in 1 .. MaxGap

\* Nobody is blamed for a silence that was not watched for as long as the limit.
StallIsWatched ==
    phase = "failed" /\ verdict = "stalled" =>
        \E k \in {"encoded", "muxed"} : now - progress[k] >= Stall /\ now - gapAt >= Stall

\* A recording that ends without a failure was encoded and written shortly before
\* its end, and after the last gap in which nobody watched.
CleanStopIsLive ==
    phase = "clean" => \A k \in {"encoded", "muxed"} :
        now - progress[k] < 2 * Stall /\ (gapAt > 0 => progress[k] >= gapAt)

WatchIsSound == AdmissionIsSteady /\ StallIsWatched /\ CleanStopIsLive
=============================================================================
