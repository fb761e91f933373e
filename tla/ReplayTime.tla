------------------------------ MODULE ReplayTime ------------------------------
(***************************************************************************)
(* The arithmetic of replay time, which the recorder and the viewer share.  *)
(* A finished video is probed; its timeline is accepted only when the frame *)
(* grid, the timestamps and the replay ticks agree exactly.  Frames are cut *)
(* out of it by intervals of ticks, and the clock of the game is mapped     *)
(* into it.  Every conversion names its rounding.                           *)
(* A result is the set of its values: one, or none when it is an error.     *)
(* Integers are as wide as the code checks that they are, so none overflows.*)
(* replay-time/src/lib.rs                                                   *)
(***************************************************************************)
EXTENDS FiniteSetsExt, SequencesExt, Integers

CONSTANTS Second,        \* REPLAY_TICKS_PER_SECOND
          TickRatio,     \* REPLAY_TICKS_PER_GAME_TICK
          MaxTick,       \* MAX_REPLAY_TICK
          Bases, FrameRates,         \* rationals that a probe may show
          Pts, Lengths, Counts, Intercepts,   \* and timestamps, durations and counts
          Fine,          \* fractions of a game tick that the game's clock shows
          MaxMedia       \* bound of a run

\* What the constants must satisfy.
TimeAssumption ==
    /\ Second \in Nat \ {0} /\ TickRatio \in Nat \ {0} /\ MaxTick \in Nat
    /\ Bases \subseteq Int \X Nat /\ FrameRates \subseteq Int \X Nat
    /\ Pts \subseteq Int /\ Lengths \subseteq Nat /\ Counts \subseteq Nat /\ Fine \in Nat \ {0}

VARIABLES media,      \* how many recordings were finished; the last one's name
          timeline, stored,   \* of that recording, and whether it was read back
          range, asked,       \* a ClipRange, and the interval it was cut for
          exported,   \* the range that an export took
          mapped,     \* the last game time that was mapped, and its result
          wire        \* the last spelling that was read, and its number

vars == <<media, timeline, stored, range, asked, exported, mapped, wire>>

None == <<>>

-----------------------------------------------------------------------------
(* Rationals and their rounding.                                             *)

Gcd(a, b) == Max({k \in 1 .. Max({a, b}) : a % k = 0 /\ b % k = 0})
Magnitude(n) == IF n < 0 THEN -n ELSE n
Rational(n, d) ==
    IF d = 0 THEN {}
    ELSE LET g == Gcd(Magnitude(n), d)
         IN  {<<IF n < 0 THEN -(Magnitude(n) \div g) ELSE n \div g, d \div g>>}
Positive(r) == {q \in Rational(r[1], r[2]) : q[1] > 0}

RoundDiv(n, d, rounding) ==
    LET floor == n \div d
        rest == n % d
        up == CASE rounding = "floor" -> FALSE
                [] rounding = "ceil" -> rest # 0
                [] OTHER -> 2 * rest > d \/ (2 * rest = d /\ floor % 2 = 1)
    IN  IF rest # 0 /\ rounding = "exact" THEN {}
        ELSE {IF up THEN floor + 1 ELSE floor}
Scaled(value, n, d, rounding) == IF d <= 0 THEN {} ELSE RoundDiv(value * n, d, rounding)

ReplayTicks == 0 .. MaxTick
SignedTicks == -MaxTick .. MaxTick
FrameBoundaries == 0 .. MaxTick

FrameToTick(frame, rate, rounding) ==
    IF rate[1] <= 0 THEN {}
    ELSE Scaled(frame, Second * rate[2], rate[1], rounding) \cap ReplayTicks

TickToFrame(tick, rate, rounding) ==
    IF rate[1] <= 0 THEN {}
    ELSE Scaled(tick, rate[1], Second * rate[2], rounding) \cap FrameBoundaries

PtsToTick(delta, base) ==
    IF base[1] <= 0 THEN {} ELSE Scaled(delta, base[1] * Second, base[2], "exact") \cap SignedTicks

\* Between two streams, each with its own base.
MapPts(value, base, origin, originBase) ==
    {a - b : a \in Scaled(value, base[1] * Second, base[2], "exact"),
             b \in Scaled(origin, originBase[1] * Second, originBase[2], "exact")}
        \cap SignedTicks

\* round_f64_ties_even, of a number of parts of a game tick.
RoundTiesEven(parts) ==
    LET floor == parts \div Fine
        fraction == parts - floor * Fine
    IN  IF 2 * fraction < Fine \/ (2 * fraction = Fine /\ floor % 2 = 0) THEN floor ELSE floor + 1

-----------------------------------------------------------------------------
(* Wire forms.                                                               *)

Characters == <<"0", "1", "2", "3", "4", "5", "6", "7", "8", "9">>
Digits == [c \in Range(Characters) |-> (CHOOSE i \in 1 .. 10 : Characters[i] = c) - 1]
ValueOf(digits) == FoldLeft(LAMBDA sum, c : 10 * sum + Digits[c], 0, digits)

ParseUnsigned(s, maximum) ==
    IF s = <<>> \/ (Len(s) > 1 /\ s[1] = "0") \/ ~(Range(s) \subseteq DOMAIN Digits) THEN {}
    ELSE {ValueOf(s)} \cap 0 .. maximum

ParseSigned(s, maximum) ==
    LET negative == s # <<>> /\ s[1] = "-"
        digits == IF negative THEN Tail(s) ELSE s
    IN  IF s = <<"-", "0">> THEN {}
        ELSE {IF negative THEN -v ELSE v : v \in ParseUnsigned(digits, maximum)}

\* fmt::Display
Display(n) == (IF n >= 10 THEN <<Characters[(n \div 10) + 1]>> ELSE <<>>) \o <<Characters[(n % 10) + 1]>>
SignedDisplay(n) == IF n < 0 THEN <<"-">> \o Display(-n) ELSE Display(n)

\* The seconds of a container: whole and fraction, of which zeros may lead.
ParseDecimal(negative, whole, fraction) ==
    UNION {LET scale == 10 ^ Len(fraction)
               magnitude == w * scale + ValueOf(fraction)
           IN  Rational(IF negative THEN -magnitude ELSE magnitude, scale) :
           w \in ParseUnsigned(whole, MaxTick)}

-----------------------------------------------------------------------------
(* Finished media.                                                           *)

Equal(a, b) == Rational(a[1], a[2]) = Rational(b[1], b[2])

\* MediaTimelineV2::validate.  What is not a number is right in all of them.
Valid(t) ==
    /\ t.base[1] > 0 /\ t.rate[1] > 0 /\ t.count # 0
    /\ t.rate = t.expectedRate /\ t.count = t.expectedCount
    /\ FrameToTick(t.count, t.rate, "exact") = {t.end}
    /\ PtsToTick(t.past - t.first, t.base) = {t.end}
    /\ t.audio # None => t.audio.base[1] > 0 /\ t.audio.start < t.audio.end

\* Mutant: audio is placed by its own first timestamp.
OwnOrigin(a, policy, video) ==
    {[base |-> base, first |-> a.first, start |-> start, end |-> end] :
        base \in Positive(a.base), start \in MapPts(a.first, a.base, a.first, a.base),
        end \in MapPts(a.first + a.length, a.base, a.first, a.base)}

\* Audio is placed by the first timestamp of the video.
AudioTimeline(a, policy, video) ==
    IF policy = "absent" \/ a.index = video.index \/ ~a.sane \/ a.length <= 0 THEN {}
    ELSE {[base |-> base, first |-> a.first, start |-> start, end |-> end] :
            base \in Positive(a.base), start \in MapPts(a.first, a.base, video.first, video.base),
            end \in MapPts(a.first + a.length, a.base, video.first, video.base)}

\* parse_ffprobe_media_timeline.  A stream is sane when its other fields are as wanted.
Parsed(streams, e) ==
    LET videos == SelectSeq(streams, LAMBDA s : s.kind = "video")
        sounds == SelectSeq(streams, LAMBDA s : s.kind = "audio")
        video == videos[1]
        audio == IF sounds # <<>> THEN AudioTimeline(sounds[1], e.audio, video)
                 ELSE IF e.audio = "required" THEN {} ELSE {None}
    IN  IF \/ Len(videos) # 1 \/ Len(sounds) > 1 \/ Len(videos) + Len(sounds) # Len(streams)
           \/ ~video.sane \/ ~Equal(video.rate, e.rate) \/ video.count # e.count
           \/ (e.zero /\ video.first # 0) \/ video.length <= 0
        THEN {}
        ELSE {t \in {[base |-> base, first |-> video.first, rate |-> rate,
                      count |-> video.count, past |-> video.first + video.length, end |-> end,
                      audio |-> sound, expectedRate |-> rate, expectedCount |-> e.count] :
                     base \in Positive(video.base), rate \in Positive(video.rate),
                     end \in FrameToTick(e.count, video.rate, "exact"), sound \in audio} : Valid(t)}

\* Streams that ffprobe may show: one or two of a kind, or one of no known kind.
Stream(kind, index, sane, base, rate, first, length, count) ==
    [kind |-> kind, index |-> index, sane |-> sane, base |-> base, rate |-> rate,
     first |-> first, length |-> length, count |-> count]
Videos == {Stream("video", 0, sane, base, rate, first, length, count) :
              sane \in BOOLEAN, base \in Bases, rate \in FrameRates, first \in Pts,
              length \in Lengths, count \in Counts}
Sounds == {Stream("audio", index, TRUE, base, <<1, 1>>, first, length, 0) :
              index \in {0, 1}, base \in Bases, first \in Pts, length \in Lengths}
Probes == {<<v>> : v \in Videos} \cup {<<a>> : a \in Sounds}
          \cup {<<v, v>> : v \in {w \in Videos : w.first = 0}}
          \cup {<<v, a>> : v \in {w \in Videos : w.sane /\ w.length > 0}, a \in Sounds}
          \cup {<<v, a, [a EXCEPT !.kind = kind]>> :
                    kind \in {"audio", "data"}, v \in {w \in Videos : w.sane /\ w.first = 0},
                    a \in {b \in Sounds : b.first = 0}}
Expectations == [rate : FrameRates, count : Counts,
                 audio : {"absent", "optional", "required"}, zero : BOOLEAN]

Accepted == UNION {Parsed(streams, e) : streams \in Probes, e \in Expectations}

\* What was mapped or read ends a run; a second recording is for the sake of a range.
Open == mapped = None /\ wire = None

Finalize ==
    /\ Open /\ media < MaxMedia /\ (media = 0 \/ range # {}) /\ exported = {}
    /\ media' = media + 1
    /\ \E t \in Accepted : timeline' = {t}
    /\ stored' = FALSE
    /\ UNCHANGED <<range, asked, exported, mapped, wire>>

\* A sidecar is read: what it says may have changed, and is validated again.
Load ==
    /\ Open /\ ~stored /\ stored' = TRUE /\ exported = {}
    /\ \E t \in timeline, first \in Pts, count \in Counts, late \in 0 .. 1 :
        \E u \in {t, [t EXCEPT !.first = first], [t EXCEPT !.end = @ + late],
                  [t EXCEPT !.count = count, !.expectedCount = count]} :
            timeline' = {v \in {u} : Valid(v)}
    /\ UNCHANGED <<media, range, asked, exported, mapped, wire>>

Init == /\ media = 0 /\ timeline = {} /\ stored = FALSE
        /\ range = {} /\ asked = None /\ exported = {} /\ mapped = None /\ wire = None

-----------------------------------------------------------------------------
(* Clips.                                                                    *)

ClipRange(name, first, past, count) ==
    {r \in {[media |-> name, first |-> first, past |-> past]} : first < past /\ past <= count}

\* Mutant: the end is floored as the start is.
ProjectFloored(t, start, end) ==
    UNION {ClipRange(media, Min({first, t.count}), Min({past, t.count}), t.count) :
           first \in TickToFrame(start, t.rate, "floor"),
           past \in TickToFrame(end, t.rate, "floor")}

Project(t, start, end) ==
    IF start >= end THEN {}
    ELSE UNION {ClipRange(media, Min({first, t.count}), Min({past, t.count}), t.count) :
                first \in TickToFrame(start, t.rate, "floor"),
                past \in TickToFrame(end, t.rate, "ceil")}

Cut ==
    /\ Open /\ asked = None /\ range = {}
    /\ \E t \in timeline, start, end \in ReplayTicks :
        range' = Project(t, start, end) /\ asked' = <<media, start, end>>
    /\ UNCHANGED <<media, timeline, stored, exported, mapped, wire>>

\* A range from a page or from a settings file is only in order.
Receive ==
    /\ Open /\ asked = None /\ range = {}
    /\ \E name \in 1 .. MaxMedia, first \in Counts, past \in Counts :
        range' = ClipRange(name, first, past, MaxTick)
    /\ UNCHANGED <<media, timeline, stored, asked, exported, mapped, wire>>

\* Mutant: the range need not lie in the timeline.
ValidHere(r, t) == r.media = media

\* validate_for: the media of the export, and its frames.
ValidFor(r, t) == r.media = media /\ r.first < r.past /\ r.past <= t.count
Export ==
    /\ Open /\ exported = {}
    /\ exported' = {r \in range : \E t \in timeline : ValidFor(r, t)}
    /\ UNCHANGED <<media, timeline, stored, range, asked, mapped, wire>>

-----------------------------------------------------------------------------
(* The clock of the game.                                                    *)

Statuses == {"available", "temporarily", "invalidated"}
Calibrations == [status : Statuses, samples : 4 .. 5, span : 0 .. 1, intercept : Intercepts \cup {None}]
ValidCalibration(c) ==
    IF c.status = "available" THEN c.samples >= 5 /\ c.span > 0 /\ c.intercept # None
    ELSE c.intercept = None

MapGameTick(c, game, end) ==
    IF ~ValidCalibration(c) THEN {}
    ELSE IF c.intercept = None THEN {<<"unavailable", 0>>}
    ELSE LET tick == game * TickRatio + c.intercept[1]
         IN  IF tick \notin SignedTicks THEN {}
             ELSE {<<IF tick < 0 THEN "before" ELSE IF tick >= end THEN "after" ELSE "inside", tick>>}

Map ==
    /\ Open /\ asked = None /\ range = {}
    /\ \E t \in timeline, c \in Calibrations, parts \in -2 * Fine .. 4 * Fine :
        mapped' = [of |-> parts, by |-> c, result |-> MapGameTick(c, RoundTiesEven(parts), t.end)]
    /\ UNCHANGED <<media, timeline, stored, range, asked, exported, wire>>

\* A number is read, of two digits at most.
Read ==
    /\ media = 0 /\ wire = None
    /\ \E s \in SeqOf({"+", "-", "0", "1", "9"}, 3) :
        wire' = [of |-> s, value |-> {v \in ParseSigned(s, 99) : v >= -99}]
    /\ UNCHANGED <<media, timeline, stored, range, asked, exported, mapped>>

Next == Read \/ Finalize \/ Load \/ Cut \/ Receive \/ Export \/ Map
Spec == Init /\ [][Next]_vars

-----------------------------------------------------------------------------
\* The frames, the timestamps and the ticks of an accepted timeline end together, as
\* fractions of a second, each frame keeps its number through ticks, and audio begins
\* as far from the video as their timestamps say.
TimelineIsExact ==
    \A t \in timeline :
        /\ t.count * t.rate[2] * Second = t.end * t.rate[1] /\ t.count > 0
        /\ (t.past - t.first) * t.base[1] * Second = t.end * t.base[2]
        /\ \A b \in 0 .. t.count : \A tick \in FrameToTick(b, t.rate, "nearest") :
              b \in TickToFrame(tick, t.rate, "nearest")
        /\ t.audio # None /\ ~stored =>
              t.audio.start * t.audio.base[2] * t.base[2] =
                  Second * (t.audio.first * t.audio.base[1] * t.base[2]
                            - t.first * t.base[1] * t.audio.base[2])

\* A clip shows every instant of its interval that the video has, and no frame that
\* has none of it; an interval is refused only when the video has none of it.
ClipCovers ==
    \A t \in timeline : asked # None /\ asked[1] = media /\ ~stored =>
        LET length == Second * t.rate[2]
            from == asked[2] * t.rate[1]
            to == asked[3] * t.rate[1]
            wanted == {f \in 0 .. t.count - 1 : f * length < to /\ (f + 1) * length > from}
        IN  IF from >= to \/ wanted = {} THEN range = {}
            ELSE \E r \in range : r.media = media /\ r.first .. r.past - 1 = wanted

\* An export takes no range that was cut from other media, or beyond its frames,
\* whatever was remuxed, reloaded or received since.
ExportsAreCovered ==
    \A r \in exported : r.media = media /\ \E t \in timeline : r.past <= t.count

\* The time of the game is placed where the nearest game tick is, by a calibration of
\* enough samples alone, and called inside only where the video has a frame.
MappingIsExact ==
    mapped # None => \A t \in timeline, m \in mapped.result :
        (m[1] # "unavailable") =>
            /\ mapped.by.status = "available" /\ mapped.by.samples >= 5
            /\ LET game == (m[2] - mapped.by.intercept[1]) \div TickRatio
               IN  2 * Magnitude(mapped.of - game * Fine) <= Fine
            /\ (m[1] = "inside" => m[2] \in 0 .. t.end - 1)

\* A number has one spelling on the wire, the one it is written with; the decimal of
\* a container has the value it is written with.
WiresAreCanonical ==
    wire # None =>
        /\ \A v \in wire.value : wire.of = SignedDisplay(v)
        /\ \A v \in -99 .. 99 : wire.of = SignedDisplay(v) => wire.value = {v}
        /\ ParseDecimal(TRUE, <<"1">>, <<"0", "2">>) = {<<-51, 50>>}
=============================================================================
