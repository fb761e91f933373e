---------------------------- MODULE FragmentScan ----------------------------
(***************************************************************************)
(* The recorder's own proof that a finished recording has a constant frame *)
(* rate: one pass over the boxes of the fragmented MP4 that FFmpeg wrote,   *)
(* which reads the sample tables and skips the media.  Each box may be      *)
(* anything, and the file may still grow.                                   *)
(* recorder/src/finalizer/fragments.rs                                      *)
(***************************************************************************)
EXTENDS SequencesExt, Integers

CONSTANTS Rate,          \* the frame rate that is to be proved, as a rational
          Scales,        \* timescales that a movie may have
          MaxSeconds,    \* MAX_REPLAY_DURATION_SECONDS
          Durations, SampleSizes, Shifts,   \* of one sample
          MaxBytes, MaxRuns, MaxSamples     \* of a media box, a file, a run

\* What the constants must satisfy.
ScanAssumption ==
    /\ Rate \in (Nat \ {0}) \X (Nat \ {0}) /\ Scales \subseteq Nat /\ MaxSeconds \in Nat
    /\ Durations \subseteq Nat /\ SampleSizes \subseteq Nat /\ 0 \in Shifts /\ Shifts \subseteq Int

VARIABLES at,
          timing,     \* VideoTiming, None before the movie header
          fragment,   \* the media box of a fragment and the track fragment that is read
          grown,      \* whether the file has changed since it was opened
          truth, sounds   \* the samples that a player finds in what was passed, and audio

vars == <<at, timing, fragment, grown, truth, sounds>>

None == <<>>
NoFragment == [bytes |-> 0, start |-> 0, next |-> 0, end |-> None, runs |-> 0]

Init == /\ at = "boxes" /\ timing = None /\ fragment = NoFragment /\ grown = FALSE
        /\ truth = <<>> /\ sounds = 0

Refuse == at' = "refused" /\ UNCHANGED <<timing, fragment, grown, truth, sounds>>

\* video_track, defaults: one video track without samples of its own, in one open edit
\* that moves nothing, with one description and a time scale that counts whole frames.
ReadMovie ==
    /\ at = "boxes"
    /\ \E videos, audios \in 0 .. 2, plain \in BOOLEAN, scale \in Scales :
        IF /\ timing = None /\ videos = 1 /\ audios <= 1 /\ plain /\ scale > 0
           /\ (scale * Rate[2]) % Rate[1] = 0
        THEN /\ timing' = [scale |-> scale, step |-> (scale * Rate[2]) \div Rate[1],
                           samples |-> 0, end |-> 0, audio |-> audios = 1, sounds |-> 0]
             /\ UNCHANGED <<at, fragment, grown, truth, sounds>>
        ELSE Refuse

\* A moof, and an mdat that is whole.
ReadFragment ==
    /\ at = "boxes" /\ Len(truth) < MaxRuns
    /\ IF timing = None THEN Refuse
       ELSE /\ \E bytes \in 1 .. MaxBytes : fragment' = [NoFragment EXCEPT !.bytes = bytes]
            /\ at' = "moof" /\ UNCHANGED <<timing, grown, truth, sounds>>

\* A track fragment of audio is counted; of others nothing is read.
ReadAudio ==
    /\ at = "moof" /\ timing.audio /\ sounds < MaxSamples
    /\ sounds' = sounds + 1 /\ timing' = [timing EXCEPT !.sounds = @ + 1]
    /\ UNCHANGED <<at, fragment, grown, truth>>

\* track_fragment, up to its runs.
ReadVideo ==
    /\ at = "moof" /\ Len(truth) < MaxRuns
    /\ \E start \in 0 .. timing.scale * MaxSeconds :
        IF start # timing.end THEN Refuse
        ELSE /\ at' = "traf"
             /\ fragment' = [fragment EXCEPT !.start = start, !.next = start, !.end = None, !.runs = 0]
             /\ UNCHANGED <<timing, grown, truth, sounds>>

-----------------------------------------------------------------------------
Samples == [duration : Durations, size : SampleSizes, shift : Shifts]
Total(samples, field) == FoldLeft(LAMBDA sum, s : sum + s[field], 0, samples)

\* Where the run begins: its own offset, or the end of the run before it.
Begins(offset) == IF offset # None THEN offset ELSE fragment.end

\* Mutant: the sum of the durations is on the grid.
OnGridInSum(samples, begin) ==
    /\ Total(samples, "duration") = Len(samples) * timing.step
    /\ \A i \in DOMAIN samples : samples[i].size > 0 /\ samples[i].shift = 0

OnGrid(samples, begin) ==
    \A i \in DOMAIN samples :
        samples[i].duration = timing.step /\ samples[i].size > 0 /\ samples[i].shift = 0

Acceptable(samples, offset) ==
    LET begin == Begins(offset)[1]
    IN  /\ samples # <<>> /\ Begins(offset) # None
        /\ timing.end + Len(samples) * timing.step <= timing.scale * MaxSeconds
        /\ begin \in 0 .. fragment.bytes - 1
        /\ OnGrid(samples, begin)
        /\ begin + Total(samples, "size") <= fragment.bytes
        /\ fragment.end # None => begin >= fragment.end[1]

\* What a player makes of the run, by the durations that are written in it.
Played(samples, begin) ==
    [i \in DOMAIN samples |->
        [shown |-> fragment.next + Total(SubSeq(samples, 1, i - 1), "duration") + samples[i].shift,
         until |-> fragment.next + Total(SubSeq(samples, 1, i), "duration"),
         from |-> begin + Total(SubSeq(samples, 1, i - 1), "size"),
         past |-> begin + Total(SubSeq(samples, 1, i), "size"), box |-> fragment.bytes]]

ReadRun ==
    /\ at = "traf" /\ Len(truth) < MaxRuns
    /\ \E samples \in SeqOf(Samples, MaxSamples), offset \in {None} \cup {<<i>> : i \in -1 .. MaxBytes} :
        IF ~Acceptable(samples, offset) THEN Refuse
        ELSE LET begin == Begins(offset)[1]
             IN  /\ timing' = [timing EXCEPT !.samples = @ + Len(samples),
                                             !.end = @ + Len(samples) * timing.step]
                 /\ fragment' = [fragment EXCEPT !.end = <<begin + Total(samples, "size")>>,
                                                 !.next = @ + Total(samples, "duration"),
                                                 !.runs = @ + 1]
                 /\ truth' = Append(truth, Played(samples, begin))
                 /\ UNCHANGED <<at, grown, sounds>>

EndVideo ==
    /\ at = "traf"
    /\ IF fragment.runs = 0 THEN Refuse
       ELSE at' = "moof" /\ UNCHANGED <<timing, fragment, grown, truth, sounds>>
EndFragment ==
    /\ at = "moof" /\ at' = "boxes" /\ fragment' = NoFragment
    /\ UNCHANGED <<timing, grown, truth, sounds>>

\* The last box ends where the file ended when it was opened.
ReadEnd ==
    /\ at = "boxes"
    /\ IF timing = None \/ timing.samples = 0 \/ grown THEN Refuse
       ELSE at' = "proved" /\ UNCHANGED <<timing, fragment, grown, truth, sounds>>

\* A box of no such size, the number of boxes, the deadline, or a failed read.
Fails == at \in {"boxes", "moof", "traf"} /\ Refuse
Grows == /\ ~grown /\ grown' = TRUE /\ at \in {"boxes", "moof", "traf"}
         /\ UNCHANGED <<at, timing, fragment, truth, sounds>>

Next == \/ ReadMovie \/ ReadFragment \/ ReadAudio \/ ReadVideo \/ ReadRun \/ EndVideo
        \/ EndFragment \/ ReadEnd \/ Fails \/ Grows
Spec == Init /\ [][Next]_vars

-----------------------------------------------------------------------------
\* What is proved is what a player shows: as many frames as were counted, each of them
\* for one frame's time, in the order they are stored, and each within its own media box.
ScanIsSound ==
    at = "proved" =>
        LET shown == FlattenSeq(truth)
        IN  /\ ~grown /\ Len(shown) = timing.samples /\ timing.samples > 0
            /\ timing.sounds = sounds
            /\ timing.end = timing.samples * timing.step
            /\ timing.step * Rate[1] = timing.scale * Rate[2]
            /\ \A i \in DOMAIN shown :
                /\ shown[i].shown = (i - 1) * timing.step /\ shown[i].until = i * timing.step
                /\ shown[i].from < shown[i].past /\ shown[i].past <= shown[i].box
=============================================================================
