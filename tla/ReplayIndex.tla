----------------------------- MODULE ReplayIndex -----------------------------
(***************************************************************************)
(* The segment index of a recording: one pass over the boxes of a           *)
(* fragmented MP4 that the recorder, or anything else, wrote.  What it      *)
(* accepts gets one reference per fragment and track, of a size and a       *)
(* duration; players add them up to find bytes and times.  Each read may    *)
(* meet anything, or fail.                                                  *)
(* app/src-tauri/src/replay_index.rs                                        *)
(***************************************************************************)
EXTENDS SequencesExt, Integers

CONSTANTS FrameCount, FrameStep,   \* what the timeline says of the video
          AudioPresent, AudioEnd,  \* and of the audio
          SourceStart,             \* size of ftyp and moov
          MaxReferences,
          Sizes, Durations, Ids    \* what fragments and tracks may have

\* What the constants must satisfy.
IndexAssumption ==
    /\ FrameCount \in Nat \ {0} /\ FrameStep \in Nat \ {0} /\ SourceStart \in Nat
    /\ AudioPresent \in BOOLEAN /\ AudioEnd \in Nat /\ MaxReferences \in Nat
    /\ Sizes \subseteq Nat \ {0} /\ Durations \subseteq Nat

VARIABLES at, offset, video, audio,
          truth    \* the fragments that were passed: where they are and what they hold

vars == <<at, offset, video, audio, truth>>

None == <<>>
NewTrack(id) == [id |-> id, end |-> 0, frames |-> 0, refs |-> <<>>]
Init ==
    /\ at = "movie" /\ offset = 0 /\ truth = <<>>
    /\ video = None /\ audio = None

Refuse == at' = "refused" /\ UNCHANGED <<offset, video, audio, truth>>

\* movie: one video track, at most one of audio, and exactly one trex for each.
Trexed(tracks, trex) ==
    Range(trex) = {tracks[i].id : i \in DOMAIN tracks} /\ IsInjective(trex)
        /\ Len(trex) = Len(tracks)

Tracks == SeqOf([picture : BOOLEAN, id : Ids], 2)
ReadMovie ==
    /\ at = "movie"
    /\ \E tracks \in Tracks, trex \in SeqOf(Ids, 2) :
        LET pictures == SelectSeq(tracks, LAMBDA t : t.picture)
            sounds == SelectSeq(tracks, LAMBDA t : ~t.picture)
        IN  IF /\ Len(pictures) = 1 /\ Len(sounds) <= 1
               /\ Trexed(tracks, trex)
               /\ AudioPresent = (sounds # <<>>)
            THEN /\ video' = NewTrack(pictures[1].id)
                 /\ audio' = IF sounds = <<>> THEN None ELSE NewTrack(sounds[1].id)
                 /\ at' = "fragments" /\ offset' = SourceStart /\ UNCHANGED truth
            ELSE Refuse

\* A run of samples: where it begins in its track, its durations, and the bytes of
\* it in the fragment.
Runs(size) ==
    [start : 0 .. FrameCount * FrameStep, durations : SeqOf(Durations, 2) \ {<<>>},
     from : 0 .. size, to : 0 .. size]

Total(durations) == FoldLeft(LAMBDA sum, d : sum + d, 0, durations)

\* run: it goes on where its track ended, each sample lasts, a frame of video as long
\* as the timeline says, and its bytes are in the data.
Continues(track, run, size, step) ==
    /\ run.start = track.end
    /\ \A i \in DOMAIN run.durations :
        run.durations[i] # 0 /\ (step # 0 => run.durations[i] = step)
    /\ run.from >= 1 /\ run.to > run.from

\* Mutant: the reference has the size of the run.
ExtendedByRun(track, run, size) ==
    [track EXCEPT !.end = @ + Total(run.durations), !.frames = @ + Len(run.durations),
                  !.refs = Append(@, [size |-> run.to - run.from, duration |-> Total(run.durations)])]

Extended(track, run, size) ==
    [track EXCEPT !.end = @ + Total(run.durations), !.frames = @ + Len(run.durations),
                  !.refs = Append(@, [size |-> size, duration |-> Total(run.durations)])]

Overlap(a, b) == a.from < b.to /\ b.from < a.to

\* One fragment: its moof and mdat, with a run of the video and perhaps of the audio,
\* which may end before the video but not pause.
ReadFragment ==
    /\ at = "fragments" /\ Len(video.refs) < MaxReferences
    /\ \E size \in Sizes : \E picture \in {r \in Runs(size) : Continues(video, r, size, FrameStep)} :
        LET sounds == IF audio = None \/ Len(audio.refs) # Len(video.refs) THEN {}
                      ELSE {r \in Runs(size) : Continues(audio, r, size, 0) /\ ~Overlap(picture, r)}
        IN  \E sound \in {None} \cup sounds :
                /\ video' = Extended(video, picture, size)
                /\ audio' = IF sound = None THEN audio ELSE Extended(audio, sound, size)
                /\ offset' = offset + size
                /\ truth' = Append(truth, [at |-> offset, picture |-> picture.start,
                                           sound |-> IF sound = None THEN None ELSE <<sound.start>>])
    /\ UNCHANGED at

\* The file ends, or its trailer begins.
Complete ==
    /\ video.refs # <<>> /\ video.end = FrameCount * FrameStep /\ video.frames = FrameCount
    /\ audio # None => audio.refs # <<>> /\ audio.end = AudioEnd

ReadEnd ==
    /\ at = "fragments"
    /\ IF Complete THEN at' = "indexed" /\ UNCHANGED <<offset, video, audio, truth>>
       ELSE Refuse

\* Any other fragment, a failed read, or the time or bytes of a preparation.
Fails == at \in {"movie", "fragments"} /\ Refuse

Next == ReadMovie \/ ReadFragment \/ ReadEnd \/ Fails
Spec == Init /\ [][Next]_vars

-----------------------------------------------------------------------------
(* write_sidx.                                                               *)

SidxSize(track) == 40 + 12 * Len(track.refs)

\* The prefix is the initialization, the index of the audio and that of the video;
\* the fragments follow.
PrefixLength == SourceStart + SidxSize(video) + (IF audio = None THEN 0 ELSE SidxSize(audio))
FirstOffset(track) == IF track = audio THEN SidxSize(video) ELSE 0
EndOfSidx(track) == IF track = audio THEN SourceStart + SidxSize(audio) ELSE PrefixLength

Sum(refs, field) == FoldLeft(LAMBDA sum, r : sum + r[field], 0, refs)

\* Where a player finds the i-th reference in the file that is delivered, and when.
Position(track, i) ==
    EndOfSidx(track) + FirstOffset(track) + Sum(SubSeq(track.refs, 1, i - 1), "size")
Time(track, i) == Sum(SubSeq(track.refs, 1, i - 1), "duration")

\* Each reference leads to its own fragment, at the time of its first sample, in
\* the video and in the audio.
ReferencesReachTheirFragments ==
    at = "indexed" =>
        /\ \A i \in DOMAIN video.refs :
            /\ Position(video, i) - PrefixLength = truth[i].at - SourceStart
            /\ Time(video, i) = truth[i].picture
        /\ audio # None => \A i \in DOMAIN audio.refs :
            /\ Position(audio, i) - PrefixLength = truth[i].at - SourceStart
            /\ <<Time(audio, i)>> = truth[i].sound

\* An index covers the whole file and exactly the frames of the timeline, with one
\* reference for each fragment that has the track, and tracks that can be told apart.
IndexIsComplete ==
    at = "indexed" =>
        /\ Len(video.refs) = Len(truth) /\ Len(truth) <= MaxReferences
        /\ offset = SourceStart + Sum(video.refs, "size")
        /\ Sum(video.refs, "duration") = FrameCount * FrameStep
        /\ AudioPresent = (audio # None)
        /\ audio # None =>
            /\ audio.id # video.id
            /\ Len(audio.refs) = Len(SelectSeq(truth, LAMBDA t : t.sound # None))
            /\ Sum(audio.refs, "duration") = AudioEnd

IndexIsSound == ReferencesReachTheirFragments /\ IndexIsComplete
=============================================================================
