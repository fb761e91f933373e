-------------------------------- MODULE AppMC --------------------------------
(***************************************************************************)
(* What the app and the recorder do with finished and unfinished media,    *)
(* part by part: the changes that the user makes to a library, the leases  *)
(* and connections of the playback server, the index that it serves, the   *)
(* arithmetic of replay time, the choice of an encoder, a session of       *)
(* FFmpeg, the scan of a finished file, the preparation of League data,    *)
(* and the controller of the video element of the viewer.  A behaviour     *)
(* chooses one part and leaves the others where they start.                *)
(***************************************************************************)
EXTENDS ReplayTime

CONSTANTS Bundles, Media, MaxResult, MaxBatches, ImportBatches, MaxEdits, MaxFaults

VARIABLES part,
          path, stamp, moves, directory, call, calls, socket, opening, metrics, ring,
          at, offset, videoTrack, audioTrack, truth,
          request, pair, rung, working, trial, seen, plan,
          child, pipe, reader, evidence, session, faults,
          place, timing, fragment, grown, played, heard,
          source, hints, retry, games, completed, rows, token, job, watch,
          deferred, edits, troubles,
          alias, recording, clip, taken, viewer, aged, lease, work, broken, events,
          player, asks, upsets

playbackVars == <<path, stamp, moves, directory, call, calls, socket, opening, metrics, ring>>
indexVars == <<at, offset, videoTrack, audioTrack, truth>>
planVars == <<request, pair, rung, working, trial, seen, plan>>
ffmpegVars == <<child, pipe, reader, evidence, session, faults>>
scanVars == <<place, timing, fragment, grown, played, heard>>
leagueVars == <<source, watch, hints, retry, games, completed, rows, token, job, deferred,
                edits, troubles>>
mutationVars == <<alias, recording, clip, taken, viewer, aged, lease, work, broken, events>>
playerVars == <<player, asks, upsets>>

\* Descriptors of two roots without a connection, and connections to one.
Leases == INSTANCE PlaybackServer WITH
    Roots <- {"r", "s"}, Callers <- {1, 2}, Sockets <- {}, MaxConnections <- 1,
    MaxRequests <- 1, LeaseCapacity <- 2, CacheCapacity <- 1, RingCapacity <- 1,
    Length <- 3, Start <- 1, Prefix <- 2, MaxFiles <- 1, MaxWrites <- 2, MaxMoves <- 1,
    MaxCalls <- 3, job <- opening
Connections == INSTANCE PlaybackServer WITH
    Roots <- {"r"}, Callers <- {1}, Sockets <- {1, 2}, MaxConnections <- 1,
    MaxRequests <- 2, LeaseCapacity <- 1, CacheCapacity <- 1, RingCapacity <- 1,
    Length <- 3, Start <- 1, Prefix <- 1, MaxFiles <- 2, MaxWrites <- 1, MaxMoves <- 1,
    MaxCalls <- 1, job <- opening

Index == INSTANCE ReplayIndex WITH
    FrameCount <- 4, FrameStep <- 1, AudioPresent <- TRUE, AudioEnd <- 3,
    SourceStart <- 5, MaxReferences <- 3, Sizes <- {3, 4}, Durations <- 0 .. 2, Ids <- {1, 2},
    video <- videoTrack, audio <- audioTrack

\* Twelve ticks in a second (App.cfg); grids that do and do not divide it.
MCBases == {<<1, 6>>, <<2, 4>>}
MCFrameRates == {<<3, 1>>, <<4, 2>>, <<3, 2>>}
MCPts == {-1, 0, 2}
MCIntercepts == {<<-4>>, <<0>>, <<5>>}

Choice == INSTANCE RecordingPlan WITH
    Encoders <- <<"nvenc", "amf">>, Ladder <- <<"high", "medium", "low">>,
    MaxSize <- [p \in {"high", "medium", "low"} |-> IF p = "low" THEN <<6, 4>> ELSE <<8, 5>>],
    Sources <- {<<8, 5>>, <<5, 9>>, <<12, 3>>, <<3, 20>>, <<1, 1>>, <<16, 10>>}

Ffmpeg == INSTANCE FfmpegSession WITH MaxFrames <- 2, MaxLines <- 2, MaxFaults <- 1

File == INSTANCE FragmentScan WITH
    Rate <- <<2, 1>>, Scales <- {0, 3, 4}, MaxSeconds <- 2, Durations <- {1, 2, 3},
    SampleSizes <- 0 .. 2, Shifts <- {0, 1}, MaxBytes <- 4, MaxRuns <- 2, MaxSamples <- 2,
    at <- place, truth <- played, sounds <- heard

League == INSTANCE LeaguePreparation WITH faults <- troubles

\* Two apps that change one recording, and one app while others come between.
Shared == INSTANCE LibraryMutation WITH
    Processes <- {"v", "w"}, Operations <- {"save", "unsave", "retention"},
    MaxEvents <- 1, reader <- viewer
Alone == INSTANCE LibraryMutation WITH
    Processes <- {"v"}, Operations <- {"delete", "retention", "archive", "clip"}, MaxEvents <- 2,
    reader <- viewer

Viewer == INSTANCE PlaybackController WITH
    End <- 1, Attempts <- 1, MaxCalls <- 3, MaxTroubles <- 1, calls <- asks, troubles <- upsets

ASSUME AppAssumption ==
    /\ Leases!PlaybackAssumption /\ Connections!PlaybackAssumption /\ Index!IndexAssumption
    /\ TimeAssumption /\ Choice!PlanAssumption /\ Ffmpeg!FfmpegAssumption
    /\ File!ScanAssumption /\ League!PreparationAssumption
    /\ Shared!MutationAssumption /\ Alone!MutationAssumption
    /\ Viewer!PlayerAssumption

Parts == {"leases", "connections", "index", "time", "plan", "ffmpeg", "file",
          "changing", "ambiguous", "shared", "alone", "viewer"}

\* The choice of an encoder has many requests, when it runs.
AppInit ==
    /\ part \in Parts
    /\ IF part = "connections" THEN Connections!Init ELSE Leases!Init
    /\ Index!Init /\ Init /\ Choice!Init /\ Ffmpeg!Init /\ File!Init
    /\ part # "plan" => /\ request.codec = "auto" /\ request.playable /\ request.profile = "auto"
                        /\ request.source = <<1, 1>> /\ request.advertised = {}
    /\ part \notin {"leases", "connections"} => directory.root = "r"
    /\ League!Init
    /\ part \notin {"changing", "ambiguous"} => watch
    /\ IF part = "shared" THEN Shared!Init ELSE Alone!Init
    /\ part \notin {"shared", "alone"} => recording = Alone!Untouched
    /\ Viewer!Init

PlaybackNext ==
    \/ part = "leases" /\ Leases!Next
    \/ part = "connections" /\ Connections!Next

\* One bundle that changes often and no fault; then fewer changes, of bundles that claim
\* the same identity (App.cfg).
LeagueNext ==
    /\ League!Next
    /\ \/ part = "changing" /\ troubles' = 0 /\ \A b \in Bundles : b > 1 => source'[b] = League!Gone
       \/ part = "ambiguous" /\ edits' < MaxEdits

MutationNext ==
    \/ part = "shared" /\ Shared!Next
    \/ part = "alone" /\ Alone!Next

AppNext ==
    /\ \/ /\ PlaybackNext
          /\ UNCHANGED <<indexVars, vars, planVars, ffmpegVars, scanVars, leagueVars, mutationVars,
                         playerVars>>
       \/ /\ part = "index" /\ Index!Next
          /\ UNCHANGED <<playbackVars, vars, planVars, ffmpegVars, scanVars, leagueVars, mutationVars,
                         playerVars>>
       \/ /\ part = "time" /\ Next
          /\ UNCHANGED <<playbackVars, indexVars, planVars, ffmpegVars, scanVars, leagueVars, mutationVars,
                         playerVars>>
       \/ /\ part = "plan" /\ Choice!Next
          /\ UNCHANGED <<playbackVars, indexVars, vars, ffmpegVars, scanVars, leagueVars, mutationVars,
                         playerVars>>
       \/ /\ part = "ffmpeg" /\ Ffmpeg!Next
          /\ UNCHANGED <<playbackVars, indexVars, vars, planVars, scanVars, leagueVars, mutationVars,
                         playerVars>>
       \/ /\ part = "file" /\ File!Next
          /\ UNCHANGED <<playbackVars, indexVars, vars, planVars, ffmpegVars, leagueVars, mutationVars,
                         playerVars>>
       \/ /\ LeagueNext
          /\ UNCHANGED <<playbackVars, indexVars, vars, planVars, ffmpegVars, scanVars, mutationVars,
                         playerVars>>
       \/ /\ MutationNext
          /\ UNCHANGED <<playbackVars, indexVars, vars, planVars, ffmpegVars, scanVars, leagueVars,
                         playerVars>>
       \/ /\ part = "viewer" /\ Viewer!Next
          /\ UNCHANGED <<playbackVars, indexVars, vars, planVars, ffmpegVars, scanVars, leagueVars,
                         mutationVars>>
    /\ UNCHANGED part

\* The fairness of each part, while it is the one that runs.
Fairness ==
    /\ WF_planVars(part = "plan" /\ (Choice!Skip \/ Choice!Launch))
    /\ WF_planVars(part = "plan" /\ Choice!Kill) /\ WF_planVars(part = "plan" /\ Choice!Reaped)
    /\ WF_ffmpegVars(part = "ffmpeg" /\ Ffmpeg!Recorder)
    /\ WF_leagueVars(part \in {"changing", "ambiguous"} /\ League!Worker)
    /\ WF_leagueVars(part \in {"changing", "ambiguous"} /\ League!Rescan)

AppSpec ==
    /\ AppInit /\ Fairness
    /\ [][AppNext]_<<part, playbackVars, indexVars, vars, planVars, ffmpegVars, scanVars, leagueVars,
                     mutationVars, playerVars>>

\* A lease and a response show one version of one file of the approved root, the
\* bytes that were asked for and no others, and the connections, the leases and
\* the counters keep to their bounds; the index that is served refers to whole
\* fragments of the file and to all of it.  No app removes a recording that another
\* one has saved, or part of one, or anything in another library.
FilesAreSound ==
    /\ part = "leases" => Leases!DeliveryIsSound
    /\ part = "connections" => Connections!DeliveryIsSound
    /\ part = "index" => Index!IndexIsSound
    /\ part = "shared" => Shared!MutationIsSound
    /\ part = "alone" => Alone!MutationIsSound

\* A timeline is the exact time of every frame and of the sound, a clip covers
\* what it was cut for, a game time maps to the frame on screen, spellings are
\* canonical, and a scan accepts a file only if a player finds in it every frame
\* where its grid says.  The plan of an encoder is the best that works and fits the
\* screen, and what a session hands on has its whole video, backed by what FFmpeg
\* reported.  The viewer sees where it wants to be: every call of it is answered once,
\* a position counts when a frame of it has been shown, and no recovery forgets where
\* the viewer was going or that it paused.
MediaIsExact ==
    /\ part = "time" => /\ TimelineIsExact /\ ClipCovers /\ ExportsAreCovered
                        /\ MappingIsExact /\ WiresAreCanonical
    /\ part = "file" => File!ScanIsSound
    /\ part = "plan" => Choice!PlanIsSound
    /\ part = "ffmpeg" => Ffmpeg!SessionIsSound
    /\ part = "viewer" => Viewer!PlayerIsSound

\* A recording that readers find ready shows all of its journal, and card facts
\* are those of the version on disk.
PreparationIsSound == part \in {"changing", "ambiguous"} => League!LeagueIndexIsSound

\* A choice of the encoder, a session and the preparation of every recording come
\* to their end.
EverythingEnds ==
    /\ part = "plan" => Choice!ChoiceEnds
    /\ part = "ffmpeg" => Ffmpeg!SessionEnds
    /\ part \in {"changing", "ambiguous"} => League!EverythingIsPrepared
=============================================================================
