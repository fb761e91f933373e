------------------------------ MODULE RecorderMC ------------------------------
(***************************************************************************)
(* What the recorder keeps of a game beside its video: the three parts of  *)
(* its telemetry, the post-game jobs, the match history and the context of *)
(* the League client, each checked on its own.  A behaviour chooses one of *)
(* them and leaves the others where they start.                            *)
(***************************************************************************)
EXTENDS Integers

CONSTANTS GameStats, ActivePlayer, PlayerList, Samples, MaxTick,
          MaxPackets, Slots, ControlSlots, PageBatches,
          p1, p2, p3, EventIds, Variants, EventCapacity, MaxRows, MaxEpoch, MaxBatch,
          Media, Capacity, MaxPending, MaxAsked, Expiry, Cadence, MaxTime, MaxCrashes,
          Recording, GameOf, MaxJobs, MaxTries, MaxCrash,
          RoundCadence, Freshness, Separation, LiveAge, Horizon, MaxRestarts, MaxGame,
          Leaves, Games, MaxWrites, MaxMoves

Order == <<GameStats, PlayerList, ActivePlayer>>
MaxAttempts == [x \in {GameStats, PlayerList, ActivePlayer} |-> IF x = PlayerList THEN 2 ELSE 3]
Players == {p1, p2, p3}
Rosters == {{p1, p2}, {p1, p3}}

VARIABLES part,
          stage, todo, slot, scope, reset, clock, rounds, local, cancel, identityOpen,
          shown, given, made,
          producer, gate, queue, flags, worker, session, disk, reader, admitted,
          writer, poisoned, journal, commits, checkpoint, truth,
          time, skew, crashes, recording, folder, sidecar, asked, cancelled,
          ledger, channel, failed, stop, place, jobs, last, flight, broken, writing,
          ended, allocation, facts, history, deaths, saved, submitted, stopping,
          at, matches, dirty, current,
          now, client, game, since, live, step, round, nextRound, nextTry,
          lastSequence, pending, candidate, closed, snapshot,
          atPath, removed, core, files, partial, temps, writes, begun, installs, moves

acquisitionVars == <<stage, todo, slot, scope, reset, clock, rounds, local, cancel,
                     identityOpen, shown, given, made>>
writerVars == <<producer, gate, queue, flags, worker, session, disk, reader, admitted>>
normalizationVars == <<writer, poisoned, journal, commits, checkpoint, truth>>
telemetryVars == <<acquisitionVars, writerVars, normalizationVars>>
postGameVars == <<time, skew, crashes, recording, folder, sidecar, asked, cancelled,
                  ledger, channel, failed, stop, place, jobs, last, flight, broken, writing>>
historyVars == <<ended, allocation, facts, history, deaths, saved, submitted, stopping,
                 at, matches, dirty, current>>
contextVars == <<now, client, game, since, live, step, round, nextRound, nextTry,
                 lastSequence, pending, candidate, closed, snapshot>>
sidecarVars == <<atPath, removed, core, files, partial, temps, writes, begun, installs, moves>>
leagueVars == <<postGameVars, historyVars, contextVars, sidecarVars>>

Acquisition == INSTANCE TelemetryAcquisition
Writer == INSTANCE TelemetryWriter
Normalization == INSTANCE TelemetryNormalization

Enrichment == INSTANCE PostGame WITH MaxAttempts <- MaxAsked, disk <- ledger
History == INSTANCE MatchHistory WITH queue <- submitted, jobs <- matches
Context == INSTANCE LeagueContext WITH slot <- nextRound
Sidecars == INSTANCE SidecarFiles

\* Two recordings of one game and one of another, for two places in the ledger (Recorder.cfg).
MCGameOf == <<1, 1, 2>>

ASSUME RecorderAssumption ==
    /\ Writer!WriterAssumption /\ Enrichment!PostGameAssumption
    /\ History!HistoryAssumption /\ Context!ContextAssumption /\ Sidecars!SidecarAssumption

Parts == {"acquisition", "writer", "normalization", "alone", "crowd", "history", "context",
          "telemetry", "facts"}

Init ==
    /\ part \in Parts
    /\ Acquisition!Init /\ Writer!Init /\ Normalization!Init
    /\ Enrichment!Init /\ History!Init /\ Context!Init /\ Sidecars!Init

AcquisitionNext ==
    /\ part = "acquisition" /\ Acquisition!Next
    /\ UNCHANGED <<part, writerVars, normalizationVars, leagueVars>>
WriterNext ==
    /\ part = "writer" /\ Writer!Next
    /\ UNCHANGED <<part, acquisitionVars, normalizationVars, leagueVars>>
NormalizationNext ==
    /\ part = "normalization" /\ Normalization!Next
    /\ UNCHANGED <<part, acquisitionVars, writerVars, leagueVars>>

\* One job through crashes and retries; and three jobs that share requests and two
\* places in the ledger, while the clock stands still, no cancellation arrives and the
\* last recording is not published.
PostGameNext ==
    /\ part \in {"alone", "crowd"} /\ Enrichment!Next
    /\ \/ /\ part = "alone"
          /\ \A m \in Media : m > 1 => recording'[m] = "capturing"
       \/ /\ part = "crowd" /\ time' = 1 /\ crashes' = 0 /\ cancelled' = {}
          /\ \A m \in Media : m > 2 => recording'[m] # "done"
    /\ UNCHANGED <<part, telemetryVars, historyVars, contextVars, sidecarVars>>

\* Two recordings of one game through crashes, and three recordings without them.
HistoryNext ==
    /\ part = "history" /\ History!Next
    /\ deaths' = 0 \/ 3 \notin ended'
    /\ UNCHANGED <<part, telemetryVars, postGameVars, contextVars, sidecarVars>>
ContextNext ==
    /\ part = "context" /\ Context!Next
    /\ UNCHANGED <<part, telemetryVars, postGameVars, historyVars, sidecarVars>>

\* What telemetry and the result add to a directory, and, with one move more, what is
\* said of the game.
SidecarNext ==
    /\ part \in {"telemetry", "facts"} /\ Sidecars!Next
    /\ \/ part = "telemetry" /\ moves' < MaxMoves /\ begun'["history"] = 0
       \/ part = "facts" /\ begun'["journal"] = 0 /\ begun'["checkpoint"] = 0
    /\ UNCHANGED <<part, telemetryVars, postGameVars, historyVars, contextVars>>

Next == AcquisitionNext \/ WriterNext \/ NormalizationNext
        \/ PostGameNext \/ HistoryNext \/ ContextNext \/ SidecarNext

Spec == Init /\ [][Next]_<<part, telemetryVars, leagueVars>>

\* Acquisition: the epoch of a source is one for the writer, the journal and what
\* is shown of the game, and backpressure neither loses nor repeats an attempt of
\* an endpoint.  Writer: what was acknowledged can be recovered in order, what
\* points into the journal points to what can be recovered, and the records that
\* account for a loss find room.  Normalization: readers of the journal know what
\* its writer was told.
TelemetryIsSound ==
    /\ part = "acquisition" =>
          /\ Acquisition!WriterTakesEverything /\ Acquisition!PresentedIsCurrent
          /\ Acquisition!AttemptsAreAccountedFor
    /\ part = "writer" =>
          /\ Writer!JournalIsDurable /\ Writer!HintsAreCommitted
          /\ Writer!ImportIsPrefix /\ Writer!ControlHasRoom
    /\ part = "normalization" =>
          /\ Normalization!RostersDecode /\ Normalization!RevisionsRestore
          /\ Normalization!CheckpointIsCurrent

\* A post-game request is made and a result installed for what the ledger on
\* disk accounts for, in every order of commands, saves, responses and crashes:
\* RequestsWereReserved, ActsOnSavedJobs, ResultsFollowPublication, LedgerIsValid.
PostGameIsSound ==
    part \in {"alone", "crowd"} =>
        /\ Enrichment!RequestsWereReserved /\ Enrichment!ActsOnSavedJobs
        /\ Enrichment!ResultsFollowPublication /\ Enrichment!LedgerIsValid

\* What is closed in the ledger stays closed.
ClosedStaysClosed == Enrichment!ClosedStaysClosed

\* The match history and the provisional context tell of the recording's own
\* game, whatever the client, the files and the process do in between; what is
\* added to a directory is added whole, to the recording's own and about its own
\* game: HistoryIsSound, ContextIsSound, SidecarsAreSound.
LeagueFactsAreSound ==
    /\ part = "history" => History!HistoryIsSound
    /\ part = "context" => Context!ContextIsSound
    /\ part \in {"telemetry", "facts"} => Sidecars!SidecarsAreSound
=============================================================================
