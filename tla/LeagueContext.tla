---------------------------- MODULE LeagueContext ----------------------------
(***************************************************************************)
(* The provisional context of a recording: the collector reads rounds from *)
(* the client (league_client/collector.rs, transport.rs), pairs them with  *)
(* the poller's live observations and, after two coherent rounds in a row, *)
(* holds a candidate (association.rs).  The client may restart, the game   *)
(* may change and the recording may close between any two steps, and the   *)
(* requests of a round are made one after the other.                       *)
(***************************************************************************)
EXTENDS Integers, FiniteSetsExt

CONSTANTS RoundCadence,   \* CADENCE
          Freshness,      \* FRESHNESS
          Separation,     \* MIN_SEPARATION .. MAX_SEPARATION
          LiveAge,        \* how recent a live observation starts a round
          Horizon,        \* bound: the clock stops here
          MaxRestarts,    \* bound: restarts of the client
          MaxGame         \* bound: games that are played

\* What the constants must satisfy.
ContextAssumption ==
    /\ {RoundCadence, Freshness, Horizon, MaxGame} \subseteq Nat \ {0}
    /\ Separation \subseteq Nat /\ LiveAge \in Nat /\ MaxRestarts \in Nat

Nothing == [game |-> 0]

VARIABLES now,        \* the clock; the recording starts at 0
          client,     \* the client process: its epoch, and whether it answers
          game,       \* the game that is played
          since,      \* when the process and the game began
          live,       \* the poller's latest observation
          step, round, slot, nextTry, lastSequence,   \* the collector
          pending, candidate, closed, snapshot         \* the association

surroundings == <<now, client, game, since, live>>
collector == <<step, round, slot, nextTry, lastSequence>>
association == <<pending, candidate, closed, snapshot>>
vars == <<surroundings, collector, association>>

NoLive == [sequence |-> 0, started |-> 0, finished |-> 0, game |-> 0]
NoRound == [epoch |-> 0, started |-> 0, finished |-> 0, player |-> 0, game |-> 0]
-----------------------------------------------------------------------------
Elapse ==
    /\ now < Horizon /\ now' = now + 1
    /\ UNCHANGED <<client, game, since, live, collector, association>>
ClientRestarts ==
    /\ client <= MaxRestarts /\ client' = client + 1
    /\ since' = [since EXCEPT !.client = now]
    /\ UNCHANGED <<now, game, live, collector, association>>
GameChanges ==
    /\ game < MaxGame /\ game' = game + 1
    /\ since' = [since EXCEPT !.game = now]
    /\ UNCHANGED <<now, client, live, collector, association>>

\* The poller observes the game that runs; a failed snapshot has no identity.
Observes ==
    /\ ~closed
    /\ \E start \in Max({now - 1, live.started + 1}) .. now, seen \in {0, game} :
          /\ seen # 0 => since.game <= start
          /\ live' = [sequence |-> live.sequence + 1, started |-> start,
                      finished |-> now, game |-> seen]
    /\ live.sequence < Horizon
    /\ UNCHANGED <<now, client, game, since, collector, association>>
-----------------------------------------------------------------------------
(* The collector. *)

Accepting == ~closed /\ candidate = Nothing

\* A round begins after a recent live observation that was not used before.
Await ==
    /\ step = "await"
    /\ IF ~Accepting THEN step' = "ended" /\ UNCHANGED nextTry
       ELSE /\ live.sequence > lastSequence /\ now - live.started <= LiveAge
            /\ step' = "discover" /\ nextTry' = now + RoundCadence
    /\ round' = NoRound
    /\ UNCHANGED <<surroundings, slot, lastSequence, association>>

\* discover: the credentials of the process that runs, or no client.
Discover ==
    /\ step = "discover"
    /\ \/ step' = "observe" /\ UNCHANGED round
       \/ ~closed /\ step' = "slot" /\ round' = [NoRound EXCEPT !.epoch = client]
    /\ UNCHANGED <<surroundings, slot, nextTry, lastSequence, association>>

\* wait_for_round_slot keeps the rounds apart, however long discovery took.
RoundSlot ==
    /\ step = "slot"
    /\ IF closed THEN step' = "observe" /\ UNCHANGED <<slot, round>>
       ELSE /\ now >= slot
            /\ slot' = now + RoundCadence
            /\ round' = [round EXCEPT !.started = now]
            /\ step' = "summoner"
    /\ UNCHANGED <<surroundings, nextTry, lastSequence, association>>

\* The two requests of a round; a process that is gone does not answer.
Request(from, to, field) ==
    /\ step = from
    /\ \/ step' = "failed" /\ UNCHANGED round
       \/ /\ ~closed /\ client = round.epoch
          /\ step' = to
          /\ round' = [round EXCEPT ![field] = game, !.finished = now]
    /\ UNCHANGED <<surroundings, slot, nextTry, lastSequence, association>>
Summoner == Request("summoner", "gameflow", "player")
Gameflow == Request("gameflow", "recheck", "game")

Failed ==
    /\ step = "failed" /\ step' = "observe" /\ round' = NoRound
    /\ UNCHANGED <<surroundings, slot, nextTry, lastSequence, association>>

\* unchanged: the same process with the same credentials, after the round.
Recheck ==
    /\ step = "recheck"
    /\ IF client = round.epoch /\ ~closed
       THEN step' = "observe" /\ UNCHANGED round
       ELSE step' = "failed" /\ UNCHANGED round
    /\ UNCHANGED <<surroundings, slot, nextTry, lastSequence, association>>
-----------------------------------------------------------------------------
(* The association. *)

\* fresh, compare and evidence: the round and the live observation are recent
\* and name the same game's map, mode and player.
Current ==
    IF /\ round # NoRound /\ live.sequence > 0 /\ live.game = round.game
       /\ now - Min({live.started, round.started}) <= Freshness
    THEN [game |-> round.game, epoch |-> round.epoch, sequence |-> live.sequence,
          live |-> live.started, started |-> round.started, finished |-> round.finished,
          oldest |-> Min({live.started, round.started})]
    ELSE Nothing

\* Mutant: the rounds may come from two processes of the client.
CoherentAnyClient(first, second) ==
    /\ first # Nothing /\ second # Nothing /\ first.game = second.game
    /\ second.sequence = first.sequence + 1
    /\ second.live > first.live /\ second.started > first.started
    /\ second.started - first.started \in Separation
    /\ now - first.oldest <= Freshness

\* advance: two rounds in a row agree, in order, apart and still fresh.
Coherent(first, second) ==
    /\ first # Nothing /\ second # Nothing
    /\ first.epoch = second.epoch /\ first.game = second.game
    /\ second.sequence = first.sequence + 1
    /\ second.live > first.live /\ second.started > first.started
    /\ second.started - first.started \in Separation
    /\ now - first.oldest <= Freshness

Observe ==
    /\ step = "observe"
    /\ lastSequence' = live.sequence
    /\ IF ~Accepting
       THEN UNCHANGED <<pending, candidate>>
       ELSE IF Coherent(pending, Current)
       THEN /\ candidate' = [game |-> Current.game, first |-> pending, second |-> Current]
            /\ pending' = Nothing
       ELSE pending' = Current /\ UNCHANGED candidate
    /\ nextTry' = IF round = NoRound THEN nextTry ELSE round.started + RoundCadence
    /\ step' = IF closed \/ candidate' # Nothing THEN "ended" ELSE "sleep"
    /\ round' = NoRound
    /\ UNCHANGED <<surroundings, slot, closed, snapshot>>

Sleep ==
    /\ step = "sleep" /\ (closed \/ now >= nextTry)
    /\ step' = IF closed THEN "ended" ELSE "await"
    /\ UNCHANGED <<surroundings, round, slot, nextTry, lastSequence, association>>

\* close_and_snapshot, at the end of the capture: the candidate that the
\* post-game jobs are submitted with.  ContextSession::stop reads it again
\* (finish) when the collector was joined.
CloseContext ==
    /\ ~closed /\ closed' = TRUE /\ pending' = Nothing
    /\ snapshot' = candidate
    /\ UNCHANGED <<surroundings, collector, candidate>>

Init ==
    /\ now = 0 /\ client = 1 /\ game = 1 /\ since = [client |-> 0, game |-> 0]
    /\ live = NoLive
    /\ step = "await" /\ round = NoRound /\ slot = 0 /\ nextTry = 0 /\ lastSequence = 0
    /\ pending = Nothing /\ candidate = Nothing /\ closed = FALSE /\ snapshot = Nothing

Next ==
    \/ Elapse \/ ClientRestarts \/ GameChanges \/ Observes
    \/ Await \/ Discover \/ RoundSlot \/ Summoner \/ Gameflow \/ Failed \/ Recheck
    \/ Observe \/ Sleep \/ CloseContext

Spec == Init /\ [][Next]_vars
-----------------------------------------------------------------------------
\* A candidate was seen by one client process and in one game, from the start
\* of its first round to the end of its second: a
\* process that began after the first round, or ended before the second did,
\* does not match, and neither does a game that began after the first.
CandidateIsOneGame ==
    candidate # Nothing =>
        /\ candidate.game = game =>
              since.game <= candidate.first.finished
        /\ candidate.first.epoch = client => since.client <= candidate.first.started
        /\ candidate.first.epoch # client => candidate.second.finished <= since.client
        /\ candidate.first.finished <= candidate.second.started

\* The candidate that was submitted when the capture closed is the one that
\* is written beside the recording after the collector was joined.
SnapshotIsFinal == closed => snapshot = candidate

ContextIsSound == CandidateIsOneGame /\ SnapshotIsFinal
=============================================================================
