------------------------- MODULE TelemetryAcquisition -------------------------
(***************************************************************************)
(* The acquisition task of a recording (recorder/src/poller/               *)
(* acquisition.rs) and the sink that presents what was admitted            *)
(* (poller/session.rs).  One loop owns the requests of every endpoint of   *)
(* the game's local API; the queue behind the sink may refuse any batch.   *)
(*                                                                         *)
(* The loop runs from select! to select! without an await.  stage is the   *)
(* part of it that comes next; every call of the sink is a step.           *)
(***************************************************************************)
EXTENDS Integers, Sequences, FiniteSetsExt

CONSTANTS
    Order,        \* ENDPOINTS, the order in which the loop goes over its slots
    GameStats, ActivePlayer, PlayerList,
    Samples,      \* clock samples of a calibration window; 5
    MaxTick,      \* bound on the game clock
    MaxAttempts,  \* bound on the attempts of each endpoint
    MaxEpoch      \* bound on the resets of the game clock

-----------------------------------------------------------------------------
(* The records of the journal, as far as their order matters: a record has *)
(* a kind and the source epoch of its evidence (league-data/src/           *)
(* observation.rs).  A source epoch ends when the game clock runs          *)
(* backwards.                                                              *)

\* Success: Observation::Success.  Gap: Observation::Gap.  Interval:
\* GapInterval, what stands for attempts that the queue had no room for.
Kinds == {"success", "gap", "interval", "boundary", "reset",
          "calibration", "invalidated", "local", "round"}

Record(kind, epoch) == [kind |-> kind, epoch |-> epoch]

\* Records that may use the slots and bytes reserved for control.
ControlKinds == {"gap", "interval", "boundary", "reset", "invalidated"}
IsControl(rows) == \A i \in DOMAIN rows : rows[i].kind \in ControlKinds

\* Records that must be of the epoch they are written in.
ScopedKinds == {"success", "calibration", "invalidated", "local"}

\* The epoch the writer is in after the first n rows of a batch.
EpochAfter(owned, rows, n) ==
    LET resets == {i \in 1 .. n : rows[i].kind = "reset"}
    IN IF resets = {} THEN owned
       ELSE rows[CHOOSE i \in resets : \A j \in resets : j <= i].epoch

\* The batch is one that the writer and its checkpoint take: a reset goes on
\* from the epoch before it, and scoped records are of the current epoch.  Any
\* other batch ends the writer (commit_owned_with, prepare_roster).
Follows(owned, rows) ==
    \A i \in 1 .. Len(rows) :
        LET epoch == EpochAfter(owned, rows, i - 1) IN
        /\ rows[i].kind = "reset" => rows[i].epoch = epoch + 1
        /\ rows[i].kind \in ScopedKinds => rows[i].epoch = epoch
-----------------------------------------------------------------------------
VARIABLES
    stage,      \* where the loop stands
    todo,       \* the slots that this pass has yet to look at
    slot,       \* Slot of each endpoint
    scope,      \* the source epoch of the game clock seen last
    reset,      \* pending_reset: the epoch it ends, or None
    clock,      \* last_clock, calibration_window and calibration
    rounds,     \* identity_rounds and pending_identity
    local,      \* the local participant is known (participants, local_identity)
    cancel, identityOpen,  \* the recording's watch channels
    shown,      \* what the sink presents: the epoch of its summary and identity
    given,    \* what the queue was given: the epoch its writer will own, whether
                \* the writer will take it, and the attempts it accounts for
    made        \* attempts and boundaries of each endpoint so far

vars == <<stage, todo, slot, scope, reset, clock, rounds, local, cancel,
          identityOpen, shown, given, made>>

Endpoints == Range(Order)
First(slots) == Order[Min({i \in DOMAIN Order : Order[i] \in slots})]
None == -1
NoOne == -2
Epochs == 0 .. MaxEpoch
Stages == {"start", "reset", "identity", "round", "publish", "dispatch", "select",
           "lastReset", "lastRound", "flights", "boundaries", "ended"}

TypeOK ==
    /\ stage \in Stages /\ todo \subseteq Endpoints
    /\ slot \in [Endpoints -> [due : BOOLEAN, flight : Epochs \cup {None},
                               gap : Nat, stopped : BOOLEAN]]
    /\ scope \in Epochs /\ reset \in Epochs \cup {None}
    /\ clock \in [tick : 0 .. MaxTick \cup {None}, window : 0 .. Samples,
                  calibrated : BOOLEAN]
    /\ rounds \in [stats : BOOLEAN, answer : {"none", "anonymous", "named"},
                   pending : {"none", "anonymous", "named"}]
    /\ local \in [named : BOOLEAN, known : BOOLEAN]
    /\ shown \in [summary : Epochs \cup {NoOne}, identity : Epochs \cup {NoOne}]
    /\ given.owned \in Epochs /\ given.taken \in BOOLEAN
    /\ DOMAIN given.told = Endpoints

-----------------------------------------------------------------------------
(* The sink.                                                               *)

\* RecordingSink::try_records: the summary and the identity follow a batch only
\* once it was admitted; a reset clears both first.
Presented(rows, x, named) ==
    LET epoch(k) == {rows[i].epoch : i \in {j \in DOMAIN rows : rows[j].kind = k}}
        cleared == IF epoch("reset") # {} THEN [summary |-> NoOne, identity |-> NoOne]
                   ELSE shown
    IN [summary |-> IF x = GameStats /\ epoch("success") # {}
                    THEN CHOOSE e \in epoch("success") : TRUE ELSE cleared.summary,
        identity |-> IF epoch("round") = {} THEN cleared.identity
                     ELSE IF named THEN CHOOSE e \in epoch("round") : TRUE ELSE NoOne]

\* The queue has taken these rows, which account for n attempts of endpoint x.
Admit(rows, x, n, named) ==
    /\ given' = [owned |-> EpochAfter(given.owned, rows, Len(rows)),
                   taken |-> given.taken /\ Follows(given.owned, rows),
                   told |-> [given.told EXCEPT ![x] = @ + n]]
    /\ shown' = Presented(rows, x, named)

Refuse == UNCHANGED <<given, shown>>

\* Mutant: a refused attempt behind an interval is not counted.
RecordBatchUncounted(x, rows, s, accepted) ==
    /\ IF accepted THEN Admit(rows, x, s.gap + 1, FALSE) ELSE Refuse
    /\ slot' = [slot EXCEPT ![x] = IF accepted THEN [s EXCEPT !.gap = 0]
                                   ELSE [s EXCEPT !.gap = IF @ = 0 THEN 1 ELSE @]]

\* record_batch for one attempt of x, after this slot record: the interval of
\* refused attempts goes first, and the rows are only offered behind it.
RecordBatch(x, rows, s, accepted) ==
    LET intervalGoes == s.gap > 0
        interval == <<Record("interval", scope)>>
    IN \/ /\ accepted
          /\ IF intervalGoes THEN Admit(interval \o rows, x, s.gap + 1, FALSE)
             ELSE Admit(rows, x, 1, FALSE)
          /\ slot' = [slot EXCEPT ![x] = [s EXCEPT !.gap = 0]]
       \/ /\ ~accepted
          /\ \/ Refuse /\ slot' = [slot EXCEPT ![x] = [s EXCEPT !.gap = @ + 1]]
             \/ /\ intervalGoes
                /\ Admit(interval, x, s.gap, FALSE)
                /\ slot' = [slot EXCEPT ![x] = [s EXCEPT !.gap = 1]]

-----------------------------------------------------------------------------
(* The top of the loop.                                                    *)

Attempt(x) == made' = [made EXCEPT ![x] = @ + 1]

\* retry_pending for the source reset.
RetryReset ==
    /\ stage = "reset" /\ ~cancel
    /\ stage' = "identity"
    /\ \/ /\ reset # None
          /\ Admit(<<Record("reset", reset + 1)>>, GameStats, 0, FALSE)
          /\ reset' = None
       \/ Refuse /\ UNCHANGED reset
    /\ UNCHANGED <<todo, slot, scope, clock, rounds, local, cancel, identityOpen, made>>

\* Once identity is decided, the player endpoint ends with its own boundary; a
\* request already made stays owned.
CloseIdentity ==
    /\ stage = "identity"
    /\ stage' = "round"
    /\ IF identityOpen \/ slot[ActivePlayer].stopped
       THEN UNCHANGED <<slot, given, shown, made>>
       ELSE /\ Attempt(ActivePlayer)
            /\ \E accepted \in BOOLEAN :
                  RecordBatch(ActivePlayer, <<Record("boundary", scope)>>,
                              [slot[ActivePlayer] EXCEPT !.stopped = TRUE], accepted)
    /\ UNCHANGED <<todo, scope, reset, clock, rounds, local, cancel, identityOpen>>

\* take_ready: an answer with a name waits for fresh game statistics of its
\* epoch, for two seconds at most (late); one without a name does not wait.
TakeRound ==
    /\ stage = "round"
    /\ stage' = "publish"
    /\ \/ /\ rounds.pending = "none" /\ ~slot[ActivePlayer].stopped
          /\ rounds.answer # "none"
          /\ \E kept \in {"anonymous", "named"}, late \in BOOLEAN :
                /\ kept = "named" => rounds.answer = "named" /\ rounds.stats
                /\ rounds.answer = "named" => kept = "named" \/ late
                /\ rounds' = [rounds EXCEPT !.answer = "none", !.pending = kept]
       \/ UNCHANGED rounds
    /\ UNCHANGED <<todo, slot, scope, reset, clock, local, cancel, identityOpen, shown, given, made>>

PublishRound ==
    /\ stage = "publish"
    /\ stage' = "dispatch" /\ todo' = Endpoints
    /\ \/ /\ rounds.pending # "none"
          /\ Admit(<<Record("round", scope)>>, ActivePlayer, 0, rounds.pending = "named")
          /\ rounds' = [rounds EXCEPT !.pending = "none"]
       \/ Refuse /\ UNCHANGED rounds
    /\ UNCHANGED <<slot, scope, reset, clock, local, cancel, identityOpen, made>>

\* missed_attempt, for the player endpoint only.
Missed(x, r) == IF x = ActivePlayer THEN [r EXCEPT !.answer = "none"] ELSE r

\* A slot that is due: while a reset is pending, or the refused attempts before
\* it cannot be told, the attempt is skipped and counted; otherwise it is made.
Dispatch(x) ==
    LET s == slot[x]
        ready == ~s.stopped /\ s.flight = None /\ s.due
        skipped == [s EXCEPT !.gap = @ + 1, !.due = FALSE]
        requested == [s EXCEPT !.gap = 0, !.flight = scope]
    IN /\ stage = "dispatch" /\ todo # {} /\ x = First(todo)
       /\ todo' = todo \ {x} /\ UNCHANGED stage
       /\ \/ ~ready /\ Refuse /\ UNCHANGED <<slot, rounds, made>>
          \/ /\ ready /\ reset # None /\ Attempt(x)
             /\ slot' = [slot EXCEPT ![x] = skipped]
             /\ rounds' = Missed(x, rounds) /\ Refuse
          \/ /\ ready /\ reset = None /\ s.gap > 0 /\ Attempt(x)
             /\ slot' = [slot EXCEPT ![x] = skipped]
             /\ rounds' = Missed(x, rounds) /\ Refuse
          \/ /\ ready /\ reset = None /\ Attempt(x)
             /\ slot' = [slot EXCEPT ![x] = requested]
             /\ IF s.gap > 0 THEN Admit(<<Record("interval", scope)>>, x, s.gap, FALSE)
                ELSE Refuse
             /\ UNCHANGED rounds
       /\ UNCHANGED <<scope, reset, clock, local, cancel, identityOpen>>

Select ==
    /\ stage = "dispatch" /\ todo = {}
    /\ stage' = "select"
    /\ UNCHANGED <<todo, slot, scope, reset, clock, rounds, local, cancel,
                   identityOpen, shown, given, made>>

\* sleep_until: the next slot is due.
Wake(x) ==
    /\ stage = "select" /\ ~cancel
    /\ ~slot[x].stopped /\ slot[x].flight = None /\ ~slot[x].due
    /\ made[x] < MaxAttempts[x]
    /\ slot' = [slot EXCEPT ![x].due = TRUE] /\ stage' = "reset"
    /\ UNCHANGED <<todo, scope, reset, clock, rounds, local, cancel, identityOpen,
                   shown, given, made>>

-----------------------------------------------------------------------------
(* A response.                                                             *)

\* The loop takes the answer of x.  What it learns from it is kept only if the
\* queue took it, behind a reset that is still pending.
Answered(x) == stage = "select" /\ ~cancel /\ slot[x].flight # None

\* Mutant: the answer goes before the reset that still waits.
TellAlone(x, r, rows, accepted) ==
    /\ RecordBatch(x, rows, [slot[x] EXCEPT !.flight = None, !.due = FALSE], accepted)
    /\ reset' = r /\ stage' = "reset"

Tell(x, r, rows, accepted) ==
    LET leading == IF r = None THEN <<>> ELSE <<Record("reset", r + 1)>>
    IN /\ RecordBatch(x, leading \o rows, [slot[x] EXCEPT !.flight = None, !.due = FALSE], accepted)
       /\ reset' = IF accepted THEN None ELSE r
       /\ stage' = "reset"

\* A game time that does not advance takes the calibration with it; a window of
\* advancing samples that agree makes a new one.
Sampled(c, tick, agrees) ==
    LET advances == c.tick = None \/ tick > c.tick
        window == IF ~advances THEN 1 ELSE IF c.window < Samples THEN c.window + 1 ELSE Samples
        full == window = Samples
    IN IF advances /\ c.calibrated THEN [c EXCEPT !.tick = tick]
       ELSE [tick |-> tick, window |-> IF full /\ ~agrees THEN 0 ELSE window,
             calibrated |-> full /\ agrees]

\* Game statistics with a game time.  A time that runs backwards ends the epoch
\* and everything that was known in it.
StatsAnswer(tick, agrees, accepted) ==
    LET backwards == clock.tick # None /\ tick < clock.tick
        now == IF backwards THEN scope + 1 ELSE scope
        next == Sampled(clock, tick, agrees)
        invalidated == clock.calibrated /\ tick = clock.tick
        calibrates == next.calibrated /\ ~clock.calibrated
        rows == <<Record("success", now)>>
                \o (IF invalidated THEN <<Record("invalidated", now)>> ELSE <<>>)
                \o (IF calibrates THEN <<Record("calibration", now)>> ELSE <<>>)
        known == IF backwards THEN [stats |-> FALSE, answer |-> "none", pending |-> "none"]
                 ELSE rounds
    IN /\ Answered(GameStats)
       /\ now \in Epochs /\ scope' = now
       /\ Tell(GameStats, IF backwards THEN scope ELSE reset, rows, accepted)
       /\ clock' = IF accepted THEN next
                   ELSE [next EXCEPT !.window = 0, !.calibrated = @ /\ ~calibrates]
       /\ rounds' = [known EXCEPT !.stats = @ \/ accepted]
       /\ local' = IF backwards THEN [named |-> FALSE, known |-> FALSE] ELSE local
       /\ UNCHANGED <<todo, cancel, identityOpen, made>>

\* Game statistics without a usable game time.
UntimedAnswer(accepted) ==
    /\ Answered(GameStats)
    /\ Tell(GameStats, reset, <<Record("success", scope)>>, accepted)
    /\ clock' = [clock EXCEPT !.window = 0]
    /\ rounds' = [rounds EXCEPT !.stats = @ \/ accepted]
    /\ UNCHANGED <<todo, scope, local, cancel, identityOpen, made>>

\* observe_ap: an answer replaces one that still waits; a lost one is missed.
Heard(answer, accepted) ==
    [rounds EXCEPT !.answer = IF accepted THEN answer ELSE "none"]

PlayerAnswer(answer, accepted) ==
    /\ Answered(ActivePlayer) /\ slot[ActivePlayer].flight = scope
    /\ Tell(ActivePlayer, reset, <<Record("success", scope)>>, accepted)
    /\ rounds' = Heard(answer, accepted)
    /\ local' = IF accepted /\ ~local.known THEN [local EXCEPT !.named = answer = "named"]
                ELSE local
    /\ UNCHANGED <<todo, scope, clock, cancel, identityOpen, made>>

\* A roster finds the local participant by the name the player endpoint gave
\* (Participants::observe, staged until the queue takes it); any other endpoint.
OtherAnswer(x, matches, accepted) ==
    LET found == x = PlayerList /\ matches /\ local.named /\ ~local.known
        rows == <<Record("success", scope)>>
                \o (IF found THEN <<Record("local", scope)>> ELSE <<>>)
    IN /\ x \notin {GameStats, ActivePlayer}
       /\ Answered(x) /\ slot[x].flight = scope
       /\ Tell(x, reset, rows, accepted)
       /\ local' = [local EXCEPT !.known = @ \/ (found /\ accepted)]
       /\ UNCHANGED <<todo, scope, clock, rounds, cancel, identityOpen, made>>

\* A request failed, was refused by the decoder, or answers for an epoch that
\* has ended since.
FailedAnswer(x, accepted) ==
    /\ Answered(x)
    /\ Tell(x, reset, <<Record("gap", slot[x].flight)>>, accepted)
    /\ clock' = IF x = GameStats THEN [clock EXCEPT !.window = 0] ELSE clock
    /\ rounds' = IF x = ActivePlayer THEN Heard("anonymous", accepted) ELSE rounds
    /\ local' = IF x = ActivePlayer /\ accepted /\ ~local.known
                THEN [local EXCEPT !.named = FALSE] ELSE local
    /\ UNCHANGED <<todo, scope, cancel, identityOpen, made>>

-----------------------------------------------------------------------------
(* The end of acquisition.                                                 *)

\* The recording stops, or a request task panicked.
Leave ==
    /\ \/ cancel /\ stage \in {"reset", "select"}
       \/ stage = "select" /\ \E x \in Endpoints : slot[x].flight # None
    /\ stage' = "lastReset"
    /\ UNCHANGED <<todo, slot, scope, reset, clock, rounds, local, cancel,
                   identityOpen, shown, given, made>>

LastReset ==
    /\ stage = "lastReset"
    /\ stage' = "lastRound"
    /\ \/ reset # None /\ Admit(<<Record("reset", reset + 1)>>, GameStats, 0, FALSE)
       \/ Refuse
    /\ UNCHANGED <<todo, slot, scope, reset, clock, rounds, local, cancel, identityOpen, made>>

LastRound ==
    /\ stage = "lastRound"
    /\ stage' = "flights" /\ todo' = Endpoints
    /\ \/ /\ rounds.pending # "none"
          /\ Admit(<<Record("round", scope)>>, ActivePlayer, 0, rounds.pending = "named")
       \/ Refuse
    /\ UNCHANGED <<slot, scope, reset, clock, rounds, local, cancel, identityOpen, made>>

\* For each slot: the request it gave up, then its closing boundary.
CancelFlight(x) ==
    /\ stage = "flights" /\ x = First(todo) /\ slot[x].flight # None
    /\ \E accepted \in BOOLEAN :
          RecordBatch(x, <<Record("gap", slot[x].flight)>>,
                      [slot[x] EXCEPT !.flight = None], accepted)
    /\ UNCHANGED <<stage, todo, scope, reset, clock, rounds, local, cancel, identityOpen, made>>

LastBoundary(x) ==
    /\ stage = "flights" /\ x = First(todo) /\ slot[x].flight = None
    /\ todo' = todo \ {x}
    /\ stage' = IF todo' = {} THEN "ended" ELSE stage
    /\ IF slot[x].stopped THEN UNCHANGED <<slot, given, shown, made>>
       ELSE /\ Attempt(x)
            /\ \E accepted \in BOOLEAN :
                  RecordBatch(x, <<Record("boundary", scope)>>, slot[x], accepted)
    /\ UNCHANGED <<scope, reset, clock, rounds, local, cancel, identityOpen>>

\* The watch channels of the recording.
StopRecording ==
    /\ ~cancel /\ cancel' = TRUE
    /\ UNCHANGED <<stage, todo, slot, scope, reset, clock, rounds, local,
                   identityOpen, shown, given, made>>

DecideIdentity ==
    /\ identityOpen /\ identityOpen' = FALSE
    /\ stage' = IF stage = "select" THEN "reset" ELSE stage
    /\ UNCHANGED <<todo, slot, scope, reset, clock, rounds, local, cancel,
                   shown, given, made>>

-----------------------------------------------------------------------------

\* The first boundary of each slot.
StartBoundary(x) ==
    /\ stage = "start" /\ x = First(todo)
    /\ todo' = todo \ {x}
    /\ stage' = IF todo' = {} THEN "reset" ELSE stage
    /\ Attempt(x)
    /\ \E accepted \in BOOLEAN :
          RecordBatch(x, <<Record("boundary", scope)>>, slot[x], accepted)
    /\ UNCHANGED <<scope, reset, clock, rounds, local, cancel, identityOpen>>

Init ==
    /\ stage = "start" /\ todo = Endpoints
    /\ slot = [x \in Endpoints |-> [due |-> TRUE, flight |-> None, gap |-> 0, stopped |-> FALSE]]
    /\ scope = 0 /\ reset = None
    /\ clock = [tick |-> None, window |-> 0, calibrated |-> FALSE]
    /\ rounds = [stats |-> FALSE, answer |-> "none", pending |-> "none"]
    /\ local = [named |-> FALSE, known |-> FALSE]
    /\ cancel = FALSE /\ identityOpen = TRUE
    /\ shown = [summary |-> NoOne, identity |-> NoOne]
    /\ given = [owned |-> 0, taken |-> TRUE, told |-> [x \in Endpoints |-> 0]]
    /\ made = [x \in Endpoints |-> 0]

Answer ==
    \E accepted \in BOOLEAN :
        \/ \E tick \in 0 .. MaxTick, agrees \in BOOLEAN : StatsAnswer(tick, agrees, accepted)
        \/ UntimedAnswer(accepted)
        \/ \E answer \in {"anonymous", "named"} : PlayerAnswer(answer, accepted)
        \/ \E x \in Endpoints, matches \in BOOLEAN : OtherAnswer(x, matches, accepted)
        \/ \E x \in Endpoints : FailedAnswer(x, accepted)

Loop ==
    \/ RetryReset \/ CloseIdentity \/ TakeRound \/ PublishRound \/ Select
    \/ \E x \in Endpoints : Dispatch(x) \/ Wake(x)

Ending ==
    \/ Leave \/ LastReset \/ LastRound
    \/ \E x \in Endpoints : CancelFlight(x) \/ LastBoundary(x)

Next ==
    \/ Loop \/ Answer \/ Ending \/ StopRecording \/ DecideIdentity
    \/ \E x \in Endpoints : StartBoundary(x)

Spec == Init /\ [][Next]_vars

-----------------------------------------------------------------------------

\* Whatever the queue refuses and whenever the game clock runs backwards, the
\* journal's writer is never given a record of an epoch it does not own: it
\* would stop for good (commit_owned_with), and the rest of the game with it.
WriterTakesEverything == given.taken

\* Every attempt and boundary of an endpoint is told to the journal once, or
\* waits in the slot's gap or in flight: aggregation under backpressure neither
\* loses nor repeats one, up to the unreported gaps of the summary.
AttemptsAreAccountedFor ==
    \A x \in Endpoints :
        made[x] = given.told[x] + slot[x].gap + (IF slot[x].flight = None THEN 0 ELSE 1)

\* The identity and the summary that the recording presents are of the epoch
\* the journal is in, not of a game that was left.
PresentedIsCurrent ==
    /\ shown.summary \in {NoOne, given.owned}
    /\ shown.identity \in {NoOne, given.owned}
=============================================================================
