------------------------- MODULE LeaguePreparation -------------------------
(***************************************************************************)
(* The background preparation of League data (league_preparation.rs) and   *)
(* the SQLite projection that it fills (league_index.rs, import.rs).       *)
(* Change hints wake a worker; it scans the library, reconciles the rows   *)
(* of the projection with the scan, first decodes the card facts of every  *)
(* listed recording and then imports journals and overlays, in bounded     *)
(* units.  Files change at any moment, hints get lost, another connection  *)
(* owns the writer lock, and the process stops or dies.                    *)
(*                                                                         *)
(* A source is what source_stamp hashes of a bundle, and is its own stamp; *)
(* a timeline never changes without its media identity.                    *)
(***************************************************************************)
EXTENDS Naturals, FiniteSets

CONSTANTS
    Bundles,     \* bundle directories, as numbers in the order of the list
    Media,       \* media identities, as numbers
    MaxResult,   \* results that arrive for one bundle
    MaxBatches,  \* commits of one journal
    ImportBatches, \* IMPORT_BATCHES
    MaxEdits,    \* bound on changes of files
    MaxFaults    \* bound on lost hints, contention, stops and resets

PreparationAssumption ==
    /\ Bundles \subseteq Nat \ {0} /\ Media \subseteq Nat \ {0}
    /\ ImportBatches \in Nat \ {0} /\ {MaxResult, MaxBatches, MaxEdits, MaxFaults} \subseteq Nat
    /\ MaxBatches > 0

VARIABLES
    source,    \* [Bundles -> Source]
    watch,     \* whether there is one
    hints,     \* changes that the watch has noticed
    retry,     \* changes that a failed preparation keeps
    games,     \* the summaries of the last scan
    completed, \* [Bundles -> stamp]: what this process has prepared
    rows,      \* [Media -> Row]: the table of recordings
    token,     \* cache_identity.catalog_token, the scan it stands for
    job,       \* the preparation that runs
    deferred,  \* bundles whose stamp could not be taken the last time
    edits, faults

vars == <<source, watch, hints, retry, games, completed, rows, token, job, deferred,
          edits, faults>>

\* A source has the media of metadata.json, whether league_match.json is there,
\* the newest result, and the journal with its manifest: commits, generation of
\* the file, which no later file has again, and whether it decodes.
Published(m) == [media |-> m, match |-> FALSE, result |-> 0, journal |-> MaxBatches - 1,
                 generation |-> edits + 1, sound |-> TRUE]
Gone == [media |-> 0]
NoStamp == [media |-> 0, stamp |-> "none"]
NoGame == [media |-> 0]

Unprepared == [status |-> "pending", stamp |-> NoStamp, position |-> 0,
               generation |-> 0, pages |-> <<0, 0>>]
NoRow == [bundle |-> 0]

\* Hints are a rescan of everything, or bundles; 2 also discovers a bundle.
Nothing == [all |-> FALSE, of |-> [b \in Bundles |-> 0]]
Everything == [Nothing EXCEPT !.all = TRUE]
Higher(m, n) == IF m > n THEN m ELSE n
Merge(c, d) == IF c.all \/ d.all THEN Everything
               ELSE [c EXCEPT !.of = [b \in Bundles |-> Higher(c.of[b], d.of[b])]]

Listed(list) == {b \in DOMAIN list : list[b] # NoGame}
Unique(list) == {b \in Listed(list) : \A c \in Listed(list) \ {b} : list[c].media # list[b].media}
Summary(b) == IF source[b] = Gone THEN NoGame
              ELSE [media |-> source[b].media, match |-> source[b].match]

Idle == [step |-> "idle"]
Unscanned == [b \in Bundles |-> NoGame]
NoToken == [b \in Bundles |-> NoStamp]

Init ==
    /\ source = [b \in Bundles |-> Gone]
    /\ watch \in BOOLEAN /\ hints = Nothing /\ retry = Everything /\ games = Unscanned
    /\ completed = [b \in Bundles |-> NoStamp]
    /\ rows = [m \in Media |-> NoRow] /\ token = NoToken
    /\ job = Idle /\ deferred = {} /\ edits = 0 /\ faults = 0

(***************************************************************************)
(* The files, and the watch on them (Changes::event).                      *)
(***************************************************************************)

Edit(b, new, discover) ==
    /\ edits < MaxEdits /\ edits' = edits + 1
    /\ new # source[b] /\ source' = [source EXCEPT ![b] = new]
    /\ \/ watch /\ hints' = Merge(hints, [Nothing EXCEPT !.of[b] = IF discover THEN 2 ELSE 1])
          /\ UNCHANGED faults
       \/ watch /\ faults < MaxFaults /\ faults' = faults + 1 /\ hints' = Everything
       \/ ~watch /\ UNCHANGED <<hints, faults>>
    /\ UNCHANGED <<watch, retry, games, completed, rows, token, job, deferred>>

Publish(b) == /\ source[b] = Gone
              /\ \E m \in Media : Edit(b, Published(m), TRUE)
Remove(b) == Edit(b, Gone, TRUE)
MatchArrives(b) == source[b] # Gone /\ Edit(b, [source[b] EXCEPT !.match = TRUE], FALSE)
ResultArrives(b) ==
    /\ source[b] # Gone /\ source[b].result < MaxResult
    /\ Edit(b, [source[b] EXCEPT !.result = @ + 1], FALSE)
JournalGrows(b) ==
    /\ source[b] # Gone /\ source[b].journal < MaxBatches
    /\ Edit(b, [source[b] EXCEPT !.journal = @ + 1], FALSE)
JournalReplaced(b) ==
    /\ source[b] # Gone
    /\ \E n \in 0 .. MaxBatches, s \in BOOLEAN :
           Edit(b, [source[b] EXCEPT !.journal = n, !.generation = edits + 1, !.sound = s], FALSE)

Files == \E b \in Bundles : \/ Publish(b) \/ Remove(b) \/ MatchArrives(b) \/ ResultArrives(b)
                            \/ JournalGrows(b) \/ JournalReplaced(b)

(***************************************************************************)
(* The worker: Background::tick and prepare.                               *)
(***************************************************************************)

\* The tick takes the hints; when the rescan is due, everything.
Tick ==
    /\ job = Idle
    /\ LET taken == Merge(retry, hints)
           wanted == {b \in Bundles : taken.of[b] = 2 \/ (taken.of[b] = 1 /\ b \in Listed(games))}
       IN /\ retry' = Nothing /\ hints' = Nothing
          /\ taken # Nothing
          /\ job' = IF ~taken.all /\ wanted = {} THEN Idle
                    ELSE [step |-> "scan", targets |-> wanted, full |-> taken.all,
                          changes |-> [taken EXCEPT !.of = [b \in Bundles |->
                                          IF b \in wanted THEN @[b] ELSE 0]]]
    /\ UNCHANGED <<source, watch, games, completed, rows, token, deferred, edits, faults>>

Rescan ==
    /\ job = Idle /\ retry' = Nothing /\ hints' = Nothing
    /\ watch' \in BOOLEAN
    /\ job' = [step |-> "scan", changes |-> Everything, targets |-> {}, full |-> TRUE]
    /\ UNCHANGED <<source, games, completed, rows, token, deferred, edits, faults>>

\* published_games, or published_game for the targets alone.
Scan ==
    /\ job.step = "scan"
    /\ games' = [b \in Bundles |-> IF job.full \/ b \in job.targets THEN Summary(b) ELSE games[b]]
    /\ job' = [job EXCEPT !.step = "reconcile"]
    /\ UNCHANGED <<source, watch, hints, retry, completed, rows, token, deferred, edits, faults>>

\* Mutant: the hints that were taken are gone.
AbandonForgetting == job' = Idle /\ UNCHANGED retry

\* Any error outside the recording's own data ends the preparation; its
\* changes are kept for the next attempt.
Abandon == job' = Idle /\ retry' = Merge(retry, job.changes)

Contended ==
    /\ job.step \in {"reconcile", "begin"} /\ faults < MaxFaults /\ faults' = faults + 1
    /\ Abandon
    /\ UNCHANGED <<source, watch, hints, games, completed, rows, token, deferred, edits>>

Row(b) == rows[games[b].media]

\* Index::reconcile: membership comes from the scan, for unique identities.
Reconciled(table, known, list) ==
    LET kept(m) == {b \in Unique(list) : list[b].media = m}
        Of(m, b) == IF table[m].bundle # b
                    THEN [bundle |-> b, summary |-> list[b], facts |-> 0, match |-> FALSE,
                          history |-> NoStamp, current |-> FALSE, telemetry |-> Unprepared]
                    ELSE [table[m] EXCEPT !.summary = list[b],
                                          !.current = @ /\ table[m].summary = list[b]]
    IN IF known = list THEN table
       ELSE [m \in Media |-> IF kept(m) = {} THEN NoRow ELSE Of(m, CHOOSE b \in kept(m) : TRUE)]

\* require_source with prepared_progress: nothing is left to do.
PagesDone(t) == t.position = 0 \/ t.pages = <<t.position, t.position>>
Settled(row, b) == /\ row.bundle = b /\ row.telemetry.stamp = source[b]
                   /\ row.telemetry.status = "ready" => PagesDone(row.telemetry)

\* The row of a bundle; a media identity outside the catalog has none.
RowIn(table, b) == table[games[b].media]

NextGame(left, pass, stamps) ==
    IF left # {}
    THEN [step |-> "begin", changes |-> job.changes, pass |-> pass, left |-> left,
          pending |-> stamps, bundle |-> CHOOSE b \in left : \A c \in left : b <= c]
    ELSE IF pass = "cards" /\ \E b \in Bundles : stamps[b] # NoStamp
         THEN LET all == {b \in Bundles : stamps[b] # NoStamp}
              IN [step |-> "begin", changes |-> job.changes, pass |-> "full", left |-> all,
                  pending |-> stamps, bundle |-> CHOOSE b \in all : \A c \in all : b <= c]
    ELSE Idle

Reconcile ==
    /\ job.step = "reconcile"
    /\ rows' = Reconciled(rows, token, games) /\ token' = games
    /\ completed' = [b \in Bundles |-> IF b \in Listed(games) THEN completed[b] ELSE NoStamp]
    /\ \E unread \in SUBSET (Listed(games) \cap (IF job.full THEN Bundles ELSE job.targets)) :
       LET todo == {b \in Listed(games) \ unread :
                      /\ job.full \/ b \in job.targets
                      /\ completed[b] # source[b] \/ ~Settled(RowIn(rows', b), b)}
           stamps == [b \in Bundles |-> IF b \in todo THEN source[b] ELSE NoStamp]
       IN /\ job' = NextGame(todo, "cards", stamps)
          /\ deferred' = unread \cup (IF job.full THEN {} ELSE deferred \ job.targets)
          /\ faults' = faults + Cardinality(unread) /\ faults' <= MaxFaults
    /\ UNCHANGED <<source, watch, hints, retry, games, edits>>

NextOne == NextGame(job.left \ {job.bundle}, job.pass, job.pending)

\* history_recording: the stamp is taken before anything is decoded.
Failed == job' = IF job.pass = "cards" THEN NextOne ELSE [job EXCEPT !.step = "failed"]

Begin ==
    /\ job.step = "begin"
    /\ LET b == job.bundle
           known == /\ Row(b).bundle = b /\ Row(b).history = source[b]
                    /\ Row(b).summary = games[b] /\ Row(b).current
       IN IF source[b] = Gone \/ source[b].media # games[b].media
          THEN Failed
          ELSE job' = [step |-> IF known THEN "bless" ELSE "decode", changes |-> job.changes,
                       pass |-> job.pass, left |-> job.left, pending |-> job.pending,
                       bundle |-> b, stamp |-> source[b]]
    /\ UNCHANGED <<source, watch, hints, retry, games, completed, rows, token, deferred, edits, faults>>

\* The match of the recording must be the one that the scan listed, and its
\* identity not that of another bundle's row.
Decode ==
    /\ job.step = "decode"
    /\ LET b == job.bundle  now == source[b]  m == games[b].media
           old == IF Row(b) = NoRow
                  THEN [bundle |-> b, summary |-> games[b], facts |-> 0, match |-> FALSE,
                        history |-> NoStamp, current |-> FALSE, telemetry |-> Unprepared]
                  ELSE Row(b)
       IN IF now = Gone \/ now.match # games[b].match \/ old.bundle # b
          THEN Failed /\ UNCHANGED rows
          ELSE /\ rows' = [n \in Media |->
                    IF n = m THEN [old EXCEPT !.summary = games[b], !.facts = now.result, !.match = now.match,
                                       !.current = @ /\ old.summary = games[b] /\ old.facts = now.result]
                    ELSE IF rows[n].bundle = b THEN NoRow ELSE rows[n]]
               /\ job' = [job EXCEPT !.step = "bless"]
    /\ UNCHANGED <<source, watch, hints, retry, games, completed, token, deferred, edits, faults>>

\* Mutant: the fingerprint is taken after what it stands for was read.
VersionAfterwards(b) == source[b]

\* The version that the facts and the journal are published as: its
\* fingerprint was taken first, and is compared again.
Version(b) == job.stamp
SameVersion(b) == source[b] = Version(b)

Bless ==
    /\ job.step = "bless"
    /\ LET b == job.bundle
       IN IF ~SameVersion(b) THEN Failed /\ UNCHANGED rows
          ELSE /\ rows' = [rows EXCEPT ![games[b].media].history = Version(b),
                                       ![games[b].media].current = TRUE]
               /\ job' = IF job.pass = "cards" THEN NextOne ELSE [job EXCEPT !.step = "import"]
    /\ UNCHANGED <<source, watch, hints, retry, games, completed, token, deferred, edits, faults>>

\* prepare's Ok(true): the stamp that the scan saw counts as done.
Done(b) == completed' = [completed EXCEPT ![b] = job.pending[b]] /\ job' = NextOne
Again == job' = [step |-> "begin", changes |-> job.changes, pass |-> "full",
                 left |-> job.left, pending |-> job.pending, bundle |-> job.bundle]

\* Mutant: a checkpoint only continues the version that was complete.
RestoredVersion(t, s) == t.stamp = s

\* import_recording_source skips what it did for this very stamp; otherwise
\* import reads the journal from its checkpoint, or from the start.
Restored(t, s) == t.generation = s.generation /\ t.position <= s.journal
Import ==
    /\ job.step = "import"
    /\ LET b == job.bundle  t == Row(b).telemetry  now == source[b]
           start == IF now # Gone /\ Restored(t, now) THEN t.position ELSE 0
           reached == IF start + ImportBatches < now.journal THEN start + ImportBatches ELSE now.journal
       IN \/ /\ t.stamp = job.stamp
             /\ IF t.status = "ready" THEN job' = [job EXCEPT !.step = "overlay"] /\ UNCHANGED completed
                ELSE Done(b)
             /\ UNCHANGED rows
          \/ /\ t.stamp # job.stamp
             /\ IF now = Gone \/ ~now.sound
                THEN /\ job' = [job EXCEPT !.step = "failed"]
                     /\ rows' = [rows EXCEPT ![games[b].media].telemetry =
                                   [Unprepared EXCEPT !.status = "unavailable", !.stamp = job.stamp]]
                ELSE /\ job' = [step |-> "commit", changes |-> job.changes, pass |-> "full",
                                left |-> job.left, pending |-> job.pending, bundle |-> b,
                                stamp |-> job.stamp, reached |-> reached,
                                generation |-> now.generation, complete |-> reached = now.journal]
                     /\ rows' = [rows EXCEPT ![games[b].media].telemetry =
                                   IF Restored(t, now) THEN @ ELSE Unprepared]
             /\ UNCHANGED completed
    /\ UNCHANGED <<source, watch, hints, retry, games, token, deferred, edits, faults>>

\* The unit's transaction: ready only if complete and still the same source.
Commit ==
    /\ job.step = "commit"
    /\ LET b == job.bundle  ready == job.complete /\ SameVersion(b)
           replaced == source[b] = Gone \/ source[b].generation # job.generation
       IN IF replaced
          THEN /\ job' = [job EXCEPT !.step = "failed"]
               /\ rows' = [rows EXCEPT ![games[b].media].telemetry =
                             [Unprepared EXCEPT !.status = "unavailable", !.stamp = job.stamp]]
          ELSE /\ rows' = [rows EXCEPT ![games[b].media].telemetry =
                     [@ EXCEPT !.position = job.reached, !.generation = job.generation,
                               !.status = IF ready THEN "ready" ELSE "pending",
                               !.stamp = IF ready THEN Version(b) ELSE NoStamp]]
               /\ IF ready THEN job' = [step |-> "overlay", changes |-> job.changes, pass |-> "full",
                                        left |-> job.left, pending |-> job.pending,
                                        bundle |-> b, stamp |-> job.stamp]
                  ELSE Again
    /\ UNCHANGED <<source, watch, hints, retry, games, completed, token, deferred, edits, faults>>

\* prepare_overlay: one page of the current revision per call.
Overlay ==
    /\ job.step = "overlay"
    /\ LET b == job.bundle  t == Row(b).telemetry
           before == IF t.pages[1] = t.position THEN t.pages[2] ELSE 0
       IN IF PagesDone(t) THEN Done(b) /\ UNCHANGED rows
          ELSE /\ rows' = [rows EXCEPT ![games[b].media].telemetry.pages = <<t.position, before + 1>>]
               /\ Again /\ UNCHANGED completed
    /\ UNCHANGED <<source, watch, hints, retry, games, token, deferred, edits, faults>>

\* preparation_failed fingerprints the source as it is now.
PreparationFailed ==
    /\ job.step = "failed"
    /\ LET b == job.bundle
       IN /\ rows' = IF Row(b) = NoRow THEN rows
                     ELSE [rows EXCEPT ![games[b].media].telemetry.status = "unavailable",
                                       ![games[b].media].telemetry.stamp = source[b]]
          /\ Done(b)
    /\ UNCHANGED <<source, watch, hints, retry, games, token, deferred, edits, faults>>

\* The owner is dropped, or the process dies, and another one starts: its
\* knowledge is lost, the projection stays.
Restart ==
    /\ faults < MaxFaults /\ faults' = faults + 1
    /\ games' = Unscanned /\ completed' = [b \in Bundles |-> NoStamp]
    /\ watch' \in BOOLEAN /\ retry' = Everything /\ hints' = Nothing /\ job' = Idle
    /\ deferred' = {}
    /\ UNCHANGED <<source, rows, token, edits>>

\* The app accepts a refresh of the library and reconciles the projection, or
\* first replaces it (reset.rs), while no task of the worker holds the lock;
\* the watch notices a replaced database.
Unlocked == job.step \in {"idle", "scan", "reconcile", "begin"}
Listing == [b \in DOMAIN source |-> Summary(b)]

Refresh ==
    /\ Unlocked
    /\ rows' = Reconciled(rows, token, Listing) /\ token' = Listing
    /\ UNCHANGED <<source, watch, hints, retry, games, completed, job, deferred, edits, faults>>

Reset ==
    /\ Unlocked /\ faults < MaxFaults /\ faults' = faults + 1
    /\ rows' = Reconciled([m \in Media |-> NoRow], NoToken, Listing) /\ token' = Listing
    /\ hints' = IF watch THEN Everything ELSE hints
    /\ UNCHANGED <<source, watch, retry, games, completed, job, deferred, edits>>

Worker == \/ Tick \/ Scan \/ Reconcile \/ Begin \/ Decode \/ Bless \/ Import \/ Commit
          \/ Overlay \/ PreparationFailed

Next == Files \/ Worker \/ Rescan \/ Contended \/ Restart \/ Refresh \/ Reset

\* The loop sleeps a second between ticks; the rescan comes every 300 seconds.
Fairness == WF_vars(Worker) /\ WF_vars(Rescan)
Spec == Init /\ [][Next]_vars /\ Fairness

\* Whoever passes require_source for a recording that is ready reads all of
\* its journal, as it is on disk.
ReadyIsWhole ==
    \A m \in Media : LET r == rows[m] IN
        r # NoRow /\ r.telemetry.status = "ready" /\ r.telemetry.stamp = source[r.bundle]
            => LET s == source[r.bundle] IN
               s.sound /\ r.telemetry.position = s.journal /\ r.telemetry.generation = s.generation

\* Card facts that pass for those of the files as they are now were decoded
\* from them, for the match that the scan listed.
FactsAreOfTheirVersion ==
    \A m \in Media : LET r == rows[m] IN
        r # NoRow /\ r.current /\ r.history = source[r.bundle] /\ r.history # Gone
            => /\ r.facts = source[r.bundle].result /\ r.match = source[r.bundle].match
               /\ m = source[r.bundle].media

\* With a watch, a change that is not prepared yet is either noticed, kept from a
\* preparation that failed, or in the hands of one that runs; only a source that
\* could not be read waits for the rescan.
NoChangeIsForgotten ==
    watch /\ job = Idle => \A b \in DOMAIN source \ deferred :
        source[b] # Gone /\ completed[b] # source[b]
            => \E c \in {hints, retry} : c.all \/ c.of[b] > 0

LeagueIndexIsSound == ReadyIsWhole /\ FactsAreOfTheirVersion /\ NoChangeIsForgotten

\* Whatever hint is lost, contended or superseded, every recording is in the
\* end prepared, in the version that is on disk.
EverythingIsPrepared ==
    <>[](\A b \in Unique(Listing) :
            LET r == rows[source[b].media] IN Settled(r, b) /\ r.telemetry.status # "pending")

\* Only a version that was tried and failed counts as unavailable.
UnavailableWasTried ==
    \A m \in Media : LET r == rows[m] IN
        r # NoRow /\ r.telemetry.status = "unavailable" /\ r.telemetry.stamp = source[r.bundle]
            => source[r.bundle] = Gone \/ ~source[r.bundle].sound
=============================================================================
