------------------------- MODULE TelemetryNormalization -------------------------
(***************************************************************************)
(* What the journal's writer makes of the records it is given, and what    *)
(* readers make of the journal (league-data/src/observation/journal.rs     *)
(* RetainingWriter, events.rs, roster.rs, checkpoint.rs).                  *)
(*                                                                         *)
(* The game answers with its whole roster and its whole list of events,    *)
(* again and again.  The writer stores a participant's payload once per    *)
(* epoch and refers to it by number; of the events it stores what is new   *)
(* or was revised, told by a digest per event.  It learns from a batch     *)
(* only once the batch is durable.                                         *)
(*                                                                         *)
(* A participant's payload is a model value, a payload's hash itself.  A   *)
(* roster is a set: its order changes nothing here.  An event is its id    *)
(* and a variant, a digest the set of variants one response gave.          *)
(***************************************************************************)
EXTENDS Integers, Sequences, FiniteSetsExt, TLC

CONSTANTS
    Players,        \* payloads a participant may show
    Rosters,        \* the rosters that a game may answer with
    EventIds, Variants,
    EventCapacity,  \* MAX_EVENTS
    MaxEpoch, MaxBatch, MaxRows

VARIABLES
    writer,      \* scope, event tracker and roster store of the RetainingWriter
    poisoned,    \* a write failed: nothing is committed after it
    journal,     \* the committed rows
    commits,     \* the lengths of the journal at its commits
    checkpoint,  \* State: what the writer's checkpoint holds
    truth        \* the roster that the game answered with, for each row

vars == <<writer, poisoned, journal, commits, checkpoint, truth>>

Epochs == 0 .. MaxEpoch

\* The elements of a sequence, taken in from the first to the last.
InOrder(op(_, _), base, s) ==
    MapThenFoldSet(LAMBDA x, acc : op(acc, x), base, LAMBDA i : s[i], Max, DOMAIN s)

Events == EventIds \X Variants
NoEvents == [id \in {} |-> {}]

\* Participants by their payload number, as a store or a reader has them.
Nobody == [n \in {} |-> {}]

TypeOK ==
    /\ writer.epoch \in Epochs /\ writer.next \in Nat
    /\ DOMAIN writer.digests \subseteq EventIds
    /\ IsInjective(writer.roster) /\ Range(writer.roster) \subseteq Players
    /\ Len(journal) = Len(truth) /\ poisoned \in BOOLEAN

-----------------------------------------------------------------------------
(* Events.                                                                 *)

\* The variants of each event in one response.
Variety(response) == [id \in {e[1] : e \in response} |-> {e[2] : e \in {f \in response : f[1] = id}}]

\* EventTracker::prepare_following, over the digests that are current after the
\* batch so far: events whose digest changed, each with why it is kept.
Revisions(digests, response) ==
    LET variety == Variety(response)
        known(id) == id \in DOMAIN digests
        changed(e) == ~known(e[1]) \/ digests[e[1]] # variety[e[1]]
        ingestion(e) == IF Cardinality(variety[e[1]]) > 1 THEN "conflict"
                        ELSE IF known(e[1]) THEN "correction" ELSE "accepted"
    IN {[event |-> e, ingestion |-> ingestion(e)] : e \in {f \in response : changed(f)}}

\* Ids are never forgotten within an epoch; a response that would exceed the
\* capacity becomes a gap.
FitsCapacity(digests, response) ==
    Cardinality(DOMAIN digests \cup DOMAIN Variety(response)) <= EventCapacity

\* EventTracker::acknowledge.
Tracked(digests, revisions) == Variety({r.event : r \in revisions}) @@ digests

\* restore_committed: a reader prepares the committed events again, and refuses
\* the journal unless that gives the same revisions.
Restores(digests, revisions) == Revisions(digests, {r.event : r \in revisions}) = revisions

-----------------------------------------------------------------------------
(* Rosters.                                                                *)

NumberOf(roster, p) == CHOOSE n \in DOMAIN roster : roster[n] = p

\* Mutant: the number of a payload that left is given again.
SharedAgain(store, players, full) ==
    LET old == players \cap Range(store.roster)
        free == {n \in 1 .. Cardinality(players) :
                    n \notin {NumberOf(store.roster, p) : p \in old}}
        new == players \ old
        numbers == {n \in free : Cardinality({m \in free : m <= n}) <= Cardinality(new)}
        numbering == CHOOSE f \in Bijection(numbers, new) : TRUE
        roster == [n \in {NumberOf(store.roster, p) : p \in old} |-> store.roster[n]] @@ numbering
    IN [store |-> [roster |-> roster, next |-> 1, full |-> TRUE],
        row |-> [full |-> full, references |-> DOMAIN roster,
                 payloads |-> IF full THEN roster ELSE numbering]]

\* RosterStore::prepare: payloads that the last roster had keep their number,
\* new ones are numbered on; a full row carries the payloads of all.
Shared(store, players, full) ==
    LET old == players \cap Range(store.roster)
        new == players \ old
        numbering == CHOOSE f \in Bijection(store.next .. store.next + Cardinality(new) - 1, new) : TRUE
        roster == [n \in {NumberOf(store.roster, p) : p \in old} |-> store.roster[n]] @@ numbering
        carried == IF full THEN roster ELSE numbering
    IN [store |-> [roster |-> roster, next |-> store.next + Cardinality(new), full |-> TRUE],
        row |-> [full |-> full, references |-> DOMAIN roster, payloads |-> carried]]

\* RosterReader::observe_state: the row is taken whole or not at all.
Readable(reader, epoch, row) ==
    /\ row.full \/ reader.epoch = epoch
    /\ DOMAIN row.payloads \subseteq row.references
    /\ ~row.full => \A n \in DOMAIN row.payloads \cap DOMAIN reader.roster :
                        reader.roster[n] = row.payloads[n]
    /\ row.references \subseteq
         (DOMAIN row.payloads \cup (IF row.full THEN {} ELSE DOMAIN reader.roster))

Read(reader, epoch, row) ==
    [epoch |-> epoch,
     roster |-> IF row.full THEN row.payloads
                ELSE Restrict(reader.roster, DOMAIN reader.roster \cap row.references) @@ row.payloads]

NewReader == [epoch |-> -1, roster |-> Nobody]

-----------------------------------------------------------------------------
(* A batch.                                                                *)

Row(kind, epoch) == [kind |-> kind, epoch |-> epoch]

\* What the writer would know after a row; out of a reset everything is new.
Fresh(epoch) == [epoch |-> epoch, digests |-> NoEvents, roster |-> Nobody, next |-> 1, full |-> FALSE]

\* commit_owned_with, one record after the other over the state the batch has
\* led to so far: what is written for the record, and that state after it.
Normalized(state, record) ==
    CASE record.kind = "reset" ->
            [row |-> Row("reset", record.epoch), state |-> Fresh(record.epoch), roster |-> {}]
      [] record.kind = "events" ->
            IF FitsCapacity(state.digests, record.response)
            THEN LET revisions == Revisions(state.digests, record.response)
                 IN [row |-> [kind |-> "events", epoch |-> state.epoch, revisions |-> revisions],
                     state |-> [state EXCEPT !.digests = Tracked(@, revisions)], roster |-> {}]
            ELSE [row |-> Row("gap", state.epoch), state |-> state, roster |-> {}]
      [] record.kind = "roster" ->
            LET shared == Shared(state, record.players, record.due \/ ~state.full)
            IN [row |-> [kind |-> "roster", epoch |-> state.epoch, roster |-> shared.row],
                state |-> shared.store @@ state, roster |-> record.players]
      [] OTHER -> [row |-> Row(record.kind, record.epoch), state |-> state, roster |-> {}]

\* The rows and the state after a whole batch.
Batched(state, records) ==
    InOrder(LAMBDA acc, record :
                LET n == Normalized(acc.state, record)
                IN [state |-> n.state, rows |-> Append(acc.rows, n.row),
                    rosters |-> Append(acc.rosters, n.roster)],
             [state |-> state, rows |-> <<>>, rosters |-> <<>>], records)

-----------------------------------------------------------------------------
(* The checkpoint.                                                         *)

NewCheckpoint == [position |-> 0, epoch |-> 0, stats |-> 0, roster |-> NewReader,
                  calibration |-> 0, latest |-> 0]

\* State::apply, one row.  Rows are counted, so that a field names the row of
\* the journal it came from.  An older request's gap is not the latest state.
Applied(c, row, n) ==
    LET current == [c EXCEPT !.latest = IF row.epoch = c.epoch THEN n ELSE @] IN
    CASE row.kind = "reset" -> [NewCheckpoint EXCEPT !.epoch = row.epoch]
      [] row.kind = "stats" -> [current EXCEPT !.stats = n]
      [] row.kind = "calibration" -> [c EXCEPT !.calibration = n]
      [] row.kind = "invalidated" -> [c EXCEPT !.calibration = 0]
      [] row.kind = "roster" -> [current EXCEPT !.roster = Read(c.roster, row.epoch, row.roster)]
      [] OTHER -> current

\* The state after these rows, from a checkpoint at its position on.
Replayed(c, rows) ==
    InOrder(LAMBDA acc, row : [Applied(acc, row, acc.position + 1) EXCEPT !.position = acc.position + 1],
             c, rows)

\* prepare_roster: a row that cannot be read ends the writer, and the
\* checkpoint stays where it was.
Readers(rows, c) == [i \in 0 .. Len(rows) |-> Replayed(c, SubSeq(rows, 1, i)).roster]
Acceptable(c, rows) ==
    \A i \in DOMAIN rows : rows[i].kind = "roster" => Readable(Readers(rows, c)[i - 1], rows[i].epoch, rows[i].roster)

-----------------------------------------------------------------------------

\* The records of the current epoch that an answer of the game may be, and the
\* gap of a request that was made before the last reset.
Records(epoch) ==
    {[kind |-> "reset", epoch |-> e] : e \in {epoch + 1} \cap Epochs}
    \cup {[kind |-> "events", epoch |-> epoch, response |-> r] : r \in SUBSET Events \ {{}}}
    \cup {[kind |-> "roster", epoch |-> epoch, players |-> r, due |-> d] : r \in Rosters, d \in BOOLEAN}
    \cup {Row(k, epoch) : k \in {"stats", "calibration", "invalidated"}}
    \cup {Row("gap", e) : e \in 0 .. epoch}

Learn(batch, records) ==
    /\ ~poisoned /\ Len(journal) + Len(records) <= MaxRows
    /\ journal' = journal \o batch.rows
    /\ commits' = Append(commits, Len(journal) + Len(records))
    /\ writer' = batch.state
    /\ truth' = truth \o batch.rosters
    /\ IF Acceptable(checkpoint, batch.rows)
       THEN checkpoint' = Replayed(checkpoint, batch.rows) /\ UNCHANGED poisoned
       ELSE poisoned' = TRUE /\ UNCHANGED checkpoint

CommitOne == \E r \in Records(writer.epoch) : Learn(Batched(writer, <<r>>), <<r>>)

\* Several records in one batch: the later are prepared over what the earlier
\* would leave behind.
CommitTwo ==
    /\ MaxBatch >= 2
    /\ \E r \in Records(writer.epoch) :
          \E s \in Records(IF r.kind = "reset" THEN r.epoch ELSE writer.epoch) :
             Learn(Batched(writer, <<r, s>>), <<r, s>>)

\* A write or a flush fails: the batch is not acknowledged and nothing of it is
\* kept; the journal ends here.
FailCommit ==
    /\ ~poisoned /\ poisoned' = TRUE
    /\ UNCHANGED <<writer, journal, commits, checkpoint, truth>>

Init ==
    /\ writer = Fresh(0) /\ poisoned = FALSE
    /\ journal = <<>> /\ commits = <<>> /\ truth = <<>>
    /\ checkpoint = NewCheckpoint

Next == CommitOne \/ CommitTwo \/ FailCommit

Spec == Init /\ [][Next]_vars

-----------------------------------------------------------------------------

\* A reader that starts at any full row of the journal, and one that goes on
\* from the checkpoint of any commit, has for every roster after it exactly the
\* participants that the game showed: numbers are never taken for another
\* payload, in no epoch, batch or order of answers.
RostersDecode ==
    \A from \in {i \in DOMAIN journal : journal[i].kind = "roster" /\ journal[i].roster.full} :
        LET readers == Readers(SubSeq(journal, from, Len(journal)), NewCheckpoint)
        IN \A i \in from .. Len(journal) :
              journal[i].kind = "roster" =>
                  /\ Readable(readers[i - from], journal[i].epoch, journal[i].roster)
                  /\ Range(readers[i - from + 1].roster) = truth[i]

\* The writer's own event lookup is the one a reader rebuilds from the committed
\* revisions alone, and every committed row passes that reader's validation.
RevisionsRestore ==
    LET step(digests, row) ==
            CASE row.kind = "reset" -> NoEvents
              [] row.kind = "events" -> Tracked(digests, row.revisions)
              [] OTHER -> digests
        digestsAfter(n) == InOrder(step, NoEvents, SubSeq(journal, 1, n))
    IN /\ digestsAfter(Len(journal)) = writer.digests
       /\ \A i \in DOMAIN journal :
             journal[i].kind = "events" => Restores(digestsAfter(i - 1), journal[i].revisions)

\* The checkpoint stands at a commit and holds the state of one epoch: the roster
\* the game showed last in it, and no observation or calibration that a reset or
\* an invalidation ended.  Only a failed batch keeps it behind the journal.
CheckpointIsCurrent ==
    LET rosters == {i \in 1 .. checkpoint.position :
                       journal[i].kind = "roster" /\ journal[i].epoch = checkpoint.epoch}
        fields == {checkpoint.stats, checkpoint.calibration, checkpoint.latest} \ {0}
    IN /\ checkpoint.position \in Range(commits) \cup {0}
       /\ ~poisoned => checkpoint.position = Len(journal)
       /\ Range(checkpoint.roster.roster) = IF rosters = {} THEN {} ELSE truth[Max(rosters)]
       /\ \A n \in fields : journal[n].epoch = checkpoint.epoch
       /\ checkpoint.calibration # 0 =>
             \A i \in checkpoint.calibration .. checkpoint.position : journal[i].kind # "invalidated"
=============================================================================
