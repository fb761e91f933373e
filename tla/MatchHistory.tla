----------------------------- MODULE MatchHistory -----------------------------
(***************************************************************************)
(* The collector of the match history (league_client/history.rs): a ledger *)
(* of jobs that are retried without end, saved before every request and    *)
(* before every installation.  The process may die between any two steps   *)
(* and a save may fail; the match appears in the client's history late or  *)
(* never, and recordings are published late, never, or deleted.            *)
(***************************************************************************)
EXTENDS Integers, Sequences, FiniteSetsExt

CONSTANTS Recording,   \* the recordings, numbered in the order of their ends
          GameOf,      \* GameOf[r]: the match (and account) that r belongs to
          MaxJobs,     \* 24 in the code
          MaxTries,    \* bound: attempts are counted up to here
          MaxCrash     \* bound: how often the process dies

\* What the constants must satisfy.
HistoryAssumption ==
    /\ Recording \subseteq Nat /\ DOMAIN GameOf = Recording
    /\ MaxJobs \in Nat \ {0} /\ MaxTries \in Nat \ {0} /\ MaxCrash \in Nat

VARIABLES ended,      \* the recordings that were submitted
          allocation, \* per recording: "private", "canonical" or "gone"
          facts,      \* per recording, the match of its installed facts, 0 for none
          history,    \* the matches that the client can answer for
          deaths, saved, queue, stopping, at, jobs, dirty, current

world == <<ended, allocation, facts, history, deaths>>
vars == <<world, saved, queue, stopping, at, jobs, dirty, current>>

Job(r) == [id |-> r, attempts |-> 0, waits |-> FALSE, result |-> 0, done |-> FALSE]
Ids(s) == {s[i].id : i \in DOMAIN s}

\* Vec::remove.
Without(s, i) == SubSeq(s, 1, i - 1) \o SubSeq(s, i + 1, Len(s))

\* admit: a full ledger gives up the first job that is done, or the oldest.
Evicted(s) == LET done == {i \in DOMAIN s : s[i].done}
              IN IF done = {} THEN 1 ELSE Min(done)
Admit(s, job) ==
    IF job.id \in Ids(s) THEN s
    ELSE Append(IF Len(s) = MaxJobs THEN Without(s, Evicted(s)) ELSE s, job)

\* The jobs of the queue, one after the other.
Admitted(s, added) ==
    LET after[k \in 0 .. Len(added)] == IF k = 0 THEN s ELSE Admit(after[k - 1], added[k])
    IN after[Len(added)]

\* Handle::submit: a full queue loses the job.
SubmitHistory(r) ==
    /\ at # "down" /\ ~stopping /\ r \notin ended
    /\ \A q \in Recording : q < r => q \in ended
    /\ ended' = ended \cup {r}
    /\ \/ queue' = Append(queue, Job(r))
       \/ UNCHANGED queue
    /\ UNCHANGED <<allocation, facts, history, deaths, saved, stopping,
                   at, jobs, dirty, current>>

\* Everything else that the collector does not decide.
WorldMoves ==
    /\ \/ \E r \in ended : /\ allocation[r] = "private"
                           /\ allocation' = [allocation EXCEPT ![r] = "canonical"]
                           /\ UNCHANGED <<facts, history>>
       \/ \E r \in ended : /\ allocation[r] = "canonical"
                           /\ allocation' = [allocation EXCEPT ![r] = "gone"]
                           /\ facts' = [facts EXCEPT ![r] = 0]
                           /\ UNCHANGED history
       \/ \E r \in Recording : /\ GameOf[r] \notin history
                               /\ history' = history \cup {GameOf[r]}
                               /\ UNCHANGED <<allocation, facts>>
    /\ UNCHANGED <<ended, deaths, saved, queue, stopping, at, jobs, dirty, current>>

\* The wall clock reaches the next attempt of a job.
RetryIsDue(i) ==
    /\ at \in {"loop", "wait"} /\ i \in DOMAIN jobs /\ jobs[i].waits
    /\ jobs' = [jobs EXCEPT ![i].waits = FALSE]
    /\ UNCHANGED <<world, saved, queue, stopping, at, dirty, current>>

\* save replaces the file as a whole; a save that fails ends the collector.
SaveThen(next) ==
    \/ saved' = jobs /\ at' = next
    \/ UNCHANGED saved /\ at' = "ended"

\* The head of the loop.
TakeJobs ==
    /\ at = "loop"
    /\ jobs' = Admitted(jobs, queue) /\ queue' = <<>>
    /\ dirty' = (dirty \/ jobs' # jobs)
    /\ at' = IF dirty' THEN "save" ELSE "choose"
    /\ UNCHANGED <<world, saved, stopping, current>>
SaveJobs ==
    /\ at = "save" /\ SaveThen("choose") /\ dirty' = FALSE
    /\ UNCHANGED <<world, queue, stopping, jobs, current>>

Due == {i \in DOMAIN jobs : ~jobs[i].done /\ ~jobs[i].waits}

\* A removed allocation closes its job; any other is reserved an attempt.
Choose ==
    /\ at = "choose"
    /\ IF stopping THEN at' = "ended" /\ UNCHANGED <<jobs, dirty, current>>
       ELSE IF Due = {} THEN at' = "wait" /\ UNCHANGED <<jobs, dirty, current>>
       ELSE LET i == Min(Due) IN
            IF allocation[jobs[i].id] = "gone"
            THEN /\ jobs' = [jobs EXCEPT ![i].done = TRUE] /\ dirty' = TRUE
                 /\ at' = "loop" /\ UNCHANGED current
            ELSE /\ jobs' = [jobs EXCEPT ![i].attempts = Min({@ + 1, MaxTries}),
                                         ![i].waits = TRUE]
                 /\ current' = i /\ at' = "reserve" /\ UNCHANGED dirty
    /\ UNCHANGED <<world, saved, queue, stopping>>
SaveReservation ==
    /\ at = "reserve" /\ SaveThen("fetch")
    /\ UNCHANGED <<world, queue, stopping, jobs, dirty, current>>

\* Facts that another recording of the match has need no request.
Shared(i) == {k \in DOMAIN jobs : /\ GameOf[jobs[k].id] = GameOf[jobs[i].id]
                                  /\ jobs[k].result # 0}
Fetch ==
    /\ at = "fetch" /\ at' = "fetched"
    /\ LET i == current
           game == GameOf[jobs[i].id]
       IN IF jobs[i].result # 0 THEN UNCHANGED jobs
          ELSE IF Shared(i) # {}
          THEN jobs' = [jobs EXCEPT ![i].result = jobs[Min(Shared(i))].result]
          ELSE \/ UNCHANGED jobs   \* no client, no such match yet, or stopped
               \/ /\ ~stopping /\ game \in history
                  /\ jobs' = [jobs EXCEPT ![i].result = game]
    /\ UNCHANGED <<world, saved, queue, stopping, dirty, current>>
SaveFacts ==
    /\ at = "fetched"
    /\ SaveThen(IF jobs[current].result # 0 THEN "install" ELSE "loop")
    /\ UNCHANGED <<world, queue, stopping, jobs, dirty, current>>

\* DirectoryGuard::recover and install_history: only a canonical recording.
InstallFacts ==
    /\ at = "install" /\ at' = "loop"
    /\ LET id == jobs[current].id IN
       \/ /\ allocation[id] = "canonical"
          /\ facts' = [facts EXCEPT ![id] = jobs[current].result]
          /\ jobs' = [jobs EXCEPT ![current].done = TRUE] /\ dirty' = TRUE
       \/ UNCHANGED <<facts, jobs, dirty>>
    /\ UNCHANGED <<ended, allocation, history, deaths, saved, queue, stopping, current>>

\* The select: a stop, a job, or a second has passed.
WakeUp ==
    /\ at = "wait"
    /\ at' = "loop"
    /\ UNCHANGED <<world, saved, queue, stopping, jobs, dirty, current>>

StopHistory ==
    /\ at # "down" /\ ~stopping /\ stopping' = TRUE
    /\ UNCHANGED <<world, saved, queue, at, jobs, dirty, current>>
Die ==
    /\ at # "down" /\ deaths < MaxCrash /\ deaths' = deaths + 1
    /\ at' = "down" /\ jobs' = <<>> /\ queue' = <<>> /\ dirty' = FALSE
    /\ stopping' = FALSE /\ current' = 0
    /\ UNCHANGED <<ended, allocation, facts, history, saved>>
Load ==
    /\ at = "down" /\ at' = "loop" /\ jobs' = saved
    /\ UNCHANGED <<world, saved, queue, stopping, dirty, current>>

Init ==
    /\ ended = {} /\ allocation = [r \in Recording |-> "private"]
    /\ facts = [r \in Recording |-> 0] /\ history = {} /\ deaths = 0
    /\ saved = <<>> /\ queue = <<>> /\ stopping = FALSE
    /\ at = "down" /\ jobs = <<>> /\ dirty = FALSE /\ current = 0

Collector ==
    \/ TakeJobs \/ SaveJobs \/ Choose \/ SaveReservation \/ Fetch \/ SaveFacts
    \/ InstallFacts \/ WakeUp \/ Load
Next ==
    \/ Collector
    \/ \E r \in Recording : SubmitHistory(r)
    \/ \E i \in 1 .. MaxJobs : RetryIsDue(i)
    \/ WorldMoves \/ StopHistory \/ Die

Spec == Init /\ [][Next]_vars
-----------------------------------------------------------------------------
\* The facts of a recording are those of its own match, and a job that holds
\* the only copy of them is in the ledger on disk: facts that a response
\* brought are not lost to a crash before they are installed.

FactsAreTheirOwn ==
    /\ \A r \in Recording : facts[r] \in {0, GameOf[r]}
    /\ at = "install" => saved = jobs

\* A request is made only for a match with a job on disk that accounts for
\* it, and a finished job is one whose recording has its facts or is gone: a
\* crash between installing and saving repeats the installation, never skips it.
HistoryIsAccountedFor ==
    /\ at \in {"fetch", "fetched", "install"} =>
          /\ saved[current].id = jobs[current].id
          /\ saved[current].attempts = jobs[current].attempts
    /\ \A i \in DOMAIN saved : saved[i].done =>
          facts[saved[i].id] # 0 \/ allocation[saved[i].id] = "gone"

\* Recordings leave the ledger only to make room.
LedgerIsBounded ==
    /\ Len(saved) <= MaxJobs
    /\ IsInjective([i \in DOMAIN saved |-> saved[i].id])

HistoryIsSound == FactsAreTheirOwn /\ HistoryIsAccountedFor /\ LedgerIsBounded
=============================================================================
