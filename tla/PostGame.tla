------------------------------- MODULE PostGame -------------------------------
(***************************************************************************)
(* The coordinator of the post-game (EOG) jobs of the recorder             *)
(* (league_client/post_game.rs) and its ledger on disk                     *)
(* (post_game_ledger.rs).  A recording that closes submits a job; the      *)
(* coordinator asks the client for the final facts, at most MaxAttempts    *)
(* times and until the job expires, and installs them into the directory   *)
(* of the recording once that is published.  The process may die anywhere, *)
(* the wall clock may run backwards, saves may fail and the user may       *)
(* delete a recording.                                                     *)
(***************************************************************************)
EXTENDS Integers, Sequences, FiniteSetsExt

CONSTANTS Media,        \* the recordings, numbered in the order of their captures
          Capacity,     \* slots of the command channel (16 in the code)
          MaxPending,   \* MAX_PENDING
          MaxAttempts,  \* MAX_ATTEMPTS
          Expiry,       \* EXPIRY_MS
          Cadence,      \* CADENCE_MS
          MaxTime,      \* bound: the monotonic clock stops here
          MaxCrashes    \* bound: how often the process dies

None == 0

\* What the constants must satisfy.
PostGameAssumption ==
    /\ {Capacity, MaxPending, MaxAttempts, Expiry, Cadence, MaxTime} \subseteq Nat \ {0}
    /\ MaxCrashes \in Nat
    /\ Media \subseteq Nat \ {None}

VARIABLES time,      \* the monotonic clock
          skew,      \* the wall clock is time + skew
          crashes,
          recording, \* per recording, what the service has done with it
          folder,    \* per recording, its directory
          sidecar,   \* the recordings with an installed result
          asked,     \* per recording, the requests that were made for it
          cancelled, \* the recordings whose cancellation was sent to a running coordinator
          disk,      \* the ledger file
          channel, failed, stop,     \* Handle: commands, control_failed, stop
          place, jobs, last, flight, broken,   \* the worker task
          writing    \* the save that is under way

clocks == <<time, skew, crashes>>
files == <<recording, folder, sidecar>>
handle == <<channel, failed, stop>>
worker == <<place, jobs, last, flight, broken, writing>>
vars == <<clocks, files, asked, cancelled, disk, handle, worker>>

Wall == time + skew

\* SavedJob, and Job: the deadlines are the monotonic ones.
Saved(j) == [media |-> j.media, closed |-> j.closed, nextMs |-> j.nextMs,
             attempts |-> j.attempts, published |-> j.published,
             result |-> j.result, terminal |-> j.terminal]
Active(j) == j.terminal = "no"
NewJob(m, closed, closedMs) ==
    [media |-> m, closed |-> closedMs, nextMs |-> closedMs, attempts |-> 0,
     published |-> FALSE, result |-> FALSE, terminal |-> "no",
     expires |-> closed + Expiry, next |-> time]
Close(j, reason) == IF Active(j) THEN [j EXCEPT !.terminal = reason] ELSE j

Each(s, Op(_)) == [i \in DOMAIN s |-> Op(s[i])]
MediaIn(s) == {s[i].media : i \in DOMAIN s}
ActiveIn(s) == {i \in DOMAIN s : Active(s[i])}

\* Store::save refuses a ledger that does not validate.
Valid(ledger) ==
    /\ Len(ledger.jobs) <= MaxPending
    /\ IsInjective([i \in DOMAIN ledger.jobs |-> ledger.jobs[i].media])
    /\ \A i \in DOMAIN ledger.jobs :
          LET j == ledger.jobs[i] IN
          /\ j.closed <= ledger.last
          /\ j.nextMs \in j.closed .. j.closed + Expiry + Cadence
          /\ j.attempts <= MaxAttempts

\* Ledger::reconcile_time: a clock that ran backwards expires everything.
Reconciled(ledger, now) ==
    LET expired(j) == IF now < ledger.last \/ now >= j.closed + Expiry
                      THEN Close(j, "expired") ELSE j
    IN [last |-> Max({ledger.last, now}), jobs |-> Each(ledger.jobs, expired)]

\* retain_available: expired jobs and jobs without their directory close.
Retained(s) ==
    LET retain(j) == IF time >= j.expires THEN Close(j, "expired")
                     ELSE IF folder[j.media] = "gone" THEN Close(j, "deleted")
                     ELSE j
    IN Each(s, retain)

\* Vec::remove.
Without(s, i) == SubSeq(s, 1, i - 1) \o SubSeq(s, i + 1, Len(s))

\* The job that makes room: a closed one, and otherwise the oldest.
Victim(s) == LET closed == DOMAIN s \ ActiveIn(s)
             IN IF closed = {} THEN 1 ELSE Min(closed)

\* command
Commanded(s, c) ==
    CASE c.op = "submit" ->
           IF c.media \in MediaIn(s) THEN s
           ELSE Append(IF Len(s) = MaxPending THEN Without(s, Victim(s)) ELSE s,
                       NewJob(c.media, c.time, c.wall))
      [] c.op = "published" ->
           LET publish(j) == IF j.media = c.media /\ Active(j)
                             THEN [j EXCEPT !.published = TRUE] ELSE j
           IN Each(s, publish)
      [] c.op = "cancel" ->
           LET cancel(j) == IF j.media = c.media THEN Close(j, "cancelled") ELSE j
           IN Each(s, cancel)

\* The commands of the channel, one after the other.
Drained(s) ==
    LET after[k \in 0 .. Len(channel)] ==
            IF k = 0 THEN s ELSE Commanded(after[k - 1], channel[k])
    IN after[Len(channel)]
-----------------------------------------------------------------------------
(* The service, through Handle. *)

Running == place \notin {"down", "ended"}

\* Handle::send: a full channel closes every job.
SendTo(op, m) ==
    LET submit == op = "submit"
        command == [op |-> op, media |-> m, time |-> IF submit THEN time ELSE 0,
                    wall |-> IF submit THEN Wall ELSE 0] IN
    IF Len(channel) < Capacity /\ place # "ended"
    THEN channel' = Append(channel, command) /\ UNCHANGED <<failed, stop>>
    ELSE failed' = TRUE /\ stop' = TRUE /\ UNCHANGED channel

\* A capture closes with a provisional candidate.
Submit(m) ==
    /\ place # "down" /\ recording[m] = "capturing" /\ ~stop
    /\ \A k \in Media : k < m => recording[k] # "capturing"
    /\ recording' = [recording EXCEPT ![m] = "submitted"]
    /\ SendTo("submit", m)
    /\ UNCHANGED <<clocks, folder, sidecar, asked, cancelled, disk, worker>>

\* The recording is published as media, or fails to be.
Publish(m) ==
    /\ place # "down" /\ recording[m] = "submitted"
    /\ recording' = [recording EXCEPT ![m] = "done"]
    /\ folder' = [folder EXCEPT ![m] = IF @ = "gone" THEN @ ELSE "published"]
    /\ SendTo("published", m)
    /\ UNCHANGED <<clocks, sidecar, asked, cancelled, disk, worker>>

Cancel(m) ==
    /\ place # "down" /\ recording[m] = "submitted"
    /\ recording' = [recording EXCEPT ![m] = "done"]
    /\ cancelled' = IF Running THEN cancelled \cup {m} ELSE cancelled
    /\ SendTo("cancel", m)
    /\ UNCHANGED <<clocks, folder, sidecar, asked, disk, worker>>

\* Coordinator::stop, after the recordings were joined.
StopCoordinator ==
    /\ place # "down" /\ ~stop
    /\ \A m \in Media : recording[m] # "submitted"
    /\ stop' = TRUE
    /\ UNCHANGED <<clocks, files, asked, cancelled, disk, channel, failed, worker>>

\* The user deletes a recording.
DeleteFolder(m) ==
    /\ folder[m] = "published" /\ recording[m] = "done"
    /\ folder' = [folder EXCEPT ![m] = "gone"]
    /\ sidecar' = sidecar \ {m}
    /\ UNCHANGED <<clocks, recording, asked, cancelled, disk, handle, worker>>

\* After a crash, the recovery of interrupted publications completes one.
RecoverFolder(m) ==
    /\ place = "down" /\ recording[m] = "submitted" /\ folder[m] = "private"
    /\ folder' = [folder EXCEPT ![m] = "published"]
    /\ recording' = [recording EXCEPT ![m] = "done"]
    /\ UNCHANGED <<clocks, sidecar, asked, cancelled, disk, handle, worker>>
-----------------------------------------------------------------------------
(* The worker task. *)

NoFlight == [media |-> {}, first |-> None, expires |-> 0]
NoWrite == [ledger |-> [last |-> 0, jobs |-> <<>>], rollback |-> FALSE, then |-> "turn"]

\* Durability::persist up to the save; what follows it depends on then.
Persist(s, then) ==
    LET ledger == Reconciled([last |-> last, jobs |-> Each(s, Saved)], Wall)
        reconcile(i) == [s[i] EXCEPT !.terminal = ledger.jobs[i].terminal]
    IN /\ last' = ledger.last
       /\ jobs' = [i \in DOMAIN s |-> reconcile(i)]
       /\ writing' = [ledger |-> ledger, rollback |-> Wall < last, then |-> then]
       /\ place' = "saving"

\* The head of the loop of work_state.
Turn ==
    /\ place = "top"
    /\ LET drained == Drained(jobs)
           cancel(j) == Close(j, "cancelled")
           kept == Retained(IF failed THEN Each(drained, cancel) ELSE drained)
       IN IF broken
          THEN place' = "ended" /\ jobs' = kept /\ UNCHANGED <<last, writing>>
          ELSE Persist(kept, "turn")
    /\ channel' = <<>>
    /\ UNCHANGED <<clocks, files, asked, cancelled, disk, failed, stop, flight, broken>>

\* The jobs that may be asked for now.
Eligible == {i \in ActiveIn(jobs) : /\ ~jobs[i].result /\ jobs[i].next <= time
                                    /\ jobs[i].attempts < MaxAttempts}
\* SavedJob::reserve
Reservable(j) == Wall >= j.nextMs /\ Wall >= j.closed /\ Wall < j.closed + Expiry
Reserved(i) ==
    LET j == jobs[i] IN
    IF i \notin Eligible THEN j
    ELSE IF Reservable(j)
    THEN [j EXCEPT !.attempts = @ + 1, !.nextMs = Wall + Cadence, !.next = time + Cadence]
    ELSE [j EXCEPT !.next = time + Max({j.nextMs - Wall, 1})]
Installable == {i \in ActiveIn(jobs) : jobs[i].published /\ jobs[i].result}

\* The save ends: the file is replaced as a whole, or stays.
SaveEnds(ok) ==
    /\ place = "saving"
    /\ disk' = IF ok THEN writing.ledger ELSE disk
Settled == writing' = NoWrite /\ flight' = NoFlight

AfterTurn ==
    LET ok == Valid(writing.ledger) IN
    /\ writing.then = "turn" /\ SaveEnds(ok)
    /\ UNCHANGED <<clocks, files, asked, cancelled, handle>>
    /\ \/ /\ ~ok \/ writing.rollback
          /\ broken' = TRUE /\ place' = "ended" /\ Settled
          /\ UNCHANGED <<jobs, last>>
       \/ /\ ok /\ ~writing.rollback /\ stop
          /\ place' = "ended" /\ Settled
          /\ UNCHANGED <<jobs, last, broken>>
       \/ /\ ok /\ ~writing.rollback /\ ~stop /\ Installable # {}
          /\ place' = "install" /\ Settled
          /\ UNCHANGED <<jobs, last, broken>>
       \/ /\ ok /\ ~writing.rollback /\ ~stop /\ Installable = {}
          /\ LET taken == {i \in Eligible : Reservable(jobs[i])}
                 reserved == [i \in DOMAIN jobs |-> Reserved(i)]
             IN IF taken = {}
                THEN place' = "idle" /\ jobs' = reserved /\ Settled /\ UNCHANGED last
                ELSE /\ Persist(reserved, "dispatch")
                     /\ flight' = [media |-> {jobs[i].media : i \in taken}, first |-> None,
                                   expires |-> 0]
          /\ UNCHANGED broken

\* The reservation is saved: the request is made, unless it is too late.
AfterReservation ==
    LET ok == Valid(writing.ledger)
        due == {i \in ActiveIn(jobs) : /\ jobs[i].media \in flight.media
                                       /\ time < jobs[i].expires
                                       /\ Wall < jobs[i].closed + Expiry}
    IN /\ writing.then = "dispatch" /\ SaveEnds(ok)
       /\ UNCHANGED <<clocks, files, cancelled, handle, jobs, last>>
       /\ \/ /\ ~ok \/ writing.rollback
             /\ broken' = TRUE /\ place' = "ended" /\ Settled /\ UNCHANGED asked
          \/ /\ ok /\ ~writing.rollback /\ (stop \/ due = {})
             /\ place' = "top" /\ Settled /\ UNCHANGED <<asked, broken>>
          \/ /\ ok /\ ~writing.rollback /\ ~stop /\ due # {}
             /\ place' = "acquire" /\ writing' = NoWrite
             /\ flight' = [media |-> {jobs[i].media : i \in due},
                           first |-> jobs[Min(due)].media,
                           expires |-> Min({jobs[i].expires : i \in due})]
             /\ asked' = [m \in Media |-> asked[m] + (IF m \in flight'.media THEN 1 ELSE 0)]
             /\ UNCHANGED broken

\* acquire_owned: commands, deletion and expiry stay observable in flight.
FlightCommand ==
    /\ place = "acquire" /\ ~stop /\ channel # <<>>
    /\ Persist(Commanded(jobs, Head(channel)), "command")
    /\ channel' = Tail(channel)
    /\ UNCHANGED <<clocks, files, asked, cancelled, disk, failed, stop, flight, broken>>

FlightTick ==
    /\ place = "acquire" /\ ~stop /\ channel = <<>>
    /\ Persist(Retained(jobs), "tick")
    /\ Each(Retained(jobs), Saved) # Each(jobs, Saved) \/ Wall > last
    /\ UNCHANGED <<clocks, files, asked, cancelled, disk, handle, flight, broken>>

\* What the end of an acquisition does to the jobs that it was reserved for.
Outcomes == {"unavailable", "confirmed", "rejected", "not_ready"}
\* Mutant: a response is applied to jobs that were closed in the meantime.
AnsweredAnyway(answer) ==
    LET apply(j) == IF j.media \in flight.media /\ answer[j.media] = "rejected"
                    THEN [j EXCEPT !.terminal = "rejected"] ELSE j
    IN Each(jobs, apply)

Answered(answer) ==
    LET apply(j) ==
            IF ~Active(j) \/ j.media \notin flight.media THEN j
            ELSE [j EXCEPT !.next = time + Cadence,
                           !.nextMs = Min({Wall, j.closed + Expiry}) + Cadence,
                           !.result = @ \/ answer[j.media] = "confirmed",
                           !.terminal = IF answer[j.media] = "rejected"
                                        THEN "rejected" ELSE @]
    IN Each(jobs, apply)
Unavailable == [m \in Media |-> "unavailable"]

AfterFlightSave ==
    LET ok == Valid(writing.ledger)
        over == \/ \A i \in ActiveIn(jobs) : jobs[i].media # flight.first
                \/ writing.then = "tick" /\ time >= flight.expires
    IN /\ writing.then \in {"command", "tick"} /\ SaveEnds(ok)
       /\ broken' = (~ok \/ writing.rollback)
       /\ IF broken' \/ over
          THEN place' = "top" /\ jobs' = Answered(Unavailable) /\ Settled
          ELSE place' = "acquire" /\ writing' = NoWrite /\ UNCHANGED <<jobs, flight>>
       /\ UNCHANGED <<clocks, files, asked, cancelled, handle, last>>

\* A save that the file system refuses, wherever it is.
SaveFails ==
    /\ SaveEnds(FALSE) /\ broken' = TRUE /\ Settled
    /\ IF writing.then \in {"command", "tick"}
       THEN place' = "top" /\ jobs' = Answered(Unavailable)
       ELSE place' = "ended" /\ UNCHANGED jobs
    /\ UNCHANGED <<clocks, files, asked, cancelled, handle, last>>

FlightStopped ==
    /\ place = "acquire" /\ stop
    /\ place' = "top" /\ jobs' = Answered(Unavailable) /\ Settled
    /\ UNCHANGED <<clocks, files, asked, cancelled, disk, handle, last, broken>>

Response(answer) ==
    /\ place = "acquire" /\ ~stop /\ channel = <<>>
    /\ place' = "top" /\ jobs' = Answered(answer) /\ Settled
    /\ UNCHANGED <<clocks, files, asked, cancelled, disk, handle, last, broken>>

\* DirectoryGuard::install_result: an installed result is accepted again.
Install(ok) ==
    /\ place = "install"
    /\ LET i == Min(Installable)
           m == jobs[i].media
           done == ok /\ folder[m] = "published"
       IN /\ jobs' = [jobs EXCEPT ![i].terminal =
                          IF done THEN "completed" ELSE "publication_failed"]
          /\ sidecar' = IF done THEN sidecar \cup {m} ELSE sidecar
    /\ place' = "top"
    /\ UNCHANGED <<clocks, recording, folder, asked, cancelled, disk, handle,
                   last, flight, broken, writing>>

\* The select at the end of the loop.
Deadlines == {IF jobs[i].result \/ jobs[i].attempts = MaxAttempts THEN jobs[i].expires
              ELSE Min({jobs[i].next, jobs[i].expires}) : i \in ActiveIn(jobs)}
Wake ==
    /\ place = "idle"
    /\ stop \/ channel # <<>> \/ (\E d \in Deadlines : d <= time)
    /\ place' = "top"
    /\ IF ~stop /\ channel # <<>>
       THEN jobs' = Commanded(jobs, Head(channel)) /\ channel' = Tail(channel)
       ELSE UNCHANGED <<jobs, channel>>
    /\ UNCHANGED <<clocks, files, asked, cancelled, disk, failed, stop, last, flight,
                   broken, writing>>
-----------------------------------------------------------------------------
(* Start, crash and time. *)

\* Mutant: a restart counts the attempts from zero.
RestoredAfresh(saved) ==
    LET restore(j) ==
            [media |-> j.media, closed |-> j.closed, nextMs |-> j.nextMs,
             attempts |-> 0, result |-> j.result, published |-> j.published,
             terminal |-> j.terminal, expires |-> time + Max({j.closed + Expiry - Wall, 0}),
             next |-> time + Max({j.nextMs - Wall, 0})]
    IN Each(saved, restore)

\* restore_jobs
Restored(saved) ==
    LET restore(j) ==
            [media |-> j.media, closed |-> j.closed, nextMs |-> j.nextMs,
             attempts |-> j.attempts, result |-> j.result,
             published |-> j.published \/ (Active(j) /\ folder[j.media] = "published"),
             terminal |-> IF Active(j) /\ folder[j.media] = "gone"
                          THEN "deleted" ELSE j.terminal,
             expires |-> time + Max({j.closed + Expiry - Wall, 0}),
             next |-> time + Max({j.nextMs - Wall, 0})]
    IN Each(saved, restore)

\* Coordinator::start and Store::open: the ledger is reconciled and saved.
Start ==
    LET ledger == Reconciled(disk, Wall) IN
    /\ place = "down"
    /\ disk' = ledger /\ last' = ledger.last
    /\ jobs' = Restored(ledger.jobs)
    /\ place' = "top"
    /\ UNCHANGED <<clocks, files, asked, cancelled, handle, flight, broken, writing>>

\* The process ends, at any point, or after the coordinator was joined.
Crash ==
    /\ place # "down" /\ crashes < MaxCrashes
    /\ crashes' = crashes + 1
    /\ place' = "down" /\ jobs' = <<>> /\ last' = 0 /\ flight' = NoFlight
    /\ broken' = FALSE /\ writing' = NoWrite
    /\ channel' = <<>> /\ failed' = FALSE /\ stop' = FALSE
    /\ UNCHANGED <<time, skew, files, asked, cancelled, disk>>

Tick ==
    /\ time < MaxTime /\ time' = time + 1
    /\ UNCHANGED <<skew, crashes, files, asked, cancelled, disk, handle, worker>>

ClockStepsBack ==
    /\ skew > 0 /\ skew' = skew - 1
    /\ UNCHANGED <<time, crashes, files, asked, cancelled, disk, handle, worker>>

Init ==
    /\ time = 1 /\ skew = 1 /\ crashes = 0
    /\ recording = [m \in Media |-> "capturing"]
    /\ folder = [m \in Media |-> "private"]
    /\ sidecar = {} /\ cancelled = {}
    /\ asked = [m \in Media |-> 0]
    /\ disk = [last |-> 1, jobs |-> <<>>]
    /\ channel = <<>> /\ failed = FALSE /\ stop = FALSE
    /\ place = "down" /\ jobs = <<>> /\ last = 0
    /\ flight = NoFlight /\ broken = FALSE /\ writing = NoWrite

Environment ==
    \/ \E m \in Media : Submit(m) \/ Publish(m) \/ Cancel(m) \/ DeleteFolder(m)
                        \/ RecoverFolder(m)
    \/ StopCoordinator \/ Crash \/ Tick \/ ClockStepsBack

Task ==
    \/ Start \/ Turn \/ AfterTurn \/ AfterReservation \/ SaveFails
    \/ FlightCommand \/ FlightTick \/ AfterFlightSave \/ FlightStopped
    \/ \E answer \in [Media -> Outcomes] : Response(answer)
    \/ \E ok \in BOOLEAN : Install(ok)
    \/ Wake

Next == Environment \/ Task

Spec == Init /\ [][Next]_vars
-----------------------------------------------------------------------------
SavedJobs == {disk.jobs[i] : i \in DOMAIN disk.jobs}

\* No more requests are made for a recording than its ledger entry accounts
\* for, crashes and restarts included: a reservation is on disk before the
\* request is made and is never given back.
RequestsWereReserved ==
    \A m \in Media :
        /\ asked[m] <= MaxAttempts
        /\ \A j \in SavedJobs : j.media = m => asked[m] <= j.attempts

\* What a worker holds is on disk before it acts on the world: a request is
\* under way, or a result is installed, for jobs that are active and
\* published or reserved in the file.
ActsOnSavedJobs ==
    /\ place = "install" => \E j \in SavedJobs :
           j.media = jobs[Min(Installable)].media /\ Active(j) /\ j.published /\ j.result
    /\ place = "acquire" => \E j \in SavedJobs : j.media = flight.first /\ Active(j)

\* Results are installed only into directories that were published.
ResultsFollowPublication == \A m \in sidecar : folder[m] = "published"

\* The file that the next start reads is one it accepts.
LedgerIsValid == Valid(disk)

\* A job that is closed in the ledger is never opened again, by a response
\* that was in flight, by a restart or by a clock that runs backwards.
ClosedStaysClosed ==
    [][\A j \in SavedJobs : ~Active(j) =>
          \A i \in DOMAIN disk'.jobs : disk'.jobs[i].media = j.media =>
              disk'.jobs[i].terminal = j.terminal]_disk
=============================================================================
