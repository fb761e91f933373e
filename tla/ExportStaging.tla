--------------------------- MODULE ExportStaging ---------------------------
(***************************************************************************)
(* Clip export (app/src-tauri/src/export_staging.rs and the export job of  *)
(* clip_export.rs).  An export stages its outputs in an owned batch        *)
(* directory under an OS lease, publishes them with moves that replace     *)
(* nothing, and removes what is left; exports and refreshes of any app     *)
(* process reclaim the batches of processes that died.                     *)
(*                                                                         *)
(* A worker is an app process with its running job; a batch id is a        *)
(* number, as only the order of the names matters.  The production build   *)
(* always recovers: the read-only mode of benchmark builds is left out.    *)
(***************************************************************************)
EXTENDS Naturals, FiniteSets

CONSTANTS
    Workers,     \* app processes
    NoWorker,
    Ids,         \* batch directory names
    Names,       \* destination names of clips
    MaxMembers,  \* outputs per export; 3 in Manifest::validate
    BatchLimit,  \* BATCH_LIMIT, batches per recovery; 64
    MaxFaults    \* bound on crashes, cancellations, superseded refreshes and
                 \* files that somebody else adds

ASSUME StagingAssumption ==
    /\ NoWorker \notin Workers
    /\ Ids \subseteq Nat \ {0}
    /\ MaxMembers \in Nat \ {0} /\ Names # {}
    /\ BatchLimit \in Nat /\ MaxFaults \in Nat

VARIABLES
    lease,    \* holder of the lock on .lease
    batches,  \* [Ids -> Batch]: directories under .chronobreak-export
    clips,    \* [Names \X Extensions -> ...]: the clips directory
    jobs,     \* [Workers -> Job]
    cursor,   \* [Workers -> Nat]: CURSOR of each process, 0 for None
    faults

vars == <<lease, batches, clips, jobs, cursor, faults>>

Extensions == {"mp4", "jpg"}
Members == 0 .. MaxMembers - 1
Artifacts == Members \X Extensions

\* A directory, its ownership record, its members, and unknown entries; a
\* "late" member is one that an orphaned media tool created.
Content == {"absent", "partial", "late", "valid"}
Batch == [state   : {"absent", "bare", "torn", "owned"},
          files   : [Artifacts -> Content],
          orphan  : SUBSET Artifacts,   \* held, or about to be created, by one
          foreign : BOOLEAN]

NoBatch == [state |-> "absent", files |-> [a \in Artifacts |-> "absent"],
            orphan |-> {}, foreign |-> FALSE]

Encoding == {"encode", "encoding", "drawing", "publish"}
Cleaning == {"drop", "removing", "rmdir"}
Phases == {"idle", "recover", "prepare", "begin"} \cup Encoding \cup Cleaning

Job == [phase     : Phases,
        export    : BOOLEAN,       \* an export, or the recovery of a refresh
        cancelled : BOOLEAN,       \* waiter gone, or refresh superseded
        todo      : SUBSET Ids,    \* selected batches still to recover
        last      : Ids \cup {0},  \* the greatest selected one
        batch     : Ids \cup {0},
        names     : [Members -> Names],
        members   : 0 .. MaxMembers,
        step      : 0 .. 2 * MaxMembers,
        left      : SUBSET Artifacts]  \* names that cleanup has not visited

IdleJob == [phase |-> "idle", export |-> FALSE, cancelled |-> FALSE,
            todo |-> {}, last |-> 0, batch |-> 0,
            names |-> [m \in Members |-> CHOOSE n \in Names : TRUE],
            members |-> 0, step |-> 0, left |-> {}]

Set(w, job) == jobs' = [jobs EXCEPT ![w] = job]
Go(w, phase) == Set(w, [jobs[w] EXCEPT !.phase = phase])

\* The job ends and its lease with it.
Release(w) ==
    /\ lease' = NoWorker
    /\ Set(w, IdleJob)

-----------------------------------------------------------------------------
(* Recovery of abandoned batches.                                          *)

\* Mutant: recovery does not look at the lease.
MayAcquireAnyway(w) == lease # w

\* Lease::acquire without waiting.
MayAcquire(w) == lease = NoWorker

\* Lease::select: the first BatchLimit directories after the cursor.
Select(after) ==
    LET named == {i \in Ids : batches[i].state # "absent" /\ i > after}
    IN {i \in named : Cardinality({j \in named : j < i}) < BatchLimit}

\* Mutant: the budget always starts over.
SelectedFromStart(w) == Select(0)

\* From the cursor, and from the start when nothing follows it.
Selected(w) ==
    IF Select(cursor[w]) = {} THEN Select(0) ELSE Select(cursor[w])

\* Mutant: the cursor is left behind the last selected name.
LastAndNext(ids) ==
    IF ids = {} THEN 0 ELSE 1 + CHOOSE i \in ids : \A j \in ids : j <= i

\* The greatest of the selected names, 0 for none.
Last(ids) ==
    LET last == {i \in ids : \A j \in ids : j <= i}
    IN IF last = {} THEN 0 ELSE CHOOSE i \in last : TRUE

\* An export or a refresh takes the lease and selects what it recovers.
Begin(w, export) ==
    /\ jobs[w].phase = "idle" /\ MayAcquire(w)
    /\ lease' = w
    /\ Set(w, [IdleJob EXCEPT !.phase = "recover", !.export = export,
                              !.todo = Selected(w), !.last = Last(Selected(w))])
    /\ UNCHANGED <<batches, clips, cursor, faults>>

\* The member names of a batch at which there is, or may come to be, a file.
Present(b) ==
    {a \in Artifacts : batches[b].files[a] # "absent" \/ a \in batches[b].orphan}

\* recover_batch: a directory without a valid record, or with an unknown
\* entry, is retained.
RecoverBatch(w) ==
    \E i \in jobs[w].todo :
        /\ jobs[w].phase = "recover" /\ ~jobs[w].cancelled
        /\ \A j \in jobs[w].todo : i <= j
        /\ IF batches[i].state = "owned" /\ ~batches[i].foreign
           THEN Set(w, [jobs[w] EXCEPT !.phase = "removing", !.batch = i,
                                       !.left = Present(i)])
           ELSE Set(w, [jobs[w] EXCEPT !.todo = @ \ {i}])
        /\ UNCHANGED <<lease, batches, clips, cursor, faults>>

\* check_current fails between two batches; the cursor stays.
InterruptRecovery(w) ==
    /\ jobs[w].phase = "recover" /\ jobs[w].cancelled
    /\ jobs[w].todo # {}
    /\ Release(w)
    /\ UNCHANGED <<batches, clips, cursor, faults>>

FinishRecovery(w) ==
    /\ jobs[w].phase = "recover" /\ jobs[w].todo = {}
    /\ cursor' = IF jobs[w].last = 0 THEN cursor
                 ELSE [cursor EXCEPT ![w] = jobs[w].last]
    /\ IF jobs[w].export THEN Go(w, "prepare") /\ UNCHANGED lease
                         ELSE Release(w)
    /\ UNCHANGED <<batches, clips, faults>>

-----------------------------------------------------------------------------
(* cleanup: the members in any order, then the record and the directory.   *)

\* The batch is done with, in whatever state; an export ends, a recovery
\* takes its next one.
LeaveBatch(w) ==
    IF jobs[w].export /\ jobs[w].todo = {}
    THEN Release(w)
    ELSE /\ Set(w, [jobs[w] EXCEPT !.phase = "recover", !.batch = 0,
                                   !.todo = @ \ {jobs[w].batch}, !.left = {}])
         /\ UNCHANGED lease

\* Batch::drop: the directory is validated before anything is removed.
DropBatch(w) ==
    LET b == jobs[w].batch IN
    /\ jobs[w].phase = "drop"
    /\ IF batches[b].foreign
       THEN LeaveBatch(w)
       ELSE /\ Set(w, [jobs[w] EXCEPT !.phase = "removing", !.left = Present(b)])
            /\ UNCHANGED lease
    /\ UNCHANGED <<batches, clips, cursor, faults>>

\* Each name is tried once; a file that is held open stays, with everything
\* not removed before it.
RemoveMember(w) ==
    LET b == jobs[w].batch IN
    /\ jobs[w].phase = "removing"
    /\ \E a \in jobs[w].left :
        IF a \in batches[b].orphan /\ batches[b].files[a] # "absent"
        THEN LeaveBatch(w) /\ UNCHANGED batches
        ELSE /\ batches' = [batches EXCEPT ![b].files[a] = "absent"]
             /\ Set(w, [jobs[w] EXCEPT !.left = @ \ {a}])
             /\ UNCHANGED lease
    /\ UNCHANGED <<clips, cursor, faults>>

\* Mutant: the ownership record goes first.
RemoveOwnerEarly(w) ==
    /\ jobs[w].phase = "removing"
    /\ batches' = [batches EXCEPT ![jobs[w].batch].state = "bare"]
    /\ Go(w, "rmdir")
    /\ UNCHANGED <<lease, clips, cursor, faults>>

RemoveOwner(w) ==
    /\ jobs[w].phase = "removing" /\ jobs[w].left = {}
    /\ batches' = [batches EXCEPT ![jobs[w].batch].state = "bare"]
    /\ Go(w, "rmdir")
    /\ UNCHANGED <<lease, clips, cursor, faults>>

\* Mutant: the directory is removed with everything in it.
RemoveDirectoryTree(w) ==
    /\ jobs[w].phase = "rmdir"
    /\ batches' = [batches EXCEPT ![jobs[w].batch] = NoBatch]
    /\ LeaveBatch(w)
    /\ UNCHANGED <<clips, cursor, faults>>

\* Only an empty directory can be removed.
RemoveDirectory(w) ==
    LET b == jobs[w].batch
        empty == /\ ~batches[b].foreign
                 /\ \A a \in Artifacts : batches[b].files[a] = "absent"
    IN
    /\ jobs[w].phase = "rmdir"
    /\ batches' = IF empty THEN [batches EXCEPT ![b] = NoBatch] ELSE batches
    /\ LeaveBatch(w)
    /\ UNCHANGED <<clips, cursor, faults>>

-----------------------------------------------------------------------------
(* The export.                                                             *)

\* The source, its authority, the request or the music is refused, or no
\* directory can be created.
RefuseExport(w) ==
    /\ jobs[w].phase = "prepare"
    /\ Release(w)
    /\ UNCHANGED <<batches, clips, cursor, faults>>

\* unique_paths, then the batch directory.
CreateBatch(w) ==
    \E i \in Ids, k \in 1 .. MaxMembers, names \in [Members -> Names] :
        /\ jobs[w].phase = "prepare"
        /\ batches[i].state = "absent"
        /\ \A m, n \in 0 .. k - 1 : m # n => names[m] # names[n]
        /\ \A m \in Members : IF m < k
              THEN \A e \in Extensions : clips[<<names[m], e>>] = "absent"
              ELSE names[m] = names[0]
        /\ batches' = [batches EXCEPT ![i].state = "bare"]
        /\ Set(w, [jobs[w] EXCEPT !.phase = "begin", !.batch = i,
                                  !.names = names, !.members = k])
        /\ UNCHANGED <<lease, clips, cursor, faults>>

\* Lease::begin persists the record; when it cannot, no Batch exists to drop
\* and the directory stays.
WriteOwner(w) ==
    LET b == jobs[w].batch IN
    /\ jobs[w].phase = "begin"
    /\ \/ /\ batches' = [batches EXCEPT ![b].state = "owned"]
          /\ Go(w, "encode") /\ UNCHANGED lease
       \/ /\ batches' = [batches EXCEPT ![b].state = "torn"]
          /\ Release(w)
    /\ UNCHANGED <<clips, cursor, faults>>

Stage(b, member, extension, content) ==
    batches' = [batches EXCEPT ![b].files[<<member, extension>>] = content]

\* The next output is encoded, or every output is staged.
StartEncoding(w) ==
    LET job == jobs[w] IN
    /\ job.phase = "encode"
    /\ ~job.cancelled
    /\ IF job.step < job.members
       THEN Stage(job.batch, job.step, "mp4", "partial") /\ Go(w, "encoding")
       ELSE /\ Set(w, [job EXCEPT !.phase = "publish", !.step = 0])
            /\ UNCHANGED batches
    /\ UNCHANGED <<lease, clips, cursor, faults>>

\* Some encoder succeeds, the output is validated and its thumbnail begun.
FinishEncoding(w) ==
    LET job == jobs[w] IN
    /\ job.phase = "encoding" /\ ~job.cancelled
    /\ batches' = [batches EXCEPT
            ![job.batch].files[<<job.step, "mp4">>] = "valid",
            ![job.batch].files[<<job.step, "jpg">>] = "partial"]
    /\ Go(w, "drawing")
    /\ UNCHANGED <<lease, clips, cursor, faults>>

\* A tool that succeeds may have drawn no frame.
FinishThumbnail(w) ==
    LET job == jobs[w] IN
    /\ job.phase = "drawing"
    /\ \E content \in {"valid", "absent"} :
        Stage(job.batch, job.step, "jpg", content)
    /\ Set(w, [job EXCEPT !.phase = "encode", !.step = @ + 1])
    /\ UNCHANGED <<lease, clips, cursor, faults>>

\* Cancelled at a check, or every encoder, the validation, the thumbnail or
\* a size limit failed.
FailExport(w) ==
    /\ \/ jobs[w].phase = "encode" /\ jobs[w].cancelled
       \/ jobs[w].phase \in {"encoding", "drawing"}
    /\ Go(w, "drop")
    /\ UNCHANGED <<lease, batches, clips, cursor, faults>>

\* publish_export_paths: the video of a member and then its thumbnail.
Artifact(step) == <<step \div 2, IF step % 2 = 0 THEN "mp4" ELSE "jpg">>

\* Mutant: a move that replaces.
MayMoveReplacing(content, destination) == content # "absent"

\* open_regular and move_no_replace.
MayMove(content, destination) ==
    content # "absent" /\ destination = "absent"

Publish(w) ==
    LET job == jobs[w]
        a == Artifact(job.step)
        destination == <<job.names[a[1]], a[2]>>
        content == batches[job.batch].files[a]
    IN
    /\ job.phase = "publish"
    /\ IF job.step < 2 * job.members /\ MayMove(content, clips[destination])
       THEN /\ clips' = [clips EXCEPT ![destination] = content]
            /\ batches' = [batches EXCEPT ![job.batch].files[a] = "absent"]
            /\ Set(w, [job EXCEPT !.step = @ + 1])
       ELSE Go(w, "drop") /\ UNCHANGED <<clips, batches>>
    /\ UNCHANGED <<lease, cursor, faults>>

-----------------------------------------------------------------------------
(* The environment.                                                        *)

\* The caller goes away or the refresh is superseded.
Cancel(w) ==
    /\ faults < MaxFaults /\ faults' = faults + 1
    /\ jobs[w].phase # "idle" /\ ~jobs[w].cancelled
    /\ Set(w, [jobs[w] EXCEPT !.cancelled = TRUE])
    /\ UNCHANGED <<lease, batches, clips, cursor>>

\* The process dies: its lock and cursor go, its staging stays, and a media
\* tool it ran holds its output, or is yet to create it, for a while.
Crash(w) ==
    LET job == jobs[w]
        output == <<job.step, IF job.phase = "encoding" THEN "mp4" ELSE "jpg">>
    IN
    /\ faults < MaxFaults /\ faults' = faults + 1
    /\ job.phase # "idle"
    /\ Set(w, IdleJob)
    /\ lease' = IF lease = w THEN NoWorker ELSE lease
    /\ cursor' = [cursor EXCEPT ![w] = 0]
    /\ IF job.phase \in {"encoding", "drawing"}
       THEN \E content \in {"partial", "absent"} :
                batches' = [batches EXCEPT ![job.batch].orphan = {output},
                                           ![job.batch].files[output] = content]
       ELSE UNCHANGED batches
    /\ UNCHANGED clips

OrphanCreates(i) ==
    \E a \in batches[i].orphan :
        /\ batches[i].files[a] = "absent"
        /\ batches' = [batches EXCEPT ![i].files[a] = "late"]
        /\ UNCHANGED <<lease, clips, jobs, cursor, faults>>

OrphanEnds(i) ==
    /\ batches[i].orphan # {}
    /\ batches' = [batches EXCEPT ![i].orphan = {}]
    /\ UNCHANGED <<lease, clips, jobs, cursor, faults>>

\* Somebody puts a file into a batch directory, or into the clips directory.
ForeignAppears(i) ==
    /\ faults < MaxFaults /\ faults' = faults + 1
    /\ batches[i].state # "absent" /\ ~batches[i].foreign
    /\ batches' = [batches EXCEPT ![i].foreign = TRUE]
    /\ UNCHANGED <<lease, clips, jobs, cursor>>

UserAdds(c) ==
    /\ faults < MaxFaults /\ faults' = faults + 1
    /\ clips[c] = "absent"
    /\ clips' = [clips EXCEPT ![c] = "user"]
    /\ UNCHANGED <<lease, batches, jobs, cursor>>

-----------------------------------------------------------------------------
Init ==
    /\ lease = NoWorker
    /\ batches = [i \in Ids |-> NoBatch]
    /\ clips = [c \in Names \X Extensions |-> "absent"]
    /\ jobs = [w \in Workers |-> IdleJob]
    /\ cursor = [w \in Workers |-> 0]
    /\ faults = 0

Work(w) ==
    \/ RecoverBatch(w) \/ InterruptRecovery(w) \/ FinishRecovery(w)
    \/ DropBatch(w) \/ RemoveMember(w) \/ RemoveOwner(w) \/ RemoveDirectory(w)
    \/ RefuseExport(w) \/ CreateBatch(w) \/ WriteOwner(w)
    \/ StartEncoding(w) \/ FinishEncoding(w) \/ FinishThumbnail(w)
    \/ FailExport(w) \/ Publish(w)

Environment ==
    \/ \E w \in Workers : Cancel(w) \/ Crash(w)
    \/ \E i \in Ids : OrphanCreates(i) \/ OrphanEnds(i) \/ ForeignAppears(i)
    \/ \E c \in Names \X Extensions : UserAdds(c)

Next ==
    \/ Environment
    \/ \E w \in Workers : Work(w) \/ \E export \in BOOLEAN : Begin(w, export)

Spec == Init /\ [][Next]_vars

\* A job runs to its end, an orphaned encoder ends, and refreshes keep being
\* requested: one of them finds the lease free.
FairSpec ==
    /\ Spec
    /\ \A w \in Workers : WF_vars(Work(w)) /\ SF_vars(Begin(w, FALSE))
    /\ \A i \in Ids : WF_vars(OrphanEnds(i))

-----------------------------------------------------------------------------
(* Properties.                                                             *)

TypeOK ==
    /\ lease \in Workers \cup {NoWorker}
    /\ batches \in [Ids -> Batch]
    /\ clips \in [Names \X Extensions -> Content \cup {"user"}]
    /\ jobs \in [Workers -> Job]
    /\ cursor \in [Workers -> Ids \cup {0}]
    /\ faults \in 0 .. MaxFaults

\* The outputs of w that are encoded and not yet published.
Finished(w) ==
    {m \in Members :
        IF jobs[w].phase = "publish"
        THEN m < jobs[w].members /\ jobs[w].step <= 2 * m
        ELSE m < jobs[w].step}

\* Nobody reclaims the batch of a running export: its record and every output
\* it has finished are where the export left them, through to publication.
LiveBatchIntact ==
    \A w \in Workers : jobs[w].phase \in Encoding =>
        /\ batches[jobs[w].batch].state = "owned"
        /\ \A m \in Finished(w) :
            batches[jobs[w].batch].files[<<m, "mp4">>] = "valid"

\* Whatever is interrupted, staged media always lie under an ownership record,
\* so that a later recovery may remove them.  The code cannot promise this of
\* an output that a dead process's tool creates while its batch is reclaimed.
StagedMediaIsOwned ==
    \A i \in Ids :
        (\E a \in Artifacts : batches[i].files[a] \in {"partial", "valid"}) =>
            batches[i].state = "owned"

\* A directory with an entry the exporter does not know is never removed, and
\* nothing in it is, unless the entry came after the directory was validated.
ForeignBatchesStay ==
    [][\A i \in Ids : batches[i].foreign =>
        /\ batches'[i].state # "absent"
        /\ (\A w \in Workers : jobs[w].batch # i) =>
            \A a \in Artifacts : batches[i].files[a] # "absent" =>
                batches'[i].files[a] = batches[i].files[a]]_vars

\* The clips directory as a user sees it: only validated clips appear in it,
\* a thumbnail after its video, and nothing is ever replaced.
PublishedClips == INSTANCE ClipStore
ClipStoreSpec == PublishedClips!Spec

\* No running export works on this batch.
Abandoned(i) ==
    /\ batches[i].state = "owned" /\ ~batches[i].foreign
    /\ \A w \in Workers : jobs[w].export => jobs[w].batch # i

\* Every abandoned batch is reclaimed, however many retained ones precede it.
AbandonedReclaimed == \A i \in Ids : Abandoned(i) ~> ~Abandoned(i)

=============================================================================
