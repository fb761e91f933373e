------------------------- MODULE ExportStagingProofs -------------------------
(***************************************************************************)
(* Proofs about ExportStaging, for any processes, batch names, clip names, *)
(* member counts and budgets.  Inv is the inductive invariant: one worker  *)
(* at a time holds the lease and works on a batch of its own, and what it  *)
(* has finished there is exactly what its step says.                       *)
(***************************************************************************)
EXTENDS ExportStaging, TLAPS

\* The lease belongs to the one worker that has a job.
Leased == \A w \in Workers : jobs[w].phase # "idle" <=> lease = w

\* Where there is no directory there is nothing, and staged media lie under a
\* record.
Tidy(b) ==
    /\ b.state = "absent" => b = NoBatch
    /\ (\E a \in Artifacts : b.files[a] \in {"partial", "valid"}) =>
            b.state = "owned"

\* A worker that writes or cleans has a batch.
Placed(w) ==
    jobs[w].phase \in Encoding \cup Cleaning \cup {"begin"} =>
        jobs[w].batch \in Ids

At(w) == batches[jobs[w].batch]

\* Only a worker that exports has taken steps, and it has recovered before.
Started(w) ==
    /\ jobs[w].phase \in {"recover", "prepare", "begin"} => jobs[w].step = 0
    /\ jobs[w].phase \in Encoding \cup {"prepare", "begin", "drop"} =>
        jobs[w].export /\ jobs[w].todo = {}
    /\ jobs[w].phase \in Cleaning =>
        jobs[w].step = 0 \/ (jobs[w].export /\ jobs[w].todo = {})

\* Its record is there until every name was visited, and a batch that is
\* being written has no orphaned writer.
Kept(w) ==
    /\ jobs[w].phase \in Encoding \cup {"drop", "removing"} =>
        At(w).state = "owned"
    /\ jobs[w].phase \in Encoding \cup {"begin"} => At(w).orphan = {}
    /\ jobs[w].phase = "removing" =>
        \A a \in Artifacts \ jobs[w].left : At(w).files[a] \in {"absent", "late"}
    /\ jobs[w].phase = "rmdir" =>
        \A a \in Artifacts : At(w).files[a] \in {"absent", "late"}
    /\ jobs[w].phase \in {"begin", "rmdir"} => At(w).state = "bare"

\* The outputs before the step of an encoding are complete.
Encoded(w) ==
    /\ jobs[w].phase \in {"encode", "encoding", "drawing"} =>
        /\ jobs[w].step <= jobs[w].members
        /\ \A m \in Members : m < jobs[w].step =>
            /\ At(w).files[<<m, "mp4">>] = "valid"
            /\ At(w).files[<<m, "jpg">>] \in {"valid", "absent"}
    /\ jobs[w].phase \in {"encoding", "drawing"} =>
        jobs[w].step < jobs[w].members
    /\ jobs[w].phase = "drawing" =>
        At(w).files[<<jobs[w].step, "mp4">>] = "valid"

\* The outputs after the step of a publication are still staged, and the
\* videos before it are published.
Published(w) == jobs[w].phase = "publish" =>
    /\ jobs[w].step <= 2 * jobs[w].members
    /\ \A m \in Members : m < jobs[w].members =>
        /\ jobs[w].step <= 2 * m => At(w).files[<<m, "mp4">>] = "valid"
        /\ At(w).files[<<m, "jpg">>] \in {"valid", "absent"}
        /\ 2 * m < jobs[w].step => clips[<<jobs[w].names[m], "mp4">>] = "valid"

InOrder(w) ==
    Placed(w) /\ Started(w) /\ Kept(w) /\ Encoded(w) /\ Published(w)

Inv ==
    /\ TypeOK
    /\ Leased
    /\ \A i \in Ids : Tidy(batches[i])
    /\ \A w \in Workers : InOrder(w)

-----------------------------------------------------------------------------
(* Facts about records and updates.                                        *)

LEMMA IdleJobType == IdleJob \in Job /\ IdleJob.phase = "idle"
BY StagingAssumption DEF IdleJob, Job, Phases, Members

LEMMA NoBatchType == NoBatch \in Batch /\ Tidy(NoBatch)
BY DEF NoBatch, Batch, Content, Tidy

\* A job is changed in its own entry only.
LEMMA SetJob ==
    ASSUME TypeOK, NEW w \in Workers, NEW job \in Job, Set(w, job)
    PROVE  /\ jobs' \in [Workers -> Job]
           /\ jobs'[w] = job
           /\ \A u \in Workers \ {w} : jobs'[u] = jobs[u]
BY DEF TypeOK, Set

\* Only the phase of a job changes.
LEMMA GoJob ==
    ASSUME TypeOK, NEW w \in Workers, NEW phase \in Phases, Go(w, phase)
    PROVE  /\ jobs' \in [Workers -> Job]
           /\ jobs'[w].phase = phase
           /\ jobs'[w].batch = jobs[w].batch /\ jobs'[w].names = jobs[w].names
           /\ jobs'[w].members = jobs[w].members
           /\ jobs'[w].step = jobs[w].step /\ jobs'[w].left = jobs[w].left
           /\ jobs'[w].export = jobs[w].export /\ jobs'[w].todo = jobs[w].todo
           /\ \A u \in Workers \ {w} : jobs'[u] = jobs[u]
<1> DEFINE job == [jobs[w] EXCEPT !.phase = phase]
<1>1. /\ job \in Job /\ job.phase = phase
      /\ job.batch = jobs[w].batch /\ job.names = jobs[w].names
      /\ job.members = jobs[w].members
      /\ job.step = jobs[w].step /\ job.left = jobs[w].left
      /\ job.export = jobs[w].export /\ job.todo = jobs[w].todo
    BY DEF TypeOK, Job
<1>2. Set(w, job)
    BY DEF Go
<1> HIDE DEF job
<1>. QED
    BY <1>1, <1>2, SetJob

\* What a release leaves.
LEMMA ReleaseJob ==
    ASSUME TypeOK, NEW w \in Workers, Release(w)
    PROVE  /\ lease' = NoWorker
           /\ jobs' \in [Workers -> Job]
           /\ jobs'[w].phase = "idle"
           /\ \A u \in Workers \ {w} : jobs'[u] = jobs[u]
BY IdleJobType, SetJob DEF Release

\* One artifact of one batch is changed.
LEMMA StageOne ==
    ASSUME batches \in [Ids -> Batch],
           NEW b \in Ids, NEW a \in Artifacts, NEW c \in Content,
           batches' = [batches EXCEPT ![b].files[a] = c]
    PROVE  /\ batches' \in [Ids -> Batch]
           /\ \A i \in Ids \ {b} : batches'[i] = batches[i]
           /\ batches'[b].state = batches[b].state
           /\ batches'[b].orphan = batches[b].orphan
           /\ batches'[b].foreign = batches[b].foreign
           /\ batches'[b].files[a] = c
           /\ \A x \in Artifacts \ {a} :
                batches'[b].files[x] = batches[b].files[x]
BY DEF Batch

\* The record of one batch is changed.
LEMMA MarkOne ==
    ASSUME batches \in [Ids -> Batch], NEW b \in Ids,
           NEW state \in {"absent", "bare", "torn", "owned"},
           batches' = [batches EXCEPT ![b].state = state]
    PROVE  /\ batches' \in [Ids -> Batch]
           /\ \A i \in Ids \ {b} : batches'[i] = batches[i]
           /\ batches'[b].state = state
           /\ batches'[b].orphan = batches[b].orphan
           /\ batches'[b].foreign = batches[b].foreign
           /\ batches'[b].files = batches[b].files
BY DEF Batch

\* Nobody else has a job while w has one.
LEMMA Alone ==
    ASSUME Leased, NEW w \in Workers, jobs[w].phase # "idle"
    PROVE  /\ lease = w
           /\ \A u \in Workers \ {w} : jobs[u].phase = "idle"
BY DEF Leased

\* An idle worker is in order.
LEMMA IdleInOrder ==
    ASSUME NEW w \in Workers, jobs[w].phase = "idle"
    PROVE  InOrder(w)
BY DEF InOrder, Placed, Started, Kept, Encoded, Published, Encoding, Cleaning

LEMMA IdleInOrderNext ==
    ASSUME NEW w \in Workers, jobs'[w].phase = "idle"
    PROVE  InOrder(w)'
BY DEF InOrder, Placed, Started, Kept, Encoded, Published, Encoding, Cleaning, At

\* A step of the worker with the lease preserves the invariant when it does so
\* for that worker and for the batches.
LEMMA OneWorker ==
    ASSUME Inv, TypeOK', NEW w \in Workers, jobs[w].phase # "idle",
           \A u \in Workers \ {w} : jobs'[u] = jobs[u],
           \/ lease' = lease /\ jobs'[w].phase # "idle"
           \/ lease' = NoWorker /\ jobs'[w].phase = "idle",
           \A i \in Ids : Tidy(batches'[i]),
           InOrder(w)'
    PROVE  Inv'
<1>1. lease = w /\ \A u \in Workers \ {w} : jobs[u].phase = "idle"
    BY Alone DEF Inv
<1>2. Leased'
    BY <1>1, StagingAssumption DEF Leased
<1>3. ASSUME NEW u \in Workers PROVE InOrder(u)'
    <2>1. CASE u = w
        BY <2>1
    <2>2. CASE u # w
        BY <1>1, <2>2, IdleInOrderNext
    <2>. QED BY <2>1, <2>2
<1>. QED
    BY <1>2, <1>3 DEF Inv

\* A worker in a phase without a batch of its own is in order.
LEMMA FreeInOrder ==
    ASSUME NEW w \in Workers,
           \/ jobs'[w].phase = "idle"
           \/ jobs'[w].phase = "recover" /\ jobs'[w].step = 0
           \/ /\ jobs'[w].phase = "prepare" /\ jobs'[w].step = 0
              /\ jobs'[w].export /\ jobs'[w].todo = {}
    PROVE  InOrder(w)'
BY DEF InOrder, Placed, Started, Kept, Encoded, Published, Encoding, Cleaning, At

\* The end of a job preserves the invariant.
LEMMA Released ==
    ASSUME Inv, NEW w \in Workers, jobs[w].phase # "idle", Release(w),
           UNCHANGED <<clips, faults>>, cursor' \in [Workers -> Ids \cup {0}],
           batches' \in [Ids -> Batch], \A i \in Ids : Tidy(batches'[i])
    PROVE  Inv'
<1>1. TypeOK'
    BY ReleaseJob DEF Inv, TypeOK
<1>. QED
    BY <1>1, ReleaseJob, FreeInOrder, OneWorker DEF Inv

\* So does leaving a batch.
LEMMA LeftBatch ==
    ASSUME Inv, NEW w \in Workers, jobs[w].phase \in Cleaning, LeaveBatch(w),
           UNCHANGED <<clips, cursor, faults>>,
           batches' \in [Ids -> Batch], \A i \in Ids : Tidy(batches'[i])
    PROVE  Inv'
<1>0. cursor' \in [Workers -> Ids \cup {0}] /\ jobs[w].phase # "idle"
    BY DEF Inv, TypeOK, Cleaning
<1>1. CASE jobs[w].export /\ jobs[w].todo = {}
    BY <1>0, <1>1, Released DEF LeaveBatch
<1>2. CASE ~(jobs[w].export /\ jobs[w].todo = {})
    <2> DEFINE job == [jobs[w] EXCEPT !.phase = "recover", !.batch = 0,
                               !.todo = @ \ {jobs[w].batch}, !.left = {}]
    <2>1. Set(w, job) /\ UNCHANGED lease
        BY <1>2 DEF LeaveBatch
    <2>0. jobs[w].step = 0 /\ jobs[w] \in Job
        BY <1>2 DEF Inv, InOrder, Started, TypeOK
    <2>a. job.phase = "recover" /\ job.step = 0
        BY <2>0 DEF Job
    <2>b. job \in Job
        BY <2>0 DEF Job, Phases
    <2>2. job \in Job /\ job.phase = "recover" /\ job.step = 0
        BY <2>a, <2>b
    <2> HIDE DEF job
    <2>3. /\ jobs' \in [Workers -> Job] /\ jobs'[w].phase = "recover"
          /\ jobs'[w].step = 0
          /\ \A u \in Workers \ {w} : jobs'[u] = jobs[u]
        BY <2>1, <2>2, SetJob DEF Inv
    <2>4. TypeOK'
        BY <2>1, <2>3 DEF Inv, TypeOK
    <2>. QED
        BY <1>0, <2>1, <2>3, <2>4, FreeInOrder, OneWorker
<1>. QED BY <1>1, <1>2

-----------------------------------------------------------------------------
(* The steps, one by one.                                                  *)

LEMMA BeginStep ==
    ASSUME Inv, NEW w \in Workers, NEW export \in BOOLEAN, Begin(w, export)
    PROVE  Inv'
<1> DEFINE ids == Selected(w)
           job == [IdleJob EXCEPT !.phase = "recover", !.export = export,
                                  !.todo = ids, !.last = Last(ids)]
<1>1. ids \subseteq Ids
    BY DEF Selected, Select
<1>2. Last(ids) \in Ids \cup {0}
    <2> DEFINE last == {i \in ids : \A j \in ids : j <= i}
    <2>1. last = {} \/ (CHOOSE i \in last : TRUE) \in last
        OBVIOUS
    <2>. QED BY <1>1, <2>1 DEF Last
<1> HIDE DEF ids
<1>3. job \in Job /\ job.phase = "recover" /\ job.step = 0
    BY <1>1, <1>2, IdleJobType DEF Job, Phases, IdleJob
<1>4. /\ jobs[w].phase = "idle" /\ lease = NoWorker /\ lease' = w
      /\ Set(w, job)
      /\ UNCHANGED <<batches, clips, cursor, faults>>
    BY DEF Begin, MayAcquire, ids
<1> HIDE DEF job
<1>5. /\ jobs' \in [Workers -> Job] /\ jobs'[w].phase = "recover"
      /\ jobs'[w].step = 0
      /\ \A u \in Workers \ {w} : jobs'[u] = jobs[u]
    BY <1>3, <1>4, SetJob DEF Inv
<1>6. TypeOK'
    BY <1>4, <1>5 DEF Inv, TypeOK
<1>7. \A u \in Workers : jobs[u].phase = "idle"
    BY <1>4, StagingAssumption DEF Inv, Leased
<1>8. Leased'
    BY <1>4, <1>5, <1>7 DEF Leased
<1>9. ASSUME NEW u \in Workers PROVE InOrder(u)'
    BY <1>5, <1>7, FreeInOrder
<1>. QED
    BY <1>4, <1>6, <1>8, <1>9 DEF Inv

LEMMA RecoverBatchStep ==
    ASSUME Inv, NEW w \in Workers, RecoverBatch(w)
    PROVE  Inv'
<1>1. PICK i \in jobs[w].todo :
        /\ jobs[w].phase = "recover"
        /\ IF batches[i].state = "owned" /\ ~batches[i].foreign
           THEN Set(w, [jobs[w] EXCEPT !.phase = "removing", !.batch = i,
                                       !.left = Present(i)])
           ELSE Set(w, [jobs[w] EXCEPT !.todo = @ \ {i}])
        /\ UNCHANGED <<lease, batches, clips, cursor, faults>>
    BY DEF RecoverBatch
<1>2. /\ i \in Ids /\ jobs[w] \in Job /\ batches[i] \in Batch
      /\ jobs[w].step = 0
    BY <1>1 DEF Inv, TypeOK, Job, InOrder, Started
<1>3. CASE batches[i].state = "owned" /\ ~batches[i].foreign
    <2> DEFINE job == [jobs[w] EXCEPT !.phase = "removing", !.batch = i,
                                       !.left = Present(i)]
    <2>1. Present(i) \subseteq Artifacts
        BY DEF Present
    <2>2. /\ job \in Job /\ job.phase = "removing" /\ job.batch = i
          /\ job.left = Present(i) /\ job.step = 0
        BY <1>2, <2>1 DEF Job, Phases, Cleaning
    <2>3. Set(w, job)
        BY <1>1, <1>3
    <2> HIDE DEF job
    <2>4. /\ jobs' \in [Workers -> Job] /\ jobs'[w] = job
          /\ \A u \in Workers \ {w} : jobs'[u] = jobs[u]
        BY <2>2, <2>3, SetJob DEF Inv
    <2>5. TypeOK'
        BY <1>1, <2>4 DEF Inv, TypeOK
    <2>6. \A a \in Artifacts \ Present(i) : batches[i].files[a] = "absent"
        BY DEF Present
    <2>7. InOrder(w)'
        BY <1>1, <1>2, <1>3, <2>2, <2>4, <2>6
        DEF InOrder, Placed, Started, Kept, Encoded, Published, Encoding, Cleaning, At
    <2>. QED
        BY <1>1, <2>2, <2>4, <2>5, <2>7, OneWorker DEF Inv
<1>4. CASE ~(batches[i].state = "owned" /\ ~batches[i].foreign)
    <2> DEFINE job == [jobs[w] EXCEPT !.todo = @ \ {i}]
    <2>2. job \in Job /\ job.phase = "recover" /\ job.step = 0
        BY <1>1, <1>2 DEF Job
    <2>3. Set(w, job)
        BY <1>1, <1>4
    <2> HIDE DEF job
    <2>4. /\ jobs' \in [Workers -> Job] /\ jobs'[w] = job
          /\ \A u \in Workers \ {w} : jobs'[u] = jobs[u]
        BY <2>2, <2>3, SetJob DEF Inv
    <2>5. TypeOK'
        BY <1>1, <2>4 DEF Inv, TypeOK
    <2>. QED
        BY <1>1, <2>2, <2>4, <2>5, FreeInOrder, OneWorker DEF Inv
<1>. QED BY <1>3, <1>4

LEMMA InterruptRecoveryStep ==
    ASSUME Inv, NEW w \in Workers, InterruptRecovery(w)
    PROVE  Inv'
BY Released DEF InterruptRecovery, Inv, TypeOK

LEMMA FinishRecoveryStep ==
    ASSUME Inv, NEW w \in Workers, FinishRecovery(w)
    PROVE  Inv'
<1>1. /\ jobs[w].phase = "recover" /\ UNCHANGED <<batches, clips, faults>>
      /\ IF jobs[w].export THEN Go(w, "prepare") /\ UNCHANGED lease
                           ELSE Release(w)
    BY DEF FinishRecovery
<1>2. cursor' \in [Workers -> Ids \cup {0}]
    BY DEF FinishRecovery, Inv, TypeOK, Job
<1>3. CASE jobs[w].export
    <2>0. /\ "prepare" \in Phases /\ Go(w, "prepare") /\ jobs[w] \in Job
          /\ jobs[w].step = 0 /\ jobs[w].export /\ jobs[w].todo = {}
        BY <1>1, <1>3 DEF Phases, Inv, TypeOK, InOrder, Started, FinishRecovery
    <2>1. /\ jobs' \in [Workers -> Job] /\ jobs'[w].phase = "prepare"
          /\ jobs'[w].step = 0 /\ jobs'[w].export /\ jobs'[w].todo = {}
          /\ \A u \in Workers \ {w} : jobs'[u] = jobs[u]
        BY <2>0, GoJob DEF Inv
    <2>2. TypeOK'
        BY <1>1, <1>2, <1>3, <2>1 DEF Inv, TypeOK
    <2>. QED
        BY <1>1, <1>3, <2>1, <2>2, FreeInOrder, OneWorker DEF Inv
<1>4. CASE ~jobs[w].export
    BY <1>1, <1>2, <1>4, Released DEF Inv, TypeOK
<1>. QED BY <1>3, <1>4

LEMMA DropBatchStep ==
    ASSUME Inv, NEW w \in Workers, DropBatch(w)
    PROVE  Inv'
<1> DEFINE b == jobs[w].batch
<1>1. jobs[w].phase = "drop" /\ UNCHANGED <<batches, clips, cursor, faults>>
    BY DEF DropBatch
<1>2. /\ b \in Ids /\ batches[b].state = "owned" /\ jobs[w] \in Job
      /\ jobs[w].phase \in Cleaning /\ jobs[w].export /\ jobs[w].todo = {}
    BY <1>1 DEF Inv, InOrder, Placed, Started, Kept, Cleaning, At, TypeOK
<1>3. CASE batches[b].foreign
    BY <1>1, <1>2, <1>3, LeftBatch DEF DropBatch, Inv, TypeOK
<1>4. CASE ~batches[b].foreign
    <2> DEFINE job == [jobs[w] EXCEPT !.phase = "removing", !.left = Present(b)]
    <2>1. Present(b) \subseteq Artifacts
        BY DEF Present
    <2>2. /\ job \in Job /\ job.phase = "removing" /\ job.batch = b
          /\ job.left = Present(b) /\ job.export /\ job.todo = {}
        BY <1>2, <2>1 DEF Job, Phases, Cleaning
    <2>3. Set(w, job) /\ UNCHANGED lease
        BY <1>4 DEF DropBatch
    <2> HIDE DEF job
    <2>4. /\ jobs' \in [Workers -> Job] /\ jobs'[w] = job
          /\ \A u \in Workers \ {w} : jobs'[u] = jobs[u]
        BY <2>2, <2>3, SetJob DEF Inv
    <2>5. TypeOK'
        BY <1>1, <2>3, <2>4 DEF Inv, TypeOK
    <2>6. \A a \in Artifacts \ Present(b) : batches[b].files[a] = "absent"
        BY DEF Present
    <2>7. InOrder(w)'
        BY <1>1, <1>2, <2>2, <2>4, <2>6
        DEF InOrder, Placed, Started, Kept, Encoded, Published, Encoding, Cleaning, At
    <2>. QED
        BY <1>1, <2>2, <2>3, <2>4, <2>5, <2>7, OneWorker DEF Inv
<1>. QED BY <1>3, <1>4

LEMMA RemoveMemberStep ==
    ASSUME Inv, NEW w \in Workers, RemoveMember(w)
    PROVE  Inv'
<1> DEFINE b == jobs[w].batch
<1>1. jobs[w].phase = "removing" /\ UNCHANGED <<clips, cursor, faults>>
    BY DEF RemoveMember
<1>2. /\ b \in Ids /\ batches[b].state = "owned" /\ jobs[w] \in Job
      /\ batches \in [Ids -> Batch] /\ jobs[w].phase \in Cleaning
      /\ jobs[w].step = 0 \/ (jobs[w].export /\ jobs[w].todo = {})
      /\ \A a \in Artifacts \ jobs[w].left :
            batches[b].files[a] \in {"absent", "late"}
    BY <1>1 DEF Inv, InOrder, Placed, Started, Kept, Cleaning, At, TypeOK
<1>3. PICK a \in jobs[w].left :
        IF a \in batches[b].orphan /\ batches[b].files[a] # "absent"
        THEN LeaveBatch(w) /\ UNCHANGED batches
        ELSE /\ batches' = [batches EXCEPT ![b].files[a] = "absent"]
             /\ Set(w, [jobs[w] EXCEPT !.left = @ \ {a}])
             /\ UNCHANGED lease
    BY DEF RemoveMember
<1>4. CASE a \in batches[b].orphan /\ batches[b].files[a] # "absent"
    BY <1>1, <1>2, <1>3, <1>4, LeftBatch DEF Inv
<1>5. CASE ~(a \in batches[b].orphan /\ batches[b].files[a] # "absent")
    <2> DEFINE job == [jobs[w] EXCEPT !.left = @ \ {a}]
    <2>1. a \in Artifacts
        BY <1>2 DEF Job
    <2>2. /\ job \in Job /\ job.phase = "removing" /\ job.batch = b
          /\ job.left = jobs[w].left \ {a}
          /\ job.step = 0 \/ (job.export /\ job.todo = {})
        BY <1>1, <1>2 DEF Job
    <2>3. /\ Set(w, job) /\ UNCHANGED lease
          /\ batches' = [batches EXCEPT ![b].files[a] = "absent"]
        BY <1>3, <1>5
    <2> HIDE DEF job
    <2>4. /\ jobs' \in [Workers -> Job] /\ jobs'[w] = job
          /\ \A u \in Workers \ {w} : jobs'[u] = jobs[u]
        BY <2>2, <2>3, SetJob DEF Inv
    <2>5. /\ batches' \in [Ids -> Batch]
          /\ \A i \in Ids \ {b} : batches'[i] = batches[i]
          /\ batches'[b].state = "owned"
          /\ batches'[b].files[a] = "absent"
          /\ \A x \in Artifacts \ {a} : batches'[b].files[x] = batches[b].files[x]
        BY <1>2, <2>1, <2>3, "absent" \in Content, StageOne DEF Content
    <2>6. TypeOK'
        BY <1>1, <2>3, <2>4, <2>5 DEF Inv, TypeOK
    <2>7. \A i \in Ids : Tidy(batches'[i])
        BY <2>5 DEF Inv, Tidy
    <2>8. Started(w)'
        BY <2>2, <2>4 DEF Started, Encoding, Cleaning
    <2>9. Placed(w)' /\ Encoded(w)' /\ Published(w)'
        BY <1>2, <2>2, <2>4 DEF Placed, Encoded, Published
    <2>10. Kept(w)'
        BY <1>2, <2>2, <2>4, <2>5 DEF Kept, At, Encoding, Cleaning
    <2>11. InOrder(w)'
        BY <2>8, <2>9, <2>10 DEF InOrder
    <2>. QED
        BY <1>1, <2>2, <2>3, <2>4, <2>6, <2>7, <2>11, OneWorker
<1>. QED BY <1>4, <1>5

LEMMA RemoveOwnerStep ==
    ASSUME Inv, NEW w \in Workers, RemoveOwner(w)
    PROVE  Inv'
<1> DEFINE b == jobs[w].batch
<1>1. /\ jobs[w].phase = "removing" /\ jobs[w].left = {}
      /\ batches' = [batches EXCEPT ![b].state = "bare"]
      /\ Go(w, "rmdir")
      /\ UNCHANGED <<lease, clips, cursor, faults>>
    BY DEF RemoveOwner
<1>2. /\ b \in Ids /\ batches \in [Ids -> Batch] /\ TypeOK
      /\ "rmdir" \in Phases
      /\ jobs[w].step = 0 \/ (jobs[w].export /\ jobs[w].todo = {})
      /\ \A a \in Artifacts : batches[b].files[a] \in {"absent", "late"}
    BY <1>1 DEF Inv, InOrder, Placed, Started, Kept, Cleaning, At, TypeOK, Phases
<1>3. /\ jobs' \in [Workers -> Job] /\ jobs'[w].phase = "rmdir"
      /\ jobs'[w].batch = b
      /\ jobs'[w].step = 0 \/ (jobs'[w].export /\ jobs'[w].todo = {})
      /\ \A u \in Workers \ {w} : jobs'[u] = jobs[u]
    BY <1>1, <1>2, GoJob
<1>4. /\ batches' \in [Ids -> Batch]
      /\ \A i \in Ids \ {b} : batches'[i] = batches[i]
      /\ batches'[b].state = "bare" /\ batches'[b].files = batches[b].files
    BY <1>1, <1>2, MarkOne
<1>5. TypeOK'
    BY <1>1, <1>3, <1>4 DEF Inv, TypeOK
<1>6. \A i \in Ids : Tidy(batches'[i])
    BY <1>2, <1>4 DEF Inv, Tidy
<1>7. InOrder(w)'
    BY <1>2, <1>3, <1>4
    DEF InOrder, Placed, Started, Kept, Encoded, Published, Encoding, Cleaning, At
<1>. QED
    BY <1>1, <1>3, <1>5, <1>6, <1>7, OneWorker

LEMMA RemoveDirectoryStep ==
    ASSUME Inv, NEW w \in Workers, RemoveDirectory(w)
    PROVE  Inv'
<1> DEFINE b == jobs[w].batch
<1>1. /\ jobs[w].phase = "rmdir" /\ LeaveBatch(w)
      /\ batches' \in {batches, [batches EXCEPT ![b] = NoBatch]}
      /\ UNCHANGED <<clips, cursor, faults>>
    BY DEF RemoveDirectory
<1>2. /\ batches' \in [Ids -> Batch] /\ \A i \in Ids : Tidy(batches'[i])
      /\ jobs[w].phase \in Cleaning
    BY <1>1, NoBatchType DEF Inv, TypeOK, Cleaning
<1>. QED
    BY <1>1, <1>2, LeftBatch

LEMMA RefuseExportStep ==
    ASSUME Inv, NEW w \in Workers, RefuseExport(w)
    PROVE  Inv'
BY Released DEF RefuseExport, Inv, TypeOK

LEMMA CreateBatchStep ==
    ASSUME Inv, NEW w \in Workers, CreateBatch(w)
    PROVE  Inv'
<1>1. PICK i \in Ids, k \in 1 .. MaxMembers, names \in [Members -> Names] :
        /\ batches[i].state = "absent"
        /\ batches' = [batches EXCEPT ![i].state = "bare"]
        /\ Set(w, [jobs[w] EXCEPT !.phase = "begin", !.batch = i,
                                  !.names = names, !.members = k])
    BY DEF CreateBatch
<1>2. /\ jobs[w].phase = "prepare"
      /\ UNCHANGED <<lease, clips, cursor, faults>>
    BY DEF CreateBatch
<1>3. /\ jobs[w] \in Job /\ jobs[w].step = 0 /\ jobs[w].export
      /\ jobs[w].todo = {} /\ batches \in [Ids -> Batch]
      /\ k \in 0 .. MaxMembers
    BY <1>2, StagingAssumption DEF Inv, InOrder, Started, TypeOK
<1>4. /\ batches[i].orphan = {}
      /\ \A a \in Artifacts : batches[i].files[a] = "absent"
    BY <1>1 DEF Inv, Tidy, NoBatch
<1> DEFINE job == [jobs[w] EXCEPT !.phase = "begin", !.batch = i,
                                  !.names = names, !.members = k]
<1>5. /\ job \in Job /\ job.phase = "begin" /\ job.batch = i
      /\ job.step = 0 /\ job.export /\ job.todo = {}
    BY <1>3 DEF Job, Phases
<1>6. Set(w, job)
    BY <1>1
<1> HIDE DEF job
<1>7. /\ jobs' \in [Workers -> Job] /\ jobs'[w] = job
      /\ \A u \in Workers \ {w} : jobs'[u] = jobs[u]
    BY <1>5, <1>6, SetJob DEF Inv
<1>8. /\ batches' \in [Ids -> Batch]
      /\ \A j \in Ids \ {i} : batches'[j] = batches[j]
      /\ batches'[i].state = "bare" /\ batches'[i].orphan = {}
      /\ \A a \in Artifacts : batches'[i].files[a] = "absent"
    <2>1. /\ batches' \in [Ids -> Batch]
          /\ \A j \in Ids \ {i} : batches'[j] = batches[j]
          /\ batches'[i].state = "bare"
          /\ batches'[i].orphan = batches[i].orphan
          /\ batches'[i].files = batches[i].files
        BY <1>1, <1>3, MarkOne
    <2>. QED BY <1>4, <2>1
<1>9. TypeOK'
    BY <1>2, <1>7, <1>8 DEF Inv, TypeOK
<1>10. \A j \in Ids : Tidy(batches'[j])
    BY <1>8 DEF Inv, Tidy
<1>11. InOrder(w)'
    BY <1>5, <1>7, <1>8
    DEF InOrder, Placed, Started, Kept, Encoded, Published, Encoding, Cleaning, At
<1>. QED
    BY <1>2, <1>5, <1>7, <1>9, <1>10, <1>11, OneWorker

LEMMA WriteOwnerStep ==
    ASSUME Inv, NEW w \in Workers, WriteOwner(w)
    PROVE  Inv'
<1> DEFINE b == jobs[w].batch
<1>1. jobs[w].phase = "begin" /\ UNCHANGED <<clips, cursor, faults>>
    BY DEF WriteOwner
<1>2. /\ b \in Ids /\ jobs[w] \in Job /\ batches \in [Ids -> Batch] /\ TypeOK
      /\ batches[b].state = "bare" /\ batches[b].orphan = {}
      /\ jobs[w].step = 0 /\ jobs[w].export /\ jobs[w].todo = {}
      /\ "encode" \in Phases
    BY <1>1
    DEF Inv, InOrder, Placed, Started, Kept, At, TypeOK, Phases, Encoding
<1>3. CASE /\ batches' = [batches EXCEPT ![b].state = "owned"]
           /\ Go(w, "encode") /\ UNCHANGED lease
    <2>1. /\ jobs' \in [Workers -> Job] /\ jobs'[w].phase = "encode"
          /\ jobs'[w].batch = b /\ jobs'[w].step = 0 /\ jobs'[w].export
          /\ jobs'[w].todo = {}
          /\ \A u \in Workers \ {w} : jobs'[u] = jobs[u]
        BY <1>2, <1>3, GoJob
    <2>2. /\ batches' \in [Ids -> Batch]
          /\ \A i \in Ids \ {b} : batches'[i] = batches[i]
          /\ batches'[b].state = "owned" /\ batches'[b].orphan = {}
        BY <1>2, <1>3, MarkOne
    <2>3. TypeOK'
        BY <1>1, <1>3, <2>1, <2>2 DEF Inv, TypeOK
    <2>4. \A i \in Ids : Tidy(batches'[i])
        BY <2>2 DEF Inv, Tidy
    <2>5. jobs'[w].members \in Nat
        BY <2>1, StagingAssumption DEF Job
    <2>6. Placed(w)' /\ Started(w)' /\ Kept(w)' /\ Published(w)'
        BY <1>2, <2>1, <2>2
        DEF Placed, Started, Kept, Published, Encoding, Cleaning, At
    <2>7. Encoded(w)'
        <3>1. \A m \in Members : ~(m < jobs'[w].step)
            BY <2>1, StagingAssumption DEF Members
        <3>2. jobs'[w].step <= jobs'[w].members
            BY <2>1, <2>5
        <3>3. jobs'[w].phase \notin {"encoding", "drawing"}
            BY <2>1
        <3>. QED
            BY <3>1, <3>2, <3>3 DEF Encoded
    <2>. QED
        BY <1>1, <1>3, <2>1, <2>3, <2>4, <2>6, <2>7, OneWorker DEF InOrder
<1>4. CASE /\ batches' = [batches EXCEPT ![b].state = "torn"]
           /\ Release(w)
    <2>1. /\ batches' \in [Ids -> Batch]
          /\ \A i \in Ids \ {b} : batches'[i] = batches[i]
          /\ batches'[b].state = "torn"
          /\ batches'[b].files = batches[b].files
        BY <1>2, <1>4, MarkOne
    <2>2. \A i \in Ids : Tidy(batches'[i])
        BY <1>2, <2>1 DEF Inv, Tidy
    <2>3. cursor' \in [Workers -> Ids \cup {0}]
        BY <1>1 DEF Inv, TypeOK
    <2>. QED
        BY <1>1, <1>4, <2>1, <2>2, <2>3, Released
<1>. QED BY <1>3, <1>4 DEF WriteOwner

LEMMA FailExportStep ==
    ASSUME Inv, NEW w \in Workers, FailExport(w)
    PROVE  Inv'
<1>1. /\ jobs[w].phase \in Encoding /\ Go(w, "drop")
      /\ UNCHANGED <<lease, batches, clips, cursor, faults>>
    BY DEF FailExport, Encoding
<1>2. /\ jobs[w].batch \in Ids /\ At(w).state = "owned" /\ TypeOK
      /\ jobs[w].export /\ jobs[w].todo = {} /\ "drop" \in Phases
      /\ jobs[w].phase # "idle"
    BY <1>1
    DEF Inv, InOrder, Placed, Started, Kept, Phases, Cleaning, Encoding
<1>3. /\ jobs' \in [Workers -> Job] /\ jobs'[w].phase = "drop"
      /\ jobs'[w].batch = jobs[w].batch /\ jobs'[w].export
      /\ jobs'[w].todo = {}
      /\ \A u \in Workers \ {w} : jobs'[u] = jobs[u]
    BY <1>1, <1>2, GoJob
<1>4. TypeOK'
    BY <1>1, <1>3 DEF Inv, TypeOK
<1>5. InOrder(w)'
    BY <1>1, <1>2, <1>3
    DEF InOrder, Placed, Started, Kept, Encoded, Published, Encoding, Cleaning, At
<1>. QED
    BY <1>1, <1>2, <1>3, <1>4, <1>5, OneWorker DEF Inv

\* One extension of one member is staged.
LEMMA StageMember ==
    ASSUME batches \in [Ids -> Batch], NEW b \in Ids, NEW m \in Members,
           NEW e \in Extensions, NEW c \in Content, Stage(b, m, e, c)
    PROVE  /\ batches' \in [Ids -> Batch]
           /\ \A i \in Ids \ {b} : batches'[i] = batches[i]
           /\ batches'[b].state = batches[b].state
           /\ batches'[b].orphan = batches[b].orphan
           /\ batches'[b].files[<<m, e>>] = c
           /\ \A n \in Members, x \in Extensions : n # m \/ x # e =>
                batches'[b].files[<<n, x>>] = batches[b].files[<<n, x>>]
<1> DEFINE a == <<m, e>>
<1>1. a \in Artifacts
    BY DEF Artifacts
<1>2. batches' = [batches EXCEPT ![b].files[a] = c]
    BY DEF Stage
<1>3. \A n \in Members, x \in Extensions :
        n # m \/ x # e => <<n, x>> \in Artifacts \ {a}
    BY DEF Artifacts
<1>4. a = <<m, e>>
    OBVIOUS
<1> HIDE DEF a
<1>5. /\ batches' \in [Ids -> Batch]
      /\ \A i \in Ids \ {b} : batches'[i] = batches[i]
      /\ batches'[b].state = batches[b].state
      /\ batches'[b].orphan = batches[b].orphan
      /\ batches'[b].files[a] = c
      /\ \A x \in Artifacts \ {a} :
            batches'[b].files[x] = batches[b].files[x]
    BY <1>1, <1>2 DEF Batch
<1>. QED
    BY <1>3, <1>4, <1>5

\* What an encoding worker relies on.
LEMMA EncodingFacts ==
    ASSUME Inv, NEW w \in Workers,
           jobs[w].phase \in {"encode", "encoding", "drawing"}
    PROVE  /\ TypeOK /\ batches \in [Ids -> Batch] /\ jobs[w] \in Job
           /\ jobs[w].batch \in Ids
           /\ At(w).state = "owned" /\ At(w).orphan = {}
           /\ jobs[w].export /\ jobs[w].todo = {}
           /\ jobs[w].step \in Nat /\ jobs[w].members \in Nat
           /\ jobs[w].members <= MaxMembers
           /\ jobs[w].step < jobs[w].members => jobs[w].step \in Members
           /\ \A m \in Members : m < jobs[w].step =>
                /\ At(w).files[<<m, "mp4">>] = "valid"
                /\ At(w).files[<<m, "jpg">>] \in {"valid", "absent"}
<1>1. /\ TypeOK /\ batches \in [Ids -> Batch] /\ jobs[w] \in Job
      /\ jobs[w].batch \in Ids
      /\ At(w).state = "owned" /\ At(w).orphan = {}
      /\ jobs[w].export /\ jobs[w].todo = {}
    BY DEF Inv, TypeOK, InOrder, Placed, Started, Kept, Encoding, Cleaning
<1>2. /\ jobs[w].step \in Nat /\ jobs[w].members \in Nat
      /\ jobs[w].members <= MaxMembers
    BY <1>1, StagingAssumption DEF Job
<1>3. jobs[w].step < jobs[w].members => jobs[w].step \in Members
    BY <1>2, StagingAssumption DEF Members
<1>. QED
    BY <1>1, <1>2, <1>3 DEF Inv, InOrder, Encoded

LEMMA StartEncodingStep ==
    ASSUME Inv, NEW w \in Workers, StartEncoding(w)
    PROVE  Inv'
<1> DEFINE b == jobs[w].batch
           k == jobs[w].step
<1>1. jobs[w].phase = "encode" /\ UNCHANGED <<lease, clips, cursor, faults>>
    BY DEF StartEncoding
<1>2. /\ TypeOK /\ batches \in [Ids -> Batch] /\ jobs[w] \in Job
      /\ b \in Ids /\ batches[b].state = "owned" /\ batches[b].orphan = {}
      /\ jobs[w].export /\ jobs[w].todo = {}
      /\ k \in Nat /\ jobs[w].members \in Nat /\ jobs[w].members <= MaxMembers
      /\ k < jobs[w].members => k \in Members
      /\ \A m \in Members : m < k =>
            /\ batches[b].files[<<m, "mp4">>] = "valid"
            /\ batches[b].files[<<m, "jpg">>] \in {"valid", "absent"}
    BY <1>1, EncodingFacts DEF At
<1>3. CASE k < jobs[w].members
    <2>1. /\ Stage(b, k, "mp4", "partial") /\ Go(w, "encoding")
          /\ "encoding" \in Phases /\ "partial" \in Content
          /\ "mp4" \in Extensions
        BY <1>3 DEF StartEncoding, Phases, Encoding, Content, Extensions
    <2>2. /\ jobs' \in [Workers -> Job] /\ jobs'[w].phase = "encoding"
          /\ jobs'[w].batch = b /\ jobs'[w].step = k
          /\ jobs'[w].members = jobs[w].members
          /\ jobs'[w].export /\ jobs'[w].todo = {}
          /\ \A u \in Workers \ {w} : jobs'[u] = jobs[u]
        BY <1>2, <2>1, GoJob
    <2>3. /\ batches' \in [Ids -> Batch]
          /\ \A i \in Ids \ {b} : batches'[i] = batches[i]
          /\ batches'[b].state = "owned" /\ batches'[b].orphan = {}
          /\ \A n \in Members, x \in Extensions : n # k \/ x # "mp4" =>
                batches'[b].files[<<n, x>>] = batches[b].files[<<n, x>>]
      <3> HIDE DEF b, k
      <3>1. /\ batches \in [Ids -> Batch] /\ b \in Ids /\ k \in Members
            /\ "mp4" \in Extensions /\ "partial" \in Content /\ Stage(b, k, "mp4", "partial")
        BY <1>2, <1>3, <2>1
      <3>2. /\ batches' \in [Ids -> Batch]
            /\ \A i \in Ids \ {b} : batches'[i] = batches[i]
            /\ batches'[b].state = batches[b].state /\ batches'[b].orphan = batches[b].orphan
            /\ \A n \in Members, x \in Extensions : n # k \/ x # "mp4" =>
                  batches'[b].files[<<n, x>>] = batches[b].files[<<n, x>>]
        BY <3>1, StageMember
      <3>. QED
        BY <1>2, <3>2
    <2>4. TypeOK'
      <3>1. /\ lease' \in Workers \cup {NoWorker} /\ faults' \in 0 .. MaxFaults
            /\ clips' \in [Names \X Extensions -> Content \cup {"user"}]
            /\ cursor' \in [Workers -> Ids \cup {0}]
        BY <1>1 DEF Inv, TypeOK
      <3>2. batches' \in [Ids -> Batch] /\ jobs' \in [Workers -> Job]
        BY <2>2, <2>3
      <3>. QED
        BY <3>1, <3>2 DEF TypeOK
    <2>5. \A i \in Ids : Tidy(batches'[i])
        BY <2>3 DEF Inv, Tidy
    <2>6. Placed(w)' /\ Started(w)' /\ Kept(w)' /\ Published(w)'
        BY <1>2, <2>2, <2>3
        DEF Placed, Started, Kept, Published, Encoding, Cleaning, At
    <2>7. \A m \in Members : m < k =>
            /\ batches'[b].files[<<m, "mp4">>] = "valid"
            /\ batches'[b].files[<<m, "jpg">>] \in {"valid", "absent"}
        BY <1>2, <2>3 DEF Members, Extensions
    <2>8. Encoded(w)'
        BY <1>2, <1>3, <2>2, <2>7 DEF Encoded, At
    <2>. QED
        BY <1>1, <2>2, <2>4, <2>5, <2>6, <2>8, OneWorker DEF InOrder
<1>4. CASE ~(k < jobs[w].members)
    <2> DEFINE job == [jobs[w] EXCEPT !.phase = "publish", !.step = 0]
    <2>0. k <= jobs[w].members
        BY <1>1 DEF Inv, InOrder, Encoded
    <2>1. k = jobs[w].members
        BY <1>2, <1>4, <2>0
    <2>a. 0 \in 0 .. 2 * MaxMembers /\ "publish" \in Phases
        BY StagingAssumption DEF Phases, Encoding
    <2>b. /\ job.phase = "publish" /\ job.step = 0
          /\ job.batch = b /\ job.members = jobs[w].members
          /\ job.export = jobs[w].export /\ job.todo = jobs[w].todo
        BY <1>2 DEF Job
    <2>c. job \in Job
        BY <1>2, <2>a DEF Job
    <2>2. /\ job \in Job /\ job.phase = "publish" /\ job.step = 0
          /\ job.batch = b /\ job.members = jobs[w].members
          /\ job.export /\ job.todo = {}
        BY <1>2, <2>b, <2>c
    <2>3. Set(w, job) /\ UNCHANGED batches
        BY <1>4 DEF StartEncoding
    <2> HIDE DEF job
    <2>4. /\ jobs' \in [Workers -> Job] /\ jobs'[w] = job
          /\ \A u \in Workers \ {w} : jobs'[u] = jobs[u]
        BY <2>2, <2>3, SetJob DEF Inv
    <2>5. TypeOK'
        BY <1>1, <2>3, <2>4 DEF Inv, TypeOK
    <2>6. Placed(w)' /\ Started(w)' /\ Kept(w)' /\ Encoded(w)'
        BY <1>2, <2>2, <2>3, <2>4
        DEF Placed, Started, Kept, Encoded, Encoding, Cleaning, At
    <2>7. \A m \in Members : ~(2 * m < 0) /\ 0 <= 2 * m
        BY StagingAssumption DEF Members
    <2>8. Published(w)'
        BY <1>2, <2>1, <2>2, <2>3, <2>4, <2>7 DEF Published, At
    <2>. QED
        BY <1>1, <2>2, <2>3, <2>4, <2>5, <2>6, <2>8, OneWorker
        DEF Inv, InOrder
<1>. QED BY <1>3, <1>4

LEMMA FinishEncodingStep ==
    ASSUME Inv, NEW w \in Workers, FinishEncoding(w)
    PROVE  Inv'
<1> DEFINE b == jobs[w].batch
           k == jobs[w].step
<1>1. /\ jobs[w].phase = "encoding" /\ UNCHANGED <<lease, clips, cursor, faults>>
      /\ batches' = [batches EXCEPT ![b].files[<<k, "mp4">>] = "valid",
                                    ![b].files[<<k, "jpg">>] = "partial"]
      /\ Go(w, "drawing") /\ "drawing" \in Phases
    BY DEF FinishEncoding, Phases, Encoding
<1>2. /\ TypeOK /\ batches \in [Ids -> Batch]
      /\ b \in Ids /\ batches[b].state = "owned" /\ batches[b].orphan = {}
      /\ jobs[w].export /\ jobs[w].todo = {}
      /\ k \in Nat /\ jobs[w].members \in Nat
      /\ k < jobs[w].members => k \in Members
      /\ \A m \in Members : m < k =>
            /\ batches[b].files[<<m, "mp4">>] = "valid"
            /\ batches[b].files[<<m, "jpg">>] \in {"valid", "absent"}
    BY <1>1, EncodingFacts DEF At
<1>3. k < jobs[w].members /\ k \in Members
    BY <1>1, <1>2 DEF Inv, InOrder, Encoded
<1>4. /\ jobs' \in [Workers -> Job] /\ jobs'[w].phase = "drawing"
      /\ jobs'[w].batch = b /\ jobs'[w].step = k
      /\ jobs'[w].members = jobs[w].members
      /\ jobs'[w].export /\ jobs'[w].todo = {}
      /\ \A u \in Workers \ {w} : jobs'[u] = jobs[u]
    BY <1>1, <1>2, GoJob
<1>5. /\ <<k, "mp4">> \in Artifacts /\ <<k, "jpg">> \in Artifacts
      /\ <<k, "mp4">> # <<k, "jpg">>
    BY <1>3 DEF Artifacts, Extensions
<1>6. /\ batches' \in [Ids -> Batch]
      /\ \A i \in Ids \ {b} : batches'[i] = batches[i]
      /\ batches'[b].state = "owned" /\ batches'[b].orphan = {}
      /\ batches'[b].files[<<k, "mp4">>] = "valid"
      /\ \A x \in Artifacts \ {<<k, "mp4">>, <<k, "jpg">>} :
            batches'[b].files[x] = batches[b].files[x]
    <2> DEFINE p == <<k, "mp4">>
               q == <<k, "jpg">>
    <2>1. /\ p \in Artifacts /\ q \in Artifacts /\ p # q
          /\ batches' = [batches EXCEPT ![b].files[p] = "valid",
                                        ![b].files[q] = "partial"]
        BY <1>1, <1>5
    <2> HIDE DEF p, q
    <2>2. /\ batches' \in [Ids -> Batch]
          /\ \A i \in Ids \ {b} : batches'[i] = batches[i]
          /\ batches'[b].state = "owned" /\ batches'[b].orphan = {}
          /\ batches'[b].files[p] = "valid"
          /\ \A x \in Artifacts \ {p, q} :
                batches'[b].files[x] = batches[b].files[x]
        <3> DEFINE files == [batches[b].files EXCEPT ![p] = "valid",
                                                     ![q] = "partial"]
        <3>1. batches[b].files \in [Artifacts -> Content]
            BY <1>2 DEF Batch
        <3>2. /\ files \in [Artifacts -> Content] /\ files[p] = "valid"
              /\ \A x \in Artifacts \ {p, q} : files[x] = batches[b].files[x]
            BY <2>1, <3>1 DEF Content
        <3>3. batches' = [batches EXCEPT ![b].files = files]
            BY <1>2, <2>1 DEF Batch
        <3> HIDE DEF files
        <3>. QED BY <1>2, <3>2, <3>3 DEF Batch
    <2>. QED BY <2>2 DEF p, q
<1>7. TypeOK'
    BY <1>1, <1>4, <1>6 DEF Inv, TypeOK
<1>8. \A i \in Ids : Tidy(batches'[i])
    BY <1>6 DEF Inv, Tidy
<1>9. Placed(w)' /\ Started(w)' /\ Kept(w)' /\ Published(w)'
    BY <1>2, <1>4, <1>6
    DEF Placed, Started, Kept, Published, Encoding, Cleaning, At
<1>10. \A m \in Members : m < k =>
        /\ <<m, "mp4">> \in Artifacts \ {<<k, "mp4">>, <<k, "jpg">>}
        /\ <<m, "jpg">> \in Artifacts \ {<<k, "mp4">>, <<k, "jpg">>}
    BY <1>2 DEF Artifacts, Extensions, Members
<1>11. Encoded(w)'
    BY <1>2, <1>3, <1>4, <1>6, <1>10 DEF Encoded, At
<1>. QED
    BY <1>1, <1>4, <1>7, <1>8, <1>9, <1>11, OneWorker DEF InOrder

LEMMA FinishThumbnailStep ==
    ASSUME Inv, NEW w \in Workers, FinishThumbnail(w)
    PROVE  Inv'
<1> DEFINE b == jobs[w].batch
           k == jobs[w].step
           job == [jobs[w] EXCEPT !.phase = "encode", !.step = @ + 1]
<1>1. /\ jobs[w].phase = "drawing" /\ UNCHANGED <<lease, clips, cursor, faults>>
      /\ Set(w, job)
    BY DEF FinishThumbnail
<1>2. PICK content \in {"valid", "absent"} : Stage(b, k, "jpg", content)
    BY DEF FinishThumbnail
<1>3. /\ TypeOK /\ batches \in [Ids -> Batch] /\ jobs[w] \in Job
      /\ b \in Ids /\ batches[b].state = "owned" /\ batches[b].orphan = {}
      /\ jobs[w].export /\ jobs[w].todo = {}
      /\ k \in Nat /\ jobs[w].members \in Nat /\ jobs[w].members <= MaxMembers
      /\ k < jobs[w].members => k \in Members
      /\ \A m \in Members : m < k =>
            /\ batches[b].files[<<m, "mp4">>] = "valid"
            /\ batches[b].files[<<m, "jpg">>] \in {"valid", "absent"}
    BY <1>1, EncodingFacts DEF At
<1>4. /\ k < jobs[w].members /\ k \in Members
      /\ batches[b].files[<<k, "mp4">>] = "valid"
    BY <1>1, <1>3 DEF Inv, InOrder, Encoded, At
<1>5. k + 1 \in 0 .. 2 * MaxMembers
    BY <1>3, <1>4, StagingAssumption
<1>6. /\ job \in Job /\ job.phase = "encode" /\ job.step = k + 1
      /\ job.batch = b /\ job.members = jobs[w].members
      /\ job.export /\ job.todo = {}
    BY <1>3, <1>5 DEF Job, Phases, Encoding
<1> HIDE DEF job
<1>7. /\ jobs' \in [Workers -> Job] /\ jobs'[w] = job
      /\ \A u \in Workers \ {w} : jobs'[u] = jobs[u]
    BY <1>1, <1>6, SetJob DEF Inv
<1>8. content \in Content /\ "jpg" \in Extensions
    BY DEF Content, Extensions
<1>9. /\ batches' \in [Ids -> Batch]
      /\ \A i \in Ids \ {b} : batches'[i] = batches[i]
      /\ batches'[b].state = "owned" /\ batches'[b].orphan = {}
      /\ batches'[b].files[<<k, "jpg">>] = content
      /\ \A n \in Members, x \in Extensions : n # k \/ x # "jpg" =>
            batches'[b].files[<<n, x>>] = batches[b].files[<<n, x>>]
    BY <1>2, <1>3, <1>4, <1>8, StageMember
<1>10. TypeOK'
    BY <1>1, <1>7, <1>9 DEF Inv, TypeOK
<1>11. \A i \in Ids : Tidy(batches'[i])
    BY <1>9 DEF Inv, Tidy
<1>12. Placed(w)' /\ Started(w)' /\ Kept(w)' /\ Published(w)'
    BY <1>3, <1>6, <1>7, <1>9
    DEF Placed, Started, Kept, Published, Encoding, Cleaning, At
<1>13. \A m \in Members : m < k + 1 =>
        /\ batches'[b].files[<<m, "mp4">>] = "valid"
        /\ batches'[b].files[<<m, "jpg">>] \in {"valid", "absent"}
    <2> SUFFICES ASSUME NEW m \in Members, m < k + 1
                 PROVE  /\ batches'[b].files[<<m, "mp4">>] = "valid"
                        /\ batches'[b].files[<<m, "jpg">>] \in {"valid", "absent"}
        OBVIOUS
    <2>1. m = k \/ m < k
        BY <1>3 DEF Members
    <2>2. batches'[b].files[<<m, "mp4">>] = batches[b].files[<<m, "mp4">>]
        BY <1>9 DEF Extensions
    <2>3. CASE m = k
        BY <1>4, <1>9, <2>2, <2>3
    <2>4. CASE m < k
        <3>1. m # k
            BY <1>3, <2>4 DEF Members
        <3>2. batches'[b].files[<<m, "jpg">>] = batches[b].files[<<m, "jpg">>]
            BY <1>9, <3>1 DEF Extensions
        <3>. QED BY <1>3, <2>2, <2>4, <3>2
    <2>. QED BY <2>1, <2>3, <2>4
<1>14. Encoded(w)'
    BY <1>3, <1>4, <1>6, <1>7, <1>13 DEF Encoded, At
<1>. QED
    BY <1>1, <1>6, <1>7, <1>10, <1>11, <1>12, <1>14, OneWorker DEF InOrder

\* Which artifact a step of a publication moves.
LEMMA ArtifactOfStep ==
    ASSUME NEW members \in 0 .. MaxMembers, NEW step \in Nat,
           step < 2 * members
    PROVE  \E k \in Members :
            /\ k < members
            /\ \/ step = 2 * k /\ Artifact(step) = <<k, "mp4">>
               \/ step = 2 * k + 1 /\ Artifact(step) = <<k, "jpg">>
<1> DEFINE k == step \div 2
<1>1. k \in Nat /\ (step = 2 * k \/ step = 2 * k + 1)
    OBVIOUS
<1>2. k < members /\ k \in Members
    BY <1>1, StagingAssumption DEF Members
<1>3. CASE step % 2 = 0
    <2>1. step = 2 * k
        BY <1>3
    <2>. QED BY <1>2, <1>3, <2>1 DEF Artifact
<1>4. CASE step % 2 # 0
    <2>1. step = 2 * k + 1
        BY <1>4
    <2>. QED BY <1>2, <1>4, <2>1 DEF Artifact
<1>. QED BY <1>3, <1>4

\* A move of a publication, in full.
LEMMA PublishMoves ==
    ASSUME Inv, NEW w \in Workers, jobs[w].phase = "publish",
           jobs[w].step < 2 * jobs[w].members
    PROVE  \E k \in Members, e \in Extensions :
            /\ k < jobs[w].members /\ Artifact(jobs[w].step) = <<k, e>>
            /\ jobs[w].step = 2 * k + (IF e = "mp4" THEN 0 ELSE 1)
            /\ jobs[w].names[k] \in Names
            /\ At(w).files[<<k, e>>] \in {"valid", "absent"}
            /\ e = "jpg" => clips[<<jobs[w].names[k], "mp4">>] = "valid"
<1>1. /\ jobs[w] \in Job /\ jobs[w].step \in Nat
      /\ jobs[w].members \in 0 .. MaxMembers
      /\ jobs[w].names \in [Members -> Names]
    BY StagingAssumption DEF Inv, TypeOK, Job
<1>2. PICK k \in Members :
        /\ k < jobs[w].members
        /\ \/ jobs[w].step = 2 * k /\ Artifact(jobs[w].step) = <<k, "mp4">>
           \/ jobs[w].step = 2 * k + 1 /\ Artifact(jobs[w].step) = <<k, "jpg">>
    BY <1>1, ArtifactOfStep
<1>3. /\ jobs[w].step <= 2 * k => At(w).files[<<k, "mp4">>] = "valid"
      /\ At(w).files[<<k, "jpg">>] \in {"valid", "absent"}
      /\ 2 * k < jobs[w].step => clips[<<jobs[w].names[k], "mp4">>] = "valid"
    BY <1>2 DEF Inv, InOrder, Published
<1>4. k \in Nat /\ jobs[w].names[k] \in Names
    BY <1>1, StagingAssumption DEF Members
<1>5. CASE jobs[w].step = 2 * k /\ Artifact(jobs[w].step) = <<k, "mp4">>
    <2>1. "mp4" \in Extensions /\ jobs[w].step <= 2 * k
        BY <1>4, <1>5 DEF Extensions
    <2>. QED
        BY <1>2, <1>3, <1>4, <1>5, <2>1
<1>6. CASE jobs[w].step = 2 * k + 1 /\ Artifact(jobs[w].step) = <<k, "jpg">>
    <2>1. "jpg" \in Extensions /\ 2 * k < jobs[w].step
        BY <1>4, <1>6 DEF Extensions
    <2>. QED
        BY <1>2, <1>3, <1>4, <1>6, <2>1
<1>. QED BY <1>2, <1>5, <1>6

LEMMA PublishStep ==
    ASSUME Inv, NEW w \in Workers, Publish(w)
    PROVE  Inv'
<1> DEFINE b == jobs[w].batch
           step == jobs[w].step
           members == jobs[w].members
           a == Artifact(step)
           destination == <<jobs[w].names[a[1]], a[2]>>
           content == batches[b].files[a]
<1>1. jobs[w].phase = "publish" /\ UNCHANGED <<lease, cursor, faults>>
    BY DEF Publish
<1>2. /\ TypeOK /\ batches \in [Ids -> Batch] /\ jobs[w] \in Job
      /\ b \in Ids /\ batches[b].state = "owned" /\ batches[b].orphan = {}
      /\ jobs[w].export /\ jobs[w].todo = {}
      /\ jobs[w].phase # "idle"
    BY <1>1 DEF Inv, TypeOK, InOrder, Placed, Started, Kept, Encoding, Cleaning, At
<1>3. CASE step < 2 * members /\ MayMove(content, clips[destination])
    <2>1. PICK k \in Members, e \in Extensions :
            /\ k < members /\ a = <<k, e>>
            /\ step = 2 * k + (IF e = "mp4" THEN 0 ELSE 1)
            /\ jobs[w].names[k] \in Names
            /\ batches[b].files[<<k, e>>] \in {"valid", "absent"}
        BY <1>1, <1>3, PublishMoves DEF At
    <2> DEFINE name == jobs[w].names[k]
               job == [jobs[w] EXCEPT !.step = @ + 1]
    <2>2. /\ destination = <<name, e>> /\ content = "valid"
          /\ clips[<<name, e>>] = "absent"
        BY <1>3, <2>1 DEF MayMove
    <2>3. /\ clips' = [clips EXCEPT ![<<name, e>>] = "valid"]
          /\ Stage(b, k, e, "absent") /\ Set(w, job)
        BY <1>3, <2>1, <2>2 DEF Publish, Stage
    <2>4. /\ step \in Nat /\ members \in Nat /\ step + 1 <= 2 * members
          /\ step + 1 \in 0 .. 2 * MaxMembers /\ members <= MaxMembers
        BY <1>2, <1>3, StagingAssumption DEF Job
    <2>5. /\ job \in Job /\ job.phase = "publish" /\ job.step = step + 1
          /\ job.batch = b /\ job.members = members /\ job.names = jobs[w].names
          /\ job.export /\ job.todo = {}
        BY <1>1, <1>2, <2>4 DEF Job
    <2> HIDE DEF job
    <2>6. /\ jobs' \in [Workers -> Job] /\ jobs'[w] = job
          /\ \A u \in Workers \ {w} : jobs'[u] = jobs[u]
        BY <2>3, <2>5, SetJob DEF Inv
    <2>7. /\ batches' \in [Ids -> Batch]
          /\ \A i \in Ids \ {b} : batches'[i] = batches[i]
          /\ batches'[b].state = "owned" /\ batches'[b].orphan = {}
          /\ batches'[b].files[<<k, e>>] = "absent"
          /\ \A n \in Members, x \in Extensions : n # k \/ x # e =>
                batches'[b].files[<<n, x>>] = batches[b].files[<<n, x>>]
        BY <1>2, <2>3, "absent" \in Content, StageMember DEF Content
    <2>8. <<name, e>> \in Names \X Extensions
        BY <2>1
    <2>9. /\ clips' \in [Names \X Extensions -> Content \cup {"user"}]
          /\ clips'[<<name, e>>] = "valid"
          /\ \A c \in Names \X Extensions : clips[c] = "valid" =>
                clips'[c] = "valid"
        BY <1>2, <2>3, <2>8 DEF TypeOK, Content
    <2>10. TypeOK'
        BY <1>1, <2>6, <2>7, <2>9 DEF Inv, TypeOK
    <2>11. \A i \in Ids : Tidy(batches'[i])
        BY <2>7 DEF Inv, Tidy
    <2>12. Placed(w)' /\ Started(w)' /\ Kept(w)' /\ Encoded(w)'
        BY <1>2, <2>5, <2>6, <2>7
        DEF Placed, Started, Kept, Encoded, Encoding, Cleaning, At
    <2>13. ASSUME NEW m \in Members, m < members
           PROVE  /\ step + 1 <= 2 * m =>
                        batches'[b].files[<<m, "mp4">>] = "valid"
                  /\ batches'[b].files[<<m, "jpg">>] \in {"valid", "absent"}
                  /\ 2 * m < step + 1 =>
                        clips'[<<jobs[w].names[m], "mp4">>] = "valid"
        <3>1. /\ m \in Nat /\ k \in Nat
              /\ "mp4" \in Extensions /\ "jpg" \in Extensions
              /\ <<jobs[w].names[m], "mp4">> \in Names \X Extensions
            BY <1>2, StagingAssumption DEF Members, Extensions, Job
        <3>2. /\ step <= 2 * m => batches[b].files[<<m, "mp4">>] = "valid"
              /\ batches[b].files[<<m, "jpg">>] \in {"valid", "absent"}
              /\ 2 * m < step => clips[<<jobs[w].names[m], "mp4">>] = "valid"
            BY <1>1, <2>13 DEF Inv, InOrder, Published, At
        <3>3. ASSUME step + 1 <= 2 * m
              PROVE  batches'[b].files[<<m, "mp4">>] = "valid"
            <4>1. m # k /\ step <= 2 * m
                BY <2>1, <2>4, <3>1, <3>3
            <4>. QED BY <2>7, <3>1, <3>2, <4>1
        <3>4. batches'[b].files[<<m, "jpg">>] \in {"valid", "absent"}
            BY <2>7, <3>1, <3>2
        <3>5. ASSUME 2 * m < step + 1
              PROVE  clips'[<<jobs[w].names[m], "mp4">>] = "valid"
            <4>1. CASE 2 * m < step
                BY <2>9, <3>1, <3>2, <4>1
            <4>2. CASE 2 * m = step
                <5>1. m = k /\ e = "mp4"
                    BY <2>1, <2>4, <3>1, <4>2
                <5>. QED BY <2>9, <5>1
            <4>. QED BY <2>4, <3>1, <3>5, <4>1, <4>2
        <3>. QED BY <3>3, <3>4, <3>5
    <2>14. Published(w)'
        BY <2>4, <2>5, <2>6, <2>13 DEF Published, At
    <2>. QED
        BY <1>1, <1>2, <2>5, <2>6, <2>10, <2>11, <2>12, <2>14, OneWorker
        DEF InOrder
<1>4. CASE ~(step < 2 * members /\ MayMove(content, clips[destination]))
    <2>1. /\ Go(w, "drop") /\ UNCHANGED <<clips, batches>>
          /\ "drop" \in Phases
        BY <1>4 DEF Publish, Phases, Cleaning
    <2>2. /\ jobs' \in [Workers -> Job] /\ jobs'[w].phase = "drop"
          /\ jobs'[w].batch = b /\ jobs'[w].export /\ jobs'[w].todo = {}
          /\ \A u \in Workers \ {w} : jobs'[u] = jobs[u]
        BY <1>2, <2>1, GoJob
    <2>3. TypeOK'
        BY <1>1, <2>1, <2>2 DEF Inv, TypeOK
    <2>4. InOrder(w)'
        BY <1>2, <2>1, <2>2
        DEF InOrder, Placed, Started, Kept, Encoded, Published, Encoding, Cleaning, At
    <2>. QED
        BY <1>1, <1>2, <2>1, <2>2, <2>3, <2>4, OneWorker DEF Inv
<1>. QED BY <1>3, <1>4

-----------------------------------------------------------------------------
(* The environment.                                                        *)

LEMMA CancelStep ==
    ASSUME Inv, NEW w \in Workers, Cancel(w)
    PROVE  Inv'
<1> DEFINE job == [jobs[w] EXCEPT !.cancelled = TRUE]
<1>1. /\ jobs[w].phase # "idle" /\ Set(w, job) /\ faults' \in 0 .. MaxFaults
      /\ UNCHANGED <<lease, batches, clips, cursor>>
    BY StagingAssumption DEF Cancel, Inv, TypeOK
<1>2. jobs[w] \in Job
    BY DEF Inv, TypeOK
<1>3. /\ job \in Job /\ job.phase = jobs[w].phase /\ job.batch = jobs[w].batch
      /\ job.export = jobs[w].export /\ job.todo = jobs[w].todo
      /\ job.step = jobs[w].step /\ job.members = jobs[w].members
      /\ job.names = jobs[w].names /\ job.left = jobs[w].left
    BY <1>2 DEF Job
<1> HIDE DEF job
<1>4. /\ jobs' \in [Workers -> Job] /\ jobs'[w] = job
      /\ \A u \in Workers \ {w} : jobs'[u] = jobs[u]
    BY <1>1, <1>3, SetJob DEF Inv
<1>5. TypeOK'
    BY <1>1, <1>4 DEF Inv, TypeOK
<1>6. InOrder(w)
    BY DEF Inv
<1>7. Placed(w)' /\ Started(w)' /\ Kept(w)'
    BY <1>1, <1>3, <1>4, <1>6 DEF InOrder, Placed, Started, Kept, At
<1>8. Encoded(w)' /\ Published(w)'
    BY <1>1, <1>3, <1>4, <1>6 DEF InOrder, Encoded, Published, At
<1>. QED
    BY <1>1, <1>3, <1>4, <1>5, <1>7, <1>8, OneWorker DEF Inv, InOrder

LEMMA CrashStep ==
    ASSUME Inv, NEW w \in Workers, Crash(w)
    PROVE  Inv'
<1> DEFINE b == jobs[w].batch
           output == <<jobs[w].step,
                       IF jobs[w].phase = "encoding" THEN "mp4" ELSE "jpg">>
<1>1. /\ jobs[w].phase # "idle" /\ Set(w, IdleJob)
      /\ cursor' = [cursor EXCEPT ![w] = 0]
      /\ lease' = IF lease = w THEN NoWorker ELSE lease
      /\ UNCHANGED clips /\ faults' \in 0 .. MaxFaults
    BY StagingAssumption DEF Crash, Inv, TypeOK
<1>2. /\ lease = w /\ lease' = NoWorker
      /\ \A u \in Workers \ {w} : jobs[u].phase = "idle"
    BY <1>1, Alone DEF Inv
<1>3. /\ jobs' \in [Workers -> Job] /\ jobs'[w].phase = "idle"
      /\ \A u \in Workers \ {w} : jobs'[u] = jobs[u]
    BY <1>1, IdleJobType, SetJob DEF Inv
<1>4. cursor' \in [Workers -> Ids \cup {0}]
    BY <1>1 DEF Inv, TypeOK
<1>5. batches' \in [Ids -> Batch] /\ \A i \in Ids : Tidy(batches'[i])
    <2>1. CASE jobs[w].phase \in {"encoding", "drawing"}
        <3>1. /\ b \in Ids /\ batches[b].state = "owned"
              /\ batches \in [Ids -> Batch] /\ jobs[w].step \in Members
            BY <2>1, EncodingFacts DEF Inv, InOrder, Encoded, At
        <3>2. output \in Artifacts
            BY <3>1 DEF Artifacts, Extensions
        <3>3. PICK content \in {"partial", "absent"} :
                batches' = [batches EXCEPT ![b].orphan = {output},
                                           ![b].files[output] = content]
            BY <2>1 DEF Crash
        <3> HIDE DEF output
        <3>4. content \in Content /\ batches[b] \in Batch
            BY <3>1 DEF Content
        <3>5. /\ batches' \in [Ids -> Batch] /\ batches'[b].state = "owned"
              /\ \A i \in Ids \ {b} : batches'[i] = batches[i]
            BY <3>1, <3>2, <3>3, <3>4 DEF Batch
        <3>. QED BY <3>5 DEF Inv, Tidy
    <2>2. CASE jobs[w].phase \notin {"encoding", "drawing"}
        BY <2>2 DEF Crash, Inv, TypeOK
    <2>. QED BY <2>1, <2>2
<1>6. TypeOK'
    BY <1>1, <1>2, <1>3, <1>4, <1>5 DEF Inv, TypeOK
<1>. QED
    BY <1>1, <1>2, <1>3, <1>5, <1>6, FreeInOrder, OneWorker

\* A change of a batch that no worker relies on preserves the invariant.
LEMMA BatchDisturbed ==
    ASSUME Inv, NEW i \in Ids, batches' \in [Ids -> Batch],
           \A j \in Ids \ {i} : batches'[j] = batches[j],
           batches'[i].state = batches[i].state, batches[i].state # "absent",
           \A a \in Artifacts : \/ batches'[i].files[a] = batches[i].files[a]
                                \/ /\ batches'[i].files[a] = "late"
                                   /\ batches[i].orphan # {},
           batches'[i].orphan = batches[i].orphan \/ batches'[i].orphan = {},
           faults' \in 0 .. MaxFaults,
           UNCHANGED <<lease, jobs, clips, cursor>>
    PROVE  Inv'
<1>1. TypeOK'
    BY DEF Inv, TypeOK
<1>2. Leased'
    BY DEF Inv, Leased
<1>3. \A j \in Ids : Tidy(batches'[j])
    BY DEF Inv, Tidy
<1>4. ASSUME NEW w \in Workers PROVE InOrder(w)'
    <2>1. InOrder(w)
        BY DEF Inv
    <2>2. Placed(w)' /\ Started(w)'
        BY <2>1 DEF InOrder, Placed, Started
    <2>3. Kept(w)'
        BY <2>1 DEF InOrder, Placed, Kept, At, Encoding, Cleaning
    <2>4. jobs[w].phase \in Encoding =>
            /\ jobs[w].batch \in Ids
            /\ \A a \in Artifacts : At(w)'.files[a] = At(w).files[a]
        BY <2>1 DEF InOrder, Placed, Kept, At
    <2>5. \A m \in Members : <<m, "mp4">> \in Artifacts /\ <<m, "jpg">> \in Artifacts
        BY DEF Artifacts, Extensions
    <2>6. jobs[w].phase \in {"encoding", "drawing"} => jobs[w].step \in Members
        BY EncodingFacts DEF Inv, InOrder, Encoded
    <2>7. Encoded(w)'
        BY <2>1, <2>4, <2>5, <2>6 DEF InOrder, Encoded, Encoding
    <2>8. Published(w)'
        BY <2>1, <2>4, <2>5 DEF InOrder, Published, Encoding
    <2>. QED BY <2>2, <2>3, <2>7, <2>8 DEF InOrder
<1>. QED BY <1>1, <1>2, <1>3, <1>4 DEF Inv

LEMMA OrphanCreatesStep ==
    ASSUME Inv, NEW i \in Ids, OrphanCreates(i)
    PROVE  Inv'
<1>1. PICK a \in batches[i].orphan :
        /\ batches' = [batches EXCEPT ![i].files[a] = "late"]
        /\ UNCHANGED <<lease, clips, jobs, cursor, faults>>
    BY DEF OrphanCreates
<1>2. /\ batches \in [Ids -> Batch] /\ a \in Artifacts /\ "late" \in Content
      /\ batches[i].state # "absent"
    BY <1>1 DEF Inv, TypeOK, Batch, Content, Tidy, NoBatch
<1>3. /\ batches' \in [Ids -> Batch]
      /\ \A j \in Ids \ {i} : batches'[j] = batches[j]
      /\ batches'[i].state = batches[i].state
      /\ batches'[i].orphan = batches[i].orphan
      /\ batches'[i].files[a] = "late"
      /\ \A x \in Artifacts \ {a} : batches'[i].files[x] = batches[i].files[x]
    BY <1>1, <1>2 DEF Batch
<1>. QED
    BY <1>1, <1>2, <1>3, BatchDisturbed DEF Inv, TypeOK

LEMMA OrphanEndsStep ==
    ASSUME Inv, NEW i \in Ids, OrphanEnds(i)
    PROVE  Inv'
<1>1. /\ batches \in [Ids -> Batch] /\ batches[i].state # "absent"
      /\ faults' \in 0 .. MaxFaults
    BY DEF OrphanEnds, Inv, TypeOK, Tidy, NoBatch
<1>2. /\ batches' \in [Ids -> Batch]
      /\ \A j \in Ids \ {i} : batches'[j] = batches[j]
      /\ batches'[i].state = batches[i].state /\ batches'[i].orphan = {}
      /\ batches'[i].files = batches[i].files
    BY <1>1 DEF OrphanEnds, Batch
<1>. QED
    BY <1>1, <1>2, BatchDisturbed DEF OrphanEnds

LEMMA ForeignAppearsStep ==
    ASSUME Inv, NEW i \in Ids, ForeignAppears(i)
    PROVE  Inv'
<1>1. /\ batches \in [Ids -> Batch] /\ batches[i].state # "absent"
      /\ faults' \in 0 .. MaxFaults
    BY StagingAssumption DEF ForeignAppears, Inv, TypeOK
<1>2. /\ batches' \in [Ids -> Batch]
      /\ \A j \in Ids \ {i} : batches'[j] = batches[j]
      /\ batches'[i].state = batches[i].state
      /\ batches'[i].orphan = batches[i].orphan
      /\ batches'[i].files = batches[i].files
    BY <1>1 DEF ForeignAppears, Batch
<1>. QED
    BY <1>1, <1>2, BatchDisturbed DEF ForeignAppears

LEMMA UserAddsStep ==
    ASSUME Inv, NEW c \in Names \X Extensions, UserAdds(c)
    PROVE  Inv'
<1>1. /\ clips[c] = "absent" /\ clips' = [clips EXCEPT ![c] = "user"]
      /\ faults' \in 0 .. MaxFaults
      /\ UNCHANGED <<lease, batches, jobs, cursor>>
    BY StagingAssumption DEF UserAdds, Inv, TypeOK
<1>2. TypeOK' /\ Leased' /\ \A i \in Ids : Tidy(batches[i])'
    BY <1>1 DEF Inv, TypeOK, Leased, Tidy
<1>3. ASSUME NEW w \in Workers PROVE InOrder(w)'
    <2>1. InOrder(w)
        BY DEF Inv
    <2>2. Placed(w)' /\ Started(w)' /\ Kept(w)' /\ Encoded(w)'
        BY <1>1, <2>1 DEF InOrder, Placed, Started, Kept, Encoded, At
    <2>3. \A m \in Members : <<jobs[w].names[m], "mp4">> \in Names \X Extensions
        BY DEF Inv, TypeOK, Job, Extensions
    <2>4. \A d \in Names \X Extensions : clips[d] = "valid" => clips'[d] = "valid"
        BY <1>1 DEF Inv, TypeOK
    <2>5. Published(w)'
        BY <1>1, <2>1, <2>3, <2>4 DEF InOrder, Published, At
    <2>. QED BY <2>2, <2>5 DEF InOrder
<1>. QED BY <1>2, <1>3 DEF Inv

-----------------------------------------------------------------------------
(* The invariant.                                                          *)

LEMMA InvInit == Init => Inv
<1> SUFFICES ASSUME Init PROVE Inv
    OBVIOUS
<1>1. /\ lease = NoWorker /\ faults = 0
      /\ batches = [i \in Ids |-> NoBatch]
      /\ clips = [c \in Names \X Extensions |-> "absent"]
      /\ jobs = [w \in Workers |-> IdleJob]
      /\ cursor = [w \in Workers |-> 0]
    BY DEF Init
<1>2. TypeOK
    BY <1>1, IdleJobType, NoBatchType, StagingAssumption DEF TypeOK, Content
<1>3. Leased /\ \A w \in Workers : jobs[w].phase = "idle"
    BY <1>1, IdleJobType, StagingAssumption DEF Leased
<1>4. \A i \in Ids : Tidy(batches[i])
    BY <1>1, NoBatchType
<1>. QED
    BY <1>2, <1>3, <1>4, IdleInOrder DEF Inv

LEMMA InvStep == Inv /\ [Next]_vars => Inv'
<1> SUFFICES ASSUME Inv, [Next]_vars PROVE Inv'
    OBVIOUS
<1>1. ASSUME NEW w \in Workers, Work(w) PROVE Inv'
    BY <1>1, RecoverBatchStep, InterruptRecoveryStep, FinishRecoveryStep,
       DropBatchStep, RemoveMemberStep, RemoveOwnerStep, RemoveDirectoryStep,
       RefuseExportStep, CreateBatchStep, WriteOwnerStep, StartEncodingStep,
       FinishEncodingStep, FinishThumbnailStep, FailExportStep, PublishStep
    DEF Work
<1>2. ASSUME Environment PROVE Inv'
    BY <1>2, CancelStep, CrashStep, OrphanCreatesStep, OrphanEndsStep,
       ForeignAppearsStep, UserAddsStep
    DEF Environment
<1>3. ASSUME NEW w \in Workers, NEW export \in BOOLEAN, Begin(w, export)
      PROVE  Inv'
    BY <1>3, BeginStep
<1>4. CASE UNCHANGED vars
    <2>1. TypeOK' /\ Leased' /\ \A i \in Ids : Tidy(batches[i])'
        BY <1>4 DEF vars, Inv, TypeOK, Leased, Tidy
    <2>2. ASSUME NEW w \in Workers PROVE InOrder(w)'
        BY <1>4 DEF vars, Inv, InOrder, Placed, Started, Kept, Encoded, Published, At
    <2>. QED BY <2>1, <2>2 DEF Inv
<1>. QED
    BY <1>1, <1>2, <1>3, <1>4 DEF Next

LEMMA Invariance == Spec => []Inv
BY InvInit, InvStep, PTL DEF Spec

-----------------------------------------------------------------------------
(* The theorems.                                                           *)

\* Every reachable state is well typed (the records and file states that
\* export_staging.rs and the export job keep).
THEOREM TypeCorrect == Spec => []TypeOK
<1>1. Inv => TypeOK
    BY DEF Inv
<1>. QED BY <1>1, Invariance, PTL

\* Nobody reclaims the batch of a running export (Lease::acquire held through
\* publication): its record and its finished outputs stay.
THEOREM LiveBatches == Spec => []LiveBatchIntact
<1>1. ASSUME Inv PROVE LiveBatchIntact
    <2> SUFFICES ASSUME NEW w \in Workers, jobs[w].phase \in Encoding
                 PROVE  /\ batches[jobs[w].batch].state = "owned"
                        /\ \A m \in Finished(w) :
                            batches[jobs[w].batch].files[<<m, "mp4">>] = "valid"
        BY DEF LiveBatchIntact
    <2>1. InOrder(w)
        BY <1>1 DEF Inv
    <2>2. batches[jobs[w].batch].state = "owned"
        BY <2>1 DEF InOrder, Kept, At
    <2>3. CASE jobs[w].phase = "publish"
        BY <2>1, <2>2, <2>3 DEF InOrder, Published, Finished, At
    <2>4. CASE jobs[w].phase # "publish"
        BY <2>1, <2>2, <2>4 DEF InOrder, Encoded, Finished, At, Encoding
    <2>. QED BY <2>3, <2>4
<1>. QED BY <1>1, Invariance, PTL

\* Staged media always lie under an ownership record (cleanup removes the
\* record after every member), wherever a job stops.
THEOREM StagedMedia == Spec => []StagedMediaIsOwned
<1>1. Inv => StagedMediaIsOwned
    BY DEF Inv, Tidy, StagedMediaIsOwned
<1>. QED BY <1>1, Invariance, PTL

\* What a step may do to a directory with an unknown entry.
Respected(i) ==
    /\ batches'[i].state # "absent"
    /\ (\A w \in Workers : jobs[w].batch # i) =>
        \A a \in Artifacts : batches[i].files[a] # "absent" =>
            batches'[i].files[a] = batches[i].files[a]

\* A step that only changes the batch of w in a way that keeps its directory
\* respects every directory.
LEMMA OwnBatchOnly ==
    ASSUME Inv, NEW w \in Workers, NEW i \in Ids, batches[i].foreign,
           i # jobs[w].batch => batches'[i] = batches[i],
           batches[i].state # "absent" => batches'[i].state # "absent"
    PROVE  Respected(i)
<1>1. batches[i].state # "absent"
    BY DEF Inv, Tidy, NoBatch
<1>. QED BY <1>1 DEF Respected

LEMMA WorkRespects ==
    ASSUME Inv, NEW w \in Workers, Work(w), NEW i \in Ids, batches[i].foreign
    PROVE  Respected(i)
<1> DEFINE b == jobs[w].batch
<1>0. /\ batches \in [Ids -> Batch] /\ batches[i].state # "absent"
    BY DEF Inv, TypeOK, Tidy, NoBatch
<1>1. CASE UNCHANGED batches
    BY <1>0, <1>1, OwnBatchOnly
<1>2. CASE \E a \in Artifacts, c \in Content :
            batches' = [batches EXCEPT ![b].files[a] = c]
    <2>1. (i # b => batches'[i] = batches[i])
          /\ batches'[i].state = batches[i].state
        BY <1>0, <1>2 DEF Batch
    <2>. QED BY <1>0, <2>1, OwnBatchOnly
<1>3. CASE \E s \in {"bare", "torn", "owned"} :
            batches' = [batches EXCEPT ![b].state = s]
    <2>1. (i # b => batches'[i] = batches[i]) /\ batches'[i].state # "absent"
        BY <1>0, <1>3 DEF Batch
    <2>. QED BY <2>1, OwnBatchOnly
<1>4. CASE RemoveDirectory(w)
    BY <1>0, <1>4, OwnBatchOnly DEF RemoveDirectory
<1>5. CASE CreateBatch(w)
    <2>1. batches'[i] = batches[i]
        BY <1>0, <1>5 DEF CreateBatch
    <2>. QED BY <1>0, <2>1, OwnBatchOnly
<1>6. CASE FinishEncoding(w)
    <2>1. (i # b => batches'[i] = batches[i])
          /\ batches'[i].state = batches[i].state
        BY <1>0, <1>6 DEF FinishEncoding, Batch
    <2>. QED BY <1>0, <2>1, OwnBatchOnly
<1>7. CASE RemoveMember(w)
    <2>1. \A a \in jobs[w].left : a \in Artifacts /\ "absent" \in Content
        BY DEF Inv, TypeOK, Job, Content
    <2>. QED BY <1>1, <1>2, <1>7, <2>1 DEF RemoveMember
<1>8. CASE StartEncoding(w)
    <2>1. jobs[w].step < jobs[w].members =>
            <<jobs[w].step, "mp4">> \in Artifacts /\ "partial" \in Content
        BY <1>8, EncodingFacts DEF StartEncoding, Artifacts, Extensions, Content
    <2>. QED BY <1>1, <1>2, <1>8, <2>1 DEF StartEncoding, Stage
<1>9. CASE FinishThumbnail(w)
    <2>1. <<jobs[w].step, "jpg">> \in Artifacts /\ {"valid", "absent"} \subseteq Content
        BY <1>9, EncodingFacts
        DEF FinishThumbnail, Artifacts, Extensions, Content, Inv, InOrder, Encoded
    <2>. QED BY <1>2, <1>9, <2>1 DEF FinishThumbnail, Stage
<1>10. CASE Publish(w)
    <2>1. CASE jobs[w].phase = "publish" /\ jobs[w].step < 2 * jobs[w].members
        <3>1. Artifact(jobs[w].step) \in Artifacts /\ "absent" \in Content
            <4>1. PICK k \in Members, e \in Extensions :
                    Artifact(jobs[w].step) = <<k, e>>
                BY <2>1, PublishMoves
            <4>. QED BY <4>1 DEF Artifacts, Content
        <3>. QED BY <1>1, <1>2, <1>10, <3>1 DEF Publish
    <2>2. CASE ~(jobs[w].step < 2 * jobs[w].members)
        BY <1>1, <1>10, <2>2 DEF Publish
    <2>. QED BY <1>10, <2>1, <2>2 DEF Publish
<1>11. CASE RemoveOwner(w) \/ WriteOwner(w)
    BY <1>3, <1>11 DEF RemoveOwner, WriteOwner
<1>12. CASE \/ RecoverBatch(w) \/ InterruptRecovery(w) \/ FinishRecovery(w)
            \/ DropBatch(w) \/ RefuseExport(w) \/ FailExport(w)
    BY <1>1, <1>12
    DEF RecoverBatch, InterruptRecovery, FinishRecovery, DropBatch, RefuseExport,
        FailExport
<1>. QED
    BY <1>4, <1>5, <1>6, <1>7, <1>8, <1>9, <1>10, <1>11, <1>12 DEF Work

LEMMA EnvironmentRespects ==
    ASSUME Inv, Environment, NEW i \in Ids, batches[i].foreign
    PROVE  Respected(i)
<1>0. /\ batches \in [Ids -> Batch] /\ batches[i].state # "absent"
    BY DEF Inv, TypeOK, Tidy, NoBatch
<1>1. CASE UNCHANGED batches
    BY <1>0, <1>1 DEF Respected
<1>2. ASSUME NEW w \in Workers, Crash(w) PROVE Respected(i)
    <2>1. CASE jobs[w].phase \in {"encoding", "drawing"}
        <3>1. /\ i # jobs[w].batch => batches'[i] = batches[i]
              /\ batches'[i].state = batches[i].state
            BY <1>0, <1>2, <2>1 DEF Crash, Batch
        <3>. QED BY <1>0, <3>1, OwnBatchOnly
    <2>2. CASE jobs[w].phase \notin {"encoding", "drawing"}
        BY <1>1, <1>2, <2>2 DEF Crash
    <2>. QED BY <2>1, <2>2
<1>3. ASSUME NEW j \in Ids, OrphanCreates(j) PROVE Respected(i)
    <2>1. PICK a \in batches[j].orphan :
            /\ batches[j].files[a] = "absent"
            /\ batches' = [batches EXCEPT ![j].files[a] = "late"]
        BY <1>3 DEF OrphanCreates
    <2>2. /\ batches'[i].state = batches[i].state
          /\ \A x \in Artifacts : batches[i].files[x] # "absent" =>
                batches'[i].files[x] = batches[i].files[x]
        BY <1>0, <2>1 DEF Batch
    <2>. QED BY <1>0, <2>2 DEF Respected
<1>4. ASSUME NEW j \in Ids, OrphanEnds(j) \/ ForeignAppears(j)
      PROVE  Respected(i)
    <2>1. /\ batches'[i].state = batches[i].state
          /\ batches'[i].files = batches[i].files
        BY <1>0, <1>4 DEF OrphanEnds, ForeignAppears, Batch
    <2>. QED BY <1>0, <2>1 DEF Respected
<1>5. ASSUME NEW w \in Workers, Cancel(w) PROVE Respected(i)
    BY <1>1, <1>5 DEF Cancel
<1>6. ASSUME NEW c \in Names \X Extensions, UserAdds(c) PROVE Respected(i)
    BY <1>1, <1>6 DEF UserAdds
<1>. QED
    BY <1>2, <1>3, <1>4, <1>5, <1>6 DEF Environment

\* A directory with an entry the exporter does not know is never removed, and
\* nothing in it is, unless it was validated before (Batch::drop and
\* Lease::recover_batch validate before they clean up).
THEOREM ForeignBatches == Spec => ForeignBatchesStay
<1> DEFINE A == \A i \in Ids : batches[i].foreign => Respected(i)
<1>1. ASSUME Inv, [Next]_vars PROVE [A]_vars
    <2>1. ASSUME NEW i \in Ids, batches[i].foreign, Next PROVE Respected(i)
        <3>1. ASSUME NEW w \in Workers, NEW export \in BOOLEAN, Begin(w, export)
              PROVE  Respected(i)
            BY <1>1, <2>1, <3>1, OwnBatchOnly DEF Begin
        <3>. QED
            BY <1>1, <2>1, <3>1, WorkRespects, EnvironmentRespects DEF Next
    <2>. QED BY <1>1, <2>1
<1>2. Spec => [][A]_vars
    BY <1>1, Invariance, PTL DEF Spec
<1>. QED
    BY <1>2 DEF ForeignBatchesStay, Respected

\* A step changes the clips directory as its abstraction does, or not at all.
LEMMA ClipStep ==
    ASSUME Inv, [Next]_vars
    PROVE  [PublishedClips!Next]_clips
<1>1. ASSUME NEW w \in Workers, Publish(w)
      PROVE  PublishedClips!Next \/ UNCHANGED clips
    <2>1. CASE /\ jobs[w].step < 2 * jobs[w].members
               /\ MayMove(batches[jobs[w].batch].files[Artifact(jobs[w].step)],
                          clips[<<jobs[w].names[Artifact(jobs[w].step)[1]],
                                  Artifact(jobs[w].step)[2]>>])
        <3>1. PICK k \in Members, e \in Extensions :
                /\ Artifact(jobs[w].step) = <<k, e>>
                /\ jobs[w].names[k] \in Names
                /\ At(w).files[<<k, e>>] \in {"valid", "absent"}
                /\ e = "jpg" => clips[<<jobs[w].names[k], "mp4">>] = "valid"
            BY <1>1, <2>1, PublishMoves DEF Publish
        <3> DEFINE name == jobs[w].names[k]
        <3>2. /\ clips[<<name, e>>] = "absent"
              /\ clips' = [clips EXCEPT ![<<name, e>>] = "valid"]
            BY <1>1, <2>1, <3>1 DEF Publish, MayMove, At
        <3>3. PublishedClips!Publish(name, e)
            BY <3>1, <3>2 DEF PublishedClips!Publish, PublishedClips!Add
        <3>4. e \in PublishedClips!Extensions
            BY DEF PublishedClips!Extensions, Extensions
        <3>. QED BY <3>1, <3>3, <3>4 DEF PublishedClips!Next
    <2>2. CASE ~(/\ jobs[w].step < 2 * jobs[w].members
                 /\ MayMove(batches[jobs[w].batch].files[Artifact(jobs[w].step)],
                            clips[<<jobs[w].names[Artifact(jobs[w].step)[1]],
                                    Artifact(jobs[w].step)[2]>>]))
        BY <1>1, <2>2 DEF Publish
    <2>. QED BY <2>1, <2>2
<1>2. ASSUME NEW c \in Names \X Extensions, UserAdds(c)
      PROVE  PublishedClips!Next
    <2>1. PICK name \in Names, e \in Extensions : c = <<name, e>>
        OBVIOUS
    <2>2. PublishedClips!UserAdds(<<name, e>>)
        BY <1>2, <2>1 DEF UserAdds, PublishedClips!UserAdds, PublishedClips!Add
    <2>3. e \in PublishedClips!Extensions
        BY DEF PublishedClips!Extensions, Extensions
    <2>. QED BY <2>2, <2>3 DEF PublishedClips!Next
<1>3. ASSUME NEW w \in Workers, Work(w), ~Publish(w) PROVE UNCHANGED clips
    BY <1>3
    DEF Work, RecoverBatch, InterruptRecovery, FinishRecovery, DropBatch,
        RemoveMember, RemoveOwner, RemoveDirectory, RefuseExport, CreateBatch,
        WriteOwner, StartEncoding, FinishEncoding, FinishThumbnail, FailExport
<1>4. ASSUME NEW w \in Workers, NEW export \in BOOLEAN, Begin(w, export)
      PROVE  UNCHANGED clips
    BY <1>4 DEF Begin
<1>5. ASSUME NEW w \in Workers, Cancel(w) \/ Crash(w) PROVE UNCHANGED clips
    BY <1>5 DEF Cancel, Crash
<1>6. ASSUME NEW i \in Ids, OrphanCreates(i) \/ OrphanEnds(i) \/ ForeignAppears(i)
      PROVE  UNCHANGED clips
    BY <1>6 DEF OrphanCreates, OrphanEnds, ForeignAppears
<1>7. CASE UNCHANGED vars
    BY <1>7 DEF vars
<1>. QED
    BY <1>1, <1>2, <1>3, <1>4, <1>5, <1>6, <1>7 DEF Next, Environment

\* Export implements what it promises of the clips directory: only validated
\* clips appear, a thumbnail after its video, and nothing is replaced
\* (Batch::publish, move_no_replace).
THEOREM Refinement == Spec => ClipStoreSpec
<1>1. Init => PublishedClips!Init
    BY DEF Init, PublishedClips!Init, Extensions, PublishedClips!Extensions
<1>. QED
    BY <1>1, ClipStep, Invariance, PTL
    DEF Spec, ClipStoreSpec, PublishedClips!Spec

=============================================================================
