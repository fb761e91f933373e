------------------------- MODULE LibraryCoordinator -------------------------
(***************************************************************************)
(* The desktop app's library coordinator (library_coordinator.rs): one     *)
(* process-wide owner of the published library snapshot.                   *)
(*                                                                         *)
(* A refresh captures a revision, lets a blocking worker scan the selected *)
(* library root, and publishes the result only if nothing invalidated the  *)
(* capture in between.  The published snapshot's token is what every other *)
(* command must present: reads (replay, index, durations, storage) are     *)
(* admitted and answered only while the token is selected; mutations       *)
(* (save, delete, retention, export) revoke it when they complete.         *)
(*                                                                         *)
(* Every command is a call: an async caller plus an owned blocking worker. *)
(* The caller may disappear at any await; the worker then still runs to    *)
(* its end and keeps its semaphore permit until it does.  One call of the  *)
(* model is one invocation; Calls bounds how many are in flight.           *)
(***************************************************************************)
EXTENDS Naturals, FiniteSets

CONSTANTS
    Roots,        \* approved output directories the user can select
    Games,        \* recording identifiers a root may hold
    Clips,        \* clip identifiers a root may hold
    Unmatched,    \* the games without match identity: archived by a refresh
    Calls,        \* in-flight command invocations
    NoCall,       \* not a call: an empty cancellation pointer
    Kinds,        \* the commands exercised by this instance
    MaxTokens,    \* bound: refreshes admitted in a behaviour
    MaxRevision   \* bound: admissions stop once the revision reaches it

AllKinds == {"refresh", "usage", "durations", "replay", "indexRead",
             "indexWrite", "indexAdmin", "mutate", "export", "settings"}

ASSUME CoordinatorAssumption ==
    /\ Roots # {} /\ Games # {} /\ IsFiniteSet(Games)
    /\ Games \cap Clips = {} /\ Unmatched \subseteq Games
    /\ NoCall \notin Calls
    /\ Kinds \subseteq AllKinds
    /\ MaxTokens \in Nat /\ MaxRevision \in Nat

Items == Games \cup Clips

\* What a scan reads of one item.
ItemState == {"absent", "unsaved", "saved"}

Views == [Items -> ItemState]

MutationOps == {"save", "unsave", "deleteGame", "deleteClip", "retention"}

VARIABLES
    disk,           \* [Roots -> Views]: what each root holds
    archived,       \* [Roots -> [Games -> ItemState]]: its unmatched collection
    moved,          \* [Roots -> Nat]: history, moves into that collection
    recorded,       \* games the recorder has published: an id is used once
    output,         \* the root MediaRoots publishes now
    revision,       \* Publication.revision
    rootEpoch,      \* Publication.root_epoch
    selected,       \* Publication.selected_token, 0 for None
    current,        \* Publication.current, token 0 for None
    archivedUsage,  \* Publication.archived_usage
    activeCancel,   \* the refresh whose flag active_cancel holds, or NoCall
    durationCancel, \* likewise for duration_cancel
    durations,      \* clips with a cached duration
    closed,         \* Publication.closed, with the semaphores closed
    tokens,         \* tokens allocated so far: they are 1 .. tokens
    calls           \* [Calls -> Call]

publication == <<revision, rootEpoch, selected, current, archivedUsage,
                 activeCancel, durationCancel, durations, closed>>
files == <<disk, archived, moved, recorded>>
vars == <<files, output, publication, tokens, calls>>

-----------------------------------------------------------------------------
(* Calls, their permits and the lease.                                     *)

Phases == {"idle", "captured", "admitted", "scanned", "archiving",
           "moving", "finishing", "leased", "effected", "built", "done", "failed"}

Call == [kind      : AllKinds,
         phase     : Phases,
         root      : Roots,          \* RootCapture.root
         token     : Nat,            \* the token presented or allocated
         epoch     : Nat,            \* RootCapture.root_epoch
         rev       : Nat,            \* revision at capture
         view      : Views,          \* what the worker scanned
         op        : MutationOps,    \* what a mutation will do
         item      : Items,          \* and to which item
         count     : Nat,            \* archived: moved now, or counted
         cancelled : BOOLEAN,        \* the shared cancellation flag
         waiting   : BOOLEAN,        \* the caller still awaits its answer
         ok        : BOOLEAN]        \* the last answer was a success

SlotOf(kind) ==
    CASE kind \in {"refresh", "usage"}               -> "scan"
      [] kind = "durations"                          -> "duration"
      [] kind = "replay"                             -> "replay"
      [] kind = "indexRead"                          -> "reader"
      [] kind = "indexWrite"                         -> "writer"
      [] kind = "indexAdmin"                         -> "admin"
      [] kind \in {"mutate", "export", "settings"}   -> "mutation"

\* Phases in which the worker has finished and, for most commands, has
\* dropped its permit.
WorkerEnded == {"done", "failed"}

\* storage recalculation and duration batches share the permit between the
\* worker and the waiter; every other permit belongs to the worker alone.
HoldsPermit(c) ==
    /\ calls[c].phase # "idle"
    /\ \/ calls[c].phase \notin WorkerEnded
       \/ calls[c].kind \in {"usage", "durations"} /\ calls[c].waiting

Holders(slot) ==
    {c \in Calls : HoldsPermit(c) /\ SlotOf(calls[c].kind) = slot}

\* try_acquire_owned: never waits, and a closed semaphore refuses.  The
\* exclusive cache reset needs the writer and both reader permits.
CanAcquire(kind) ==
    /\ ~closed
    /\ CASE SlotOf(kind) = "reader" ->
                Cardinality(Holders("reader")) < 2 /\ Holders("admin") = {}
         [] SlotOf(kind) = "writer" ->
                Holders("writer") \cup Holders("admin") = {}
         [] SlotOf(kind) = "admin" ->
                Holders("writer") \cup Holders("reader")
                    \cup Holders("admin") = {}
         [] OTHER -> Holders(SlotOf(kind)) = {}

\* The file lease of LibraryMutation, here among this process's workers.
LeaseFree(root) ==
    \A c \in Calls :
        calls[c].root = root =>
            calls[c].phase \notin {"leased", "archiving", "moving"}

\* capture_selection: the admission and completion check of every command.
CapturesSelection(token, selection) ==
    /\ ~closed
    /\ selected # 0 /\ selected = token
    /\ current.token # 0 /\ current.root = output
    /\ selection \in Items => current.view[selection] # "absent"

\* Mutant: a late check looks at the root only.
SameRoot(c) ==
    ~closed /\ rootEpoch = calls[c].epoch /\ output = calls[c].root

\* A late check also requires the epoch and root of the first capture.
StillCurrent(c) ==
    /\ CapturesSelection(calls[c].token, "library")
    /\ rootEpoch = calls[c].epoch /\ output = calls[c].root

-----------------------------------------------------------------------------
(* Publication updates.                                                    *)

\* Mutant: the duration batch is not told.
InvalidateWithoutBatch(cs, next) ==
    /\ revision' = revision + 1
    /\ selected' = 0
    /\ durations' = {}
    /\ activeCancel' = next
    /\ durationCancel' = NoCall
    /\ calls' = [d \in Calls |->
                    IF d = activeCancel
                    THEN [cs[d] EXCEPT !.cancelled = TRUE]
                    ELSE cs[d]]

\* Publication::invalidate, leaving the calls as cs with the registered
\* cancellation flags raised and next as the new active_cancel.
InvalidateWith(cs, next) ==
    /\ revision' = revision + 1
    /\ selected' = 0
    /\ durations' = {}
    /\ activeCancel' = next
    /\ durationCancel' = NoCall
    /\ calls' = [d \in Calls |->
                    IF d \in {activeCancel, durationCancel}
                    THEN [cs[d] EXCEPT !.cancelled = TRUE]
                    ELSE cs[d]]

\* A finished call leaves no reader of its cancellation flag.
Forget(pointer, c) == IF pointer = c THEN NoCall ELSE pointer

NoView == [i \in Items |-> "absent"]

IdleCall ==
    [kind |-> "refresh", phase |-> "idle", root |-> CHOOSE r \in Roots : TRUE,
     token |-> 0, epoch |-> 0, rev |-> 0, view |-> NoView,
     op |-> "retention", item |-> CHOOSE i \in Items : TRUE, count |-> 0,
     cancelled |-> FALSE, waiting |-> FALSE, ok |-> FALSE]

\* The call ends; its caller, if it still waits, sees the answer.
Ended(c, success) == [IdleCall EXCEPT !.ok = success /\ calls[c].waiting]

Update(c, call) == [calls EXCEPT ![c] = call]
Become(c, call) == calls' = Update(c, call)

Answer(c, success) == Become(c, Ended(c, success))

Returns(c, success) ==
    /\ Answer(c, success)
    /\ activeCancel' = Forget(activeCancel, c)
    /\ durationCancel' = Forget(durationCancel, c)

Idle(c, kind) == calls[c].phase = "idle" /\ kind \in Kinds

\* A call admitted under the current selection and root.
Captured(kind, phase, op, item) ==
    [kind |-> kind, phase |-> phase, root |-> output, token |-> selected,
     epoch |-> rootEpoch, rev |-> revision, view |-> NoView, op |-> op,
     item |-> item, count |-> 0, cancelled |-> FALSE, waiting |-> TRUE,
     ok |-> FALSE]

CapturedRead(kind, phase) ==
    Captured(kind, phase, IdleCall.op, IdleCall.item)

Step(c, phase) == Become(c, [calls[c] EXCEPT !.phase = phase])

-----------------------------------------------------------------------------
(* Refresh: refresh_with, its worker, and the archive of unmatched games.  *)

RefreshAdmit(c) ==
    /\ Idle(c, "refresh") /\ CanAcquire("refresh")
    /\ tokens < MaxTokens /\ revision < MaxRevision
    /\ tokens' = tokens + 1
    /\ InvalidateWith(Update(c,
            [CapturedRead("refresh", "admitted") EXCEPT !.token = tokens + 1,
                                                    !.rev = revision + 1]), c)
    /\ UNCHANGED <<files, output, rootEpoch, current,
                   archivedUsage, closed>>

\* check_current, then scan_games; any I/O error fails the scan.
RefreshScan(c) ==
    /\ calls[c].kind = "refresh" /\ calls[c].phase = "admitted"
    /\ \/ /\ ~calls[c].cancelled
          /\ Become(c, [calls[c] EXCEPT !.phase = "scanned",
                                         !.view = disk[calls[c].root]])
       \/ Step(c, "failed")
    /\ UNCHANGED <<files, output, publication, tokens>>

UnmatchedIn(view) == {g \in Unmatched : view[g] # "absent"}

\* Recordings without match identity need the mutation lease; a busy lease
\* only leaves an archive error in the snapshot.
RefreshArchiveBegin(c) ==
    /\ calls[c].phase = "scanned"
    /\ \/ /\ UnmatchedIn(calls[c].view) # {}
          /\ LeaseFree(calls[c].root)
          /\ Step(c, "archiving")
       \/ Step(c, "finishing")
    /\ UNCHANGED <<files, output, publication, tokens>>

\* archive_unmatched: one recording passes its checks, the supersession check
\* last; the guarded no-replace move itself is no longer interruptible.
RefreshArchiveCheck(c) ==
    /\ calls[c].phase = "archiving" /\ ~calls[c].cancelled
    /\ \E g \in UnmatchedIn(calls[c].view) :
        Become(c, [calls[c] EXCEPT !.phase = "moving", !.item = g])
    /\ UNCHANGED <<files, output, publication, tokens>>

RefreshArchiveMove(c) ==
    LET root == calls[c].root
        game == calls[c].item
    IN
    /\ calls[c].phase = "moving"
    /\ disk[root][game] # "absent"
    /\ disk' = [disk EXCEPT ![root][game] = "absent"]
    /\ archived' = [archived EXCEPT ![root][game] = disk[root][game]]
    /\ moved' = [moved EXCEPT ![root] = @ + 1]
    /\ Become(c, [calls[c] EXCEPT !.phase = "archiving",
                    !.count = calls[c].count + 1,
                    !.view = [calls[c].view EXCEPT ![game] = "absent"]])
    /\ UNCHANGED <<recorded, output, publication, tokens>>

\* Remaining moves failed, were superseded or found a late match identity.
RefreshArchiveEnd(c) ==
    /\ calls[c].phase \in {"archiving", "moving"}
    /\ Step(c, "finishing")
    /\ UNCHANGED <<files, output, publication, tokens>>

\* finish_library_snapshot: the clips are listed, with cancellation checks.
RefreshFinish(c) ==
    /\ calls[c].phase = "finishing"
    /\ \/ /\ ~calls[c].cancelled
          /\ Become(c, [calls[c] EXCEPT !.phase = "done",
                !.view = [i \in Items |->
                    IF i \in Clips THEN disk[calls[c].root][i]
                                   ELSE calls[c].view[i]]])
       \/ Step(c, "failed")
    /\ UNCHANGED <<files, output, publication, tokens>>

\* Mutant: publication checks the root but neither flag nor revision.
RefreshOfThisRoot(c) ==
    calls[c].waiting /\ ~closed /\ output = calls[c].root

RefreshIsCurrent(c) ==
    /\ calls[c].waiting /\ ~closed /\ ~calls[c].cancelled
    /\ calls[c].rev = revision /\ output = calls[c].root

RefreshPublish(c) ==
    /\ calls[c].kind = "refresh" /\ calls[c].phase = "done"
    /\ RefreshIsCurrent(c)
    /\ archivedUsage' = archivedUsage + calls[c].count
    /\ current' = [root |-> calls[c].root, token |-> calls[c].token,
                   view |-> calls[c].view]
    /\ selected' = calls[c].token
    /\ activeCancel' = NoCall
    /\ Answer(c, TRUE)
    /\ UNCHANGED <<files, output, revision, rootEpoch,
                   durationCancel, durations, closed, tokens>>

\* Mutant: a failed scan of a current capture is never answered.
RefreshRejectSuperseded(c) ==
    /\ calls[c].kind = "refresh" /\ calls[c].phase \in WorkerEnded
    /\ ~RefreshIsCurrent(c)
    /\ Returns(c, FALSE)
    /\ UNCHANGED <<files, output, rootEpoch, revision, selected,
                   current, archivedUsage, durations, closed, tokens>>

\* Superseded, or a failed scan: the previous view stays for display only.
RefreshReject(c) ==
    /\ calls[c].kind = "refresh" /\ calls[c].phase \in WorkerEnded
    /\ calls[c].phase = "failed" \/ ~RefreshIsCurrent(c)
    /\ Returns(c, FALSE)
    /\ UNCHANGED <<files, output, revision, rootEpoch, selected,
                   current, archivedUsage, durations, closed, tokens>>

-----------------------------------------------------------------------------
(* Reads: recalculate_storage, read_replay, index_job, index_admin_job.    *)

Readers == {"usage", "replay", "indexRead", "indexWrite", "indexAdmin"}
IndexKinds == {"indexRead", "indexWrite", "indexAdmin"}

ReadAdmit(c, kind, selection) ==
    /\ Idle(c, kind) /\ kind \in Readers /\ CanAcquire(kind)
    /\ selection # "library" => kind \in {"replay", "indexRead", "indexWrite"}
    /\ kind = "replay" => selection \in Games
    /\ CapturesSelection(selected, selection)
    /\ Become(c, CapturedRead(kind, IF kind \in IndexKinds THEN "captured"
                                    ELSE "admitted"))
    /\ UNCHANGED <<files, output, publication, tokens>>

\* The snapshot is fetched under a second short guard, after the capture.
IndexLoad(c) ==
    /\ calls[c].kind \in IndexKinds /\ calls[c].phase = "captured"
    /\ current.token = calls[c].token /\ current.token # 0
    /\ Become(c, [calls[c] EXCEPT !.phase = "admitted",
                                   !.view = current.view])
    /\ UNCHANGED <<files, output, publication, tokens>>

IndexLoadSuperseded(c) ==
    /\ calls[c].kind \in IndexKinds /\ calls[c].phase = "captured"
    /\ current.token # calls[c].token \/ current.token = 0
    /\ Returns(c, FALSE)
    /\ UNCHANGED <<files, output, revision, rootEpoch, selected,
                   current, archivedUsage, durations, closed, tokens>>

\* The worker checks before and after the build; the build itself may fail.
IndexBuild(c) ==
    /\ calls[c].kind \in IndexKinds /\ calls[c].phase = "admitted"
    /\ \/ ~calls[c].cancelled /\ StillCurrent(c) /\ Step(c, "built")
       \/ Step(c, "failed")
    /\ UNCHANGED <<files, output, publication, tokens>>

IndexRecheck(c) ==
    /\ calls[c].phase = "built"
    /\ IF ~calls[c].cancelled /\ StillCurrent(c)
       THEN Step(c, "done") ELSE Step(c, "failed")
    /\ UNCHANGED <<files, output, publication, tokens>>

\* library::archive_usage, in recordings.
ArchiveCount(root) == Cardinality({g \in Games : archived[root][g] # "absent"})

\* read_replay and recalculate_storage read without intermediate checks.
PlainRead(c) ==
    /\ calls[c].kind \in {"usage", "replay"} /\ calls[c].phase = "admitted"
    /\ \/ Become(c, [calls[c] EXCEPT !.phase = "done",
                        !.count = ArchiveCount(calls[c].root)])
       \/ Step(c, "failed")
    /\ UNCHANGED <<files, output, publication, tokens>>

\* Mutant: the archive total is stored before the selection is checked.
ReadAnswerEarly(c) ==
    LET success == /\ calls[c].phase = "done" /\ calls[c].waiting
                   /\ StillCurrent(c)
    IN
    /\ calls[c].kind \in Readers /\ calls[c].phase \in WorkerEnded
    /\ Returns(c, success)
    /\ archivedUsage' = IF calls[c].kind = "usage" /\ calls[c].phase = "done"
                        THEN calls[c].count ELSE archivedUsage
    /\ UNCHANGED <<files, output, revision, rootEpoch, selected,
                   current, durations, closed, tokens>>

\* Completion admission: a success requires the same selection as admission.
ReadAnswer(c) ==
    LET success == /\ calls[c].phase = "done" /\ calls[c].waiting
                   /\ StillCurrent(c)
    IN
    /\ calls[c].kind \in Readers /\ calls[c].phase \in WorkerEnded
    /\ Returns(c, success)
    /\ archivedUsage' = IF success /\ calls[c].kind = "usage"
                        THEN calls[c].count ELSE archivedUsage
    /\ UNCHANGED <<files, output, revision, rootEpoch, selected,
                   current, durations, closed, tokens>>

-----------------------------------------------------------------------------
(* Clip durations: resolve_durations_with, one probed clip per batch.      *)

DurationAdmit(c, clip) ==
    /\ Idle(c, "durations") /\ CanAcquire("durations")
    /\ CapturesSelection(selected, "library")
    /\ Become(c, Captured("durations", "captured", IdleCall.op, clip))
    /\ UNCHANGED <<files, output, publication, tokens>>

DurationRegistrable(c) ==
    /\ ~closed /\ selected = calls[c].token /\ current.token # 0
    /\ current.view[calls[c].item] # "absent"

DurationRegister(c) ==
    /\ calls[c].kind = "durations" /\ calls[c].phase = "captured"
    /\ IF DurationRegistrable(c)
       THEN /\ Become(c, [calls[c] EXCEPT !.phase = "admitted",
                                           !.rev = revision])
            /\ durationCancel' = c
            /\ UNCHANGED activeCancel
       ELSE Returns(c, FALSE)
    /\ UNCHANGED <<files, output, revision, rootEpoch, selected,
                   current, archivedUsage, durations, closed, tokens>>

\* A cancelled batch stops early and carries no value for the clip.
DurationProbe(c) ==
    /\ calls[c].kind = "durations" /\ calls[c].phase = "admitted"
    /\ Become(c, [calls[c] EXCEPT !.phase = "done",
                    !.count = IF calls[c].cancelled THEN 0 ELSE 1])
    /\ UNCHANGED <<files, output, publication, tokens>>

DurationAnswer(c) ==
    LET success == /\ calls[c].waiting /\ ~closed
                   /\ revision = calls[c].rev /\ ~calls[c].cancelled
                   /\ selected = calls[c].token
    IN
    /\ calls[c].kind = "durations" /\ calls[c].phase = "done"
    /\ Returns(c, success)
    /\ durations' = IF success /\ calls[c].count = 1
                    THEN durations \cup {calls[c].item} ELSE durations
    /\ UNCHANGED <<files, output, revision, rootEpoch, selected,
                   current, archivedUsage, closed, tokens>>

-----------------------------------------------------------------------------
(* Mutations: mutate, admit_export, and the completion guard.              *)

\* The selection a mutation must find in the accepted snapshot.
MutationSelection(op, item) ==
    CASE op \in {"save", "unsave", "deleteGame"} -> item \in Games
      [] op = "deleteClip"                       -> item \in Clips
      [] op = "retention"                        -> TRUE

MutateAdmit(c, op, item) ==
    /\ Idle(c, "mutate") /\ CanAcquire("mutate") /\ revision < MaxRevision
    /\ MutationSelection(op, item)
    /\ CapturesSelection(selected, IF op = "retention" THEN "library"
                                   ELSE item)
    /\ Become(c, Captured("mutate", "admitted", op, item))
    /\ UNCHANGED <<files, output, publication, tokens>>

\* LibraryMutation::acquire, or a busy lease or replaced root: an error.
MutateLease(c) ==
    /\ calls[c].kind = "mutate" /\ calls[c].phase = "admitted"
    /\ \/ LeaseFree(calls[c].root) /\ Step(c, "leased")
       \/ Step(c, "effected")
    /\ UNCHANGED <<files, output, publication, tokens>>

\* Mutant: removed recordings leave the listing instead of being absent.
Forgotten(before) ==
    {[i \in DOMAIN before \ gone |-> before[i]] :
        gone \in SUBSET {g \in Games : before[g] = "unsaved"}}

\* delete_old_recordings removes some of the unsaved recordings of one
\* collection: the old ones, up to the first failure.
Expired(before) ==
    {[i \in DOMAIN before |-> IF i \in gone THEN "absent" ELSE before[i]] :
        gone \in SUBSET {g \in Games : before[g] = "unsaved"}}

\* What a mutation may make of its root.
Effects(op, item, before) ==
    CASE op = "save" /\ before[item] # "absent" ->
                {[before EXCEPT ![item] = "saved"]}
      [] op = "unsave" /\ before[item] # "absent" ->
                {[before EXCEPT ![item] = "unsaved"]}
      [] op \in {"deleteGame", "deleteClip"} /\ before[item] = "unsaved" ->
                {[before EXCEPT ![item] = "absent"]}
      [] op = "retention" -> Expired(before)
      [] OTHER -> {}

\* The owned effect, then the lease is dropped; any step may fail instead.
\* Retention also reaches the unmatched collection.
MutateEffect(c) ==
    LET root == calls[c].root IN
    /\ calls[c].phase = "leased"
    /\ Step(c, "effected")
    /\ \/ /\ \E after \in Effects(calls[c].op, calls[c].item, disk[root]) :
                disk' = [disk EXCEPT ![root] = after]
          /\ \/ UNCHANGED archived
             \/ /\ calls[c].op = "retention"
                /\ \E kept \in Expired(archived[root]) :
                        archived' = [archived EXCEPT ![root] = kept]
       \/ UNCHANGED <<disk, archived>>
    /\ UNCHANGED <<moved, recorded, output, publication, tokens>>

ExportAdmit(c, game, clip) ==
    /\ Idle(c, "export") /\ CanAcquire("export") /\ revision < MaxRevision
    /\ CapturesSelection(selected, game)
    /\ Become(c, Captured("export", "admitted", IdleCall.op, clip))
    /\ UNCHANGED <<files, output, publication, tokens>>

\* The clip appears in the admitted root, or the export fails or was
\* cancelled by its disappearing caller.
ExportEffect(c) ==
    LET root == calls[c].root IN
    /\ calls[c].kind = "export" /\ calls[c].phase = "admitted"
    /\ Step(c, "effected")
    /\ \/ /\ ~calls[c].cancelled /\ disk[root][calls[c].item] = "absent"
          /\ disk' = [disk EXCEPT ![root][calls[c].item] = "unsaved"]
       \/ UNCHANGED disk
    /\ UNCHANGED <<archived, moved, recorded, output, publication, tokens>>

ExportIsCurrent(c) ==
    /\ ~closed /\ rootEpoch = calls[c].epoch
    /\ selected = calls[c].token

Completed(c, success) == Update(c, Ended(c, success))

\* Mutant: only a completion under the admitting selection invalidates.
MutationCompleteIfCurrent(c) ==
    LET ended == Completed(c, calls[c].kind = "export" => ExportIsCurrent(c))
    IN
    /\ calls[c].phase = "effected"
    /\ IF output = calls[c].root /\ ExportIsCurrent(c)
       THEN InvalidateWith(ended, NoCall)
       ELSE /\ calls' = ended
            /\ UNCHANGED <<revision, selected, activeCancel,
                           durationCancel, durations>>
    /\ UNCHANGED <<files, output, rootEpoch, current, archivedUsage, closed,
                   tokens>>

\* MutationCompletion::drop: invalidate a still matching root, then release
\* the permit.  An export's answer was judged just before, in selection_is_
\* current; the caller of a mutation only sees its own result.
MutationComplete(c) ==
    LET ended == Completed(c, calls[c].kind = "export" => ExportIsCurrent(c))
    IN
    /\ calls[c].phase = "effected"
    /\ IF output = calls[c].root
       THEN InvalidateWith(ended, NoCall)
       ELSE /\ calls' = ended
            /\ UNCHANGED <<revision, selected, activeCancel,
                           durationCancel, durations>>
    /\ UNCHANGED <<files, output, rootEpoch, current, archivedUsage, closed,
                   tokens>>

-----------------------------------------------------------------------------
(* Root publication, shutdown, and callers that go away.                   *)

\* Mutant: the new root is published without an invalidation.
PublishRootQuietly(root, cs) ==
    /\ output' = root
    /\ rootEpoch' = rootEpoch + 1
    /\ calls' = cs
    /\ archivedUsage' = IF root # output THEN 0 ELSE archivedUsage
    /\ current' = IF current.token # 0 /\ current.root # root
                  THEN [current EXCEPT !.token = 0] ELSE current
    /\ UNCHANGED <<files, closed, tokens, revision, selected, durations,
                   activeCancel, durationCancel>>

PublishRoot(root, cs) ==
    /\ output' = root
    /\ rootEpoch' = rootEpoch + 1
    /\ InvalidateWith(cs, NoCall)
    /\ archivedUsage' = IF root # output THEN 0 ELSE archivedUsage
    /\ current' = IF current.token # 0 /\ current.root # root
                  THEN [current EXCEPT !.token = 0] ELSE current
    /\ UNCHANGED <<files, closed, tokens>>

SettingsAdmit(c) ==
    /\ Idle(c, "settings") /\ CanAcquire("settings")
    /\ revision < MaxRevision
    /\ CapturesSelection(selected, "library")
    /\ Become(c, CapturedRead("settings", "admitted"))
    /\ UNCHANGED <<files, output, publication, tokens>>

\* persist_settings_and_publish, inside the worker that owns the slot.
SettingsPublish(c) ==
    /\ calls[c].kind = "settings" /\ calls[c].phase = "admitted"
    /\ \E root \in Roots :
        PublishRoot(root, Completed(c, TRUE))

SettingsFail(c) ==
    /\ calls[c].kind = "settings" /\ calls[c].phase = "admitted"
    /\ Returns(c, FALSE)
    /\ UNCHANGED <<files, output, revision, rootEpoch, selected,
                   current, archivedUsage, durations, closed, tokens>>

\* reconcile_config_root: a login-startup or capability update that merged a
\* changed output path publishes it without the mutation slot.
ReconcileRoot(root) ==
    /\ root # output /\ revision < MaxRevision
    /\ PublishRoot(root, calls)

Shutdown ==
    /\ ~closed
    /\ closed' = TRUE
    /\ InvalidateWith(calls, NoCall)
    /\ UNCHANGED <<files, output, rootEpoch, current,
                   archivedUsage, tokens>>

\* Dropping an async caller raises its flag and nothing else.
CallerDrop(c) ==
    /\ calls[c].phase \notin {"idle", "captured"} /\ calls[c].waiting
    /\ Become(c, [calls[c] EXCEPT !.waiting = FALSE, !.cancelled = TRUE])
    /\ UNCHANGED <<files, output, publication, tokens>>

\* The recorder publishes a finished recording into some root.
RecorderPublishes(root, game) ==
    /\ game \notin recorded
    /\ recorded' = recorded \cup {game}
    /\ disk' = [disk EXCEPT ![root][game] = "unsaved"]
    /\ UNCHANGED <<archived, moved, output, publication, tokens, calls>>

-----------------------------------------------------------------------------
Init ==
    /\ disk \in [Roots -> {v \in Views : \A c \in Clips : v[c] # "saved"}]
    /\ archived = [r \in Roots |-> [g \in Games |-> "absent"]]
    /\ moved = [r \in Roots |-> 0]
    /\ recorded = {g \in Games : \E r \in Roots : disk[r][g] # "absent"}
    /\ output \in Roots
    /\ revision = 0 /\ rootEpoch = 0 /\ selected = 0 /\ archivedUsage = 0
    /\ current = [root |-> output, token |-> 0, view |-> NoView]
    /\ activeCancel = NoCall /\ durationCancel = NoCall
    /\ durations = {} /\ closed = FALSE /\ tokens = 0
    /\ calls = [c \in Calls |-> IdleCall]

Worker(c) ==
    \/ RefreshScan(c) \/ RefreshArchiveBegin(c) \/ RefreshArchiveCheck(c)
    \/ RefreshArchiveMove(c) \/ RefreshArchiveEnd(c) \/ RefreshFinish(c)
    \/ IndexBuild(c) \/ IndexRecheck(c) \/ PlainRead(c) \/ DurationProbe(c)
    \/ MutateLease(c) \/ MutateEffect(c) \/ ExportEffect(c)
    \/ MutationComplete(c) \/ SettingsPublish(c) \/ SettingsFail(c)

Caller(c) ==
    \/ IndexLoad(c) \/ IndexLoadSuperseded(c) \/ DurationRegister(c)
    \/ RefreshPublish(c) \/ RefreshReject(c) \/ ReadAnswer(c)
    \/ DurationAnswer(c)

Admission(c) ==
    \/ RefreshAdmit(c)
    \/ \E kind \in Readers, selection \in Games \cup {"library"} :
            ReadAdmit(c, kind, selection)
    \/ \E clip \in Clips : DurationAdmit(c, clip)
    \/ \E op \in MutationOps, item \in Items : MutateAdmit(c, op, item)
    \/ \E game \in Games, clip \in Clips : ExportAdmit(c, game, clip)
    \/ SettingsAdmit(c)

Environment ==
    \/ \E root \in Roots : ReconcileRoot(root)
    \/ \E root \in Roots, game \in Games : RecorderPublishes(root, game)
    \/ Shutdown

Next ==
    \/ \E c \in Calls : Worker(c) \/ Caller(c) \/ Admission(c)
                        \/ CallerDrop(c)
    \/ Environment

Spec == Init /\ [][Next]_vars

\* Blocking workers run to their end on their own threads, and an awaiting
\* task is polled once its worker finished: both are weakly fair.
Fairness == \A c \in Calls : WF_vars(Worker(c)) /\ WF_vars(Caller(c))

FairSpec == Spec /\ Fairness

-----------------------------------------------------------------------------
(* Properties.                                                             *)

\* Every variable has its type.
TypeOK ==
    /\ disk \in [Roots -> Views]
    /\ archived \in [Roots -> [Games -> ItemState]]
    /\ moved \in [Roots -> Nat]
    /\ recorded \subseteq Games
    /\ output \in Roots
    /\ revision \in Nat /\ rootEpoch \in Nat /\ selected \in Nat
    /\ current \in [root : Roots, token : Nat, view : Views]
    /\ archivedUsage \in Nat
    /\ activeCancel \in Calls \cup {NoCall}
    /\ durationCancel \in Calls \cup {NoCall}
    /\ durations \subseteq Items
    /\ closed \in BOOLEAN
    /\ tokens \in Nat
    /\ calls \in [Calls -> Call]

\* A selected token is the token of the published snapshot of the root the
\* app serves, and nothing is selected after shutdown: no command can be
\* admitted against a snapshot of another root.
SelectionIsPublished ==
    selected # 0 => /\ ~closed
                    /\ current.token = selected
                    /\ current.root = output

\* A mutation or export whose files changed but which did not complete yet.
EffectPending(root) ==
    \E c \in Calls : calls[c].phase = "effected" /\ calls[c].root = root

\* What a selected snapshot lists is what the root holds, unless an effect
\* is about to revoke it: no scan that overlapped a mutation, an export, an
\* archive move or a change of root (also A/B/A) is ever published.
FreshSelection ==
    selected # 0 /\ ~EffectPending(output) =>
        /\ \A i \in Clips : current.view[i] = disk[output][i]
        /\ \A g \in Games : current.view[g] # "absent" =>
                                current.view[g] = disk[output][g]

\* While a refresh worker scans or moves recordings, nothing is selected: no
\* destructive command is admitted against a library being archived.
ScanningRevokesSelection ==
    selected # 0 =>
        \A c \in Calls : calls[c].kind = "refresh" =>
            calls[c].phase \in {"idle"} \cup WorkerEnded

\* Nothing is selected that is not fresh.
SelectionIsFresh == FreshSelection /\ ScanningRevokesSelection

\* A refresh or duration worker that an invalidation overtook has seen its
\* cancellation flag raised: invalidate() never misses a registered worker.
StaleWorkersAreCancelled ==
    \A c \in Calls :
        /\ calls[c].kind \in {"refresh", "durations"}
        /\ calls[c].phase \notin {"idle", "captured"}
        /\ calls[c].rev # revision
        => calls[c].cancelled

\* Cached durations describe clips of the selected snapshot only.
DurationsBelongToSelection ==
    durations # {} =>
        /\ selected # 0
        /\ \A clip \in durations : current.view[clip] # "absent"

\* The archive subtotal never counts a recording the selected root's archive
\* did not receive: a superseded scan or a scan of another root adds nothing.
UsageNeverOvercounts == archivedUsage <= moved[output]

\* Workers, caches and the subtotal that answer reads belong to the selection.
ReadersAreCurrent ==
    StaleWorkersAreCancelled /\ DurationsBelongToSelection /\ UsageNeverOvercounts

\* A read is answered successfully only if no refresh, mutation, change of
\* root or shutdown happened between its admission and its answer.
ReadWithinOneRevision ==
    [][\A c \in Calls :
        calls[c].kind \in Readers \cup {"durations"} /\ calls'[c].ok
            /\ calls[c].phase # "idle" => calls[c].rev = revision]_vars

\* Doc, media-library.md: the subtotal for the current library adds the sizes
\* of successful archival moves.  Whenever a refresh of the current library
\* ends, what it moved is in the subtotal.
ArchivalMovesAreAdded ==
    [][\A c \in Calls :
        /\ calls[c].kind = "refresh" /\ calls[c].phase # "idle"
        /\ calls'[c].phase = "idle"
        /\ calls[c].root = output /\ calls[c].epoch = rootEpoch
        => archivedUsage' = archivedUsage + calls[c].count]_vars

\* Every admitted command ends: its waiting caller is answered and every
\* permit it held is free again.
EveryCallEnds ==
    \A c \in Calls : calls[c].phase # "idle" ~> calls[c].phase = "idle"

\* The refresh that may still be published; at most one is live.
Live(c) ==
    /\ calls[c].kind = "refresh" /\ calls[c].phase # "idle"
    /\ ~closed /\ ~calls[c].cancelled
    /\ calls[c].rev = revision /\ calls[c].root = output

\* The selection seen as an authority that is granted, revoked and closed.
Authority == INSTANCE LibraryAuthority WITH
    Tokens <- 1 .. MaxTokens,
    selection <- selected,
    spent <- 1 .. tokens \ {calls[c].token : c \in {d \in Calls : Live(d)}},
    closed <- closed

AuthoritySpec == Authority!Spec

=============================================================================
