---------------------------- MODULE LibraryMutation ----------------------------
(***************************************************************************)
(* What the app does to the files of a library: save, delete, retention,   *)
(* the removal of a clip and the archival of a recording without a match   *)
(* (library_mutation.rs, directory_guard.rs and their callers in           *)
(* library.rs).  A mutation holds a lease file that the processes share,   *)
(* and handles that pin the names on the way to what it changes.           *)
(*                                                                         *)
(* There is one recording and one clip, in the library that was selected   *)
(* and in another one to which its name may be pointed.  Others do not     *)
(* take part in the lease: the user moves, replaces and adds files, media  *)
(* are open in some program, and the recorder adds a match.                *)
(***************************************************************************)
EXTENDS Naturals

CONSTANTS
    Processes,    \* app processes
    Operations,   \* what they do, a subset of AllOperations
    MaxEvents     \* bound: what others do to the files, and crashes

AllOperations == {"save", "unsave", "delete", "retention", "archive", "clip"}

MutationAssumption ==
    /\ Processes # {} /\ Operations \subseteq AllOperations /\ MaxEvents \in Nat

VARIABLES
    alias,       \* the library that the selected name leads to
    recording,   \* [library -> where its recording is, its files, which one it is]
    clip,        \* [library -> the files of its clip]
    taken,       \* the archive has something else under the recording's name
    reader,      \* how another program has the video open: "shares" or "denies" its removal
    aged,        \* the recording is older than the setting allows
    lease,       \* the process that has the mutation lease, or "nobody"
    work,        \* [Processes -> the operation of each]
    broken,      \* history: a removal that had begun was stopped
    events

vars == <<alias, recording, clip, taken, reader, aged, lease, work, broken, events>>

CoreFiles == {"metadata", "video"}
NoWork == [op |-> "clip", at |-> "idle", seen |-> 0, left |-> {}]
At(p, here) == work[p].at = here
Go(p, there) == work' = [work EXCEPT ![p].at = there]

\* Mutant: the work follows the name of the library.
Redirected(p) == alias

\* The guarded canonical path.
Library(p) == "selected"

Own == recording["selected"]
Target(p) == recording[Library(p)]

\* The handles of a mutation are dropped after its lease, so nobody else's are in between.
Done(p) ==
    /\ work' = [work EXCEPT ![p] = NoWork]
    /\ lease' = IF lease = p THEN "nobody" ELSE lease

\* Handles without delete sharing: what they are open on keeps its name.
\* Mutant: the handles share deletion.
HoldsNothing(p) == FALSE

Holds(p) == work[p].at \in {"judge", "write", "replace", "preflight", "mark", "move"}

Recorded(saved, match, id) ==
    [at |-> "games", files |-> CoreFiles \cup match, saved |-> saved, id |-> id]
Untouched == [l \in {"selected", "other"} |-> Recorded(FALSE, {}, 1)]

Init ==
    /\ alias = "selected"
    /\ \E saved \in BOOLEAN, match \in {{}, {"match"}} :
          recording = [Untouched EXCEPT !["selected"] = Recorded(saved, match, 1)]
    /\ clip = [l \in {"selected", "other"} |-> {"video", "thumbnail"}]
    /\ taken = FALSE /\ reader = "none" /\ aged = FALSE
    /\ lease = "nobody" /\ work = [p \in Processes |-> NoWork]
    /\ broken = FALSE /\ events = 0

------------------------------------------------------------------------------
(* Others. *)

Event == events < MaxEvents /\ events' = events + 1
Pinned == \E p \in Processes : Holds(p)
Preflighted == \E p \in Processes : At(p, "mark")
filesAlone == <<clip, taken, reader, lease, work, broken>>

\* The user takes the recording away, or has another one under its name.
TakeAway ==
    /\ Event /\ Own.at # "gone" /\ ~Pinned /\ reader = "none"
    /\ recording' = [recording EXCEPT !["selected"].at = "gone"]
    /\ UNCHANGED <<alias, aged, filesAlone>>
PutBack ==
    /\ Event /\ Own.at = "gone" /\ Own.id = 1
    /\ \E saved \in BOOLEAN :
          recording' = [recording EXCEPT !["selected"] = Recorded(saved, {}, 2)]
    /\ aged' = FALSE
    /\ UNCHANGED <<alias, filesAlone>>

Retarget ==
    /\ Event /\ alias' \in {"selected", "other"} \ {alias}
    /\ UNCHANGED <<recording, aged, filesAlone>>
Occupy ==
    /\ Event /\ Own.at # "archive" /\ ~taken /\ taken' = TRUE
    /\ UNCHANGED <<alias, recording, clip, reader, aged, lease, work, broken>>

\* The recorder adds what it learns of the match, also while the app is at work.
RecorderAdds ==
    /\ Event /\ Own.at = "games" /\ "match" \notin Own.files
    /\ recording' = [recording EXCEPT !["selected"].files = @ \cup {"match"}]
    /\ UNCHANGED <<alias, aged, filesAlone>>

\* A player, or a program that lets nobody remove what it reads.
OpenVideo ==
    /\ reader = "none" /\ Own.at # "gone" /\ "video" \in Own.files
    /\ reader' \in {"shares", "denies"} /\ (reader' = "denies" => ~Preflighted)
    /\ UNCHANGED <<alias, recording, clip, taken, aged, lease, work, broken, events>>

\* With it goes the name of a video that was removed meanwhile.
CloseVideo ==
    /\ reader # "none" /\ reader' = "none"
    /\ recording' = [recording EXCEPT !["selected"].files = @ \ {"removed video"}]
    /\ UNCHANGED <<alias, clip, taken, aged, lease, work, broken, events>>

TimePasses ==
    /\ ~aged /\ aged' = TRUE
    /\ UNCHANGED <<alias, recording, clip, taken, reader, lease, work, broken, events>>

------------------------------------------------------------------------------
(* A mutation. *)

others == <<alias, taken, reader, aged, events>>

\* An archival knows what its refresh has listed: a whole recording without a match.
Begin(p) ==
    /\ At(p, "idle")
    /\ \E op \in Operations :
          /\ op = "archive" => Own.at = "games" /\ CoreFiles \subseteq Own.files /\ "match" \notin Own.files
          /\ work' = [work EXCEPT ![p] =
                        [op |-> op, at |-> "acquire", seen |-> Own.id, left |-> {}]]
    /\ UNCHANGED <<recording, clip, lease, broken, others>>

\* Mutant: the lock is not taken.
AcquireAnyway(p) ==
    /\ At(p, "acquire") /\ alias = "selected" /\ Go(p, "open")
    /\ UNCHANGED <<recording, clip, lease, broken, others>>

\* LibraryMutation::acquire: the name still leads to the library that was selected,
\* and nobody else has the lease.
Acquire(p) ==
    /\ At(p, "acquire") /\ alias = "selected" /\ lease = "nobody"
    /\ lease' = p /\ Go(p, "open")
    /\ UNCHANGED <<recording, clip, broken, others>>

\* Any call fails, also because a file is not there or is not what it has to be.
GiveUp(p) ==
    /\ ~At(p, "idle") /\ ~At(p, "mark")
    /\ Done(p)
    /\ recording' = IF At(p, "replace")
                    THEN [recording EXCEPT ![Library(p)].files = @ \ {"temporary"}] ELSE recording
    /\ UNCHANGED <<clip, broken, others>>

OpenRecording(p) ==
    /\ At(p, "open") /\ work[p].op # "clip"
    /\ Target(p).at \in (IF work[p].op = "retention" THEN {"games", "archive"} ELSE {"games"})
    /\ work' = [work EXCEPT ![p].at = "judge",
                            ![p].seen = IF work[p].op = "archive" THEN @ ELSE Target(p).id]
    /\ UNCHANGED <<recording, clip, lease, broken, others>>

\* Mutant: what the caller has listed decides that a recording is not saved.
MayAsListed(p) ==
    /\ "metadata" \in Target(p).files
    /\ work[p].op = "retention" => "video" \in Target(p).files /\ aged
    /\ work[p].op = "archive" => /\ Target(p).id = work[p].seen /\ "video" \in Target(p).files
                                 /\ "match" \notin Target(p).files

\* What the files say, under the lease and the handle of the recording.
May(p) ==
    /\ "metadata" \in Target(p).files
    /\ work[p].op \in {"delete", "retention"} => ~Target(p).saved
    /\ work[p].op = "retention" => "video" \in Target(p).files /\ aged
    /\ work[p].op = "archive" => /\ Target(p).id = work[p].seen /\ "video" \in Target(p).files
                                 /\ "match" \notin Target(p).files

Judge(p) ==
    /\ At(p, "judge") /\ May(p)
    /\ Go(p, CASE work[p].op \in {"save", "unsave"} -> "write"
               [] work[p].op = "archive" -> "move"
               [] OTHER -> "preflight")
    /\ UNCHANGED <<recording, clip, lease, broken, others>>

\* Mutant: the metadata are written where they are.
WriteInPlace(p) ==
    /\ At(p, "write") /\ Go(p, "replace")
    /\ recording' = [recording EXCEPT ![Library(p)].files = @ \ {"metadata"}]
    /\ UNCHANGED <<clip, lease, broken, others>>

\* config::write_atomic, in two steps.
WriteTemporary(p) ==
    /\ At(p, "write") /\ Go(p, "replace")
    /\ recording' = [recording EXCEPT ![Library(p)].files = @ \cup {"temporary"}]
    /\ UNCHANGED <<clip, lease, broken, others>>
ReplaceMetadata(p) ==
    /\ At(p, "replace") /\ Done(p)
    /\ recording' = [recording EXCEPT ![Library(p)].saved = work[p].op = "save",
                                      ![Library(p)].files = (@ \ {"temporary"}) \cup {"metadata"}]
    /\ UNCHANGED <<clip, broken, others>>

\* Mutant: every file is removed as it is found, up to one that is refused.
RemoveAsFound(p) ==
    /\ At(p, "preflight")
    /\ IF reader = "denies"
       THEN /\ recording' = [recording EXCEPT ![Library(p)].files = @ \ {"metadata"}] /\ Done(p)
       ELSE /\ work' = [work EXCEPT ![p].at = "mark", ![p].left = Target(p).files]
            /\ UNCHANGED <<recording, lease>>
    /\ UNCHANGED <<clip, broken, others>>

\* RemovalTarget::preflight: the whole tree is opened for removal before any of it goes.
Preflight(p) ==
    /\ At(p, "preflight") /\ reader # "denies"
    /\ work' = [work EXCEPT ![p].at = "mark", ![p].left = Target(p).files]
    /\ UNCHANGED <<recording, clip, lease, broken, others>>

\* remove_tree, in any order.  A video that somebody has open keeps its name until then.
Mark(p) ==
    /\ At(p, "mark")
    /\ \E f \in work[p].left :
          /\ f = "video" => reader # "denies"
          /\ work' = [work EXCEPT ![p].left = @ \ {f}]
          /\ recording' = [recording EXCEPT ![Library(p)].files =
                (@ \ {f}) \cup (IF f = "video" /\ reader = "shares" THEN {"removed video"} ELSE {})]
    /\ UNCHANGED <<clip, lease, broken, others>>
RemoveDirectory(p) ==
    /\ At(p, "mark") /\ work[p].left = {} /\ Target(p).files = {}
    /\ recording' = [recording EXCEPT ![Library(p)].at = "gone"]
    /\ Done(p)
    /\ UNCHANGED <<clip, broken, others>>

\* A removal is refused: by a file that came after the preflight, or by the system.
MarkFails(p) ==
    /\ At(p, "mark")
    /\ IF work[p].left = {} /\ Target(p).files # {} THEN UNCHANGED events ELSE Event
    /\ Done(p) /\ broken' = TRUE
    /\ UNCHANGED <<recording, clip, alias, taken, reader, aged>>

\* Mutant: the move replaces what has the name.
NameIsFreeAlways == TRUE

NameIsFree == ~taken

\* move_directory_into; no file of a directory that moves may be open.
Move(p) ==
    /\ At(p, "move") /\ NameIsFree /\ reader = "none"
    /\ recording' = [recording EXCEPT ![Library(p)].at = "archive"]
    /\ Done(p)
    /\ UNCHANGED <<clip, broken, others>>

\* Mutant: the thumbnail of a clip goes first.
ClipPartFirst(p) == IF "thumbnail" \in clip[Library(p)] THEN "thumbnail" ELSE "video"

\* delete_clip: the video must be there, the thumbnail need not.
ClipPart(p) == IF At(p, "open") THEN "video" ELSE "thumbnail"

RemoveFromClip(p) ==
    /\ work[p].op = "clip" /\ work[p].at \in {"open", "thumbnail"}
    /\ ClipPart(p) \in clip[Library(p)]
    /\ clip' = [clip EXCEPT ![Library(p)] = @ \ {ClipPart(p)}]
    /\ IF At(p, "open") THEN Go(p, "thumbnail") /\ UNCHANGED lease ELSE Done(p)
    /\ UNCHANGED <<recording, broken, others>>

\* The system frees the lease and the handles of a process that dies.
Crash(p) ==
    /\ Event /\ ~At(p, "idle") /\ Done(p)
    /\ broken' = (broken \/ At(p, "mark"))
    /\ UNCHANGED <<alias, recording, clip, taken, reader, aged>>

Mutate(p) ==
    \/ Begin(p) \/ Acquire(p) \/ GiveUp(p) \/ OpenRecording(p) \/ Judge(p)
    \/ WriteTemporary(p) \/ ReplaceMetadata(p)
    \/ Preflight(p) \/ Mark(p) \/ RemoveDirectory(p) \/ MarkFails(p)
    \/ Move(p) \/ RemoveFromClip(p) \/ Crash(p)

Next ==
    \/ TakeAway \/ PutBack \/ Retarget \/ Occupy \/ RecorderAdds
    \/ OpenVideo \/ CloseVideo \/ TimePasses
    \/ \E p \in Processes : Mutate(p)

Spec == Init /\ [][Next]_vars
------------------------------------------------------------------------------
\* While files are removed, and when a recording is moved, it is the one that was
\* judged, and it is not one that the user has saved meanwhile, in any process.
RemovalIsAuthorized ==
    \A p \in Processes :
       /\ work[p].at \in {"mark", "move"} => Own.id = work[p].seen
       /\ At(p, "mark") => ~Own.saved /\ (work[p].op = "retention" => aged)

\* A recording loses its media only to a removal that began after every file of it
\* was found removable: a refused deletion, and a save that dies, leave it whole.
MediaAreKept ==
    Own.at = "gone" \/ CoreFiles \subseteq Own.files \/ broken \/ Preflighted

\* Nothing is changed in a library to which the name was pointed meanwhile, nothing
\* in the archive is replaced, and a clip keeps its thumbnail as long as its video.
OthersAreKept ==
    /\ recording["other"] = Untouched["other"]
    /\ clip["other"] = {"video", "thumbnail"}
    /\ ~(taken /\ Own.at = "archive")
    /\ "video" \in clip["selected"] => "thumbnail" \in clip["selected"]

MutationIsSound == RemovalIsAuthorized /\ MediaAreKept /\ OthersAreKept
=============================================================================
