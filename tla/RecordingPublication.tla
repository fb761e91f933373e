------------------------ MODULE RecordingPublication ------------------------
(***************************************************************************)
(* How one recording becomes visible (recorder/src/finalizer.rs,           *)
(* finalizer/publication.rs and the reconciliation of one bundle in        *)
(* finalizer/recovery.rs, Windows build).  The service validates the       *)
(* closed private media, stages metadata.pending.json and renames both     *)
(* files into place; after an interruption an orderly exit finishes the    *)
(* publication from the evidence left in the bundle, or leaves it alone.   *)
(*                                                                         *)
(* A media file stands for its generation: the file identity, length and   *)
(* last write time that a receipt records.  A metadata document is the     *)
(* receipt's generation and the staged timeline; a torn, oversized or      *)
(* foreign document is Torn.  The ancestors of the bundle are pinned       *)
(* throughout, so its directory stays the same.                            *)
(***************************************************************************)
EXTENDS Naturals

CONSTANTS
    Media,       \* generations of media files
    Timelines,   \* timelines of valid media
    Timeline,    \* what the probe observes of each generation
    Invalid,     \* ... for media that fail validation
    Nothing,     \* no file
    Torn,        \* a file that is no metadata document of ours
    MaxForeign,  \* bound on changes that others make in the bundle
    MaxFaults    \* bound on crashes, I/O errors and games

Documents == [media : Media, timeline : Timelines]

ASSUME PublicationAssumption ==
    /\ Invalid \notin Timelines
    /\ Timeline \in [Media -> Timelines \cup {Invalid}]
    /\ Nothing \notin Media /\ Torn \notin Media /\ Nothing # Torn
    /\ Nothing \notin Documents /\ Torn \notin Documents
    /\ Media \cap Documents = {}
    /\ MaxForeign \in Nat /\ MaxFaults \in Nat

VARIABLES
    bundle,   \* [Leaves -> file]: the recording's directory
    held,     \* the leaves that the recorder has open: others may neither
              \* write nor rename nor delete them
    phase,    \* how far the recorder is
    proof,    \* the receipt and timeline that it works from
    source,   \* recovery's media leaf
    league,   \* a League process is present
    foreign,  \* changes made by others
    faults

vars == <<bundle, held, phase, proof, source, league, foreign, faults>>
outside == <<league, foreign, faults>>

MediaLeaves == {"partial", "video"}
DocumentLeaves == {"pending", "metadata"}
Leaves == MediaLeaves \cup DocumentLeaves

NoProof == [media |-> Nothing, timeline |-> Invalid]

Publishing == {"captured", "probing", "validated", "checked", "opened",
               "staging", "staged", "promoted", "rollback"}
Recovering == {"inspect", "parse", "verify", "ready", "reprobe", "reopen",
               "reread", "recheck", "move", "commit"}
Phases == Publishing \cup Recovering \cup {"idle", "down"}

Holds(leaf) == bundle[leaf] # Nothing

\* The publication, or the recovery, ends and its handles are closed.
Leave(next) ==
    /\ phase' = next
    /\ held' = {}
    /\ proof' = NoProof
    /\ source' = "partial"

Abandon(next) == Leave(next) /\ UNCHANGED bundle

Continue(next, open) ==
    /\ phase' = next
    /\ held' = open

\* Mutant: the rename replaces a file of that name.
MayRenameReplacing(to) == TRUE

\* No-replace renames refuse a name that is taken.
MayRename(to) == ~Holds(to)

\* DirectoryPins::rename: an open handle keeps its file across the rename.
Renamed(from, to) ==
    bundle' = [bundle EXCEPT ![to] = bundle[from], ![from] = Nothing]

-----------------------------------------------------------------------------
(* Validation and publication by the recording's own session.              *)

\* validate_candidate up to the probe: the receipt is captured first.
Validate ==
    /\ phase = "captured"
    /\ \/ /\ Holds("partial")
          /\ Continue("probing", {"partial"})
          /\ proof' = [media |-> bundle["partial"], timeline |-> Invalid]
          /\ UNCHANGED <<bundle, source>>
       \/ ~Holds("partial") /\ Abandon("idle")
    /\ UNCHANGED outside

\* The probe's answer; the handle is closed whatever it is.
Probed ==
    /\ phase = "probing"
    /\ \/ /\ Timeline[proof.media] # Invalid
          /\ Continue("validated", {})
          /\ proof' = [proof EXCEPT !.timeline = Timeline[proof.media]]
          /\ UNCHANGED <<bundle, source>>
       \/ Timeline[proof.media] = Invalid /\ Abandon("idle")
    /\ UNCHANGED outside

\* publish_windows refuses a bundle that holds any published name.
CheckTargets ==
    /\ phase = "validated"
    /\ \/ /\ \A l \in {"video", "metadata", "pending"} : ~Holds(l)
          /\ Continue("checked", {})
          /\ UNCHANGED <<bundle, proof, source>>
       \/ /\ \E l \in {"video", "metadata", "pending"} : Holds(l)
          /\ Abandon("idle")
    /\ UNCHANGED outside

\* Mutant: the reopened media is not compared with the receipt.
VerifiesAny(leaf) == Holds(leaf)

\* Receipt::verify on the opened media.
Verifies(leaf) == bundle[leaf] = proof.media

\* The media is opened for its rename and compared with the receipt.
OpenMedia ==
    /\ phase = "checked"
    /\ \/ /\ Holds("partial") /\ Verifies("partial")
          /\ Continue("opened", {"partial"})
          /\ UNCHANGED <<bundle, proof, source>>
       \/ ~(Holds("partial") /\ Verifies("partial")) /\ Abandon("idle")
    /\ UNCHANGED outside

\* Mutant: the pending file is neither written out nor flushed in time.
CreatePendingUnflushed ==
    /\ phase = "opened" /\ ~Holds("pending")
    /\ bundle' = [bundle EXCEPT !["pending"] = Torn]
    /\ Continue("staged", {"partial", "pending"})
    /\ UNCHANGED <<proof, source, league, foreign, faults>>

\* create_pending, first half: the new file is still empty.
CreatePending ==
    /\ phase = "opened"
    /\ \/ /\ ~Holds("pending")
          /\ bundle' = [bundle EXCEPT !["pending"] = Torn]
          /\ Continue("staging", {"partial", "pending"})
          /\ UNCHANGED <<proof, source>>
       \/ Holds("pending") /\ Abandon("idle")
    /\ UNCHANGED outside

\* Mutant: the staged document lacks the receipt.
DocumentOnly == [timeline |-> proof.timeline]

\* The metadata with the receipt inserted.
Document == [media |-> proof.media, timeline |-> proof.timeline]

\* create_pending, second half: written and flushed.
WritePending ==
    /\ phase = "staging"
    /\ bundle' = [bundle EXCEPT !["pending"] = Document]
    /\ Continue("staged", held)
    /\ UNCHANGED <<proof, source, league, foreign, faults>>

\* The media takes its canonical name first.
PromoteMedia ==
    /\ phase = "staged"
    /\ \/ /\ MayRename("video")
          /\ Renamed("partial", "video")
          /\ Continue("promoted", {"video", "pending"})
          /\ UNCHANGED <<proof, source>>
       \/ ~MayRename("video") /\ Abandon("idle")
    /\ UNCHANGED outside

\* The rename of the metadata makes the recording visible.
PromoteMetadata ==
    /\ phase = "promoted"
    /\ \/ /\ MayRename("metadata")
          /\ Renamed("pending", "metadata")
          /\ Leave("idle")
       \/ /\ ~MayRename("metadata")
          /\ Continue("rollback", held)
          /\ UNCHANGED <<bundle, proof, source>>
    /\ UNCHANGED outside

\* A failed metadata rename returns the video to its private name, if it can.
Rollback ==
    /\ phase = "rollback"
    /\ \/ MayRename("partial") /\ Renamed("video", "partial")
       \/ ~MayRename("partial") /\ UNCHANGED bundle
    /\ Leave("idle")
    /\ UNCHANGED outside

-----------------------------------------------------------------------------
(* Reconciliation at an orderly exit.                                      *)

\* The service has joined its owners: run refuses to start beside a game.
Shutdown ==
    /\ phase = "idle"
    /\ \/ ~league /\ Continue("inspect", {}) /\ UNCHANGED <<bundle, proof, source>>
       \/ league /\ Abandon("down")
    /\ UNCHANGED outside

\* Names that ask for recovery: staged metadata and one media name.
Interrupted ==
    /\ ~Holds("metadata") /\ Holds("pending")
    /\ Holds("partial") # Holds("video")

\* Mutant: only private media is looked for.
PrivateLeaf == "partial"

\* The one media name of an interrupted publication.
MediaLeaf == IF Holds("partial") THEN "partial" ELSE "video"

\* inspect_when_idle: the existence checks (the order of its reads does not
\* matter: whatever they miss, a later step refuses).
Inspect ==
    /\ phase = "inspect"
    /\ \/ /\ ~league /\ Interrupted
          /\ source' = MediaLeaf
          /\ Continue("parse", {})
          /\ UNCHANGED <<bundle, proof>>
       \/ ~(~league /\ Interrupted) /\ Abandon("down")
    /\ UNCHANGED outside

\* The pending metadata is pinned and must be a document of ours.
ParsePending ==
    /\ phase = "parse"
    /\ \/ /\ bundle["pending"] \in Documents
          /\ proof' = bundle["pending"]
          /\ Continue("verify", {"pending"})
          /\ UNCHANGED <<bundle, source>>
       \/ bundle["pending"] \notin Documents /\ Abandon("down")
    /\ UNCHANGED outside

\* The media is pinned and must be the receipt's generation.
VerifyMedia ==
    /\ phase = "verify"
    /\ \/ /\ Holds(source) /\ Verifies(source)
          /\ Continue("ready", {source, "pending"})
          /\ UNCHANGED <<bundle, proof, source>>
       \/ ~(Holds(source) /\ Verifies(source)) /\ Abandon("down")
    /\ UNCHANGED outside

\* A game defers the probe.
AdmitProbe ==
    /\ phase = "ready"
    /\ \/ ~league /\ Continue("reprobe", held) /\ UNCHANGED <<bundle, proof, source>>
       \/ league /\ Abandon("down")
    /\ UNCHANGED outside

\* Mutant: any valid timeline will do.
ObservedAny == Timeline[proof.media] # Invalid

\* The probe succeeds and observes the staged timeline.
ObservedAsStaged == Timeline[proof.media] = proof.timeline

\* The probe is done; the read handles are closed before the reopening.
Reprobed ==
    /\ phase = "reprobe"
    /\ \/ /\ ObservedAsStaged
          /\ Continue("reopen", {})
          /\ UNCHANGED <<bundle, proof, source>>
       \/ ~ObservedAsStaged /\ Abandon("down")
    /\ UNCHANGED outside

\* The media is reopened for its rename and verified once more.
ReopenMedia ==
    /\ phase = "reopen"
    /\ \/ /\ Holds(source) /\ Verifies(source)
          /\ Continue("reread", {source})
          /\ UNCHANGED <<bundle, proof, source>>
       \/ ~(Holds(source) /\ Verifies(source)) /\ Abandon("down")
    /\ UNCHANGED outside

\* The pending metadata is reopened and must still be the same bytes.
RereadPending ==
    /\ phase = "reread"
    /\ \/ /\ bundle["pending"] = proof
          /\ Continue("recheck", {source, "pending"})
          /\ UNCHANGED <<bundle, proof, source>>
       \/ bundle["pending"] # proof /\ Abandon("down")
    /\ UNCHANGED outside

\* Neither canonical metadata nor a second media name has appeared.
Recheck ==
    /\ phase = "recheck"
    /\ LET clear == ~Holds("metadata") /\ (source = "video" => ~Holds("partial"))
       IN \/ /\ clear
             /\ Continue(IF source = "partial" THEN "move" ELSE "commit", held)
             /\ UNCHANGED <<bundle, proof, source>>
          \/ ~clear /\ Abandon("down")
    /\ UNCHANGED outside

\* Private media takes its canonical name.
MoveMedia ==
    /\ phase = "move"
    /\ \/ /\ MayRename("video")
          /\ Renamed("partial", "video")
          /\ Continue("commit", {"video", "pending"})
          /\ UNCHANGED <<proof, source>>
       \/ ~MayRename("video") /\ Abandon("down")
    /\ UNCHANGED outside

\* The metadata takes its canonical name; nothing is rolled back.
Commit ==
    /\ phase = "commit"
    /\ \/ MayRename("metadata") /\ Renamed("pending", "metadata")
       \/ ~MayRename("metadata") /\ UNCHANGED bundle
    /\ Leave("down")
    /\ UNCHANGED outside

-----------------------------------------------------------------------------
(* The environment.                                                        *)

\* The next recorder process.
Restart ==
    /\ phase = "down"
    /\ Abandon("idle")
    /\ UNCHANGED outside

\* The process dies: its handles are closed, its files stay.
Crash ==
    /\ phase # "down" /\ faults < MaxFaults
    /\ Abandon("down")
    /\ faults' = faults + 1
    /\ UNCHANGED <<league, foreign>>

\* A call fails: the step is given up, and a failed metadata rename is
\* rolled back.
CallFails ==
    /\ phase \in Publishing \cup Recovering /\ faults < MaxFaults
    /\ faults' = faults + 1
    /\ \/ phase = "promoted" /\ Continue("rollback", held)
          /\ UNCHANGED <<bundle, proof, source>>
       \/ phase \in Publishing \ {"promoted"} /\ Abandon("idle")
       \/ phase \in Recovering /\ Abandon("down")
    /\ UNCHANGED <<league, foreign>>

\* Somebody writes, replaces or removes a file that is not held open.
ForeignChange ==
    /\ foreign < MaxForeign
    /\ \/ \E l \in MediaLeaves \ held, f \in Media \cup {Nothing} :
              bundle[l] # f /\ bundle' = [bundle EXCEPT ![l] = f]
       \/ \E l \in DocumentLeaves \ held, f \in Documents \cup {Nothing, Torn} :
              bundle[l] # f /\ bundle' = [bundle EXCEPT ![l] = f]
    /\ foreign' = foreign + 1
    /\ UNCHANGED <<held, phase, proof, source, league, faults>>

\* League starts, and ends.
LeagueAppears ==
    /\ ~league /\ faults < MaxFaults
    /\ league' = TRUE
    /\ faults' = faults + 1
    /\ UNCHANGED <<bundle, held, phase, proof, source, foreign>>

LeagueEnds ==
    /\ league /\ league' = FALSE
    /\ UNCHANGED <<bundle, held, phase, proof, source, foreign, faults>>

-----------------------------------------------------------------------------
\* The capture of a game has closed its private media.
Init ==
    /\ \E m \in Media : bundle = [l \in Leaves |-> IF l = "partial" THEN m ELSE Nothing]
    /\ held = {} /\ phase = "captured"
    /\ proof = NoProof /\ source = "partial"
    /\ league = FALSE
    /\ foreign = 0 /\ faults = 0

Publisher ==
    \/ Validate \/ Probed \/ CheckTargets \/ OpenMedia \/ CreatePending
    \/ WritePending \/ PromoteMedia \/ PromoteMetadata \/ Rollback

Recovery ==
    \/ Shutdown \/ Inspect \/ ParsePending \/ VerifyMedia \/ AdmitProbe
    \/ Reprobed \/ ReopenMedia \/ RereadPending \/ Recheck \/ MoveMedia
    \/ Commit

Recorder == Publisher \/ Recovery \/ Restart
Faults == Crash \/ CallFails \/ ForeignChange \/ LeagueAppears

Next == Recorder \/ Faults \/ LeagueEnds

\* The recorder runs on, is started again and is sometimes shut down in good
\* order; a game ends.
Spec == Init /\ [][Next]_vars /\ WF_vars(Recorder) /\ WF_vars(LeagueEnds)

-----------------------------------------------------------------------------
\* The bundle holds what the code leaves there: media under media names and
\* documents under document names.
TypeOK ==
    /\ bundle \in [Leaves -> Media \cup Documents \cup {Nothing, Torn}]
    /\ \A l \in MediaLeaves : bundle[l] \in Media \cup {Nothing}
    /\ \A l \in DocumentLeaves : bundle[l] \in Documents \cup {Nothing, Torn}
    /\ held \subseteq Leaves
    /\ phase \in Phases
    /\ proof \in [media : Media \cup {Nothing}, timeline : Timelines \cup {Invalid}]
    /\ source \in MediaLeaves
    /\ league \in BOOLEAN
    /\ foreign \in 0 .. MaxForeign /\ faults \in 0 .. MaxFaults

\* A document says of a generation what the probe says of it.
Proves(document, media) ==
    /\ document \in Documents
    /\ document.media = media
    /\ document.timeline = Timeline[media]

\* Whatever others do to the files between a probe and the renames, and
\* whichever of the two paths publishes, a document becomes metadata.json
\* only beside the very media that a probe accepted with its timeline.
PromotionIsProven ==
    [][(/\ foreign' = foreign
         /\ ~Holds("metadata") /\ bundle'["metadata"] # Nothing)
       => Proves(bundle'["metadata"], bundle'["video"])]_vars

\* No step of the recorder loses or overwrites bytes: a file stays, or moves
\* to a name that was free; only the pending file being written is filled.
BytesAreRetained ==
    [][foreign' = foreign =>
       \A l \in Leaves : Holds(l) =>
          \/ bundle'[l] = bundle[l]
          \/ \E to \in Leaves :
                ~Holds(to) /\ bundle'[to] = bundle[l] /\ bundle'[l] = Nothing
          \/ phase = "staging" /\ l = "pending" /\ bundle[l] = Torn]_vars

\* What the next orderly exit can complete.
Recoverable ==
    /\ Interrupted
    /\ \A l \in MediaLeaves : Holds(l) => Proves(bundle["pending"], bundle[l])

Published ==
    Holds("video") /\ Proves(bundle["metadata"], bundle["video"])

\* Wherever a crash, a failed call or a failed rollback stops the recorder, a
\* video under its canonical name has its proof beside it: as long as nobody
\* else writes there, it is published or can be recovered.
CanonicalVideoHasProof ==
    foreign = 0 /\ Holds("video") => Recoverable \/ Published

\* An interrupted publication with complete evidence is finished eventually,
\* unless somebody else changes the bundle.
InterruptedIsFinished ==
    \A n \in 0 .. MaxForeign :
        (Recoverable /\ foreign = n) ~> (Published \/ foreign # n)
=============================================================================
