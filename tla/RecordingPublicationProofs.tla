---------------------- MODULE RecordingPublicationProofs --------------------
(***************************************************************************)
(* Proofs about RecordingPublication, for any media, timelines and bounds: *)
(* every action property and invariant follows from one inductive          *)
(* invariant: which handles are open in each phase, what the open files    *)
(* hold, and what the bundle looks like while nobody else changed it.      *)
(* Then about RecoveryPass, for any digits, names and bounds: the frontier *)
(* of the recovery pass skips no bundle.                                   *)
(***************************************************************************)
EXTENDS RecordingPublicationMC, Integers, Sequences, FiniteSets, FiniteSetTheorems,
        WellFoundedInduction, TLAPS

\* The handles that are open in each phase.
Handles ==
    /\ phase \in {"captured", "validated", "checked", "inspect", "parse",
                  "reopen", "idle", "down"} => held = {}
    /\ phase \in {"probing", "opened"} => held = {"partial"}
    /\ phase \in {"staging", "staged"} => held = {"partial", "pending"}
    /\ phase \in {"promoted", "rollback", "commit"} => held = {"video", "pending"}
    /\ phase = "verify" => held = {"pending"}
    /\ phase = "reread" => held = {source}
    /\ phase \in {"ready", "reprobe", "recheck", "move"} => held = {source, "pending"}
    /\ phase = "move" => source = "partial"

\* The proof is a document and says what the probe says.
Certain == Proves(proof, proof.media)

\* What the recorder knows of its proof and of the files that it holds.
Evidence ==
    /\ phase = "probing" => proof.media \in Media
    /\ phase \in {"validated", "checked", "opened", "staging", "staged",
                  "promoted", "rollback", "reopen", "reread", "recheck",
                  "move", "commit"} => Certain
    /\ phase \in {"verify", "ready", "reprobe"} => proof \in Documents
    /\ phase \in {"probing", "opened", "staging", "staged"} =>
          bundle["partial"] = proof.media
    /\ phase \in {"promoted", "rollback", "commit"} =>
          bundle["video"] = proof.media
    /\ phase \in {"ready", "reprobe", "reread", "recheck", "move"} =>
          bundle[source] = proof.media
    /\ phase \in {"staged", "promoted", "rollback", "verify", "ready",
                  "reprobe", "recheck", "move", "commit"} =>
          bundle["pending"] = proof
    /\ phase = "staging" => bundle["pending"] = Torn

\* The bundle as the recorder alone leaves it.
Undisturbed ==
    foreign = 0 =>
      /\ Holds("metadata") => Published /\ ~Holds("pending")
      /\ Holds("video") => Recoverable \/ Published
      /\ phase \in {"captured", "probing", "validated", "checked", "opened",
                    "staging", "staged"} => ~Holds("video")

Environment == Restart \/ Faults \/ LeagueEnds

Inv == TypeOK /\ Handles /\ Evidence /\ Undisturbed

-----------------------------------------------------------------------------
(* The invariant is inductive.                                             *)

\* Validation and publication keep the invariant.
LEMMA PublisherStep ==
  ASSUME Inv, Publisher
  PROVE  Inv'
<1> USE PublicationAssumption DEF Inv
<1>1. CASE Validate
  <2>1. TypeOK'
    BY <1>1 DEF Validate, Abandon, Leave, Continue, outside, TypeOK, Phases,
      Publishing, NoProof, MediaLeaves, Leaves
  <2>2. Handles'
    BY <1>1 DEF Validate, Abandon, Leave, Continue, Handles
  <2>3. Evidence'
    BY <1>1 DEF Validate, Abandon, Leave, Continue, Evidence, TypeOK,
      MediaLeaves, Holds
  <2>4. Undisturbed'
    BY <1>1 DEF Validate, Abandon, outside, Undisturbed, Holds, Published
  <2> QED
    BY <2>1, <2>2, <2>3, <2>4
<1>2. CASE Probed
  <2>1. TypeOK'
    BY <1>2 DEF Probed, Abandon, Leave, Continue, outside, TypeOK, Phases,
      Publishing, NoProof, MediaLeaves, Evidence
  <2>2. Handles'
    BY <1>2 DEF Probed, Abandon, Leave, Continue, Handles
  <2>3. Evidence'
    BY <1>2 DEF Probed, Abandon, Leave, Continue, Evidence, Certain, Proves,
      TypeOK, Documents
  <2>4. Undisturbed'
    BY <1>2 DEF Probed, Abandon, outside, Undisturbed, Holds, Published
  <2> QED
    BY <2>1, <2>2, <2>3, <2>4
<1>3. CASE CheckTargets
  <2>1. TypeOK'
    BY <1>3 DEF CheckTargets, Abandon, Leave, Continue, outside, TypeOK,
      Phases, Publishing, NoProof, MediaLeaves
  <2>2. Handles'
    BY <1>3 DEF CheckTargets, Abandon, Leave, Continue, Handles
  <2>3. Evidence'
    BY <1>3 DEF CheckTargets, Abandon, Leave, Continue, Evidence, Certain
  <2>4. Undisturbed'
    BY <1>3 DEF CheckTargets, Abandon, outside, Undisturbed, Holds, Published
  <2> QED
    BY <2>1, <2>2, <2>3, <2>4
<1>4. CASE OpenMedia
  <2>1. TypeOK'
    BY <1>4 DEF OpenMedia, Abandon, Leave, Continue, outside, TypeOK, Phases,
      Publishing, NoProof, MediaLeaves, Leaves
  <2>2. Handles'
    BY <1>4 DEF OpenMedia, Abandon, Leave, Continue, Handles
  <2>3. Evidence'
    BY <1>4 DEF OpenMedia, Abandon, Leave, Continue, Evidence, Certain,
      Verifies
  <2>4. Undisturbed'
    BY <1>4 DEF OpenMedia, Abandon, outside, Undisturbed, Holds, Published
  <2> QED
    BY <2>1, <2>2, <2>3, <2>4
<1>5. CASE CreatePending
  <2>1. TypeOK'
    BY <1>5 DEF CreatePending, Abandon, Leave, Continue, outside, TypeOK,
      Phases, Publishing, NoProof, MediaLeaves, DocumentLeaves, Leaves
  <2>2. Handles'
    BY <1>5 DEF CreatePending, Abandon, Leave, Continue, Handles
  <2>3. Evidence'
    BY <1>5 DEF CreatePending, Abandon, Leave, Continue, Evidence, Certain,
      TypeOK, MediaLeaves, DocumentLeaves, Leaves
  <2>4. Undisturbed'
    BY <1>5 DEF CreatePending, Abandon, outside, Undisturbed, Holds,
      Published, TypeOK, MediaLeaves, DocumentLeaves, Leaves
  <2> QED
    BY <2>1, <2>2, <2>3, <2>4
<1>6. CASE WritePending
  <2>1. TypeOK'
    BY <1>6 DEF WritePending, Continue, TypeOK, Phases, Publishing,
      DocumentLeaves, Leaves, Document, Evidence, Certain, Proves
  <2>2. Handles'
    BY <1>6 DEF WritePending, Continue, Handles
  <2>3. Evidence'
    BY <1>6 DEF WritePending, Continue, Evidence, Certain, TypeOK,
      DocumentLeaves, Leaves, Document
  <2>4. Undisturbed'
    BY <1>6 DEF WritePending, Undisturbed, Holds, Published
  <2> QED
    BY <2>1, <2>2, <2>3, <2>4
<1>7. CASE PromoteMedia
  <2>1. TypeOK'
    BY <1>7 DEF PromoteMedia, Abandon, Leave, Continue, outside, TypeOK,
      Phases, Publishing, NoProof, MediaLeaves, DocumentLeaves, Leaves,
      Renamed
  <2>2. Handles'
    BY <1>7 DEF PromoteMedia, Abandon, Leave, Continue, Handles
  <2>3. Evidence'
    BY <1>7 DEF PromoteMedia, Abandon, Leave, Continue, Evidence, Certain,
      TypeOK, MediaLeaves, DocumentLeaves, Leaves, Renamed
  <2>4. Undisturbed'
    BY <1>7 DEF PromoteMedia, Continue, outside, Undisturbed, Evidence,
      Certain, Holds, Recoverable, Interrupted, Proves, TypeOK, MediaLeaves,
      DocumentLeaves, Leaves, Renamed, MayRename
  <2> QED
    BY <2>1, <2>2, <2>3, <2>4
<1>8. CASE PromoteMetadata
  <2>1. TypeOK'
    BY <1>8 DEF PromoteMetadata, Leave, Continue, outside, TypeOK, Phases,
      Publishing, NoProof, MediaLeaves, Leaves, Renamed, Evidence, Certain,
      Proves
  <2>2. Handles'
    BY <1>8 DEF PromoteMetadata, Leave, Continue, Handles
  <2>3. Evidence'
    BY <1>8 DEF PromoteMetadata, Leave, Continue, Evidence, Certain
  <2>4. Undisturbed'
    BY <1>8 DEF PromoteMetadata, Leave, outside, Undisturbed, Evidence,
      Certain, Holds, Published, Proves, TypeOK, MediaLeaves, DocumentLeaves,
      Leaves, Documents, Renamed, MayRename
  <2> QED
    BY <2>1, <2>2, <2>3, <2>4
<1>9. CASE Rollback
  <2>1. TypeOK'
    BY <1>9 DEF Rollback, Leave, outside, TypeOK, Phases, NoProof,
      MediaLeaves, DocumentLeaves, Leaves, Renamed
  <2>2. Handles'
    BY <1>9 DEF Rollback, Leave, Handles
  <2>3. Evidence'
    BY <1>9 DEF Rollback, Leave, Evidence
  <2>4. Undisturbed'
    BY <1>9 DEF Rollback, outside, Undisturbed, Evidence, Certain, Holds,
      Published, Recoverable, Interrupted, Proves, TypeOK, MediaLeaves,
      DocumentLeaves, Leaves, Renamed, MayRename
  <2> QED
    BY <2>1, <2>2, <2>3, <2>4
<1> QED
  BY <1>1, <1>2, <1>3, <1>4, <1>5, <1>6, <1>7, <1>8, <1>9 DEF Publisher

\* Reconciliation keeps the invariant.
LEMMA RecoveryStep ==
  ASSUME Inv, Recovery
  PROVE  Inv'
<1> USE PublicationAssumption DEF Inv
<1>1. CASE Shutdown
  <2>1. TypeOK'
    BY <1>1 DEF Shutdown, Abandon, Leave, Continue, outside, TypeOK, Phases,
      Recovering, NoProof, MediaLeaves
  <2>2. Handles'
    BY <1>1 DEF Shutdown, Abandon, Leave, Continue, Handles
  <2>3. Evidence'
    BY <1>1 DEF Shutdown, Abandon, Leave, Continue, Evidence
  <2>4. Undisturbed'
    BY <1>1 DEF Shutdown, Abandon, Leave, Continue, outside, Undisturbed,
      Holds, Published, Recoverable, Interrupted
  <2> QED
    BY <2>1, <2>2, <2>3, <2>4
<1>2. CASE Inspect
  <2>1. TypeOK'
    BY <1>2 DEF Inspect, Abandon, Leave, Continue, outside, TypeOK, Phases,
      Recovering, NoProof, MediaLeaves, MediaLeaf
  <2>2. Handles'
    BY <1>2 DEF Inspect, Abandon, Leave, Continue, Handles
  <2>3. Evidence'
    BY <1>2 DEF Inspect, Abandon, Leave, Continue, Evidence
  <2>4. Undisturbed'
    BY <1>2 DEF Inspect, Abandon, Leave, Continue, outside, Undisturbed,
      Holds, Published, Recoverable, Interrupted
  <2> QED
    BY <2>1, <2>2, <2>3, <2>4
<1>3. CASE ParsePending
  <2>1. TypeOK'
    BY <1>3 DEF ParsePending, Abandon, Leave, Continue, outside, TypeOK,
      Phases, Recovering, NoProof, MediaLeaves, DocumentLeaves, Leaves,
      Documents
  <2>2. Handles'
    BY <1>3 DEF ParsePending, Abandon, Leave, Continue, Handles
  <2>3. Evidence'
    BY <1>3 DEF ParsePending, Abandon, Leave, Continue, Evidence
  <2>4. Undisturbed'
    BY <1>3 DEF ParsePending, Abandon, Leave, Continue, outside, Undisturbed,
      Holds, Published, Recoverable, Interrupted
  <2> QED
    BY <2>1, <2>2, <2>3, <2>4
<1>4. CASE VerifyMedia
  <2>1. TypeOK'
    BY <1>4 DEF VerifyMedia, Abandon, Leave, Continue, outside, TypeOK,
      Phases, Recovering, NoProof, MediaLeaves, DocumentLeaves, Leaves
  <2>2. Handles'
    BY <1>4 DEF VerifyMedia, Abandon, Leave, Continue, Handles
  <2>3. Evidence'
    BY <1>4 DEF VerifyMedia, Abandon, Leave, Continue, Evidence, Verifies
  <2>4. Undisturbed'
    BY <1>4 DEF VerifyMedia, Abandon, Leave, Continue, outside, Undisturbed,
      Holds, Published, Recoverable, Interrupted
  <2> QED
    BY <2>1, <2>2, <2>3, <2>4
<1>5. CASE AdmitProbe
  <2>1. TypeOK'
    BY <1>5 DEF AdmitProbe, Abandon, Leave, Continue, outside, TypeOK,
      Phases, Recovering, NoProof, MediaLeaves
  <2>2. Handles'
    BY <1>5 DEF AdmitProbe, Abandon, Leave, Continue, Handles
  <2>3. Evidence'
    BY <1>5 DEF AdmitProbe, Abandon, Leave, Continue, Evidence
  <2>4. Undisturbed'
    BY <1>5 DEF AdmitProbe, Abandon, Leave, Continue, outside, Undisturbed,
      Holds, Published, Recoverable, Interrupted
  <2> QED
    BY <2>1, <2>2, <2>3, <2>4
<1>6. CASE Reprobed
  <2>1. TypeOK'
    BY <1>6 DEF Reprobed, Abandon, Leave, Continue, outside, TypeOK, Phases,
      Recovering, NoProof, MediaLeaves
  <2>2. Handles'
    BY <1>6 DEF Reprobed, Abandon, Leave, Continue, Handles
  <2>3. Evidence'
    BY <1>6 DEF Reprobed, Abandon, Leave, Continue, Evidence, Certain,
      Proves, ObservedAsStaged
  <2>4. Undisturbed'
    BY <1>6 DEF Reprobed, Abandon, Leave, Continue, outside, Undisturbed,
      Holds, Published, Recoverable, Interrupted
  <2> QED
    BY <2>1, <2>2, <2>3, <2>4
<1>7. CASE ReopenMedia
  <2>1. TypeOK'
    BY <1>7 DEF ReopenMedia, Abandon, Leave, Continue, outside, TypeOK,
      Phases, Recovering, NoProof, MediaLeaves, Leaves
  <2>2. Handles'
    BY <1>7 DEF ReopenMedia, Abandon, Leave, Continue, Handles
  <2>3. Evidence'
    BY <1>7 DEF ReopenMedia, Abandon, Leave, Continue, Evidence, Certain,
      Verifies
  <2>4. Undisturbed'
    BY <1>7 DEF ReopenMedia, Abandon, Leave, Continue, outside, Undisturbed,
      Holds, Published, Recoverable, Interrupted
  <2> QED
    BY <2>1, <2>2, <2>3, <2>4
<1>8. CASE RereadPending
  <2>1. TypeOK'
    BY <1>8 DEF RereadPending, Abandon, Leave, Continue, outside, TypeOK,
      Phases, Recovering, NoProof, MediaLeaves, DocumentLeaves, Leaves
  <2>2. Handles'
    BY <1>8 DEF RereadPending, Abandon, Leave, Continue, Handles
  <2>3. Evidence'
    BY <1>8 DEF RereadPending, Abandon, Leave, Continue, Evidence, Certain
  <2>4. Undisturbed'
    BY <1>8 DEF RereadPending, Abandon, Leave, Continue, outside,
      Undisturbed, Holds, Published, Recoverable, Interrupted
  <2> QED
    BY <2>1, <2>2, <2>3, <2>4
<1>9. CASE Recheck
  <2>1. TypeOK'
    BY <1>9 DEF Recheck, Abandon, Leave, Continue, outside, TypeOK, Phases,
      Recovering, NoProof, MediaLeaves
  <2>2. Handles'
    BY <1>9 DEF Recheck, Abandon, Leave, Continue, Handles, TypeOK,
      MediaLeaves
  <2>3. Evidence'
    BY <1>9 DEF Recheck, Abandon, Leave, Continue, Evidence, Certain, TypeOK,
      MediaLeaves
  <2>4. Undisturbed'
    BY <1>9 DEF Recheck, Continue, outside, Undisturbed, Evidence, Certain,
      Holds, Published, Recoverable, Interrupted, Proves, Documents
  <2> QED
    BY <2>1, <2>2, <2>3, <2>4
<1>10. CASE MoveMedia
  <2>1. TypeOK'
    BY <1>10 DEF MoveMedia, Abandon, Leave, Continue, outside, TypeOK,
      Phases, Recovering, NoProof, MediaLeaves, DocumentLeaves, Leaves,
      Renamed
  <2>2. Handles'
    BY <1>10 DEF MoveMedia, Abandon, Leave, Continue, Handles
  <2>3. Evidence'
    BY <1>10 DEF MoveMedia, Abandon, Leave, Continue, Evidence, Certain,
      Proves, TypeOK, MediaLeaves, DocumentLeaves, Leaves, Documents, Holds,
      Renamed, MayRename
  <2>4. Undisturbed'
    BY <1>10 DEF MoveMedia, Continue, outside, Undisturbed, Evidence,
      Handles, Certain, Holds, Published, Recoverable, Interrupted, Proves,
      TypeOK, MediaLeaves, DocumentLeaves, Leaves, Renamed, MayRename
  <2> QED
    BY <2>1, <2>2, <2>3, <2>4
<1>11. CASE Commit
  <2>1. TypeOK'
    BY <1>11 DEF Commit, Leave, outside, TypeOK, Phases, NoProof,
      MediaLeaves, Leaves, Renamed, Evidence, Certain, Proves
  <2>2. Handles'
    BY <1>11 DEF Commit, Leave, Handles
  <2>3. Evidence'
    BY <1>11 DEF Commit, Leave, Evidence
  <2>4. Undisturbed'
    BY <1>11 DEF Commit, Leave, outside, Undisturbed, Evidence, Certain,
      Holds, Published, Proves, TypeOK, MediaLeaves, DocumentLeaves, Leaves,
      Documents, Renamed, MayRename
  <2> QED
    BY <2>1, <2>2, <2>3, <2>4
<1> QED
  BY <1>1, <1>2, <1>3, <1>4, <1>5, <1>6, <1>7, <1>8, <1>9, <1>10, <1>11 DEF
    Recovery

\* Restarts, faults, games and other writers keep the invariant.
LEMMA EnvironmentStep ==
  ASSUME Inv, Environment
  PROVE  Inv'
<1> USE PublicationAssumption DEF Inv
<1>1. CASE Restart
  <2>1. TypeOK'
    BY <1>1 DEF Restart, Abandon, Leave, outside, TypeOK, Phases, NoProof,
      MediaLeaves
  <2>2. Handles'
    BY <1>1 DEF Restart, Abandon, Leave, Handles
  <2>3. Evidence'
    BY <1>1 DEF Restart, Abandon, Leave, Evidence
  <2>4. Undisturbed'
    BY <1>1 DEF Restart, Abandon, Leave, outside, Undisturbed, Holds,
      Published, Recoverable, Interrupted
  <2> QED
    BY <2>1, <2>2, <2>3, <2>4
<1>2. CASE Crash
  <2>1. TypeOK'
    BY <1>2 DEF Crash, Abandon, Leave, TypeOK, Phases, NoProof, MediaLeaves
  <2>2. Handles'
    BY <1>2 DEF Crash, Abandon, Leave, Handles
  <2>3. Evidence'
    BY <1>2 DEF Crash, Abandon, Leave, Evidence
  <2>4. Undisturbed'
    BY <1>2 DEF Crash, Abandon, Leave, Undisturbed, Holds, Published,
      Recoverable, Interrupted
  <2> QED
    BY <2>1, <2>2, <2>3, <2>4
<1>3. CASE CallFails
  <2>1. TypeOK'
    BY <1>3 DEF CallFails, Abandon, Leave, Continue, TypeOK, Phases,
      Publishing, NoProof, MediaLeaves
  <2>2. Handles'
    BY <1>3 DEF CallFails, Abandon, Leave, Continue, Handles
  <2>3. Evidence'
    BY <1>3 DEF CallFails, Abandon, Leave, Continue, Evidence, Certain
  <2>4. Undisturbed'
    BY <1>3 DEF CallFails, Abandon, Leave, Continue, Undisturbed, Holds,
      Published, Recoverable, Interrupted
  <2> QED
    BY <2>1, <2>2, <2>3, <2>4
<1>4. CASE ForeignChange
  <2>1. TypeOK'
    BY <1>4 DEF ForeignChange, TypeOK, MediaLeaves, DocumentLeaves, Leaves
  <2>2. Handles'
    BY <1>4 DEF ForeignChange, Handles
  <2>3. Evidence'
    BY <1>4 DEF ForeignChange, Evidence, Handles, Certain, TypeOK
  <2>4. Undisturbed'
    BY <1>4 DEF ForeignChange, Undisturbed, TypeOK
  <2> QED
    BY <2>1, <2>2, <2>3, <2>4
<1>5. CASE LeagueAppears
  <2>1. TypeOK'
    BY <1>5 DEF LeagueAppears, TypeOK
  <2>2. Handles'
    BY <1>5 DEF LeagueAppears, Handles
  <2>3. Evidence'
    BY <1>5 DEF LeagueAppears, Evidence, Certain
  <2>4. Undisturbed'
    BY <1>5 DEF LeagueAppears, Undisturbed, Holds, Published, Recoverable,
      Interrupted
  <2> QED
    BY <2>1, <2>2, <2>3, <2>4
<1>6. CASE LeagueEnds
  <2>1. TypeOK'
    BY <1>6 DEF LeagueEnds, Abandon, Leave, Continue, outside, TypeOK,
      Phases, Publishing, Recovering, NoProof, MediaLeaves, DocumentLeaves,
      Leaves, Documents, Document, MediaLeaf, Holds, Renamed, Evidence,
      Certain, Proves
  <2>2. Handles'
    BY <1>6 DEF LeagueEnds, Handles
  <2>3. Evidence'
    BY <1>6 DEF LeagueEnds, Evidence, Certain
  <2>4. Undisturbed'
    BY <1>6 DEF LeagueEnds, Undisturbed, Holds, Published, Recoverable,
      Interrupted
  <2> QED
    BY <2>1, <2>2, <2>3, <2>4
<1> QED
  BY <1>1, <1>2, <1>3, <1>4, <1>5, <1>6 DEF Environment, Faults

\* The invariant holds at the start.
LEMMA InvInit == Init => Inv
<1> SUFFICES ASSUME Init PROVE Inv
  OBVIOUS
<1> USE PublicationAssumption DEF Init, Inv
<1>1. TypeOK
  <2>1. PICK m \in Media :
          bundle = [l \in Leaves |-> IF l = "partial" THEN m ELSE Nothing]
    OBVIOUS
  <2>2. bundle \in [Leaves -> Media \cup Documents \cup {Nothing, Torn}]
    BY <2>1
  <2>3. /\ \A l \in MediaLeaves : bundle[l] \in Media \cup {Nothing}
        /\ \A l \in DocumentLeaves : bundle[l] = Nothing
    BY <2>1 DEF Leaves, DocumentLeaves
  <2>4. held \subseteq Leaves
    OBVIOUS
  <2>5. phase \in Phases
    BY DEF Phases, Publishing
  <2>6. proof \in [media : Media \cup {Nothing}, timeline : Timelines \cup {Invalid}]
    BY DEF NoProof
  <2>7. foreign \in 0 .. MaxForeign /\ faults \in 0 .. MaxFaults
    OBVIOUS
  <2> QED
    BY <2>2, <2>3, <2>4, <2>5, <2>6, <2>7 DEF TypeOK, MediaLeaves
<1>2. Handles /\ Evidence
  BY DEF Handles, Evidence
<1>3. Undisturbed
  BY DEF Undisturbed, Holds, Leaves, MediaLeaves, DocumentLeaves
<1> QED
  BY <1>1, <1>2, <1>3

\* Every step keeps it.
LEMMA InvNext == Inv /\ [Next]_vars => Inv'
<1> SUFFICES ASSUME Inv, [Next]_vars PROVE Inv'
  OBVIOUS
<1>1. CASE UNCHANGED vars
  BY <1>1 DEF vars, Inv, TypeOK, Handles, Evidence, Certain, Undisturbed,
    Holds, Published, Recoverable, Interrupted
<1> QED
  BY <1>1, PublisherStep, RecoveryStep, EnvironmentStep DEF Next, Recorder,
    Environment

\* The recorder's steps reach only these states.
THEOREM Invariant == Spec => []Inv
  BY InvInit, InvNext, PTL DEF Spec

-----------------------------------------------------------------------------
(* Theorems.                                                               *)

\* The bundle keeps its shape: media under media names, documents under
\* document names, whatever happens at any step.
THEOREM TypeCorrect == Spec => []TypeOK
<1>1. Inv => TypeOK
  BY DEF Inv
<1> QED
  BY <1>1, Invariant, PTL

\* Wherever the recorder stops, its canonical video has its proof beside it.
THEOREM CanonicalVideo == Spec => []CanonicalVideoHasProof
<1>1. Inv => CanonicalVideoHasProof
  BY DEF Inv, Undisturbed, CanonicalVideoHasProof
<1> QED
  BY <1>1, Invariant, PTL

\* The files are where they were, in every other step of the recorder.
Quiet == UNCHANGED bundle \/ foreign' # foreign

\* Which steps touch the bundle.
LEMMA StepsOnFiles ==
  ASSUME Inv, [Next]_vars, ~Quiet
  PROVE  \/ CreatePending \/ WritePending \/ PromoteMedia \/ PromoteMetadata
         \/ Rollback \/ MoveMedia \/ Commit
<1> USE DEF Quiet
<1>1. ~ForeignChange
  BY DEF ForeignChange, Inv, TypeOK
<1>2. ~(Validate \/ Probed \/ CheckTargets \/ OpenMedia)
  BY DEF Validate, Probed, CheckTargets, OpenMedia, Abandon
<1>3. ~(Shutdown \/ Inspect \/ ParsePending \/ VerifyMedia \/ AdmitProbe)
  BY DEF Shutdown, Inspect, ParsePending, VerifyMedia, AdmitProbe, Abandon
<1>4. ~(Reprobed \/ ReopenMedia \/ RereadPending \/ Recheck)
  BY DEF Reprobed, ReopenMedia, RereadPending, Recheck, Abandon
<1>5. ~(Restart \/ Crash \/ CallFails \/ LeagueAppears \/ LeagueEnds)
  BY DEF Restart, Crash, CallFails, LeagueAppears, LeagueEnds, Abandon
<1> QED
  BY <1>1, <1>2, <1>3, <1>4, <1>5 DEF Next, Recorder, Publisher, Recovery,
    Faults, vars

\* A document becomes metadata.json only beside the media that a probe
\* accepted with its timeline, whatever others exchange in between.
THEOREM Promotion == Spec => PromotionIsProven
<1> DEFINE Appears == /\ foreign' = foreign
                      /\ ~Holds("metadata") /\ bundle'["metadata"] # Nothing
           Proven == Proves(bundle'["metadata"], bundle'["video"])
<1>1. ASSUME Inv, [Next]_vars, Appears PROVE Proven
  <2> USE PublicationAssumption DEF Inv
  <2>1. ~Quiet
    BY <1>1 DEF Quiet, Holds
  <2>2. CASE PromoteMetadata
    BY <1>1, <2>2 DEF PromoteMetadata, Renamed, Evidence, Certain, TypeOK,
      Leaves, MediaLeaves, DocumentLeaves, Holds
  <2>3. CASE Commit
    BY <1>1, <2>3 DEF Commit, Renamed, Evidence, Certain, TypeOK, Leaves,
      MediaLeaves, DocumentLeaves, Holds
  <2>4. CASE CreatePending \/ WritePending \/ PromoteMedia \/ Rollback \/ MoveMedia
    BY <1>1, <2>4 DEF CreatePending, WritePending, PromoteMedia, Rollback,
      MoveMedia, Renamed, TypeOK, Leaves, DocumentLeaves, Holds, Abandon
  <2> QED
    BY <1>1, <2>1, <2>2, <2>3, <2>4, StepsOnFiles
<1>2. Inv /\ [Next]_vars => [Appears => Proven]_vars
  BY <1>1
<1> QED
  BY <1>2, Invariant, PTL DEF Spec, PromotionIsProven

\* No step of the recorder loses or overwrites bytes.
THEOREM Retention == Spec => BytesAreRetained
<1> DEFINE Survives(l) ==
             \/ bundle'[l] = bundle[l]
             \/ \E to \in Leaves :
                   ~Holds(to) /\ bundle'[to] = bundle[l] /\ bundle'[l] = Nothing
             \/ phase = "staging" /\ l = "pending" /\ bundle[l] = Torn
           Retained == foreign' = foreign =>
                         \A l \in Leaves : Holds(l) => Survives(l)
<1>1. ASSUME Inv, [Next]_vars, foreign' = foreign,
             NEW l \in Leaves, Holds(l)
      PROVE  Survives(l)
  <2> USE PublicationAssumption DEF Inv, Leaves, MediaLeaves, DocumentLeaves
  <2>1. CASE UNCHANGED bundle
    BY <2>1
  <2>2. CASE CreatePending \/ WritePending
    BY <1>1, <2>2 DEF CreatePending, WritePending, Evidence, TypeOK, Abandon
  <2>3. CASE PromoteMedia \/ MoveMedia
    BY <1>1, <2>3 DEF PromoteMedia, MoveMedia, MayRename, Renamed, TypeOK,
      Abandon
  <2>4. CASE PromoteMetadata \/ Commit
    BY <1>1, <2>4 DEF PromoteMetadata, Commit, MayRename, Renamed, TypeOK
  <2>5. CASE Rollback
    BY <1>1, <2>5 DEF Rollback, MayRename, Renamed, TypeOK
  <2> QED
    BY <1>1, <2>1, <2>2, <2>3, <2>4, <2>5, StepsOnFiles DEF Quiet
<1>2. Inv /\ [Next]_vars => [Retained]_vars
  BY <1>1
<1> QED
  BY <1>2, Invariant, PTL DEF Spec, BytesAreRetained

-----------------------------------------------------------------------------
(* The recovery pass: words over the alphabet, and their order. *)

Letters == Pass!Alphabet
Words == Seq(Letters)

\* The bundles before a frontier, in depth-first order.
Behind(p) == {n \in Pass!Bundles : Pass!Before(n, p)}

PassType == [phase : Pass!Phases, prefix : Words, tried : SUBSET Pass!Bundles,
             names : SUBSET Pass!Bundles, target : Seq(Nat), exhausted : BOOLEAN,
             inspected : Nat, searches : Nat, probes : Nat, idle : BOOLEAN, late : BOOLEAN,
             hinted : BOOLEAN]

PassTypes ==
    /\ recovered \subseteq Sound /\ present \in BOOLEAN /\ failures \in Nat
    /\ cursor \in [prefix : Words, tried : SUBSET Pass!Bundles]
    /\ pass \in PassType

\* What a frontier leaves behind was tried.
FrontierIsTried ==
    /\ Behind(cursor.prefix) \subseteq cursor.tried
    /\ Behind(pass.prefix) \subseteq pass.tried

\* The bundle that has the name of the region, and the others that it holds.
InRegion == pass.phase = "entries" \/ (pass.phase = "attempt" /\ ~Pass!Exact)
RegionIsListed ==
    /\ pass.phase = "attempt" => pass.target \in Pass!Bundles
    /\ pass.phase = "budget" \/ InRegion =>
        (pass.prefix \in Pass!Bundles => pass.prefix \in pass.tried)
    /\ InRegion => pass.prefix \notin pass.names
    /\ InRegion /\ pass.exhausted =>
        \A n \in Pass!Bundles : Pass!IsPrefix(pass.prefix, n) /\ n # pass.prefix =>
            n \in pass.names \cup pass.tried

PassInvariant == PassTypes /\ FrontierIsTried /\ RegionIsListed

LEMMA LettersAreNumbers ==
    ASSUME Pass!PassAssumption
    PROVE  Letters = 0 .. Digits /\ Letters \subseteq Nat /\ Digits \in Nat
  BY DEF Pass!PassAssumption, Letters, Pass!Alphabet

\* A set of naturals that is not empty has a least member.
LEMMA LeastIs ==
    ASSUME NEW S \in SUBSET Nat, S # {}
    PROVE  Pass!Min(S) \in S /\ \A x \in S : Pass!Min(S) <= x
  <1> DEFINE R == OpToRel(<, Nat)
  <1>1. IsWellFoundedOn(R, Nat)
    BY NatLessThanWellFounded
  <1>2. \A x, y \in Nat : x < y => <<x, y>> \in R
    BY DEF OpToRel
  <1> HIDE DEF R
  <1>3. PICK m \in S : \A x \in S : ~(<<x, m>> \in R)
    BY <1>1, WFMin
  <1>4. ASSUME NEW x \in S PROVE m <= x
    <2>1. x \in Nat /\ m \in Nat /\ ~(<<x, m>> \in R)
      BY <1>3
    <2>2. ~(x < m)
      BY <1>2, <2>1
    <2> QED BY <2>1, <2>2
  <1> QED BY <1>3, <1>4 DEF Pass!Min

\* A set of naturals up to some bound that is not empty has a greatest.
LEMMA GreatestIs ==
    ASSUME NEW bound \in Nat, NEW S \in SUBSET (0 .. bound), S # {}
    PROVE  Pass!Max(S) \in S /\ \A x \in S : x <= Pass!Max(S)
  <1> DEFINE T == {bound - x : x \in S}
  <1>1. T \in SUBSET Nat /\ T # {}
    <2>1. \A x \in S : bound - x \in Nat
      OBVIOUS
    <2> QED BY <2>1
  <1>2. PICK m \in S : bound - m = Pass!Min(T)
    BY <1>1, LeastIs
  <1>3. \A x \in S : x <= m
    <2> SUFFICES ASSUME NEW x \in S PROVE x <= m
      OBVIOUS
    <2>1. bound - x \in T
      OBVIOUS
    <2>2. Pass!Min(T) <= bound - x
      BY <1>1, <2>1, LeastIs
    <2> HIDE DEF T
    <2>3. x \in Nat /\ m \in Nat
      OBVIOUS
    <2> QED BY <1>2, <2>2, <2>3
  <1> QED BY <1>3 DEF Pass!Max

\* Two words agree up to a place.
Agree(n, p, k) == \A i \in 1 .. k : n[i] = p[i]

LEMMA AgreeIs ==
    ASSUME NEW n \in Seq(Nat), NEW p \in Seq(Nat), NEW k \in Nat, k <= Len(n), k <= Len(p)
    PROVE  SubSeq(n, 1, k) = SubSeq(p, 1, k) <=> Agree(n, p, k)
  <1>1. SubSeq(n, 1, k) = [i \in 1 .. k |-> n[i]]
    OBVIOUS
  <1>2. SubSeq(p, 1, k) = [i \in 1 .. k |-> p[i]]
    OBVIOUS
  <1> DEFINE a == [i \in 1 .. k |-> n[i]]
  <1> DEFINE b == [i \in 1 .. k |-> p[i]]
  <1>3. a = b <=> Agree(n, p, k)
    <2>1. ASSUME a = b, NEW i \in 1 .. k PROVE n[i] = p[i]
      <3>1. a[i] = n[i] /\ b[i] = p[i]
        OBVIOUS
      <3> HIDE DEF a, b
      <3> QED BY <2>1, <3>1
    <2>2. ASSUME Agree(n, p, k) PROVE a = b
      BY <2>2 DEF Agree
    <2> QED BY <2>1, <2>2 DEF Agree
  <1> QED BY <1>1, <1>2, <1>3

LEMMA PrefixIs ==
    ASSUME NEW n \in Seq(Nat), NEW p \in Seq(Nat)
    PROVE  /\ Pass!IsPrefix(p, n) <=> Len(p) <= Len(n) /\ Agree(n, p, Len(p))
           /\ Pass!IsPrefix(p, n) /\ Len(p) = Len(n) => n = p
  <1>1. Len(p) \in Nat /\ Len(n) \in Nat
    OBVIOUS
  <1>2. Pass!IsPrefix(p, n) <=> Len(p) <= Len(n) /\ Agree(n, p, Len(p))
    <2>1. CASE Len(p) <= Len(n)
      <3>1. SubSeq(p, 1, Len(p)) = SubSeq(n, 1, Len(p)) <=> Agree(n, p, Len(p))
        BY <1>1, <2>1, AgreeIs
      <3> QED BY <2>1, <3>1 DEF Pass!IsPrefix
    <2>2. CASE ~(Len(p) <= Len(n))
      BY <2>2 DEF Pass!IsPrefix
    <2> QED BY <2>1, <2>2
  <1>3. n = [i \in 1 .. Len(n) |-> n[i]] /\ p = [i \in 1 .. Len(p) |-> p[i]]
    OBVIOUS
  <1> QED BY <1>1, <1>2, <1>3 DEF Agree

\* The first difference, of two words that have one.
Greater(n, p, k) ==
    /\ k \in Nat /\ k >= 1 /\ k <= Len(n) /\ k <= Len(p)
    /\ n[k] > p[k] /\ Agree(n, p, k - 1)
Smaller(n, p) ==
    \/ Len(n) < Len(p) /\ Agree(n, p, Len(n))
    \/ \E k \in Nat : /\ k >= 1 /\ k <= Len(n) /\ k <= Len(p)
                      /\ n[k] < p[k] /\ Agree(n, p, k - 1)

LEMMA BeforeIs ==
    ASSUME NEW n \in Seq(Nat), NEW p \in Seq(Nat)
    PROVE  Pass!Before(n, p) <=> Smaller(n, p)
  <1>1. Len(n) \in Nat /\ Len(p) \in Nat
    OBVIOUS
  <1> DEFINE short == Pass!Min({Len(n), Len(p)})
  <1>2. short \in Nat /\ short <= Len(n) /\ short <= Len(p) /\ short \in {Len(n), Len(p)}
    <2>1. {Len(n), Len(p)} \in SUBSET Nat /\ {Len(n), Len(p)} # {}
      BY <1>1
    <2> QED BY <2>1, LeastIs
  <1>3. Pass!IsStrictPrefix(n, p) <=> Len(n) < Len(p) /\ Agree(n, p, Len(n))
    <2>1. Agree(p, n, Len(n)) <=> Agree(n, p, Len(n))
      BY DEF Agree
    <2>2. Pass!IsPrefix(n, p) <=> Len(n) <= Len(p) /\ Agree(n, p, Len(n))
      BY <2>1, PrefixIs
    <2>3. Pass!IsPrefix(n, p) /\ Len(n) = Len(p) => n = p
      BY PrefixIs
    <2> QED BY <1>1, <2>2, <2>3 DEF Pass!IsStrictPrefix
  <1>4. \A k \in 1 .. short : SubSeq(n, 1, k - 1) = SubSeq(p, 1, k - 1) <=> Agree(n, p, k - 1)
    <2> SUFFICES ASSUME NEW k \in 1 .. short
                 PROVE  SubSeq(n, 1, k - 1) = SubSeq(p, 1, k - 1) <=> Agree(n, p, k - 1)
      OBVIOUS
    <2>1. k - 1 \in Nat /\ k - 1 <= Len(n) /\ k - 1 <= Len(p)
      BY <1>1, <1>2
    <2> QED BY <2>1, AgreeIs
  <1>5. \A k \in Nat : k >= 1 /\ k <= Len(n) /\ k <= Len(p) <=> k \in 1 .. short
    BY <1>1, <1>2
  <1> HIDE DEF short
  <1>6. Pass!Before(n, p) <=>
          \/ Pass!IsStrictPrefix(n, p)
          \/ \E k \in 1 .. short : n[k] < p[k] /\ SubSeq(n, 1, k - 1) = SubSeq(p, 1, k - 1)
    BY DEF Pass!Before, short
  <1>7. 1 .. short \subseteq Nat
    BY <1>2
  <1>8. Pass!Before(n, p) <=>
          \/ Pass!IsStrictPrefix(n, p)
          \/ \E k \in 1 .. short : n[k] < p[k] /\ Agree(n, p, k - 1)
    BY <1>4, <1>6
  <1> QED BY <1>3, <1>5, <1>7, <1>8 DEF Smaller

\* A word is before another, is continued by it, or is after it.
LEMMA InOrder ==
    ASSUME NEW n \in Seq(Nat), NEW p \in Seq(Nat)
    PROVE  Pass!Before(n, p) \/ Pass!IsPrefix(p, n) \/ \E k \in Nat : Greater(n, p, k)
  <1> SUFFICES ASSUME ~Pass!Before(n, p), ~Pass!IsPrefix(p, n)
               PROVE  \E k \in Nat : Greater(n, p, k)
    OBVIOUS
  <1>1. Len(n) \in Nat /\ Len(p) \in Nat /\ (\A i \in 1 .. Len(n) : n[i] \in Nat)
        /\ (\A i \in 1 .. Len(p) : p[i] \in Nat)
    OBVIOUS
  <1>2. ~Smaller(n, p)
    BY BeforeIs
  <1>3. ~(Len(p) <= Len(n) /\ Agree(n, p, Len(p)))
    BY PrefixIs
  <1> DEFINE S == {i \in Nat : i >= 1 /\ i <= Len(n) /\ i <= Len(p) /\ n[i] # p[i]}
  <1>4. S # {}
    <2> SUFFICES ASSUME S = {} PROVE FALSE
      OBVIOUS
    <2>1. \A i \in Nat : i >= 1 /\ i <= Len(n) /\ i <= Len(p) => n[i] = p[i]
      OBVIOUS
    <2> HIDE DEF S
    <2>2. CASE Len(n) < Len(p)
      <3>1. Agree(n, p, Len(n))
        BY <1>1, <2>1, <2>2 DEF Agree
      <3> QED BY <1>2, <2>2, <3>1 DEF Smaller
    <2>3. CASE Len(p) <= Len(n)
      <3>1. Agree(n, p, Len(p))
        BY <1>1, <2>1, <2>3 DEF Agree
      <3> QED BY <1>3, <2>3, <3>1
    <2> QED BY <1>1, <2>2, <2>3
  <1>5. S \in SUBSET Nat
    OBVIOUS
  <1> HIDE DEF S
  <1>6. PICK k \in S : \A x \in S : k <= x
    BY <1>4, <1>5, LeastIs
  <1> USE DEF S
  <1>7. k \in Nat /\ k >= 1 /\ k <= Len(n) /\ k <= Len(p) /\ n[k] # p[k]
    OBVIOUS
  <1>8. Agree(n, p, k - 1)
    <2> SUFFICES ASSUME NEW i \in 1 .. k - 1 PROVE n[i] = p[i]
      BY DEF Agree
    <2>1. i \in Nat /\ i >= 1 /\ i < k
      BY <1>7
    <2>2. i \notin S
      <3> HIDE DEF S
      <3> QED BY <1>6, <1>7, <2>1
    <2> QED BY <1>1, <1>7, <2>1, <2>2
  <1>9. ~(n[k] < p[k])
    BY <1>2, <1>7, <1>8 DEF Smaller
  <1>10. n[k] \in Nat /\ p[k] \in Nat
    BY <1>1, <1>7
  <1> HIDE DEF S
  <1> QED BY <1>7, <1>8, <1>9, <1>10 DEF Greater

-----------------------------------------------------------------------------
(* The regions of the recovery pass. *)

\* A word agrees with another that continues what they share.
LEMMA GreaterIsBehind ==
    ASSUME NEW n \in Seq(Nat), NEW q \in Seq(Nat), NEW k \in Nat, Greater(n, q, k)
    PROVE  ~Pass!Before(n, q)
  <1>1. Len(n) \in Nat /\ Len(q) \in Nat /\ n[k] > q[k] /\ n[k] \in Nat /\ q[k] \in Nat
        /\ k >= 1 /\ k <= Len(n) /\ k <= Len(q) /\ Agree(n, q, k - 1)
    BY DEF Greater
  <1>2. ASSUME Len(n) < Len(q), Agree(n, q, Len(n)) PROVE FALSE
    <2>1. k \in 1 .. Len(n)
      BY <1>1
    <2>2. n[k] = q[k]
      BY <1>2, <2>1 DEF Agree
    <2> QED BY <1>1, <2>2
  <1>3. ASSUME NEW j \in Nat, j >= 1, j <= Len(n), j <= Len(q), n[j] < q[j], Agree(n, q, j - 1)
        PROVE  FALSE
    <2>1. n[j] \in Nat /\ q[j] \in Nat
      <3>1. j \in 1 .. Len(n) /\ j \in 1 .. Len(q)
        BY <1>1, <1>3
      <3> QED BY <3>1
    <2>2. CASE j < k
      <3>1. j \in 1 .. k - 1
        BY <1>3, <2>2
      <3>2. n[j] = q[j]
        BY <1>1, <3>1 DEF Agree
      <3> QED BY <1>3, <2>1, <3>2
    <2>3. CASE j = k
      BY <1>1, <1>3, <2>1, <2>3
    <2>4. CASE k < j
      <3>1. k \in 1 .. j - 1
        BY <1>1, <2>4
      <3>2. n[k] = q[k]
        BY <1>3, <3>1 DEF Agree
      <3> QED BY <1>1, <3>2
    <2> QED BY <2>2, <2>3, <2>4
  <1>4. ~Smaller(n, q)
    BY <1>2, <1>3 DEF Smaller
  <1> QED BY <1>4, BeforeIs

LEMMA ContinuationIsBehind ==
    ASSUME NEW n \in Seq(Nat), NEW q \in Seq(Nat), Len(q) <= Len(n), Agree(n, q, Len(q))
    PROVE  ~Pass!Before(n, q)
  <1>1. Len(n) \in Nat /\ Len(q) \in Nat
    OBVIOUS
  <1>2. ASSUME NEW j \in Nat, j >= 1, j <= Len(n), j <= Len(q), n[j] < q[j]
        PROVE  FALSE
    <2>1. n[j] \in Nat /\ q[j] \in Nat /\ j \in 1 .. Len(q)
      BY <1>1, <1>2
    <2>2. n[j] = q[j]
      BY <2>1 DEF Agree
    <2> QED BY <1>2, <2>1, <2>2
  <1>3. ~Smaller(n, q)
    BY <1>1, <1>2 DEF Smaller
  <1> QED BY <1>3, BeforeIs

\* The words that a bundle continues are the start of some bundle.
LEMMA TimestampStarts ==
    ASSUME NEW s \in Seq(Nat), Pass!Timestamp(s), Pass!PassAssumption, NEW k \in Nat,
           k >= 1, k <= Len(s)
    PROVE  Pass!Timestamp(SubSeq(s, 1, k))
  <1> DEFINE r == SubSeq(s, 1, k)
  <1>1. Len(s) \in Nat /\ Len(s) <= TimestampLength /\ TimestampLength \in Nat
        /\ (\A i \in 1 .. Len(s) : s[i] \in Letters \ {Pass!Dash})
        /\ (s[1] = Pass!Zero => Len(s) = 1)
    BY DEF Pass!Timestamp, Pass!PassAssumption, Letters
  <1>2. Len(r) = k /\ \A i \in 1 .. k : r[i] = s[i]
    OBVIOUS
  <1> HIDE DEF r
  <1>3. Len(r) \in 1 .. TimestampLength
    BY <1>1, <1>2
  <1>4. \A i \in 1 .. Len(r) : r[i] \in Letters \ {Pass!Dash}
    <2>1. \A i \in 1 .. k : i \in 1 .. Len(s)
      BY <1>1
    <2> QED BY <1>1, <1>2, <2>1
  <1>5. r[1] = Pass!Zero => Len(r) = 1
    BY <1>1, <1>2
  <1> QED BY <1>3, <1>4, <1>5 DEF Pass!Timestamp, Letters, r

LEMMA SuffixStarts ==
    ASSUME NEW s \in Seq(Nat), Pass!SuffixPrefix(s), Pass!PassAssumption, NEW k \in Nat, k <= Len(s)
    PROVE  Pass!SuffixPrefix(SubSeq(s, 1, k))
  <1> DEFINE r == SubSeq(s, 1, k)
  <1>1. Len(s) \in Nat /\ Len(s) <= SuffixLength /\ SuffixLength \in Nat
        /\ (\A i \in 1 .. Len(s) : s[i] \in Letters \ {Pass!Dash})
        /\ (s # <<>> => s[1] # Pass!Zero)
    BY DEF Pass!SuffixPrefix, Pass!PassAssumption, Letters
  <1>2. Len(r) = k /\ r \in Seq(Nat) /\ \A i \in 1 .. k : r[i] = s[i]
    OBVIOUS
  <1> HIDE DEF r
  <1>3. Len(r) <= SuffixLength
    BY <1>1, <1>2
  <1>4. \A i \in 1 .. Len(r) : r[i] \in Letters \ {Pass!Dash}
    <2>1. \A i \in 1 .. k : i \in 1 .. Len(s)
      BY <1>1
    <2> QED BY <1>1, <1>2, <2>1
  <1>5. r # <<>> => r[1] # Pass!Zero
    <2> SUFFICES ASSUME r # <<>> PROVE r[1] # Pass!Zero
      OBVIOUS
    <2>1. Len(r) # 0
      BY <1>2
    <2>2. k >= 1 /\ s # <<>>
      BY <1>1, <1>2, <2>1
    <2> QED BY <1>1, <1>2, <2>2
  <1> QED BY <1>3, <1>4, <1>5 DEF Pass!SuffixPrefix, Letters, r

LEMMA StartsAreValid ==
    ASSUME NEW n \in Seq(Nat), Pass!ValidPrefix(n), Pass!PassAssumption, NEW k \in Nat, k <= Len(n)
    PROVE  Pass!ValidPrefix(SubSeq(n, 1, k))
  <1> DEFINE r == SubSeq(n, 1, k)
  <1>0. Len(n) \in Nat
    OBVIOUS
  <1>1. Len(r) = k /\ r \in Seq(Nat) /\ \A i \in 1 .. k : r[i] = n[i]
    OBVIOUS
  <1>2. CASE k = 0
    <2>1. r = <<>>
      BY <1>1, <1>2
    <2> QED BY <2>1 DEF Pass!ValidPrefix
  <1>3. CASE k >= 1 /\ n = <<>>
    BY <1>0, <1>3
  <1>4. CASE k >= 1 /\ Pass!Timestamp(n)
    <2>1. Pass!Timestamp(r)
      BY <1>4, TimestampStarts
    <2> QED BY <2>1 DEF Pass!ValidPrefix
  <1>5. ASSUME NEW m \in 1 .. Len(n) - 1, k >= 1, n[m + 1] = Pass!Dash,
               Pass!Timestamp(SubSeq(n, 1, m)), Pass!SuffixPrefix(SubSeq(n, m + 2, Len(n)))
        PROVE  Pass!ValidPrefix(r)
    <2> DEFINE head == SubSeq(n, 1, m)
    <2> DEFINE tail == SubSeq(n, m + 2, Len(n))
    <2>0. m \in Nat /\ m >= 1 /\ m + 1 <= Len(n)
      BY <1>0, <1>5
    <2>1. head \in Seq(Nat) /\ Len(head) = m /\ \A i \in 1 .. m : head[i] = n[i]
      BY <2>0
    <2>2. CASE k <= m
      <3>1. SubSeq(head, 1, k) = r
        <4>1. SubSeq(head, 1, k) = [i \in 1 .. k |-> head[i]]
          BY <2>1, <2>2
        <4>2. r = [i \in 1 .. k |-> n[i]]
          OBVIOUS
        <4>3. \A i \in 1 .. k : head[i] = n[i]
          BY <2>0, <2>1, <2>2
        <4> HIDE DEF head, r
        <4> QED BY <4>1, <4>2, <4>3
      <3>2. Pass!Timestamp(SubSeq(head, 1, k))
        <4> HIDE DEF r
        <4> QED BY <1>5, <2>1, <2>2, TimestampStarts
      <3> QED BY <3>1, <3>2 DEF Pass!ValidPrefix
    <2>3. CASE k > m
      <3>1. SubSeq(r, 1, m) = head
        <4>1. SubSeq(r, 1, m) = [i \in 1 .. m |-> r[i]]
          BY <1>1, <2>0, <2>3
        <4>2. head = [i \in 1 .. m |-> n[i]]
          BY <2>0
        <4>3. \A i \in 1 .. m : r[i] = n[i]
          BY <1>1, <2>0, <2>3
        <4> HIDE DEF head, r
        <4> QED BY <4>1, <4>2, <4>3
      <3>2. r[m + 1] = Pass!Dash
        <4>1. m + 1 \in 1 .. k
          BY <2>0, <2>3
        <4> QED BY <1>1, <1>5, <4>1
      <3>3. SubSeq(r, m + 2, Len(r)) = SubSeq(tail, 1, k - (m + 1))
        <4>1. k - (m + 1) \in Nat /\ k - (m + 1) <= Len(tail) /\ tail \in Seq(Nat)
              /\ Len(tail) = Len(n) - (m + 1)
          BY <1>0, <2>0, <2>3
        <4>2. \A i \in 1 .. k - (m + 1) : tail[i] = n[i + (m + 1)]
          BY <1>0, <2>0, <2>3
        <4>3. SubSeq(tail, 1, k - (m + 1)) = [i \in 1 .. k - (m + 1) |-> tail[i]]
          <5> HIDE DEF tail, r
          <5> QED BY <4>1
        <4>4. SubSeq(r, m + 2, Len(r)) = [i \in 1 .. k - (m + 1) |-> r[i + (m + 1)]]
          <5> HIDE DEF tail, r
          <5> QED BY <1>1, <2>0, <2>3
        <4>5. \A i \in 1 .. k - (m + 1) : r[i + (m + 1)] = n[i + (m + 1)]
          <5> SUFFICES ASSUME NEW i \in 1 .. k - (m + 1) PROVE r[i + (m + 1)] = n[i + (m + 1)]
            OBVIOUS
          <5>1. i + (m + 1) \in 1 .. k
            BY <2>0
          <5> HIDE DEF tail, r
          <5> QED BY <1>1, <5>1
        <4> HIDE DEF tail, r
        <4> QED BY <4>2, <4>3, <4>4, <4>5
      <3>4. Pass!SuffixPrefix(SubSeq(tail, 1, k - (m + 1)))
        <4>1. k - (m + 1) \in Nat /\ k - (m + 1) <= Len(tail) /\ tail \in Seq(Nat)
          BY <1>0, <2>0, <2>3
        <4> HIDE DEF tail
        <4> QED BY <1>5, <4>1, SuffixStarts DEF tail
      <3>5. Pass!SuffixPrefix(SubSeq(r, m + 2, Len(r)))
        <4> HIDE DEF tail, r
        <4> QED BY <3>3, <3>4
      <3>6. Pass!Timestamp(SubSeq(r, 1, m))
        <4> HIDE DEF r
        <4> QED BY <1>5, <3>1
      <3>7. m \in 1 .. Len(r) - 1
        <4> HIDE DEF r
        <4> QED BY <1>1, <2>0, <2>3
      <3> HIDE DEF r, tail, head
      <3> QED BY <3>2, <3>5, <3>6, <3>7 DEF Pass!ValidPrefix
    <2> QED BY <2>0, <2>2, <2>3
  <1> HIDE DEF r
  <1>6. CASE k >= 1
    <2>1. \/ n = <<>> \/ Pass!Timestamp(n)
          \/ \E m \in 1 .. Len(n) - 1 :
                /\ n[m + 1] = Pass!Dash
                /\ Pass!Timestamp(SubSeq(n, 1, m)) /\ Pass!SuffixPrefix(SubSeq(n, m + 2, Len(n)))
      BY DEF Pass!ValidPrefix
    <2> QED BY <1>3, <1>4, <1>5, <1>6, <2>1 DEF r
  <1> QED BY <1>2, <1>6 DEF r

\* The words that a word may go on with, and where a frontier advances.
Parent(p, k) == SubSeq(p, 1, k - 1)
Later(p, k) == Pass!Extensions(Parent(p, k), {c \in Letters : c > p[k]})
Levels(p) == {k \in 1 .. Len(p) : Later(p, k) # {}}

LEMMA AdvanceIs ==
    ASSUME NEW p
    PROVE  Pass!Advance(p) = IF Levels(p) = {} THEN Pass!None
                             ELSE Append(Parent(p, Pass!Max(Levels(p))),
                                         Pass!Min(Later(p, Pass!Max(Levels(p)))))
  BY DEF Pass!Advance, Levels, Later, Parent, Letters

LEMMA WordsOfNumbers ==
    ASSUME Pass!PassAssumption, NEW p \in Words
    PROVE  /\ p \in Seq(Nat) /\ Len(p) \in Nat
           /\ \A i \in 1 .. Len(p) : p[i] \in Letters /\ p[i] \in Nat
  <1>1. Letters \subseteq Nat
    BY LettersAreNumbers
  <1>2. Len(p) \in Nat /\ p = [i \in 1 .. Len(p) |-> p[i]] /\ \A i \in 1 .. Len(p) : p[i] \in Letters
    BY DEF Words
  <1>3. \A i \in 1 .. Len(p) : p[i] \in Nat
    BY <1>1, <1>2
  <1>4. [i \in 1 .. Len(p) |-> p[i]] \in Seq(Nat)
    BY <1>2, <1>3
  <1> QED BY <1>2, <1>3, <1>4

LEMMA BundlesAreWords ==
    ASSUME Pass!PassAssumption, NEW n \in Pass!Bundles
    PROVE  n \in Words /\ Pass!BundleName(n) /\ Pass!ValidPrefix(n)
  BY DEF Pass!PassAssumption, Pass!BundleName, Words, Letters

\* A bundle goes on with a letter that a region may be extended with.
LEMMA BundleExtends ==
    ASSUME Pass!PassAssumption, NEW n \in Pass!Bundles, NEW p \in Words, NEW k \in Nat,
           k >= 1, k <= Len(n), k - 1 <= Len(p), Agree(n, p, k - 1)
    PROVE  n[k] \in Letters /\ Pass!ValidPrefix(Append(Parent(p, k), n[k]))
  <1>1. n \in Words /\ Pass!ValidPrefix(n)
    BY BundlesAreWords
  <1>2. n \in Seq(Nat) /\ p \in Seq(Nat) /\ Len(n) \in Nat /\ Len(p) \in Nat /\ n[k] \in Letters
    BY <1>1, WordsOfNumbers
  <1>3. Pass!ValidPrefix(SubSeq(n, 1, k))
    BY <1>1, <1>2, StartsAreValid
  <1>4. k - 1 \in Nat /\ k - 1 <= Len(n)
    BY <1>2
  <1>5. SubSeq(n, 1, k - 1) = Parent(p, k)
    BY <1>2, <1>4, AgreeIs DEF Parent
  <1>6. SubSeq(n, 1, k) = Append(SubSeq(n, 1, k - 1), n[k])
    <2> DEFINE m == k - 1
    <2>1. m \in Nat /\ k = m + 1 /\ m + 1 <= Len(n)
      BY <1>2
    <2> HIDE DEF m
    <2>2. SubSeq(n, 1, m + 1) = Append(SubSeq(n, 1, m), n[m + 1])
      BY <1>2, <2>1
    <2>3. k - 1 = m
      BY <2>1
    <2> QED BY <2>1, <2>2, <2>3
  <1> QED BY <1>2, <1>3, <1>5, <1>6

\* The region after another leaves behind what that one left behind, and what it held.
LEMMA AdvanceLeaves ==
    ASSUME Pass!PassAssumption, NEW p \in Words
    PROVE  /\ Pass!Advance(p) = Pass!None \/ (Pass!Advance(p) \in Words /\ Pass!Advance(p) # <<>>)
           /\ \A n \in Pass!Bundles :
                Pass!Advance(p) = Pass!None \/ Pass!Before(n, Pass!Advance(p)) =>
                    Pass!Before(n, p) \/ Pass!IsPrefix(p, n)
  <1>0. p \in Seq(Nat) /\ Len(p) \in Nat /\ \A i \in 1 .. Len(p) : p[i] \in Letters /\ p[i] \in Nat
    BY WordsOfNumbers
  <1>1. Letters \subseteq Nat
    BY LettersAreNumbers
  <1> DEFINE level == Pass!Max(Levels(p))
  <1> DEFINE letter == Pass!Min(Later(p, level))
  <1> DEFINE q == Append(Parent(p, level), letter)
  <1>2. CASE Levels(p) # {}
    <2>1. level \in Levels(p) /\ \A k \in Levels(p) : k <= level
      <3>1. Levels(p) \in SUBSET (0 .. Len(p))
        BY <1>0 DEF Levels
      <3> QED BY <1>0, <1>2, <3>1, GreatestIs
    <2>2. level \in Nat /\ level >= 1 /\ level <= Len(p) /\ Later(p, level) # {}
      <3> HIDE DEF level
      <3> QED BY <1>0, <2>1 DEF Levels
    <2>3. Later(p, level) \subseteq Letters /\ \A c \in Later(p, level) : c > p[level]
      BY DEF Later, Pass!Extensions
    <2>4. letter \in Later(p, level) /\ \A c \in Later(p, level) : letter <= c
      <3>1. Later(p, level) \in SUBSET Nat
        BY <1>1, <2>3
      <3> QED BY <2>2, <3>1, LeastIs
    <2>5. Pass!Advance(p) = q
      BY <1>2, AdvanceIs
    <2> HIDE DEF level, letter
    <2>6. Parent(p, level) \in Words /\ Len(Parent(p, level)) = level - 1
          /\ \A i \in 1 .. level - 1 : Parent(p, level)[i] = p[i]
      BY <1>0, <2>2 DEF Parent, Words
    <2>7. letter \in Letters
      BY <2>3, <2>4
    <2>8. q \in Words /\ Len(q) = level /\ q[level] = letter /\ Agree(q, p, level - 1)
      BY <2>2, <2>6, <2>7 DEF Words, Agree
    <2> HIDE DEF q
    <2>9. q # <<>>
      BY <2>2, <2>8
    <2>10. q \in Seq(Nat)
      BY <2>8, WordsOfNumbers
    <2>11. ASSUME NEW n \in Pass!Bundles, ~Pass!Before(n, p), ~Pass!IsPrefix(p, n)
           PROVE  ~Pass!Before(n, q)
      <3>1. n \in Words /\ n \in Seq(Nat) /\ Len(n) \in Nat
        BY BundlesAreWords, WordsOfNumbers
      <3>2. PICK k \in Nat : Greater(n, p, k)
        BY <1>0, <2>11, <3>1, InOrder
      <3>3. /\ k >= 1 /\ k <= Len(n) /\ k <= Len(p) /\ n[k] > p[k] /\ Agree(n, p, k - 1)
            /\ k \in 1 .. Len(p) /\ k - 1 <= Len(p)
        BY <1>0, <3>2 DEF Greater
      <3>4. n[k] \in Letters /\ Pass!ValidPrefix(Append(Parent(p, k), n[k]))
        BY <3>3, BundleExtends
      <3>5. n[k] \in Later(p, k)
        BY <3>3, <3>4 DEF Later, Pass!Extensions
      <3>6. k \in Levels(p)
        BY <3>3, <3>5 DEF Levels
      <3>7. k <= level
        BY <2>1, <3>6
      <3>8. CASE k = level
        <4>1. letter <= n[k]
          BY <2>4, <3>5, <3>8
        <4>2. Agree(n, q, k - 1)
          BY <2>8, <3>3, <3>8 DEF Agree
        <4>3. CASE letter = n[k]
          <5>1. Agree(n, q, Len(q))
            <6> SUFFICES ASSUME NEW i \in 1 .. level PROVE n[i] = q[i]
              BY <2>8 DEF Agree
            <6>1. CASE i = level
              BY <2>8, <3>8, <4>3, <6>1
            <6>2. CASE i # level
              <7>1. i \in 1 .. k - 1
                BY <2>2, <3>8, <6>2
              <7> QED BY <4>2, <7>1 DEF Agree
            <6> QED BY <6>1, <6>2
          <5> QED BY <2>8, <2>10, <3>1, <3>3, <3>8, <5>1, ContinuationIsBehind
        <4>4. CASE letter # n[k]
          <5>1. n[k] > letter
            <6>1. n[k] \in Nat /\ letter \in Nat
              BY <1>1, <2>7, <3>4
            <6> QED BY <4>1, <4>4, <6>1
          <5>2. Greater(n, q, k)
            BY <2>8, <3>3, <3>8, <4>2, <5>1 DEF Greater
          <5> QED BY <2>10, <3>1, <5>2, GreaterIsBehind
        <4> QED BY <4>3, <4>4
      <3>9. CASE k < level
        <4>1. k \in 1 .. level - 1
          BY <2>2, <3>3, <3>9
        <4>2. q[k] = p[k]
          BY <2>8, <4>1 DEF Agree
        <4>3. Agree(n, q, k - 1)
          <5> SUFFICES ASSUME NEW i \in 1 .. k - 1 PROVE n[i] = q[i]
            BY DEF Agree
          <5>1. i \in 1 .. level - 1
            BY <2>2, <3>9
          <5> QED BY <2>8, <3>3, <5>1 DEF Agree
        <4>4. Greater(n, q, k)
          BY <2>2, <2>8, <3>3, <3>9, <4>2, <4>3 DEF Greater
        <4> QED BY <2>10, <3>1, <4>4, GreaterIsBehind
      <3> QED BY <2>2, <3>7, <3>8, <3>9
    <2>12. q # Pass!None
      <3>1. ASSUME q = Pass!None PROVE FALSE
        <4>1. q[1] = Digits + 1 /\ Len(q) = 1
          BY <3>1 DEF Pass!None
        <4>2. q[1] \in Letters
          BY <2>8, <4>1, WordsOfNumbers
        <4> QED BY <4>1, <4>2, LettersAreNumbers
      <3> QED BY <3>1
    <2> QED BY <2>5, <2>8, <2>9, <2>11, <2>12
  <1>3. CASE Levels(p) = {}
    <2>1. Pass!Advance(p) = Pass!None
      BY <1>3, AdvanceIs
    <2>2. ASSUME NEW n \in Pass!Bundles, ~Pass!Before(n, p), ~Pass!IsPrefix(p, n)
          PROVE  FALSE
      <3>1. n \in Words /\ n \in Seq(Nat) /\ Len(n) \in Nat
        BY BundlesAreWords, WordsOfNumbers
      <3>2. PICK k \in Nat : Greater(n, p, k)
        BY <1>0, <2>2, <3>1, InOrder
      <3>3. /\ k >= 1 /\ k <= Len(n) /\ k <= Len(p) /\ n[k] > p[k] /\ Agree(n, p, k - 1)
            /\ k \in 1 .. Len(p) /\ k - 1 <= Len(p)
        BY <1>0, <3>2 DEF Greater
      <3>4. n[k] \in Letters /\ Pass!ValidPrefix(Append(Parent(p, k), n[k]))
        BY <3>3, BundleExtends
      <3>5. n[k] \in Later(p, k)
        BY <3>3, <3>4 DEF Later, Pass!Extensions
      <3> QED BY <1>3, <3>3, <3>5 DEF Levels
    <2> QED BY <2>1, <2>2
  <1> QED BY <1>2, <1>3

\* Where a region is split, it leaves the name of the region behind.
LEMMA SplitLeaves ==
    ASSUME Pass!PassAssumption, NEW p \in Words
    PROVE  /\ Pass!Split(p) = Pass!None \/ (Pass!Split(p) \in Words /\ Pass!Split(p) # <<>>)
           /\ \A n \in Pass!Bundles :
                Pass!Split(p) = Pass!None \/ Pass!Before(n, Pass!Split(p)) =>
                    Pass!Before(n, p) \/ n = p
  <1>0. p \in Seq(Nat) /\ Len(p) \in Nat /\ \A i \in 1 .. Len(p) : p[i] \in Letters /\ p[i] \in Nat
    BY WordsOfNumbers
  <1>1. Letters \subseteq Nat
    BY LettersAreNumbers
  <1> DEFINE children == Pass!Extensions(p, Letters)
  <1> DEFINE letter == Pass!Min(children)
  <1> DEFINE q == Append(p, letter)
  <1>2. p = Parent(p, Len(p) + 1)
    <2>1. SubSeq(p, 1, Len(p)) = p
      BY <1>0
    <2>2. (Len(p) + 1) - 1 = Len(p)
      BY <1>0
    <2> QED BY <2>1, <2>2 DEF Parent
  <1>3. ASSUME NEW n \in Pass!Bundles, Pass!IsPrefix(p, n), n # p
        PROVE  /\ n[Len(p) + 1] \in children /\ Len(n) \in Nat /\ Len(n) >= Len(p) + 1
               /\ Agree(n, p, Len(p))
    <2>1. n \in Words /\ n \in Seq(Nat) /\ Len(n) \in Nat
      BY BundlesAreWords, WordsOfNumbers
    <2>2. Len(p) <= Len(n) /\ Agree(n, p, Len(p)) /\ Len(p) # Len(n)
      BY <1>0, <1>3, <2>1, PrefixIs
    <2> DEFINE k == Len(p) + 1
    <2>3. k \in Nat /\ k >= 1 /\ k - 1 = Len(p) /\ k - 1 <= Len(p) /\ k <= Len(n) /\ Len(p) + 1 <= Len(n)
      BY <1>0, <2>1, <2>2
    <2>4. Agree(n, p, k - 1)
      <3> HIDE DEF k
      <3> QED BY <2>2, <2>3
    <2> HIDE DEF k
    <2>5. n[k] \in Letters /\ Pass!ValidPrefix(Append(Parent(p, k), n[k]))
      BY <2>3, <2>4, BundleExtends
    <2>6. Parent(p, k) = p
      BY <1>2 DEF k
    <2>7. n[k] \in children
      BY <2>5, <2>6 DEF Pass!Extensions
    <2> HIDE DEF children
    <2> QED BY <2>1, <2>2, <2>3, <2>7 DEF k
  <1>4. CASE children # {}
    <2>1. children \in SUBSET Nat /\ children \subseteq Letters
      BY <1>1 DEF Pass!Extensions
    <2>2. letter \in children /\ \A c \in children : letter <= c
      BY <1>4, <2>1, LeastIs
    <2>3. Pass!Descend(p) = q
      BY <1>4 DEF Pass!Descend, Letters
    <2> HIDE DEF letter, children
    <2>4. letter \in Letters
      BY <2>1, <2>2
    <2>5. q \in Words /\ Len(q) = Len(p) + 1 /\ q[Len(p) + 1] = letter /\ Agree(q, p, Len(p))
      BY <1>0, <2>4 DEF Words, Agree
    <2> HIDE DEF q
    <2>6. q # <<>> /\ q \in Seq(Nat)
      BY <1>0, <2>5, WordsOfNumbers
    <2>7. q # Pass!None
      <3>1. ASSUME q = Pass!None PROVE FALSE
        <4>1. q[1] = Digits + 1 /\ Len(q) = 1
          BY <3>1 DEF Pass!None
        <4>2. q[1] \in Letters
          BY <2>5, <4>1, WordsOfNumbers
        <4> QED BY <4>1, <4>2, LettersAreNumbers
      <3> QED BY <3>1
    <2>8. Pass!Split(p) = q
      BY <2>3, <2>7 DEF Pass!Split, Pass!OrElse
    <2>9. ASSUME NEW n \in Pass!Bundles, ~Pass!Before(n, p), n # p
          PROVE  ~Pass!Before(n, q)
      <3>1. n \in Words /\ n \in Seq(Nat) /\ Len(n) \in Nat
        BY BundlesAreWords, WordsOfNumbers
      <3>2. CASE Pass!IsPrefix(p, n)
        <4>1. /\ n[Len(p) + 1] \in children /\ Len(n) >= Len(p) + 1 /\ Agree(n, p, Len(p))
          BY <1>3, <2>9, <3>2
        <4> DEFINE k == Len(p) + 1
        <4>2. k \in Nat /\ k >= 1 /\ k - 1 = Len(p) /\ k <= Len(n) /\ k <= Len(q) /\ Len(q) = k
          BY <1>0, <2>5, <3>1, <4>1
        <4>3. n[k] \in children /\ q[k] = letter /\ letter <= n[k] /\ n[k] \in Nat /\ letter \in Nat
          BY <2>1, <2>2, <2>5, <4>1
        <4> HIDE DEF k
        <4>4. Agree(n, q, k - 1)
          BY <2>5, <4>1, <4>2 DEF Agree
        <4>5. CASE n[k] = letter
          <5>1. Agree(n, q, Len(q))
            <6> SUFFICES ASSUME NEW i \in 1 .. k PROVE n[i] = q[i]
              BY <4>2 DEF Agree
            <6>1. CASE i = k
              BY <4>3, <4>5, <6>1
            <6>2. CASE i # k
              <7>1. i \in 1 .. k - 1
                BY <4>2, <6>2
              <7> QED BY <4>4, <7>1 DEF Agree
            <6> QED BY <6>1, <6>2
          <5> QED BY <2>6, <3>1, <4>2, <5>1, ContinuationIsBehind
        <4>6. CASE n[k] # letter
          <5>1. n[k] > q[k]
            BY <4>3, <4>6
          <5>2. Greater(n, q, k)
            BY <4>2, <4>4, <5>1 DEF Greater
          <5> QED BY <2>6, <3>1, <4>2, <5>2, GreaterIsBehind
        <4> QED BY <4>5, <4>6
      <3>3. CASE ~Pass!IsPrefix(p, n)
        <4>1. PICK k \in Nat : Greater(n, p, k)
          BY <1>0, <2>9, <3>1, <3>3, InOrder
        <4>2. k >= 1 /\ k <= Len(n) /\ k <= Len(p) /\ n[k] > p[k] /\ Agree(n, p, k - 1)
          BY <4>1 DEF Greater
        <4>3. k \in 1 .. Len(p) /\ k <= Len(q) /\ \A i \in 1 .. k - 1 : i \in 1 .. Len(p)
          BY <1>0, <2>5, <4>2
        <4>4. q[k] = p[k] /\ Agree(n, q, k - 1)
          BY <2>5, <4>2, <4>3 DEF Agree
        <4>5. Greater(n, q, k)
          BY <4>2, <4>3, <4>4 DEF Greater
        <4> QED BY <2>6, <3>1, <4>5, GreaterIsBehind
      <3> QED BY <3>2, <3>3
    <2>10. \A n \in Pass!Bundles : Pass!Before(n, q) => Pass!Before(n, p) \/ n = p
      BY <2>9
    <2> QED BY <2>5, <2>6, <2>7, <2>8, <2>10
  <1>5. CASE children = {}
    <2>1. Pass!Split(p) = Pass!Advance(p)
      BY <1>5 DEF Pass!Split, Pass!OrElse, Pass!Descend, Letters
    <2>2. \A n \in Pass!Bundles : Pass!IsPrefix(p, n) => n = p
      BY <1>3, <1>5
    <2> QED BY <2>1, <2>2, AdvanceLeaves
  <1> QED BY <1>4, <1>5

\* The root is the first frontier.
LEMMA RootIsFirst == ASSUME Pass!PassAssumption PROVE Behind(<<>>) = {}
  <1> SUFFICES ASSUME NEW n \in Pass!Bundles, Pass!Before(n, <<>>) PROVE FALSE
    BY DEF Behind
  <1>1. n \in Seq(Nat) /\ <<>> \in Seq(Nat) /\ Len(<<>>) = 0 /\ Len(n) \in Nat
    BY BundlesAreWords, WordsOfNumbers
  <1>2. Smaller(n, <<>>)
    BY <1>1, BeforeIs
  <1> QED BY <1>1, <1>2 DEF Smaller

\* A frontier after a region whose bundles were tried.
LEMMA FrontierGoes ==
    ASSUME Pass!PassAssumption, NEW p, p \in PassType, NEW q,
           q = Pass!None \/ q \in Words,
           \A n \in Pass!Bundles : q = Pass!None \/ Pass!Before(n, q) => n \in p.tried,
           q # Pass!None => q # <<>>
    PROVE  /\ Pass!At(q, p) \in PassType
           /\ Behind(Pass!At(q, p).prefix) \subseteq Pass!At(q, p).tried
           /\ Pass!LeftBehind(Pass!At(q, p).prefix) \subseteq p.tried
           /\ Pass!At(q, p).phase = p.phase /\ Pass!At(q, p).target = p.target
  <1>1. CASE q = Pass!None
    <2>1. Pass!At(q, p) = [p EXCEPT !.prefix = <<>>, !.tried = {}]
      BY <1>1 DEF Pass!At
    <2>2. <<>> \in Words
      BY DEF Words
    <2>3. Behind(<<>>) = {}
      BY RootIsFirst
    <2>4. Pass!LeftBehind(<<>>) = Pass!Bundles
      BY DEF Pass!LeftBehind
    <2>5. /\ Pass!At(q, p) \in PassType /\ Pass!At(q, p).prefix = <<>> /\ Pass!At(q, p).tried = {}
          /\ Pass!At(q, p).phase = p.phase /\ Pass!At(q, p).target = p.target
      BY <2>1, <2>2 DEF PassType
    <2> QED BY <1>1, <2>3, <2>4, <2>5
  <1>2. CASE q # Pass!None
    <2>1. Pass!At(q, p) = [p EXCEPT !.prefix = q]
      BY <1>2 DEF Pass!At
    <2>2. /\ Pass!At(q, p) \in PassType /\ Pass!At(q, p).prefix = q /\ Pass!At(q, p).tried = p.tried
          /\ Pass!At(q, p).phase = p.phase /\ Pass!At(q, p).target = p.target
      BY <1>2, <2>1 DEF PassType
    <2>3. Pass!LeftBehind(q) = Behind(q)
      BY <1>2 DEF Pass!LeftBehind, Behind
    <2>4. Behind(q) \subseteq p.tried
      BY DEF Behind
    <2> QED BY <2>2, <2>3, <2>4
  <1> QED BY <1>1, <1>2

\* A region is split, or is behind once its bundles were tried.
LEMMA SplitGoes ==
    ASSUME Pass!PassAssumption, NEW p, p \in PassType, Behind(p.prefix) \subseteq p.tried,
           p.prefix \in Pass!Bundles => p.prefix \in p.tried
    PROVE  /\ Pass!At(Pass!Split(p.prefix), p) \in PassType
           /\ Behind(Pass!At(Pass!Split(p.prefix), p).prefix)
                \subseteq Pass!At(Pass!Split(p.prefix), p).tried
           /\ Pass!LeftBehind(Pass!At(Pass!Split(p.prefix), p).prefix) \subseteq p.tried
           /\ Pass!At(Pass!Split(p.prefix), p).phase = p.phase
           /\ Pass!At(Pass!Split(p.prefix), p).target = p.target
  <1> DEFINE q == Pass!Split(p.prefix)
  <1>1. p.prefix \in Words
    BY DEF PassType
  <1>2. q = Pass!None \/ (q \in Words /\ q # <<>>)
    BY <1>1, SplitLeaves
  <1>3. \A n \in Pass!Bundles : q = Pass!None \/ Pass!Before(n, q) => n \in p.tried
    BY <1>1, SplitLeaves DEF Behind
  <1> HIDE DEF q
  <1>4. /\ Pass!At(q, p) \in PassType
        /\ Behind(Pass!At(q, p).prefix) \subseteq Pass!At(q, p).tried
        /\ Pass!LeftBehind(Pass!At(q, p).prefix) \subseteq p.tried
        /\ Pass!At(q, p).phase = p.phase /\ Pass!At(q, p).target = p.target
    BY <1>2, <1>3, FrontierGoes
  <1> QED BY <1>4 DEF q

LEMMA RegionGoes ==
    ASSUME Pass!PassAssumption, PassInvariant, pass.phase = "entries", pass.names = {}
    PROVE  /\ Pass!At(Pass!AfterRegion, pass) \in PassType
           /\ Behind(Pass!At(Pass!AfterRegion, pass).prefix)
                \subseteq Pass!At(Pass!AfterRegion, pass).tried
           /\ Pass!LeftBehind(Pass!At(Pass!AfterRegion, pass).prefix) \subseteq pass.tried
  <1> USE DEF PassInvariant
  <1>1. pass \in PassType /\ pass.prefix \in Words /\ Behind(pass.prefix) \subseteq pass.tried
        /\ (pass.prefix \in Pass!Bundles => pass.prefix \in pass.tried)
    BY DEF PassTypes, PassType, FrontierIsTried, RegionIsListed, InRegion
  <1>2. CASE ~pass.exhausted
    <2>1. Pass!AfterRegion = Pass!Split(pass.prefix)
      BY <1>2 DEF Pass!AfterRegion
    <2> QED BY <1>1, <2>1, SplitGoes
  <1>3. CASE pass.exhausted
    <2> DEFINE q == Pass!AfterRegion
    <2>1. q = Pass!Advance(pass.prefix)
      BY <1>3 DEF Pass!AfterRegion
    <2>2. q = Pass!None \/ (q \in Words /\ q # <<>>)
      BY <1>1, <2>1, AdvanceLeaves
    <2>3. \A n \in Pass!Bundles : Pass!IsPrefix(pass.prefix, n) => n \in pass.tried
      BY <1>1, <1>3 DEF RegionIsListed, InRegion
    <2>4. \A n \in Pass!Bundles : Pass!Before(n, pass.prefix) => n \in pass.tried
      BY <1>1 DEF Behind
    <2>5. \A n \in Pass!Bundles : q = Pass!None \/ Pass!Before(n, q) => n \in pass.tried
      BY <1>1, <2>1, <2>3, <2>4, AdvanceLeaves
    <2> HIDE DEF q
    <2>6. /\ Pass!At(q, pass) \in PassType
          /\ Behind(Pass!At(q, pass).prefix) \subseteq Pass!At(q, pass).tried
          /\ Pass!LeftBehind(Pass!At(q, pass).prefix) \subseteq pass.tried
      BY <1>1, <2>2, <2>5, FrontierGoes
    <2> QED BY <2>6 DEF q
  <1> QED BY <1>2, <1>3

-----------------------------------------------------------------------------
(* The steps of the recovery pass. *)

\* What the listing of a region says of it.
Stepped == [pass.phase \in {"attempt", "budget", "entries"} /\ pass'.phase \in {"top", "finish"}
            /\ (pass'.prefix # pass.prefix \/ (pass.phase = "entries" /\ pass.names = {}))
            => Pass!LeftBehind(pass'.prefix) \subseteq pass.tried]_passVars

LEMMA Nobody == ASSUME Pass!PassAssumption PROVE Pass!NoPass \in PassType /\ <<>> \in Words
  <1>1. Pass!None \in Seq(Nat)
    BY LettersAreNumbers DEF Pass!None
  <1> QED BY <1>1 DEF Pass!NoPass, PassType, Pass!Phases, Words

LEMMA PassStarts == Pass!PassAssumption /\ Pass!Init => PassInvariant
  <1> SUFFICES ASSUME Pass!PassAssumption, Pass!Init PROVE PassInvariant
    OBVIOUS
  <1>1. Behind(<<>>) = {}
    BY RootIsFirst
  <1>2. Pass!NoPass \in PassType /\ <<>> \in Words
    BY Nobody
  <1> QED BY <1>1, <1>2
          DEF Pass!Init, PassInvariant, PassTypes, FrontierIsTried, RegionIsListed, InRegion, Pass!NoPass

\* The pass ends and its locals are gone.
LEMMA PassEnds ==
    ASSUME Pass!PassAssumption, PassInvariant, pass' = Pass!NoPass,
           \/ UNCHANGED <<recovered, cursor, present>> /\ failures' \in Nat
           \/ Pass!Finish
    PROVE  PassInvariant' /\ Stepped
  <1> USE DEF PassInvariant
  <1>1. Behind(<<>>) = {}
    BY RootIsFirst
  <1>2. Pass!NoPass \in PassType /\ Pass!NoPass.prefix = <<>> /\ Pass!NoPass.phase = "off"
    BY Nobody DEF Pass!NoPass
  <1>3. cursor' = cursor \/ (cursor' = [prefix |-> pass.prefix, tried |-> pass.tried])
    BY DEF Pass!Finish
  <1>4. /\ cursor' \in [prefix : Words, tried : SUBSET Pass!Bundles]
        /\ Behind(cursor'.prefix) \subseteq cursor'.tried
    BY <1>3 DEF PassTypes, FrontierIsTried, PassType
  <1>5. recovered' = recovered /\ present' = present /\ failures' \in Nat
    BY DEF Pass!Finish, PassTypes
  <1>6. PassTypes'
    BY <1>2, <1>4, <1>5 DEF PassTypes
  <1>7. FrontierIsTried'
    BY <1>1, <1>2, <1>4 DEF FrontierIsTried
  <1>8. RegionIsListed'
    BY <1>2 DEF RegionIsListed, InRegion
  <1>9. Stepped
    BY <1>2 DEF Stepped
  <1> QED BY <1>6, <1>7, <1>8, <1>9

LEMMA PassBegins ==
    ASSUME Pass!PassAssumption, PassInvariant, Pass!Start
    PROVE  PassInvariant' /\ Stepped
  <1> USE DEF PassInvariant
  <1>1. Behind(<<>>) = {}
    BY RootIsFirst
  <1>2. Pass!NoPass \in PassType
    BY Nobody
  <1>3. failures' \in Nat /\ UNCHANGED <<recovered, cursor, present>> /\ pass.phase = "off"
    BY DEF Pass!Start, PassTypes
  <1>4. /\ pass' \in PassType /\ pass'.phase = "top"
        /\ Behind(pass'.prefix) \subseteq pass'.tried
    <2>1. CASE pass' = [Pass!NoPass EXCEPT !.phase = "top", !.hinted = TRUE,
                                           !.prefix = Pass!SavedFrontier.prefix,
                                           !.tried = Pass!SavedFrontier.tried]
      BY <1>2, <2>1 DEF Pass!SavedFrontier, PassTypes, PassType, FrontierIsTried, Pass!Phases
    <2>2. CASE pass' = Pass!To("top", Pass!NoPass)
      BY <1>1, <1>2, <2>2 DEF Pass!To, PassType, Pass!Phases, Pass!NoPass
    <2> QED BY <2>1, <2>2 DEF Pass!Start
  <1> HIDE DEF PassInvariant
  <1>5. PassTypes' /\ FrontierIsTried' /\ RegionIsListed' /\ Stepped
    BY <1>3, <1>4 DEF PassInvariant, PassTypes, FrontierIsTried, RegionIsListed, InRegion, Stepped
  <1> QED BY <1>5 DEF PassInvariant

LEMMA PassTops ==
    ASSUME Pass!PassAssumption, PassInvariant, Pass!Top
    PROVE  PassInvariant' /\ Stepped
  <1> USE DEF PassInvariant
  <1>1. UNCHANGED <<recovered, cursor, present, failures>> /\ pass.phase = "top" /\ pass \in PassType
    BY DEF Pass!Top, PassTypes
  <1>2. /\ pass' \in PassType /\ pass'.prefix = pass.prefix /\ pass'.tried = pass.tried
        /\ \/ pass'.phase = "finish"
           \/ pass'.phase = "budget" /\ pass.prefix \notin Pass!Bundles
           \/ pass'.phase = "attempt" /\ pass'.target = pass.prefix /\ pass.prefix \in Pass!Bundles
    <2>1. CASE pass' = Pass!To("finish", pass)
      BY <1>1, <2>1 DEF Pass!To, PassType, Pass!Phases
    <2>2. CASE pass' = Pass!To("finish", [pass EXCEPT !.idle = FALSE])
      BY <1>1, <2>2 DEF Pass!To, PassType, Pass!Phases
    <2>3. CASE ~Pass!BundleName(pass.prefix) /\ pass' = Pass!To("budget", pass)
      <3>1. pass.prefix \notin Pass!Bundles
        BY <2>3, BundlesAreWords
      <3> QED BY <1>1, <2>3, <3>1 DEF Pass!To, PassType, Pass!Phases
    <2> DEFINE counted == [pass EXCEPT !.inspected = @ + 1]
    <2>6. /\ counted \in PassType /\ counted.prefix = pass.prefix /\ counted.tried = pass.tried
      <3> HIDE DEF PassInvariant
      <3>1. pass.inspected + 1 \in Nat
        BY <1>1 DEF PassType
      <3> QED BY <1>1, <3>1 DEF PassType
    <2>4. CASE pass.prefix \in Pass!Bundles
               /\ pass' = Pass!To("attempt", [counted EXCEPT !.target = pass.prefix])
      <3>1. pass.prefix \in Seq(Nat)
        BY <1>1, WordsOfNumbers DEF PassType
      <3> HIDE DEF counted
      <3>2. [counted EXCEPT !.target = pass.prefix] \in PassType
        BY <2>6, <3>1 DEF PassType
      <3> QED BY <2>4, <2>6, <3>1, <3>2 DEF Pass!To, PassType, Pass!Phases
    <2>5. CASE pass.prefix \notin Pass!Bundles /\ pass' = Pass!To("budget", counted)
      <3> HIDE DEF counted
      <3> QED BY <2>5, <2>6 DEF Pass!To, PassType, Pass!Phases
    <2> QED BY <2>1, <2>2, <2>3, <2>4, <2>5 DEF Pass!Top
  <1> HIDE DEF PassInvariant
  <1>3. PassTypes' /\ FrontierIsTried' /\ RegionIsListed' /\ Stepped
    BY <1>1, <1>2
       DEF PassInvariant, PassTypes, FrontierIsTried, RegionIsListed, InRegion, Pass!Exact, Stepped
  <1> QED BY <1>3 DEF PassInvariant

\* A bundle gets its disposition, or the pass stops before it.
LEMMA SettledGoes ==
    ASSUME PassInvariant, pass.phase = "attempt", Pass!PassAssumption,
           NEW p, p \in PassType, p.prefix = pass.prefix, p.tried = pass.tried,
           p.names = pass.names, p.exhausted = pass.exhausted,
           UNCHANGED <<cursor, present>>, recovered' \subseteq Sound, failures' \in Nat,
           pass' = Pass!Settled(p)
    PROVE  PassInvariant' /\ Stepped
  <1> USE DEF PassInvariant
  <1> DEFINE next == [p EXCEPT !.tried = @ \cup {pass.target}, !.target = Pass!None]
  <1>1. pass.target \in Pass!Bundles /\ Pass!None \in Seq(Nat)
    BY LettersAreNumbers DEF RegionIsListed, Pass!None
  <1>2. /\ next \in PassType /\ next.prefix = pass.prefix /\ next.tried = pass.tried \cup {pass.target}
        /\ next.names = pass.names /\ next.exhausted = pass.exhausted
    BY <1>1 DEF PassType
  <1> HIDE DEF next
  <1>3. pass' = IF Pass!Exact THEN Pass!To("budget", next)
                ELSE Pass!To("entries", [next EXCEPT !.names = @ \ {pass.target}])
    BY DEF Pass!Settled, next
  <1>4. PassTypes' /\ FrontierIsTried' /\ Stepped
        /\ pass'.prefix = pass.prefix /\ pass'.tried = next.tried /\ pass'.exhausted = next.exhausted
    <2>1. /\ pass' \in PassType /\ pass'.prefix = next.prefix /\ pass'.tried = next.tried
          /\ pass'.phase \in {"budget", "entries"} /\ pass'.exhausted = next.exhausted
      <3>1. CASE Pass!Exact
        BY <1>2, <1>3, <3>1 DEF Pass!To, PassType, Pass!Phases
      <3>2. CASE ~Pass!Exact
        <4> DEFINE fewer == [next EXCEPT !.names = @ \ {pass.target}]
        <4>1. /\ fewer \in PassType /\ fewer.prefix = next.prefix /\ fewer.tried = next.tried
              /\ fewer.exhausted = next.exhausted
          BY <1>2 DEF PassType
        <4>2. pass' = Pass!To("entries", fewer)
          BY <1>3, <3>2
        <4> HIDE DEF fewer
        <4> QED BY <4>1, <4>2 DEF Pass!To, PassType, Pass!Phases
      <3> QED BY <3>1, <3>2
    <2> QED BY <1>2, <2>1 DEF PassTypes, FrontierIsTried, Stepped
  <1>5. CASE Pass!Exact
    <2>1. pass'.phase = "budget" /\ pass.prefix = pass.target
      BY <1>2, <1>3, <1>5 DEF Pass!To, PassType, Pass!Exact
    <2>2. RegionIsListed'
      BY <1>2, <1>4, <2>1 DEF RegionIsListed, InRegion
    <2> QED BY <1>4, <2>2
  <1>6. CASE ~Pass!Exact
    <2>1. pass'.phase = "entries" /\ pass'.names = pass.names \ {pass.target}
      BY <1>2, <1>3, <1>6 DEF Pass!To, PassType
    <2>2. RegionIsListed'
      BY <1>2, <1>4, <1>6, <2>1 DEF RegionIsListed, InRegion
    <2> QED BY <1>4, <2>2
  <1> QED BY <1>5, <1>6

LEMMA DeferredGoes ==
    ASSUME PassInvariant, pass.phase = "attempt", Pass!PassAssumption,
           NEW p, p \in PassType, p.prefix = pass.prefix, p.tried = pass.tried,
           UNCHANGED <<cursor, present, recovered, failures>>,
           pass' = Pass!Deferred(p)
    PROVE  PassInvariant' /\ Stepped
  <1> USE DEF PassInvariant
  <1> DEFINE next == [p EXCEPT !.target = Pass!None]
  <1>1. Pass!None \in Seq(Nat)
    BY LettersAreNumbers DEF Pass!None
  <1>2. /\ next \in PassType /\ next.prefix = pass.prefix /\ next.tried = pass.tried
    BY <1>1 DEF PassType
  <1> HIDE DEF next
  <1>3. pass' = Pass!To("finish", IF Pass!Exact THEN next ELSE Pass!At(Pass!Split(p.prefix), next))
    BY DEF Pass!Deferred, next
  <1>4. Behind(pass.prefix) \subseteq pass.tried
    BY DEF FrontierIsTried
  <1>5. /\ pass' \in PassType /\ pass'.phase = "finish" /\ Behind(pass'.prefix) \subseteq pass'.tried
        /\ pass'.prefix = pass.prefix \/ Pass!LeftBehind(pass'.prefix) \subseteq pass.tried
    <2>1. CASE Pass!Exact
      BY <1>2, <1>3, <1>4, <2>1 DEF Pass!To, PassType, Pass!Phases
    <2>2. CASE ~Pass!Exact
      <3> DEFINE after == Pass!At(Pass!Split(p.prefix), next)
      <3>1. pass.prefix \in Pass!Bundles => pass.prefix \in pass.tried
        BY <2>2 DEF RegionIsListed, InRegion
      <3>2. /\ after \in PassType /\ Behind(after.prefix) \subseteq after.tried
            /\ Pass!LeftBehind(after.prefix) \subseteq next.tried
        BY <1>2, <1>4, <3>1, SplitGoes
      <3>3. pass' = Pass!To("finish", after)
        BY <1>3, <2>2
      <3> HIDE DEF after
      <3> QED BY <1>2, <3>2, <3>3 DEF Pass!To, PassType, Pass!Phases
    <2> QED BY <2>1, <2>2
  <1> HIDE DEF PassInvariant
  <1>6. PassTypes' /\ FrontierIsTried' /\ RegionIsListed' /\ Stepped
    BY <1>5 DEF PassInvariant, PassTypes, FrontierIsTried, RegionIsListed, InRegion, Stepped
  <1> QED BY <1>6 DEF PassInvariant

LEMMA PassAttempts ==
    ASSUME Pass!PassAssumption, PassInvariant, Pass!Attempt
    PROVE  PassInvariant' /\ Stepped
  <1> DEFINE probing == [pass EXCEPT !.probes = @ + 1]
  <1> DEFINE busy == [pass EXCEPT !.idle = FALSE]
  <1>1. pass.phase = "attempt" /\ UNCHANGED <<cursor, present>> /\ pass \in PassType
        /\ recovered \subseteq Sound /\ failures \in Nat
    BY DEF Pass!Attempt, PassInvariant, PassTypes
  <1>2. /\ probing \in PassType /\ probing.prefix = pass.prefix /\ probing.tried = pass.tried
        /\ probing.names = pass.names /\ probing.exhausted = pass.exhausted
    BY <1>1 DEF PassType
  <1>3. /\ busy \in PassType /\ busy.prefix = pass.prefix /\ busy.tried = pass.tried
    BY <1>1 DEF PassType
  <1>4. recovered' \subseteq Sound /\ failures' \in Nat
    BY <1>1 DEF Pass!Attempt
  <1> HIDE DEF probing, busy
  <1>5. \/ pass' = Pass!Settled(pass) \/ pass' = Pass!Settled(probing)
        \/ pass' = Pass!Deferred(pass) /\ UNCHANGED <<recovered, failures>>
        \/ pass' = Pass!Deferred(busy) /\ UNCHANGED <<recovered, failures>>
    BY DEF Pass!Attempt, probing, busy
  <1>6. CASE pass' = Pass!Settled(pass)
    BY <1>1, <1>4, <1>6, SettledGoes
  <1>7. CASE pass' = Pass!Settled(probing)
    BY <1>1, <1>2, <1>4, <1>7, SettledGoes
  <1>8. CASE pass' = Pass!Deferred(pass) /\ UNCHANGED <<recovered, failures>>
    BY <1>1, <1>8, DeferredGoes
  <1>9. CASE pass' = Pass!Deferred(busy) /\ UNCHANGED <<recovered, failures>>
    BY <1>1, <1>3, <1>9, DeferredGoes
  <1> QED BY <1>5, <1>6, <1>7, <1>8, <1>9

\* What a search that did not stop early has not found is not there.
LEMMA FoundIsAll ==
    ASSUME Pass!PassAssumption, NEW p \in Words, NEW names, names \subseteq Pass!Matching(p),
           NEW limit \in Nat,
           Pass!Cardinality(names) = Pass!Min({limit, Pass!Cardinality(Pass!Matching(p))}),
           Pass!Cardinality(names) < limit
    PROVE  names = Pass!Matching(p)
  <1> DEFINE M == Pass!Matching(p)
  <1>1. \A S : Pass!Cardinality(S) = Cardinality(S)
    BY DEF Cardinality, Pass!Cardinality
  <1>2. \A S : Pass!IsFiniteSet(S) <=> IsFiniteSet(S)
    BY DEF IsFiniteSet, Pass!IsFiniteSet
  <1>3. IsFiniteSet(Pass!Entries) /\ M \subseteq Pass!Entries
    BY <1>2 DEF Pass!PassAssumption, Pass!Matching
  <1>4. IsFiniteSet(M)
    BY <1>3, FS_Subset
  <1> HIDE DEF M
  <1>5. names \subseteq M /\ IsFiniteSet(names) /\ Cardinality(names) \in Nat /\ Cardinality(M) \in Nat
    BY <1>4, FS_Subset, FS_CardinalityType DEF M
  <1>6. Pass!Min({limit, Cardinality(M)}) \in {limit, Cardinality(M)}
    <2>1. {limit, Cardinality(M)} \in SUBSET Nat /\ {limit, Cardinality(M)} # {}
      BY <1>5
    <2> QED BY <2>1, LeastIs
  <1>7. Cardinality(names) = Cardinality(M)
    BY <1>1, <1>5, <1>6 DEF M
  <1> QED BY <1>4, <1>5, <1>7, FS_Subset DEF M

LEMMA NamesAreCounted ==
    ASSUME Pass!PassAssumption, NEW p, NEW names \in SUBSET Pass!Matching(p)
    PROVE  Pass!Cardinality(names) \in Nat
  <1>1. Pass!Cardinality(names) = Cardinality(names)
    BY DEF Cardinality, Pass!Cardinality
  <1>2. Pass!IsFiniteSet(Pass!Entries) <=> IsFiniteSet(Pass!Entries)
    BY DEF IsFiniteSet, Pass!IsFiniteSet
  <1>3. IsFiniteSet(Pass!Entries) /\ names \subseteq Pass!Entries
    BY <1>2 DEF Pass!PassAssumption, Pass!Matching
  <1> QED BY <1>1, <1>3, FS_Subset, FS_CardinalityType

LEMMA PassSearches ==
    ASSUME Pass!PassAssumption, PassInvariant, Pass!Search
    PROVE  PassInvariant' /\ Stepped
  <1> DEFINE spent == pass.inspected = MaxEntries \/ pass.probes = MaxProbes \/ pass.late
  <1> DEFINE M == Pass!Matching(pass.prefix)
  <1> DEFINE Found(names, exhausted) ==
               [pass EXCEPT !.phase = "entries", !.searches = @ + 1,
                            !.inspected = @ + Pass!Cardinality(names),
                            !.names = (names \cap Pass!Bundles) \ {pass.prefix},
                            !.exhausted = exhausted]
  <1>1. pass.phase = "budget" /\ UNCHANGED <<recovered, cursor, present>> /\ pass \in PassType
        /\ pass.prefix \in Words /\ failures' \in Nat
    <2>1. pass \in PassType /\ failures \in Nat /\ pass.prefix \in Words
      BY DEF PassInvariant, PassTypes, PassType
    <2>2. pass.phase = "budget" /\ UNCHANGED <<recovered, cursor, present>>
          /\ failures' \in {failures, failures + 1}
      BY DEF Pass!Search
    <2> QED BY <2>1, <2>2
  <1>2. Behind(pass.prefix) \subseteq pass.tried
        /\ (pass.prefix \in Pass!Bundles => pass.prefix \in pass.tried)
    BY <1>1 DEF PassInvariant, FrontierIsTried, RegionIsListed
  <1>3. ASSUME NEW names \in SUBSET M, NEW exhausted \in BOOLEAN, NEW late \in BOOLEAN,
               pass' = [Found(names, exhausted) EXCEPT !.late = late],
               exhausted => names = M
        PROVE  PassInvariant' /\ Stepped
    <2>1. Pass!Cardinality(names) \in Nat
      BY NamesAreCounted
    <2>2. pass.searches + 1 \in Nat /\ pass.inspected + Pass!Cardinality(names) \in Nat
      BY <1>1, <2>1 DEF PassType
    <2> DEFINE listed == (names \cap Pass!Bundles) \ {pass.prefix}
    <2>3. Found(names, exhausted) \in PassType /\ Found(names, exhausted).phase = "entries"
          /\ Found(names, exhausted).prefix = pass.prefix /\ Found(names, exhausted).tried = pass.tried
          /\ Found(names, exhausted).names = listed /\ Found(names, exhausted).exhausted = exhausted
      BY <1>1, <2>2 DEF PassType, Pass!Phases
    <2> HIDE DEF Found
    <2>4. /\ pass' \in PassType /\ pass'.phase = "entries" /\ pass'.prefix = pass.prefix
          /\ pass'.tried = pass.tried /\ pass'.names = listed /\ pass'.exhausted = exhausted
      <3> HIDE DEF listed
      <3> QED BY <1>3, <2>3 DEF PassType
    <2>5. exhausted => \A n \in Pass!Bundles : Pass!IsPrefix(pass.prefix, n) /\ n # pass.prefix =>
                          n \in listed
      BY <1>3 DEF Pass!Matching, Pass!Entries
    <2>6. pass.prefix \notin listed
      OBVIOUS
    <2> HIDE DEF listed
    <2>7. PassTypes' /\ FrontierIsTried' /\ RegionIsListed' /\ Stepped
      BY <1>1, <1>2, <2>4, <2>5, <2>6
         DEF PassInvariant, PassTypes, FrontierIsTried, RegionIsListed, InRegion, Stepped
    <2> QED BY <2>7 DEF PassInvariant
  <1>4. CASE pass' = Pass!To("finish", Pass!At(Pass!Split(pass.prefix), pass))
    <2> DEFINE after == Pass!At(Pass!Split(pass.prefix), pass)
    <2>1. /\ after \in PassType /\ Behind(after.prefix) \subseteq after.tried
          /\ Pass!LeftBehind(after.prefix) \subseteq pass.tried
      BY <1>1, <1>2, SplitGoes
    <2> HIDE DEF after
    <2>2. /\ pass' \in PassType /\ pass'.phase = "finish" /\ pass'.prefix = after.prefix
          /\ pass'.tried = after.tried
      BY <1>4, <2>1 DEF Pass!To, PassType, Pass!Phases, after
    <2>3. PassTypes' /\ FrontierIsTried' /\ RegionIsListed' /\ Stepped
      BY <1>1, <2>1, <2>2
         DEF PassInvariant, PassTypes, FrontierIsTried, RegionIsListed, InRegion, Stepped
    <2> QED BY <2>3 DEF PassInvariant
  <1>5. CASE pass' = Pass!To("finish", [pass EXCEPT !.idle = FALSE])
    <2>1. /\ pass' \in PassType /\ pass'.phase = "finish" /\ pass'.prefix = pass.prefix
          /\ pass'.tried = pass.tried
      BY <1>1, <1>5 DEF Pass!To, PassType, Pass!Phases
    <2>2. PassTypes' /\ FrontierIsTried' /\ RegionIsListed' /\ Stepped
      BY <1>1, <1>2, <2>1
         DEF PassInvariant, PassTypes, FrontierIsTried, RegionIsListed, InRegion, Stepped
    <2> QED BY <2>2 DEF PassInvariant
  <1>6. ASSUME NEW names \in SUBSET M, ~spent,
               Pass!Cardinality(names) = Pass!Min({Pass!Limit, Pass!Cardinality(M)}),
               pass' = Found(names, Pass!Cardinality(names) < Pass!Limit)
        PROVE  PassInvariant' /\ Stepped
    <2> DEFINE exhausted == Pass!Cardinality(names) < Pass!Limit
    <2>1. exhausted \in BOOLEAN
      OBVIOUS
    <2>2. exhausted => names = M
      <3> SUFFICES ASSUME exhausted PROVE names = M
        OBVIOUS
      <3>1. Pass!Limit \in Int
        BY <1>1 DEF Pass!Limit, PassType, Pass!PassAssumption
      <3>2. Pass!Cardinality(names) \in Nat
        BY NamesAreCounted
      <3> DEFINE limit == Pass!Limit
      <3>3. limit \in Nat
        BY <3>1, <3>2
      <3> HIDE DEF limit, M
      <3>4. names \subseteq M /\ Pass!Cardinality(names) < limit
            /\ Pass!Cardinality(names) = Pass!Min({limit, Pass!Cardinality(M)})
        BY <1>6 DEF limit
      <3> QED BY <1>1, <3>3, <3>4, FoundIsAll DEF M
    <2>3. pass' = [Found(names, exhausted) EXCEPT !.late = pass.late]
      <3>1. pass.late \in BOOLEAN
        BY <1>1 DEF PassType
      <3> QED BY <1>1, <1>6, <3>1 DEF PassType
    <2>4. pass.late \in BOOLEAN
      BY <1>1 DEF PassType
    <2> HIDE DEF exhausted, Found, M
    <2> QED BY <1>3, <1>6, <2>1, <2>2, <2>3, <2>4
  <1>7. ASSUME NEW names \in SUBSET M, pass' = [Found(names, FALSE) EXCEPT !.late = TRUE]
        PROVE  PassInvariant' /\ Stepped
    <2> HIDE DEF Found, M
    <2> QED BY <1>3, <1>7
  <1>8. \/ pass' = Pass!To("finish", Pass!At(Pass!Split(pass.prefix), pass))
        \/ pass' = Pass!To("finish", [pass EXCEPT !.idle = FALSE])
        \/ ~spent /\ \E names \in SUBSET M :
              /\ Pass!Cardinality(names) = Pass!Min({Pass!Limit, Pass!Cardinality(M)})
              /\ pass' = Found(names, Pass!Cardinality(names) < Pass!Limit)
        \/ \E names \in SUBSET M : pass' = [Found(names, FALSE) EXCEPT !.late = TRUE]
    BY DEF Pass!Search
  <1> HIDE DEF spent, M, Found
  <1> QED BY <1>4, <1>5, <1>6, <1>7, <1>8

LEMMA PassLists ==
    ASSUME Pass!PassAssumption, PassInvariant, Pass!Listed
    PROVE  PassInvariant' /\ Stepped
  <1>1. pass.phase = "entries" /\ UNCHANGED <<recovered, cursor, present, failures>>
        /\ pass \in PassType /\ pass.prefix \in Words
    BY DEF Pass!Listed, PassInvariant, PassTypes, PassType
  <1>2. /\ Behind(pass.prefix) \subseteq pass.tried /\ pass.prefix \notin pass.names
        /\ (pass.prefix \in Pass!Bundles => pass.prefix \in pass.tried)
        /\ pass.exhausted =>
             \A n \in Pass!Bundles : Pass!IsPrefix(pass.prefix, n) /\ n # pass.prefix =>
               n \in pass.names \cup pass.tried
    BY <1>1 DEF PassInvariant, FrontierIsTried, RegionIsListed, InRegion
  <1>3. CASE pass' = Pass!To("finish", Pass!At(Pass!Split(pass.prefix), pass))
    <2> DEFINE after == Pass!At(Pass!Split(pass.prefix), pass)
    <2>1. /\ after \in PassType /\ Behind(after.prefix) \subseteq after.tried
          /\ Pass!LeftBehind(after.prefix) \subseteq pass.tried
      BY <1>1, <1>2, SplitGoes
    <2> HIDE DEF after
    <2>2. /\ pass' \in PassType /\ pass'.phase = "finish" /\ pass'.prefix = after.prefix
          /\ pass'.tried = after.tried
      BY <1>3, <2>1 DEF Pass!To, PassType, Pass!Phases, after
    <2>3. PassTypes' /\ FrontierIsTried' /\ RegionIsListed' /\ Stepped
      BY <1>1, <2>1, <2>2
         DEF PassInvariant, PassTypes, FrontierIsTried, RegionIsListed, InRegion, Stepped
    <2> QED BY <2>3 DEF PassInvariant
  <1>4. ASSUME NEW n \in pass.names, pass' = Pass!To("attempt", [pass EXCEPT !.target = n])
        PROVE  PassInvariant' /\ Stepped
    <2>1. n \in Pass!Bundles /\ n \in Seq(Nat) /\ n # pass.prefix
      <3>1. n \in Pass!Bundles
        BY <1>1 DEF PassType
      <3> QED BY <1>2, <3>1, BundlesAreWords, WordsOfNumbers
    <2> DEFINE aimed == [pass EXCEPT !.target = n]
    <2>2. /\ aimed \in PassType /\ aimed.target = n /\ aimed.prefix = pass.prefix
          /\ aimed.tried = pass.tried /\ aimed.names = pass.names /\ aimed.exhausted = pass.exhausted
      BY <1>1, <2>1 DEF PassType
    <2> HIDE DEF aimed
    <2>3. /\ pass' \in PassType /\ pass'.phase = "attempt" /\ pass'.target = n
          /\ pass'.prefix = pass.prefix /\ pass'.tried = pass.tried /\ pass'.names = pass.names
          /\ pass'.exhausted = pass.exhausted
      BY <1>4, <2>2 DEF Pass!To, PassType, Pass!Phases, aimed
    <2>4. PassTypes' /\ FrontierIsTried' /\ RegionIsListed' /\ Stepped
      BY <1>1, <1>2, <2>1, <2>3
         DEF PassInvariant, PassTypes, FrontierIsTried, RegionIsListed, InRegion, Stepped
    <2> QED BY <2>4 DEF PassInvariant
  <1>5. ASSUME NEW next \in {"finish", "top"}, pass.names = {},
               pass' = Pass!To(next, Pass!At(Pass!AfterRegion, pass))
        PROVE  PassInvariant' /\ Stepped
    <2> DEFINE after == Pass!At(Pass!AfterRegion, pass)
    <2>1. /\ after \in PassType /\ Behind(after.prefix) \subseteq after.tried
          /\ Pass!LeftBehind(after.prefix) \subseteq pass.tried
      BY <1>1, <1>5, RegionGoes
    <2> HIDE DEF after
    <2>2. /\ pass' \in PassType /\ pass'.phase \in {"finish", "top"} /\ pass'.prefix = after.prefix
          /\ pass'.tried = after.tried
      BY <1>5, <2>1 DEF Pass!To, PassType, Pass!Phases, after
    <2>3. PassTypes' /\ FrontierIsTried' /\ RegionIsListed' /\ Stepped
      BY <1>1, <2>1, <2>2
         DEF PassInvariant, PassTypes, FrontierIsTried, RegionIsListed, InRegion, Stepped
    <2> QED BY <2>3 DEF PassInvariant
  <1> QED BY <1>3, <1>4, <1>5 DEF Pass!Listed

LEMMA PassWaits ==
    ASSUME Pass!PassAssumption, PassInvariant,
           Pass!DeadlinePasses \/ Pass!LeagueAppears \/ Pass!LeagueEnds \/ UNCHANGED passVars
    PROVE  PassInvariant' /\ Stepped
  <1>1. /\ UNCHANGED <<recovered, cursor>> /\ present' \in BOOLEAN /\ failures' \in Nat
        /\ pass' = pass \/ pass' = [pass EXCEPT !.late = TRUE]
    <2>1. failures \in Nat /\ present \in BOOLEAN
      BY DEF PassInvariant, PassTypes
    <2>2. CASE Pass!DeadlinePasses
      BY <2>1, <2>2 DEF Pass!DeadlinePasses
    <2>3. CASE Pass!LeagueAppears
      BY <2>1, <2>3 DEF Pass!LeagueAppears
    <2>4. CASE Pass!LeagueEnds
      BY <2>1, <2>4 DEF Pass!LeagueEnds
    <2>5. CASE UNCHANGED passVars
      BY <2>1, <2>5 DEF passVars
    <2> QED BY <2>2, <2>3, <2>4, <2>5
  <1>2. pass \in PassType
    BY DEF PassInvariant, PassTypes
  <1>3. /\ pass' \in PassType /\ pass'.phase = pass.phase /\ pass'.target = pass.target
        /\ pass'.prefix = pass.prefix /\ pass'.tried = pass.tried /\ pass'.names = pass.names
        /\ pass'.exhausted = pass.exhausted
    BY <1>1, <1>2 DEF PassType
  <1>4. PassTypes' /\ FrontierIsTried' /\ RegionIsListed' /\ Stepped
    BY <1>1, <1>3
       DEF PassInvariant, PassTypes, FrontierIsTried, RegionIsListed, InRegion, Pass!Exact, Stepped
  <1> QED BY <1>4 DEF PassInvariant

LEMMA PassKeeps ==
    ASSUME Pass!PassAssumption, PassInvariant, [Pass!Next]_passVars
    PROVE  PassInvariant' /\ Stepped
  <1>1. CASE Pass!Crash
    <2>1. pass' = Pass!NoPass /\ UNCHANGED <<recovered, cursor, present>> /\ failures' \in Nat
      BY <1>1 DEF Pass!Crash, PassInvariant, PassTypes
    <2> QED BY <2>1, PassEnds
  <1>2. CASE Pass!Finish
    BY <1>2, PassEnds DEF Pass!Finish
  <1> QED BY <1>1, <1>2, PassBegins, PassTops, PassAttempts, PassSearches, PassLists, PassWaits
          DEF Pass!Next, Pass!Maintenance

\* Whatever the listing order, the budgets, crashes and games, the frontier of the
\* recovery pass (run in recovery.rs, descend and advance in discovery.rs) only leaves
\* bundles behind whose turn has come since the sweep began, for any number of digits,
\* names, entries, searches, probes and failures.
THEOREM Sweep == PublicationSpec => NothingIsSkipped
  <1> DEFINE allVars == <<part, vars, passVars>>
  <1>1. PublicationInit => PassInvariant
    BY DirectoryAssumption, PassStarts DEF PublicationInit
  <1>2. ASSUME [PublicationNext]_allVars PROVE [Pass!Next]_passVars
    <2>1. passVars' = passVars \/ Pass!Next
      BY <1>2 DEF PublicationNext
    <2> QED BY <2>1
  <1>3. PassInvariant /\ [PublicationNext]_allVars => PassInvariant' /\ Stepped
    BY <1>2, DirectoryAssumption, PassKeeps
  <1>4. PublicationSpec => PublicationInit /\ [][PublicationNext]_allVars
    BY PTL DEF PublicationSpec
  <1> HIDE DEF allVars
  <1>5. PassInvariant /\ [PublicationNext]_allVars => Stepped
    BY <1>3
  <1>6. PassInvariant /\ [PublicationNext]_allVars => PassInvariant'
    BY <1>3
  <1>7. PublicationSpec => []PassInvariant /\ [][PublicationNext]_allVars
    BY <1>1, <1>4, <1>6, PTL
  <1> QED BY <1>5, <1>7, PTL DEF NothingIsSkipped, Pass!NothingIsSkipped, Stepped, passVars, Pass!vars
=============================================================================
