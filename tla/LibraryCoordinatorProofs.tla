----------------------- MODULE LibraryCoordinatorProofs -----------------------
(***************************************************************************)
(* Theorems about LibraryCoordinator for every choice of roots, games,     *)
(* clips and calls: types, that what is selected is published and served,  *)
(* that the coordinator implements LibraryAuthority, that answers are of   *)
(* one revision, and that selections, caches and subtotals are fresh.      *)
(*                                                                         *)
(* The last four rest on one inductive invariant of revisions, tokens and  *)
(* flags (Governed).  The steps of Next fall into a few classes by what    *)
(* they do to the publication and to one call (Classes); each rule of the  *)
(* invariant is shown to be kept by each class and not by each of the      *)
(* forty actions.  Files and subtotals (Filed, Counted) are added to it.   *)
(***************************************************************************)
EXTENDS LibraryCoordinator, FiniteSetTheorems, TLAPS

\* A retired call is a well-formed record.
LEMMA IdleCallType == IdleCall \in Call
<1>1. (CHOOSE r \in Roots : TRUE) \in Roots
  BY CoordinatorAssumption
<1>2. (CHOOSE i \in Items : TRUE) \in Items
  BY CoordinatorAssumption DEF Items
<1>3. NoView \in Views
  BY DEF NoView, Views, ItemState
<1> QED
  BY <1>1, <1>2, <1>3
  DEF IdleCall, Call, AllKinds, Phases, MutationOps

\* An archive total is a number.
LEMMA ArchiveCountType ==
  ASSUME NEW root PROVE ArchiveCount(root) \in Nat
<1> DEFINE kept == {g \in Games : archived[root][g] # "absent"}
<1>1. IsFiniteSet(kept)
  BY CoordinatorAssumption, FS_Subset
<1> QED
  BY <1>1, FS_CardinalityType DEF ArchiveCount

\* Replacing one call by a well-formed one keeps the calls well-formed.
LEMMA BecomeType ==
  ASSUME calls \in [Calls -> Call], NEW c \in Calls, NEW call \in Call
  PROVE  /\ Update(c, call) \in [Calls -> Call]
         /\ Become(c, call) => calls' \in [Calls -> Call]
BY DEF Become, Update

\* A step of a call keeps it well-formed.
LEMMA StepType ==
  ASSUME calls \in [Calls -> Call], NEW c \in Calls, NEW phase \in Phases,
         Step(c, phase)
  PROVE  calls' \in [Calls -> Call]
<1>1. [calls[c] EXCEPT !.phase = phase] \in Call
  BY DEF Call
<1> QED
  BY <1>1, BecomeType DEF Step

\* An ended call is well-formed.
LEMMA EndedType ==
  ASSUME calls \in [Calls -> Call], NEW c \in Calls, NEW success \in BOOLEAN
  PROVE  Ended(c, success) \in Call
<1>1. calls[c].waiting \in BOOLEAN
  BY DEF Call
<1>2. (success /\ calls[c].waiting) \in BOOLEAN
  BY <1>1
<1> QED
  BY <1>2, IdleCallType DEF Ended, Call

\* A captured call is well-formed.
LEMMA CapturedType ==
  ASSUME TypeOK, NEW kind \in AllKinds, NEW phase \in Phases,
         NEW op \in MutationOps, NEW item \in Items
  PROVE  /\ Captured(kind, phase, op, item) \in Call
         /\ CapturedRead(kind, phase) \in Call
<1>1. NoView \in Views
  BY DEF NoView, Views, ItemState
<1>2. IdleCall.op \in MutationOps /\ IdleCall.item \in Items
  BY IdleCallType DEF Call
<1> QED
  BY <1>1, <1>2 DEF Captured, CapturedRead, Call, TypeOK

\* Invalidation keeps the types of what it assigns.
LEMMA InvalidateType ==
  ASSUME TypeOK, NEW cs \in [Calls -> Call], NEW next \in Calls \cup {NoCall},
         InvalidateWith(cs, next)
  PROVE  /\ revision' \in Nat /\ selected' \in Nat
         /\ durations' \subseteq Items
         /\ activeCancel' \in Calls \cup {NoCall}
         /\ durationCancel' \in Calls \cup {NoCall}
         /\ calls' \in [Calls -> Call]
<1>1. ASSUME NEW d \in Calls
      PROVE  [cs[d] EXCEPT !.cancelled = TRUE] \in Call
  BY DEF Call
<1> QED
  BY <1>1 DEF InvalidateWith, TypeOK

\* The steps of a refresh keep the types.
LEMMA RefreshTypes ==
  ASSUME TypeOK, NEW c \in Calls,
         \/ RefreshAdmit(c) \/ RefreshScan(c) \/ RefreshArchiveBegin(c)
         \/ RefreshArchiveCheck(c) \/ RefreshArchiveMove(c)
         \/ RefreshArchiveEnd(c) \/ RefreshFinish(c)
         \/ RefreshPublish(c) \/ RefreshReject(c)
  PROVE  TypeOK'
<1>0. /\ calls \in [Calls -> Call] /\ calls[c] \in Call
      /\ calls[c].root \in Roots /\ calls[c].view \in Views
      /\ calls[c].count \in Nat /\ calls[c].token \in Nat
      /\ calls[c].item \in Items
  BY DEF TypeOK, Call
<1>1. CASE RefreshAdmit(c)
  <2> DEFINE call == [CapturedRead("refresh", "admitted") EXCEPT
                        !.token = tokens + 1, !.rev = revision + 1]
  <2>1. call \in Call
    <3>1. IdleCall.op \in MutationOps /\ IdleCall.item \in Items
      BY IdleCallType DEF Call
    <3>2. "refresh" \in AllKinds /\ "admitted" \in Phases
      BY DEF AllKinds, Phases
    <3>3. CapturedRead("refresh", "admitted") \in Call
      BY <3>1, <3>2, CapturedType
    <3>4. tokens + 1 \in Nat /\ revision + 1 \in Nat
      BY DEF TypeOK
    <3> QED
      BY <3>3, <3>4 DEF Call
  <2>2. Update(c, call) \in [Calls -> Call]
    BY <1>0, <2>1, BecomeType
  <2> HIDE DEF call
  <2>3. InvalidateWith(Update(c, call), c)
    BY <1>1 DEF RefreshAdmit, call
  <2> QED
    BY <1>1, <2>2, <2>3, InvalidateType DEF RefreshAdmit, TypeOK, files
<1>2. CASE RefreshScan(c)
  <2>1. [calls[c] EXCEPT !.phase = "scanned", !.view = disk[calls[c].root]]
          \in Call
    BY <1>0 DEF TypeOK, Call, Phases
  <2>2. calls' \in [Calls -> Call]
    BY <1>0, <1>2, <2>1, BecomeType, StepType DEF RefreshScan, Phases
  <2> QED
    BY <1>2, <2>2 DEF RefreshScan, TypeOK, files, publication
<1>3. CASE RefreshArchiveBegin(c)
  <2>1. calls' \in [Calls -> Call]
    BY <1>0, <1>3, StepType DEF RefreshArchiveBegin, Phases
  <2> QED
    BY <1>3, <2>1 DEF RefreshArchiveBegin, TypeOK, files, publication
<1>4. CASE RefreshArchiveCheck(c)
  <2>1. PICK g \in Games :
          Become(c, [calls[c] EXCEPT !.phase = "moving", !.item = g])
    BY <1>4, CoordinatorAssumption DEF RefreshArchiveCheck, UnmatchedIn
  <2>2. [calls[c] EXCEPT !.phase = "moving", !.item = g] \in Call
    BY <1>0 DEF Call, Phases, Items
  <2>3. calls' \in [Calls -> Call]
    BY <1>0, <2>1, <2>2, BecomeType
  <2> QED
    BY <1>4, <2>3 DEF RefreshArchiveCheck, TypeOK, files, publication
<1>5. CASE RefreshArchiveMove(c)
  <2> DEFINE game == calls[c].item
             view == [calls[c].view EXCEPT ![game] = "absent"]
  <2>1. view \in Views
    <3>1. "absent" \in ItemState
      BY DEF ItemState
    <3> QED
      BY <1>0, <3>1 DEF Views
  <2>2. [calls[c] EXCEPT !.phase = "archiving", !.count = calls[c].count + 1,
                         !.view = view] \in Call
    <3> HIDE DEF view
    <3>1. "archiving" \in Phases /\ calls[c].count + 1 \in Nat
      BY <1>0 DEF Phases
    <3> QED
      BY <1>0, <2>1, <3>1 DEF Call
  <2>3. Become(c, [calls[c] EXCEPT !.phase = "archiving",
                                   !.count = calls[c].count + 1,
                                   !.view = view])
    BY <1>5 DEF RefreshArchiveMove
  <2>4. calls' \in [Calls -> Call]
    BY <1>0, <2>2, <2>3, BecomeType
  <2>5. disk' \in [Roots -> Views] /\ archived' \in [Roots -> [Games -> ItemState]]
    <3>1. "absent" \in ItemState /\ disk[calls[c].root][game] \in ItemState
      BY <1>0 DEF TypeOK, Views, ItemState
    <3>2. [disk[calls[c].root] EXCEPT ![game] = "absent"] \in Views
      BY <1>0, <3>1 DEF TypeOK, Views
    <3>3. disk' \in [Roots -> Views]
      BY <1>0, <1>5, <3>2 DEF RefreshArchiveMove, TypeOK
    <3>4. [archived[calls[c].root] EXCEPT ![game] = disk[calls[c].root][game]]
            \in [Games -> ItemState]
      BY <1>0, <3>1 DEF TypeOK
    <3>5. archived' \in [Roots -> [Games -> ItemState]]
      BY <1>0, <1>5, <3>4 DEF RefreshArchiveMove, TypeOK
    <3> QED
      BY <3>3, <3>5
  <2>6. moved' \in [Roots -> Nat]
    BY <1>0, <1>5 DEF RefreshArchiveMove, TypeOK
  <2> QED
    BY <1>5, <2>4, <2>5, <2>6 DEF RefreshArchiveMove, TypeOK, publication
<1>6. CASE RefreshArchiveEnd(c)
  <2>1. calls' \in [Calls -> Call]
    BY <1>0, <1>6, StepType DEF RefreshArchiveEnd, Phases
  <2> QED
    BY <1>6, <2>1 DEF RefreshArchiveEnd, TypeOK, files, publication
<1>7. CASE RefreshFinish(c)
  <2> DEFINE view == [i \in Items |-> IF i \in Clips
                                       THEN disk[calls[c].root][i]
                                       ELSE calls[c].view[i]]
  <2>1. view \in Views
    BY <1>0 DEF Views, TypeOK
  <2>2. [calls[c] EXCEPT !.phase = "done", !.view = view] \in Call
    BY <1>0, <2>1 DEF Call, Phases
  <2>3. calls' \in [Calls -> Call]
    BY <1>0, <1>7, <2>2, BecomeType, StepType DEF RefreshFinish, Phases
  <2> QED
    BY <1>7, <2>3 DEF RefreshFinish, TypeOK, files, publication
<1>8. CASE RefreshPublish(c)
  <2>1. calls' \in [Calls -> Call]
    BY <1>0, <1>8, EndedType, BecomeType DEF RefreshPublish, Answer
  <2> QED
    BY <1>0, <1>8, <2>1 DEF RefreshPublish, TypeOK, files
<1>9. CASE RefreshReject(c)
  <2>1. calls' \in [Calls -> Call]
    BY <1>0, <1>9, EndedType, BecomeType DEF RefreshReject, Returns, Answer
  <2> QED
    BY <1>9, <2>1 DEF RefreshReject, Returns, Forget, TypeOK, files
<1> QED
  BY <1>1, <1>2, <1>3, <1>4, <1>5, <1>6, <1>7, <1>8, <1>9

\* The steps of reads and duration batches keep the types.
LEMMA ReadTypes ==
  ASSUME TypeOK, NEW c \in Calls,
         \/ \E kind \in Readers, selection \in Games \cup {"library"} :
                ReadAdmit(c, kind, selection)
         \/ \E clip \in Clips : DurationAdmit(c, clip)
         \/ IndexLoad(c) \/ IndexLoadSuperseded(c) \/ IndexBuild(c)
         \/ IndexRecheck(c) \/ PlainRead(c) \/ ReadAnswer(c)
         \/ DurationRegister(c) \/ DurationProbe(c) \/ DurationAnswer(c)
  PROVE  TypeOK'
<1>0. /\ calls \in [Calls -> Call] /\ calls[c] \in Call
      /\ calls[c].root \in Roots /\ calls[c].count \in Nat
      /\ calls[c].item \in Items
  BY DEF TypeOK, Call
<1>1. IdleCall.op \in MutationOps /\ IdleCall.item \in Items
  BY IdleCallType DEF Call
<1>2. CASE \E kind \in Readers, selection \in Games \cup {"library"} :
              ReadAdmit(c, kind, selection)
  <2>1. PICK kind \in Readers, selection \in Games \cup {"library"} :
          ReadAdmit(c, kind, selection)
    BY <1>2
  <2> DEFINE phase == IF kind \in IndexKinds THEN "captured" ELSE "admitted"
  <2>2. kind \in AllKinds /\ phase \in Phases
    BY DEF Readers, AllKinds, Phases
  <2>3. CapturedRead(kind, phase) \in Call
    BY <1>1, <2>2, CapturedType
  <2>4. calls' \in [Calls -> Call]
    BY <1>0, <2>1, <2>3, BecomeType DEF ReadAdmit
  <2> QED
    BY <2>1, <2>4 DEF ReadAdmit, TypeOK, files, publication
<1>3. CASE \E clip \in Clips : DurationAdmit(c, clip)
  <2>1. PICK clip \in Clips : DurationAdmit(c, clip)
    BY <1>3
  <2>2. /\ "durations" \in AllKinds /\ "captured" \in Phases
        /\ clip \in Items
    BY DEF AllKinds, Phases, Items
  <2>3. Captured("durations", "captured", IdleCall.op, clip) \in Call
    BY <1>1, <2>2, CapturedType
  <2>4. calls' \in [Calls -> Call]
    BY <1>0, <2>1, <2>3, BecomeType DEF DurationAdmit
  <2> QED
    BY <2>1, <2>4 DEF DurationAdmit, TypeOK, files, publication
<1>4. CASE IndexLoad(c)
  <2>1. [calls[c] EXCEPT !.phase = "admitted", !.view = current.view] \in Call
    BY <1>0 DEF TypeOK, Call, Phases
  <2>2. calls' \in [Calls -> Call]
    BY <1>0, <1>4, <2>1, BecomeType DEF IndexLoad
  <2> QED
    BY <1>4, <2>2 DEF IndexLoad, TypeOK, files, publication
<1>5. CASE IndexLoadSuperseded(c)
  <2>1. calls' \in [Calls -> Call]
    BY <1>0, <1>5, EndedType, BecomeType DEF IndexLoadSuperseded, Returns, Answer
  <2> QED
    BY <1>5, <2>1 DEF IndexLoadSuperseded, Returns, Forget, TypeOK, files
<1>6. CASE IndexBuild(c)
  <2>1. calls' \in [Calls -> Call]
    BY <1>0, <1>6, StepType DEF IndexBuild, Phases
  <2> QED
    BY <1>6, <2>1 DEF IndexBuild, TypeOK, files, publication
<1>7. CASE IndexRecheck(c)
  <2>1. calls' \in [Calls -> Call]
    BY <1>0, <1>7, StepType DEF IndexRecheck, Phases
  <2> QED
    BY <1>7, <2>1 DEF IndexRecheck, TypeOK, files, publication
<1>8. CASE PlainRead(c)
  <2>1. [calls[c] EXCEPT !.phase = "done",
                         !.count = ArchiveCount(calls[c].root)] \in Call
    BY <1>0, ArchiveCountType DEF Call, Phases
  <2>2. calls' \in [Calls -> Call]
    BY <1>0, <1>8, <2>1, BecomeType, StepType DEF PlainRead, Phases
  <2> QED
    BY <1>8, <2>2 DEF PlainRead, TypeOK, files, publication
<1>9. CASE ReadAnswer(c)
  <2> DEFINE success == /\ calls[c].phase = "done" /\ calls[c].waiting
                        /\ StillCurrent(c)
  <2>1. success \in BOOLEAN
    OBVIOUS
  <2>2. /\ Returns(c, success)
        /\ archivedUsage' = IF success /\ calls[c].kind = "usage"
                            THEN calls[c].count ELSE archivedUsage
        /\ UNCHANGED <<files, output, revision, rootEpoch, selected, current,
                       durations, closed, tokens>>
    BY <1>9 DEF ReadAnswer
  <2> HIDE DEF success
  <2>3. calls' \in [Calls -> Call]
    BY <1>0, <2>1, <2>2, EndedType, BecomeType DEF Returns, Answer
  <2> QED
    BY <1>0, <2>2, <2>3 DEF Returns, Forget, TypeOK, files
<1>10. CASE DurationRegister(c)
  <2>1. [calls[c] EXCEPT !.phase = "admitted", !.rev = revision] \in Call
    BY <1>0 DEF TypeOK, Call, Phases
  <2>2. calls' \in [Calls -> Call]
    BY <1>0, <1>10, <2>1, EndedType, BecomeType
    DEF DurationRegister, Returns, Answer
  <2> QED
    BY <1>10, <2>2 DEF DurationRegister, Returns, Forget, TypeOK, files
<1>11. CASE DurationProbe(c)
  <2>1. (IF calls[c].cancelled THEN 0 ELSE 1) \in Nat
    OBVIOUS
  <2>2. [calls[c] EXCEPT !.phase = "done",
                         !.count = IF calls[c].cancelled THEN 0 ELSE 1] \in Call
    BY <1>0, <2>1 DEF Call, Phases
  <2>3. calls' \in [Calls -> Call]
    BY <1>0, <1>11, <2>2, BecomeType DEF DurationProbe
  <2> QED
    BY <1>11, <2>3 DEF DurationProbe, TypeOK, files, publication
<1>12. CASE DurationAnswer(c)
  <2> DEFINE success == /\ calls[c].waiting /\ ~closed
                        /\ revision = calls[c].rev /\ ~calls[c].cancelled
                        /\ selected = calls[c].token
  <2>1. success \in BOOLEAN
    OBVIOUS
  <2>2. /\ Returns(c, success)
        /\ durations' = IF success /\ calls[c].count = 1
                        THEN durations \cup {calls[c].item} ELSE durations
        /\ UNCHANGED <<files, output, revision, rootEpoch, selected, current,
                       archivedUsage, closed, tokens>>
    BY <1>12 DEF DurationAnswer
  <2> HIDE DEF success
  <2>3. calls' \in [Calls -> Call]
    BY <1>0, <2>1, <2>2, EndedType, BecomeType DEF Returns, Answer
  <2> QED
    BY <1>0, <2>2, <2>3 DEF Returns, Forget, TypeOK, files
<1> QED
  BY <1>2, <1>3, <1>4, <1>5, <1>6, <1>7, <1>8, <1>9, <1>10, <1>11, <1>12

\* What retention leaves is a listing of the same collection.
LEMMA ExpiredType ==
  /\ \A before \in Views : Expired(before) \subseteq Views
  /\ \A before \in [Games -> ItemState] :
        Expired(before) \subseteq [Games -> ItemState]
<1>1. "absent" \in ItemState
  BY DEF ItemState
<1> QED
  BY <1>1 DEF Expired, Views

\* Whatever a mutation does, the root holds items in known states.
LEMMA EffectsType ==
  ASSUME NEW op \in MutationOps, NEW item \in Items, NEW before \in Views
  PROVE  Effects(op, item, before) \subseteq Views
<1>1. /\ [before EXCEPT ![item] = "saved"] \in Views
      /\ [before EXCEPT ![item] = "unsaved"] \in Views
      /\ [before EXCEPT ![item] = "absent"] \in Views
  BY DEF Views, ItemState
<1>2. CASE op = "save"
  BY <1>1, <1>2 DEF Effects
<1>3. CASE op = "unsave"
  BY <1>1, <1>3 DEF Effects
<1>4. CASE op \in {"deleteGame", "deleteClip"}
  BY <1>1, <1>4 DEF Effects
<1>5. CASE op = "retention"
  BY <1>5, ExpiredType DEF Effects
<1> QED
  BY <1>2, <1>3, <1>4, <1>5 DEF MutationOps

\* Publishing a root keeps the types.
LEMMA PublishRootTypes ==
  ASSUME TypeOK, NEW root \in Roots, NEW cs \in [Calls -> Call],
         PublishRoot(root, cs)
  PROVE  TypeOK'
<1>1. InvalidateWith(cs, NoCall)
  BY DEF PublishRoot
<1>2. current' \in [root : Roots, token : Nat, view : Views]
  BY DEF PublishRoot, TypeOK
<1> QED
  BY <1>1, <1>2, InvalidateType DEF PublishRoot, TypeOK, files

\* The steps of mutations, exports and settings keep the types.
LEMMA MutationTypes ==
  ASSUME TypeOK, NEW c \in Calls,
         \/ \E op \in MutationOps, item \in Items : MutateAdmit(c, op, item)
         \/ \E game \in Games, clip \in Clips : ExportAdmit(c, game, clip)
         \/ SettingsAdmit(c) \/ MutateLease(c) \/ MutateEffect(c)
         \/ ExportEffect(c) \/ MutationComplete(c)
         \/ SettingsPublish(c) \/ SettingsFail(c) \/ CallerDrop(c)
  PROVE  TypeOK'
<1>0. /\ calls \in [Calls -> Call] /\ calls[c] \in Call
      /\ calls[c].root \in Roots /\ calls[c].op \in MutationOps
      /\ calls[c].item \in Items
  BY DEF TypeOK, Call
<1>1. IdleCall.op \in MutationOps /\ IdleCall.item \in Items
  BY IdleCallType DEF Call
<1>2. CASE \E op \in MutationOps, item \in Items : MutateAdmit(c, op, item)
  <2>1. PICK op \in MutationOps, item \in Items : MutateAdmit(c, op, item)
    BY <1>2
  <2>2. "mutate" \in AllKinds /\ "admitted" \in Phases
    BY DEF AllKinds, Phases
  <2>3. calls' \in [Calls -> Call]
    BY <1>0, <2>1, <2>2, CapturedType, BecomeType DEF MutateAdmit
  <2> QED
    BY <2>1, <2>3 DEF MutateAdmit, TypeOK, files, publication
<1>3. CASE \E game \in Games, clip \in Clips : ExportAdmit(c, game, clip)
  <2>1. PICK game \in Games, clip \in Clips : ExportAdmit(c, game, clip)
    BY <1>3
  <2>2. /\ "export" \in AllKinds /\ "admitted" \in Phases
        /\ clip \in Items
    BY DEF AllKinds, Phases, Items
  <2>3. calls' \in [Calls -> Call]
    BY <1>0, <1>1, <2>1, <2>2, CapturedType, BecomeType DEF ExportAdmit
  <2> QED
    BY <2>1, <2>3 DEF ExportAdmit, TypeOK, files, publication
<1>4. CASE SettingsAdmit(c)
  <2>1. "settings" \in AllKinds /\ "admitted" \in Phases
    BY DEF AllKinds, Phases
  <2>2. calls' \in [Calls -> Call]
    BY <1>0, <1>1, <1>4, <2>1, CapturedType, BecomeType DEF SettingsAdmit
  <2> QED
    BY <1>4, <2>2 DEF SettingsAdmit, TypeOK, files, publication
<1>5. CASE MutateLease(c)
  <2>1. calls' \in [Calls -> Call]
    BY <1>0, <1>5, StepType DEF MutateLease, Phases
  <2> QED
    BY <1>5, <2>1 DEF MutateLease, TypeOK, files, publication
<1>6. CASE MutateEffect(c)
  <2>1. calls' \in [Calls -> Call]
    BY <1>0, <1>6, StepType DEF MutateEffect, Phases
  <2>2. disk' \in [Roots -> Views]
    <3>1. disk[calls[c].root] \in Views
      BY <1>0 DEF TypeOK
    <3>2. Effects(calls[c].op, calls[c].item, disk[calls[c].root])
            \subseteq Views
      BY <1>0, <3>1, EffectsType
    <3> QED
      BY <1>0, <1>6, <3>2 DEF MutateEffect, TypeOK
  <2>3. archived' \in [Roots -> [Games -> ItemState]]
    <3>1. Expired(archived[calls[c].root]) \subseteq [Games -> ItemState]
      BY <1>0, ExpiredType DEF TypeOK
    <3> QED
      BY <1>0, <1>6, <3>1 DEF MutateEffect, TypeOK
  <2> QED
    BY <1>6, <2>1, <2>2, <2>3 DEF MutateEffect, TypeOK, publication
<1>7. CASE ExportEffect(c)
  <2>1. calls' \in [Calls -> Call]
    BY <1>0, <1>7, StepType DEF ExportEffect, Phases
  <2>2. disk' \in [Roots -> Views]
    <3>1. "unsaved" \in ItemState
      BY DEF ItemState
    <3>2. [disk[calls[c].root] EXCEPT ![calls[c].item] = "unsaved"] \in Views
      BY <1>0, <3>1 DEF TypeOK, Views
    <3> QED
      BY <1>0, <1>7, <3>2 DEF ExportEffect, TypeOK
  <2> QED
    BY <1>7, <2>1, <2>2 DEF ExportEffect, TypeOK, publication
<1>8. CASE MutationComplete(c)
  <2> DEFINE success == calls[c].kind = "export" => ExportIsCurrent(c)
             ended == Completed(c, success)
  <2>1. success \in BOOLEAN
    OBVIOUS
  <2>2. ended \in [Calls -> Call]
    BY <1>0, <2>1, EndedType, BecomeType DEF Completed
  <2>3. /\ IF output = calls[c].root
           THEN InvalidateWith(ended, NoCall)
           ELSE /\ calls' = ended
                /\ UNCHANGED <<revision, selected, activeCancel,
                               durationCancel, durations>>
        /\ UNCHANGED <<files, output, rootEpoch, current, archivedUsage,
                       closed, tokens>>
    BY <1>8 DEF MutationComplete
  <2> HIDE DEF ended
  <2> QED
    BY <2>2, <2>3, InvalidateType DEF TypeOK, files
<1>9. CASE SettingsPublish(c)
  <2>1. PICK root \in Roots : PublishRoot(root, Completed(c, TRUE))
    BY <1>9 DEF SettingsPublish
  <2>2. Completed(c, TRUE) \in [Calls -> Call]
    BY <1>0, EndedType, BecomeType DEF Completed
  <2> QED
    BY <2>1, <2>2, PublishRootTypes
<1>10. CASE SettingsFail(c)
  <2>1. calls' \in [Calls -> Call]
    BY <1>0, <1>10, EndedType, BecomeType DEF SettingsFail, Returns, Answer
  <2> QED
    BY <1>10, <2>1 DEF SettingsFail, Returns, Forget, TypeOK, files
<1>11. CASE CallerDrop(c)
  <2>1. [calls[c] EXCEPT !.waiting = FALSE, !.cancelled = TRUE] \in Call
    BY <1>0 DEF Call
  <2>2. calls' \in [Calls -> Call]
    BY <1>0, <1>11, <2>1, BecomeType DEF CallerDrop
  <2> QED
    BY <1>11, <2>2 DEF CallerDrop, TypeOK, files, publication
<1> QED
  BY <1>2, <1>3, <1>4, <1>5, <1>6, <1>7, <1>8, <1>9, <1>10, <1>11

\* The steps outside the commands keep the types.
LEMMA EnvironmentTypes == TypeOK /\ Environment => TypeOK'
<1> SUFFICES ASSUME TypeOK, Environment PROVE TypeOK'
  OBVIOUS
<1>0. calls \in [Calls -> Call]
  BY DEF TypeOK
<1>1. CASE \E root \in Roots : ReconcileRoot(root)
  BY <1>0, <1>1, PublishRootTypes DEF ReconcileRoot
<1>2. CASE \E root \in Roots, game \in Games : RecorderPublishes(root, game)
  <2>1. PICK root \in Roots, game \in Games : RecorderPublishes(root, game)
    BY <1>2
  <2>2. game \in Items /\ "unsaved" \in ItemState
    BY DEF Items, ItemState
  <2>3. disk' \in [Roots -> Views]
    BY <2>1, <2>2 DEF RecorderPublishes, TypeOK, Views
  <2> QED
    BY <2>1, <2>3 DEF RecorderPublishes, TypeOK, publication
<1>3. CASE Shutdown
  <2>1. InvalidateWith(calls, NoCall)
    BY <1>3 DEF Shutdown
  <2> QED
    BY <1>0, <1>3, <2>1, InvalidateType DEF Shutdown, TypeOK, files
<1> QED
  BY <1>1, <1>2, <1>3 DEF Environment

\* Every variable keeps its type, whatever the roots, items and calls.
THEOREM TypeCorrect == Spec => []TypeOK
<1>1. Init => TypeOK
  <2> SUFFICES ASSUME Init PROVE TypeOK
    OBVIOUS
  <2>1. NoView \in Views /\ "absent" \in ItemState
    BY DEF NoView, Views, ItemState
  <2> QED
    BY <2>1, IdleCallType DEF Init, TypeOK
<1>2. TypeOK /\ [Next]_vars => TypeOK'
  <2> SUFFICES ASSUME TypeOK, [Next]_vars PROVE TypeOK'
    OBVIOUS
  <2>1. ASSUME NEW c \in Calls, Worker(c) PROVE TypeOK'
    BY <2>1, RefreshTypes, ReadTypes, MutationTypes DEF Worker
  <2>2. ASSUME NEW c \in Calls, Caller(c) PROVE TypeOK'
    BY <2>2, RefreshTypes, ReadTypes DEF Caller
  <2>3. ASSUME NEW c \in Calls, Admission(c) PROVE TypeOK'
    BY <2>3, RefreshTypes, ReadTypes, MutationTypes DEF Admission
  <2>4. ASSUME NEW c \in Calls, CallerDrop(c) PROVE TypeOK'
    BY <2>4, MutationTypes
  <2>5. CASE UNCHANGED vars
    BY <2>5 DEF vars, files, publication, TypeOK
  <2> QED
    BY <2>1, <2>2, <2>3, <2>4, <2>5, EnvironmentTypes DEF Next
<1> QED
  BY <1>1, <1>2, PTL DEF Spec

\* Invalidation leaves nothing selected, whatever else the step does.
LEMMA InvalidateSelection ==
  ASSUME NEW cs, NEW next, InvalidateWith(cs, next)
  PROVE  SelectionIsPublished'
BY DEF InvalidateWith, SelectionIsPublished

\* What is selected is the published snapshot of the served root, and only
\* while the app is open, in every behaviour.
THEOREM SelectionCorrect == Spec => []SelectionIsPublished
<1>1. Init => SelectionIsPublished
  BY DEF Init, SelectionIsPublished
<1>2. SelectionIsPublished /\ [Next]_vars => SelectionIsPublished'
  <2> SUFFICES ASSUME SelectionIsPublished, [Next]_vars
               PROVE  SelectionIsPublished'
    OBVIOUS
  <2>1. ASSUME UNCHANGED <<selected, closed, current, output>>
        PROVE  SelectionIsPublished'
    BY <2>1 DEF SelectionIsPublished
  <2>2. ASSUME NEW c \in Calls, Worker(c) PROVE SelectionIsPublished'
    <3>1. CASE MutationComplete(c)
      BY <2>1, <3>1, InvalidateSelection DEF MutationComplete
    <3>2. CASE SettingsPublish(c)
      BY <3>2, InvalidateSelection DEF SettingsPublish, PublishRoot
    <3>3. CASE /\ ~MutationComplete(c) /\ ~SettingsPublish(c)
               /\ UNCHANGED <<selected, closed, current, output>>
      BY <2>1, <3>3
    <3> QED
      BY <2>2, <3>1, <3>2, <3>3
      DEF Worker, RefreshScan, RefreshArchiveBegin, RefreshArchiveCheck,
          RefreshArchiveMove, RefreshArchiveEnd, RefreshFinish, IndexBuild,
          IndexRecheck, PlainRead, DurationProbe, MutateLease, MutateEffect,
          ExportEffect, SettingsFail, publication
  <2>3. ASSUME NEW c \in Calls, Caller(c) PROVE SelectionIsPublished'
    <3>1. CASE RefreshPublish(c)
      BY <3>1 DEF RefreshPublish, RefreshIsCurrent, SelectionIsPublished
    <3> QED
      BY <2>1, <2>3, <3>1
      DEF Caller, IndexLoad, IndexLoadSuperseded, DurationRegister,
          RefreshReject, ReadAnswer, DurationAnswer, publication
  <2>4. ASSUME NEW c \in Calls, Admission(c) PROVE SelectionIsPublished'
    <3>1. CASE RefreshAdmit(c)
      BY <3>1, InvalidateSelection DEF RefreshAdmit
    <3> QED
      BY <2>1, <2>4, <3>1
      DEF Admission, ReadAdmit, DurationAdmit, MutateAdmit, ExportAdmit,
          SettingsAdmit, publication
  <2>5. ASSUME NEW c \in Calls, CallerDrop(c) PROVE SelectionIsPublished'
    BY <2>1, <2>5 DEF CallerDrop, publication
  <2>6. CASE Environment
    <3>1. CASE \E root \in Roots : ReconcileRoot(root)
      BY <3>1, InvalidateSelection DEF ReconcileRoot, PublishRoot
    <3>2. CASE Shutdown
      BY <3>2, InvalidateSelection DEF Shutdown
    <3> QED
      BY <2>1, <2>6, <3>1, <3>2 DEF Environment, RecorderPublishes, publication
  <2>7. CASE UNCHANGED vars
    BY <2>1, <2>7 DEF vars, publication
  <2> QED
    BY <2>2, <2>3, <2>4, <2>5, <2>6, <2>7 DEF Next
<1> QED
  BY <1>1, <1>2, PTL DEF Spec

-----------------------------------------------------------------------------
(* The inductive invariant.  A call is busy from its admission to its      *)
(* answer.  A refresh is overtaken once the revision is no longer its own. *)

Busy(c) == calls[c].phase # "idle"
Refreshes(c) == Busy(c) /\ calls[c].kind = "refresh"
Scans(c) == Refreshes(c) /\ calls[c].phase \notin WorkerEnded
Registered(c) ==
    Busy(c) /\ calls[c].kind = "durations" /\ calls[c].phase # "captured"
Latest(c) == calls[c].rev = revision

\* The stages of a command.
Stages(kind) ==
    CASE kind = "refresh" -> {"admitted", "scanned", "archiving", "moving",
                              "finishing", "done", "failed"}
      [] kind \in {"usage", "replay"} -> {"admitted", "done", "failed"}
      [] kind \in IndexKinds -> {"captured", "admitted", "built", "done", "failed"}
      [] kind = "durations" -> {"captured", "admitted", "done"}
      [] kind = "mutate" -> {"admitted", "leased", "effected"}
      [] kind = "export" -> {"admitted", "effected"}
      [] kind = "settings" -> {"admitted"}

\* A busy call is in a stage of its command, has not been answered, and was
\* admitted with a token and a revision that existed.
Standing ==
    \A c \in Calls : Busy(c) =>
        /\ calls[c].phase \in Stages(calls[c].kind)
        /\ ~calls[c].ok /\ (calls[c].waiting \/ calls[c].cancelled)
        /\ calls[c].token \in 1 .. tokens /\ calls[c].rev <= revision

\* While the latest revision is that of a refresh, that refresh is the one
\* whose flag is registered, its root is served and nothing is selected.
RefreshRule ==
    \A c \in Calls : Refreshes(c) =>
        IF Latest(c)
        THEN activeCancel = c /\ selected = 0 /\ calls[c].root = output
        ELSE calls[c].cancelled

\* The worker that scans was admitted after every other refresh in flight.
ScanRule ==
    \A c, d \in Calls : c # d /\ Scans(c) /\ Refreshes(d) =>
        calls[d].rev < calls[c].rev

\* A registered batch is told when it is overtaken, and until then its clip is
\* in the selected snapshot.
DurationRule ==
    \A c \in Calls : Registered(c) =>
        IF Latest(c)
        THEN /\ calls[c].cancelled \/ durationCancel = c
             /\ selected # 0 /\ current.view[calls[c].item] # "absent"
        ELSE calls[c].cancelled

\* There is one batch: its worker and its waiter share the permit.
BatchRule ==
    \A c, d \in Holders("duration") : c = d

\* The token of a refresh is its own and not granted yet; a reader holds the
\* selected token only while the revision is still the one it was admitted in.
TokenRule ==
    /\ tokens <= MaxTokens /\ selected <= tokens
    /\ \A c \in Calls : Refreshes(c) =>
          /\ calls[c].token # selected
          /\ \A d \in Calls : d # c /\ Busy(d) => calls[d].token # calls[c].token
    /\ \A c \in Calls :
          Busy(c) /\ calls[c].kind \in Readers /\ calls[c].token = selected => Latest(c)

\* What is known of revisions, tokens and flags.
Governed ==
    /\ Standing /\ RefreshRule /\ ScanRule /\ DurationRule /\ BatchRule /\ TokenRule
    /\ DurationsBelongToSelection

-----------------------------------------------------------------------------
(* Steps by what they do to the publication. *)

\* What a worker may see of a game.
SeenOf(c, g) ==
    {"absent", calls[c].view[g], current.view[g], disk[calls[c].root][g]}

\* A call goes on with its work.
Works(c) ==
    /\ Busy(c) /\ calls[c].phase \notin WorkerEnded \cup {"effected"}
    /\ calls[c].kind = "durations" => calls[c].phase # "captured"
    /\ \E call \in Call :
          /\ call.kind = calls[c].kind /\ call.root = calls[c].root
          /\ call.token = calls[c].token /\ call.rev = calls[c].rev
          /\ call.cancelled = calls[c].cancelled
          /\ call.waiting = calls[c].waiting /\ call.ok = calls[c].ok
          /\ call.phase \in Stages(call.kind) \ {"captured"}
          /\ call.kind # "refresh" => call.item = calls[c].item
          /\ call.kind = "usage" =>
                call.count \in {calls[c].count, ArchiveCount(calls[c].root)}
          /\ call.kind = "refresh" =>
                \/ RefreshScan(c) \/ RefreshArchiveMove(c) \/ RefreshFinish(c)
                \/ /\ call.view = calls[c].view /\ call.count = calls[c].count
                   /\ calls[c].phase # "admitted" /\ call.phase # "done"
          /\ \A g \in Games : call.view[g] \in SeenOf(c, g)
          /\ Become(c, call)
    /\ UNCHANGED <<output, publication, tokens>>

\* A command is admitted under the selection.
Admits(c) ==
    /\ ~Busy(c) /\ selected # 0
    /\ \E kind \in AllKinds \ {"refresh"}, phase \in {"captured", "admitted"},
          op \in MutationOps, item \in Items :
          /\ phase \in Stages(kind)
          /\ kind = "export" => item \in Clips
          /\ kind = "durations" => phase = "captured" /\ Holders("duration") = {}
          /\ Become(c, Captured(kind, phase, op, item))
    /\ UNCHANGED <<output, publication, tokens>>

\* What a success of a read or of a batch rests on.
Justified(c) ==
    /\ calls[c].kind \in Readers => StillCurrent(c)
    /\ calls[c].kind = "durations" => Latest(c)

\* A call ends, and only its own flag is forgotten.
Retires(c) ==
    /\ Busy(c)
    /\ calls[c].phase = "effected" => calls[c].root # output
    /\ \E success \in BOOLEAN : Answer(c, success) /\ (success => Justified(c))
    /\ \A d \in Calls \ {c} :
          /\ activeCancel = d => activeCancel' = d
          /\ durationCancel = d => durationCancel' = d
    /\ \/ durations' = durations
       \/ Registered(c) /\ Latest(c) /\ durations' = durations \cup {calls[c].item}
    /\ \/ archivedUsage' = archivedUsage
       \/ /\ calls[c].kind = "usage" /\ StillCurrent(c)
          /\ archivedUsage' = calls[c].count
    /\ UNCHANGED <<output, revision, rootEpoch, selected, current, closed, tokens>>

Registers(c) ==
    /\ calls[c].kind = "durations" /\ calls[c].phase = "captured"
    /\ DurationRegistrable(c) /\ DurationRegister(c)

\* The authority ends, and at most one call with it.
Revokes ==
    /\ \E cs \in [Calls -> Call] :
          /\ InvalidateWith(cs, NoCall)
          /\ \A d \in Calls : \/ cs[d] = calls[d]
                             \/ /\ cs[d].phase = "idle" /\ cs[d].view = NoView
                                /\ calls[d].kind \in {"mutate", "export", "settings"}
    /\ UNCHANGED tokens /\ closed' \in {closed, TRUE}
    /\ current'.view = current.view
    /\ archivedUsage' = IF output' = output THEN archivedUsage ELSE 0

\* The stages, command by command.
LEMMA StageLists ==
  /\ Stages("refresh") = {"admitted", "scanned", "archiving", "moving", "finishing",
                          "done", "failed"}
  /\ \A kind \in {"usage", "replay"} : Stages(kind) = {"admitted", "done", "failed"}
  /\ \A kind \in IndexKinds :
        Stages(kind) = {"captured", "admitted", "built", "done", "failed"}
  /\ Stages("durations") = {"captured", "admitted", "done"}
  /\ Stages("mutate") = {"admitted", "leased", "effected"}
  /\ Stages("export") = {"admitted", "effected"} /\ Stages("settings") = {"admitted"}
BY DEF Stages, IndexKinds

\* A stage tells which command a call is.
LEMMA KindOfStage ==
  ASSUME TypeOK, Standing, NEW c \in Calls
  PROVE  /\ calls \in [Calls -> Call] /\ calls[c] \in Call
         /\ Busy(c) => calls[c].phase \in Stages(calls[c].kind)
         /\ calls[c].phase \in {"scanned", "archiving", "moving", "finishing"} =>
               calls[c].kind = "refresh"
         /\ calls[c].phase = "built" => calls[c].kind \in IndexKinds
         /\ calls[c].phase = "leased" => calls[c].kind = "mutate"
         /\ calls[c].phase = "effected" => calls[c].kind \in {"mutate", "export"}
<1>1. calls \in [Calls -> Call] /\ calls[c] \in Call
  BY DEF TypeOK
<1>2. Busy(c) => calls[c].phase \in Stages(calls[c].kind)
  BY DEF Standing
<1>3. calls[c].kind \in AllKinds
  BY <1>1 DEF Call
<1> QED
  BY <1>1, <1>2, <1>3, StageLists DEF AllKinds, IndexKinds, Busy

\* What it takes to go on.
LEMMA GoesOn ==
  ASSUME TypeOK, NEW c \in Calls, NEW call \in Call, Become(c, call),
         Busy(c), calls[c].phase \notin WorkerEnded \cup {"effected"},
         calls[c].kind = "durations" => calls[c].phase # "captured",
         call.kind = calls[c].kind, call.root = calls[c].root,
         call.token = calls[c].token, call.rev = calls[c].rev,
         call.cancelled = calls[c].cancelled, call.waiting = calls[c].waiting,
         call.ok = calls[c].ok, call.phase \in Stages(calls[c].kind) \ {"captured"},
         call.kind # "refresh" => call.item = calls[c].item,
         call.kind = "usage" =>
            call.count \in {calls[c].count, ArchiveCount(calls[c].root)},
         call.kind = "refresh" =>
            \/ RefreshScan(c) \/ RefreshArchiveMove(c) \/ RefreshFinish(c)
            \/ /\ call.view = calls[c].view /\ call.count = calls[c].count
               /\ calls[c].phase # "admitted" /\ call.phase # "done",
         \A g \in Games : call.view[g] \in SeenOf(c, g),
         UNCHANGED <<output, publication, tokens>>
  PROVE  Works(c)
BY DEF Works

\* The same for a call that only changes its stage.
LEMMA StepsOn ==
  ASSUME TypeOK, NEW c \in Calls, NEW phase \in Phases, Step(c, phase),
         Busy(c), calls[c].phase \notin WorkerEnded \cup {"effected"},
         calls[c].kind = "durations" => calls[c].phase # "captured",
         phase \in Stages(calls[c].kind) \ {"captured"},
         calls[c].kind = "refresh" =>
            \/ RefreshScan(c) \/ RefreshArchiveMove(c) \/ RefreshFinish(c)
            \/ calls[c].phase # "admitted" /\ phase # "done",
         UNCHANGED <<output, publication, tokens>>
  PROVE  Works(c)
<1> DEFINE call == [calls[c] EXCEPT !.phase = phase]
<1>1. calls[c] \in Call
  BY DEF TypeOK
<1>2. /\ call \in Call /\ call.kind = calls[c].kind /\ call.root = calls[c].root
      /\ call.token = calls[c].token /\ call.rev = calls[c].rev
      /\ call.cancelled = calls[c].cancelled /\ call.waiting = calls[c].waiting
      /\ call.ok = calls[c].ok /\ call.phase = phase /\ call.item = calls[c].item
      /\ call.view = calls[c].view /\ call.count = calls[c].count
  BY <1>1 DEF Call
<1>3. Become(c, call)
  BY DEF Step
<1>4. \A g \in Games : call.view[g] \in SeenOf(c, g)
  BY <1>2 DEF SeenOf
<1> HIDE DEF call
<1> QED
  BY <1>2, <1>3, <1>4, GoesOn

\* A worker of a refresh goes on.
LEMMA RefreshWorks ==
  ASSUME TypeOK, Standing, NEW c \in Calls,
         \/ RefreshScan(c) \/ RefreshArchiveBegin(c) \/ RefreshArchiveCheck(c)
         \/ RefreshArchiveMove(c) \/ RefreshArchiveEnd(c) \/ RefreshFinish(c)
  PROVE  Works(c)
<1>0. /\ calls \in [Calls -> Call] /\ calls[c] \in Call
      /\ calls[c].kind = "refresh" /\ Busy(c)
      /\ calls[c].phase \notin WorkerEnded \cup {"effected"}
      /\ UNCHANGED <<output, publication, tokens>>
  <2>1. /\ calls[c].phase \in {"admitted", "scanned", "archiving", "moving", "finishing"}
        /\ calls[c].phase = "admitted" => calls[c].kind = "refresh"
    BY DEF RefreshScan, RefreshArchiveBegin, RefreshArchiveCheck, RefreshArchiveMove,
           RefreshArchiveEnd, RefreshFinish
  <2>2. UNCHANGED <<output, publication, tokens>>
    BY DEF RefreshScan, RefreshArchiveBegin, RefreshArchiveCheck, RefreshArchiveMove,
           RefreshArchiveEnd, RefreshFinish
  <2> QED
    BY <2>1, <2>2, KindOfStage DEF Busy, WorkerEnded
<1>1. ASSUME NEW phase \in {"scanned", "archiving", "moving", "finishing", "done", "failed"}
      PROVE  phase \in Phases /\ phase \in Stages(calls[c].kind) \ {"captured"}
  BY <1>0, StageLists DEF Phases
<1>2. ASSUME NEW phase \in {"archiving", "finishing", "failed"}, Step(c, phase),
             calls[c].phase # "admitted" \/ RefreshScan(c)
      PROVE  Works(c)
  BY <1>0, <1>1, <1>2, StepsOn
<1>3. CASE RefreshScan(c)
  <2> DEFINE call == [calls[c] EXCEPT !.phase = "scanned", !.view = disk[calls[c].root]]
  <2>1. CASE Become(c, call)
    <3>1. /\ call \in Call /\ call.kind = calls[c].kind /\ call.root = calls[c].root
          /\ call.token = calls[c].token /\ call.rev = calls[c].rev
          /\ call.cancelled = calls[c].cancelled /\ call.waiting = calls[c].waiting
          /\ call.ok = calls[c].ok /\ call.phase = "scanned"
          /\ call.view = disk[calls[c].root]
      BY <1>0, <1>1 DEF TypeOK, Call
    <3>2. \A g \in Games : call.view[g] \in SeenOf(c, g)
      BY <3>1 DEF SeenOf
    <3> HIDE DEF call
    <3> QED
      BY <1>0, <1>1, <1>3, <2>1, <3>1, <3>2, GoesOn
  <2>2. Become(c, call) \/ Step(c, "failed")
    BY <1>3 DEF RefreshScan
  <2> QED
    BY <1>2, <1>3, <2>1, <2>2
<1>4. CASE RefreshArchiveBegin(c)
  BY <1>2, <1>4 DEF RefreshArchiveBegin
<1>5. CASE RefreshArchiveCheck(c)
  <2>1. PICK g \in UnmatchedIn(calls[c].view) :
          Become(c, [calls[c] EXCEPT !.phase = "moving", !.item = g])
    BY <1>5 DEF RefreshArchiveCheck
  <2> DEFINE call == [calls[c] EXCEPT !.phase = "moving", !.item = g]
  <2>2. g \in Items
    BY CoordinatorAssumption DEF UnmatchedIn, Items
  <2>3. /\ call \in Call /\ call.kind = calls[c].kind /\ call.root = calls[c].root
        /\ call.token = calls[c].token /\ call.rev = calls[c].rev
        /\ call.cancelled = calls[c].cancelled /\ call.waiting = calls[c].waiting
        /\ call.ok = calls[c].ok /\ call.phase = "moving"
        /\ call.view = calls[c].view /\ call.count = calls[c].count
    BY <1>0, <1>1, <2>2 DEF Call
  <2>4. Become(c, call) /\ calls[c].phase # "admitted"
    BY <1>5, <2>1 DEF RefreshArchiveCheck
  <2>5. \A h \in Games : call.view[h] \in SeenOf(c, h)
    BY <2>3 DEF SeenOf
  <2> HIDE DEF call
  <2> QED
    BY <1>0, <1>1, <2>3, <2>4, <2>5, GoesOn
<1>6. CASE RefreshArchiveMove(c)
  <2> DEFINE view == [calls[c].view EXCEPT ![calls[c].item] = "absent"]
             call == [calls[c] EXCEPT !.phase = "archiving",
                                      !.count = calls[c].count + 1, !.view = view]
  <2>1. view \in Views /\ calls[c].count + 1 \in Nat
    BY <1>0 DEF Call, Views, ItemState
  <2> HIDE DEF view
  <2>2. /\ call \in Call /\ call.kind = calls[c].kind /\ call.root = calls[c].root
        /\ call.token = calls[c].token /\ call.rev = calls[c].rev
        /\ call.cancelled = calls[c].cancelled /\ call.waiting = calls[c].waiting
        /\ call.ok = calls[c].ok /\ call.phase = "archiving" /\ call.view = view
    BY <1>0, <1>1, <2>1 DEF Call
  <2>3. Become(c, call)
    BY <1>6 DEF RefreshArchiveMove, view
  <2>4. \A g \in Games : call.view[g] \in SeenOf(c, g)
    BY <1>0, <2>2 DEF SeenOf, view, Call, Views, Items
  <2> HIDE DEF call
  <2> QED
    BY <1>0, <1>1, <1>6, <2>2, <2>3, <2>4, GoesOn
<1>7. CASE RefreshArchiveEnd(c)
  BY <1>2, <1>7 DEF RefreshArchiveEnd
<1>8. CASE RefreshFinish(c)
  <2> DEFINE view == [i \in Items |-> IF i \in Clips THEN disk[calls[c].root][i]
                                       ELSE calls[c].view[i]]
             call == [calls[c] EXCEPT !.phase = "done", !.view = view]
  <2>1. view \in Views
    BY <1>0 DEF TypeOK, Call, Views
  <2>2. CASE Become(c, call)
    <3> HIDE DEF view
    <3>1. /\ call \in Call /\ call.kind = calls[c].kind /\ call.root = calls[c].root
          /\ call.token = calls[c].token /\ call.rev = calls[c].rev
          /\ call.cancelled = calls[c].cancelled /\ call.waiting = calls[c].waiting
          /\ call.ok = calls[c].ok /\ call.phase = "done" /\ call.view = view
      BY <1>0, <1>1, <2>1 DEF Call
    <3>2. \A g \in Games : call.view[g] \in SeenOf(c, g)
      BY <3>1, CoordinatorAssumption DEF SeenOf, view, Items
    <3> HIDE DEF call
    <3> QED
      BY <1>0, <1>1, <1>8, <2>2, <3>1, <3>2, GoesOn
  <2> QED
    BY <1>2, <1>8, <2>2 DEF RefreshFinish
<1> QED
  BY <1>3, <1>4, <1>5, <1>6, <1>7, <1>8

\* A worker of a read, a batch, a mutation or an export goes on.
LEMMA OthersWork ==
  ASSUME TypeOK, Standing, NEW c \in Calls,
         \/ IndexLoad(c) \/ IndexBuild(c) \/ IndexRecheck(c) \/ PlainRead(c)
         \/ DurationProbe(c) \/ MutateLease(c) \/ MutateEffect(c) \/ ExportEffect(c)
  PROVE  Works(c)
<1>0. calls \in [Calls -> Call] /\ calls[c] \in Call
  BY KindOfStage
<1>1. UNCHANGED <<output, publication, tokens>>
  BY DEF IndexLoad, IndexBuild, IndexRecheck, PlainRead, DurationProbe, MutateLease,
         MutateEffect, ExportEffect
<1>2. CASE IndexLoad(c)
  <2> DEFINE call == [calls[c] EXCEPT !.phase = "admitted", !.view = current.view]
  <2>1. /\ call \in Call /\ call.kind = calls[c].kind /\ call.root = calls[c].root
        /\ call.token = calls[c].token /\ call.rev = calls[c].rev
        /\ call.cancelled = calls[c].cancelled /\ call.waiting = calls[c].waiting
        /\ call.ok = calls[c].ok /\ call.phase = "admitted"
        /\ call.view = current.view /\ call.item = calls[c].item
    BY <1>0 DEF TypeOK, Call, Phases
  <2>2. /\ Become(c, call) /\ calls[c].kind \in IndexKinds /\ calls[c].phase = "captured"
    BY <1>2 DEF IndexLoad
  <2>3. "admitted" \in Stages(calls[c].kind) \ {"captured"}
    BY <2>2, StageLists
  <2>4. \A g \in Games : call.view[g] \in SeenOf(c, g)
    BY <2>1 DEF SeenOf
  <2> HIDE DEF call
  <2> QED
    BY <1>1, <2>1, <2>2, <2>3, <2>4, GoesOn DEF Busy, WorkerEnded, IndexKinds
<1>3. CASE IndexBuild(c) \/ IndexRecheck(c)
  <2>1. /\ calls[c].kind \in IndexKinds /\ calls[c].phase \in {"admitted", "built"}
        /\ \E phase \in {"built", "done", "failed"} : Step(c, phase)
    BY <1>3, KindOfStage DEF IndexBuild, IndexRecheck
  <2>2. PICK phase \in {"built", "done", "failed"} : Step(c, phase)
    BY <2>1
  <2>3. phase \in Phases /\ phase \in Stages(calls[c].kind) \ {"captured"}
    BY <2>1, StageLists DEF Phases
  <2> QED
    BY <1>1, <2>1, <2>2, <2>3, StepsOn DEF Busy, WorkerEnded, IndexKinds
<1>4. CASE PlainRead(c)
  <2> DEFINE call == [calls[c] EXCEPT !.phase = "done",
                                      !.count = ArchiveCount(calls[c].root)]
  <2>1. /\ calls[c].kind \in {"usage", "replay"} /\ calls[c].phase = "admitted"
        /\ Become(c, call) \/ Step(c, "failed")
    BY <1>4 DEF PlainRead
  <2>2. /\ "done" \in Phases /\ "done" \in Stages(calls[c].kind) \ {"captured"}
        /\ "failed" \in Phases /\ "failed" \in Stages(calls[c].kind) \ {"captured"}
    BY <2>1, StageLists DEF Phases
  <2>3. ArchiveCount(calls[c].root) \in Nat
    BY ArchiveCountType
  <2>4. CASE Become(c, call)
    <3>1. /\ call \in Call /\ call.kind = calls[c].kind /\ call.root = calls[c].root
          /\ call.token = calls[c].token /\ call.rev = calls[c].rev
          /\ call.cancelled = calls[c].cancelled /\ call.waiting = calls[c].waiting
          /\ call.ok = calls[c].ok /\ call.phase = "done"
          /\ call.view = calls[c].view /\ call.item = calls[c].item
          /\ call.count = ArchiveCount(calls[c].root)
      BY <1>0, <2>2, <2>3 DEF Call
    <3>2. \A g \in Games : call.view[g] \in SeenOf(c, g)
      BY <3>1 DEF SeenOf
    <3> HIDE DEF call
    <3> QED
      BY <1>1, <2>1, <2>2, <2>4, <3>1, <3>2, GoesOn DEF Busy, WorkerEnded
  <2>5. CASE Step(c, "failed")
    BY <1>1, <2>1, <2>2, <2>5, StepsOn DEF Busy, WorkerEnded
  <2> QED
    BY <2>1, <2>4, <2>5
<1>5. CASE DurationProbe(c)
  <2> DEFINE count == IF calls[c].cancelled THEN 0 ELSE 1
             call == [calls[c] EXCEPT !.phase = "done", !.count = count]
  <2>1. /\ calls[c].kind = "durations" /\ calls[c].phase = "admitted" /\ Become(c, call)
    BY <1>5 DEF DurationProbe
  <2>2. count \in Nat
    OBVIOUS
  <2> HIDE DEF count
  <2>3. /\ "done" \in Phases /\ "done" \in Stages(calls[c].kind) \ {"captured"}
    BY <2>1, StageLists DEF Phases
  <2>4. /\ call \in Call /\ call.kind = calls[c].kind /\ call.root = calls[c].root
        /\ call.token = calls[c].token /\ call.rev = calls[c].rev
        /\ call.cancelled = calls[c].cancelled /\ call.waiting = calls[c].waiting
        /\ call.ok = calls[c].ok /\ call.phase = "done" /\ call.item = calls[c].item
        /\ call.view = calls[c].view
    BY <1>0, <2>2, <2>3 DEF Call
  <2>5. \A g \in Games : call.view[g] \in SeenOf(c, g)
    BY <2>4 DEF SeenOf
  <2> HIDE DEF call
  <2> QED
    BY <1>1, <2>1, <2>3, <2>4, <2>5, GoesOn DEF Busy, WorkerEnded
<1>6. CASE MutateLease(c) \/ MutateEffect(c) \/ ExportEffect(c)
  <2>1. PICK phase \in {"leased", "effected"} : Step(c, phase)
    BY <1>6 DEF MutateLease, MutateEffect, ExportEffect
  <2> DEFINE Allowed == calls[c].kind = "mutate" \/ (calls[c].kind = "export" /\ phase = "effected")
  <2>2. calls[c].phase \in {"admitted", "leased"} /\ Allowed
    <3>1. CASE MutateLease(c)
      BY <3>1 DEF MutateLease
    <3>2. CASE MutateEffect(c)
      <4>1. calls[c].phase = "leased"
        BY <3>2 DEF MutateEffect
      <4> QED
        BY <4>1, KindOfStage
    <3>3. CASE ExportEffect(c)
      <4>1. calls[c].kind = "export" /\ calls[c].phase = "admitted" /\ Step(c, "effected")
        BY <3>3 DEF ExportEffect
      <4>2. phase = "effected"
        BY <1>0, <2>1, <4>1 DEF Step, Become, Update, Call
      <4> QED
        BY <4>1, <4>2
    <3> QED
      BY <1>6, <3>1, <3>2, <3>3
  <2>3. phase \in Phases /\ phase \in Stages(calls[c].kind) \ {"captured"}
    BY <2>2, StageLists DEF Phases
  <2> QED
    BY <1>1, <2>1, <2>2, <2>3, StepsOn DEF Busy, WorkerEnded
<1> QED
  BY <1>2, <1>3, <1>4, <1>5, <1>6

\* Admissions happen under a selection.
LEMMA AdmissionsAdmit ==
  ASSUME TypeOK, NEW c \in Calls, Admission(c), ~RefreshAdmit(c)
  PROVE  Admits(c)
<1>0. IdleCall.op \in MutationOps /\ IdleCall.item \in Items
  BY IdleCallType DEF Call
<1>1. ASSUME NEW kind \in AllKinds \ {"refresh"}, NEW phase \in {"captured", "admitted"},
             NEW op \in MutationOps, NEW item \in Items,
             Become(c, Captured(kind, phase, op, item)), phase \in Stages(kind),
             kind = "export" => item \in Clips,
             kind = "durations" => phase = "captured" /\ Holders("duration") = {},
             calls[c].phase = "idle", selected # 0, UNCHANGED <<output, publication, tokens>>
      PROVE  Admits(c)
  BY <1>1 DEF Admits, Busy
<1>2. CASE \E kind \in Readers, selection \in Games \cup {"library"} :
              ReadAdmit(c, kind, selection)
  <2>1. PICK kind \in Readers, selection \in Games \cup {"library"} :
          ReadAdmit(c, kind, selection)
    BY <1>2
  <2> DEFINE phase == IF kind \in IndexKinds THEN "captured" ELSE "admitted"
  <2>2. /\ Become(c, Captured(kind, phase, IdleCall.op, IdleCall.item))
        /\ calls[c].phase = "idle" /\ selected # 0
        /\ UNCHANGED <<output, publication, tokens>>
    BY <2>1 DEF ReadAdmit, CapturedRead, Idle, CapturesSelection
  <2>3. /\ kind \in AllKinds \ {"refresh"} /\ kind \notin {"durations", "export"}
        /\ kind \in IndexKinds \/ kind \in {"usage", "replay"}
    BY DEF Readers, AllKinds, IndexKinds
  <2>4. phase \in {"captured", "admitted"} /\ phase \in Stages(kind)
    BY <2>3, StageLists
  <2> HIDE DEF phase
  <2> QED
    BY <1>0, <1>1, <2>2, <2>3, <2>4
<1>3. CASE \E clip \in Clips : DurationAdmit(c, clip)
  <2>1. PICK clip \in Clips : DurationAdmit(c, clip)
    BY <1>3
  <2>2. /\ Become(c, Captured("durations", "captured", IdleCall.op, clip))
        /\ calls[c].phase = "idle" /\ selected # 0
        /\ UNCHANGED <<output, publication, tokens>>
    BY <2>1 DEF DurationAdmit, Idle, CapturesSelection
  <2>3. Holders("duration") = {}
    BY <2>1 DEF DurationAdmit, CanAcquire, SlotOf
  <2> QED
    BY <1>0, <1>1, <2>2, <2>3, StageLists DEF AllKinds, Items
<1>4. CASE \E op \in MutationOps, item \in Items : MutateAdmit(c, op, item)
  <2>1. PICK op \in MutationOps, item \in Items : MutateAdmit(c, op, item)
    BY <1>4
  <2>2. /\ Become(c, Captured("mutate", "admitted", op, item))
        /\ calls[c].phase = "idle" /\ selected # 0
        /\ UNCHANGED <<output, publication, tokens>>
    BY <2>1 DEF MutateAdmit, Idle, CapturesSelection
  <2> QED
    BY <1>1, <2>2, StageLists DEF AllKinds
<1>5. CASE \E game \in Games, clip \in Clips : ExportAdmit(c, game, clip)
  <2>1. PICK game \in Games, clip \in Clips : ExportAdmit(c, game, clip)
    BY <1>5
  <2>2. /\ Become(c, Captured("export", "admitted", IdleCall.op, clip))
        /\ calls[c].phase = "idle" /\ selected # 0
        /\ UNCHANGED <<output, publication, tokens>>
    BY <2>1 DEF ExportAdmit, Idle, CapturesSelection
  <2> QED
    BY <1>0, <1>1, <2>2, StageLists DEF AllKinds, Items
<1>6. CASE SettingsAdmit(c)
  <2>1. /\ Become(c, Captured("settings", "admitted", IdleCall.op, IdleCall.item))
        /\ calls[c].phase = "idle" /\ selected # 0
        /\ UNCHANGED <<output, publication, tokens>>
    BY <1>6 DEF SettingsAdmit, CapturedRead, Idle, CapturesSelection
  <2> QED
    BY <1>0, <1>1, <2>1, StageLists DEF AllKinds
<1> QED
  BY <1>2, <1>3, <1>4, <1>5, <1>6 DEF Admission

\* What ends without an invalidation.
LEMMA EndingsRetire ==
  ASSUME TypeOK, Standing, NEW c \in Calls,
         \/ IndexLoadSuperseded(c) \/ RefreshReject(c) \/ ReadAnswer(c)
         \/ DurationAnswer(c) \/ SettingsFail(c)
         \/ (DurationRegister(c) /\ ~DurationRegistrable(c))
         \/ (MutationComplete(c) /\ output # calls[c].root)
  PROVE  Retires(c)
<1>0. calls \in [Calls -> Call] /\ calls[c] \in Call
  BY KindOfStage
<1>1. ASSUME NEW success \in BOOLEAN, Returns(c, success), success => Justified(c)
      PROVE  /\ \E s \in BOOLEAN : Answer(c, s) /\ (s => Justified(c))
             /\ \A d \in Calls \ {c} :
                   /\ activeCancel = d => activeCancel' = d
                   /\ durationCancel = d => durationCancel' = d
  BY <1>1 DEF Returns, Forget
<1>2. CASE IndexLoadSuperseded(c) \/ RefreshReject(c) \/ SettingsFail(c)
           \/ (DurationRegister(c) /\ ~DurationRegistrable(c))
  <2>1. /\ Returns(c, FALSE) /\ durations' = durations
        /\ UNCHANGED <<output, revision, rootEpoch, selected, current, closed, tokens,
                       archivedUsage>>
    BY <1>2 DEF IndexLoadSuperseded, RefreshReject, SettingsFail, DurationRegister
  <2>2. Busy(c) /\ calls[c].phase # "effected"
    BY <1>2 DEF IndexLoadSuperseded, RefreshReject, SettingsFail, DurationRegister, Busy,
                WorkerEnded
  <2> QED
    BY <1>1, <2>1, <2>2 DEF Retires
<1>3. CASE ReadAnswer(c)
  <2> DEFINE success == /\ calls[c].phase = "done" /\ calls[c].waiting
                        /\ StillCurrent(c)
  <2>1. /\ Returns(c, success) /\ durations' = durations
        /\ (archivedUsage' = archivedUsage)
              \/ (/\ success /\ calls[c].kind = "usage"
                 /\ archivedUsage' = calls[c].count)
        /\ UNCHANGED <<output, revision, rootEpoch, selected, current, closed, tokens>>
    BY <1>3 DEF ReadAnswer
  <2>2. success \in BOOLEAN
    BY <1>0 DEF Call
  <2>3. Busy(c) /\ calls[c].phase # "effected" /\ calls[c].kind # "durations"
    BY <1>3 DEF ReadAnswer, Busy, WorkerEnded, Readers
  <2>4. success => Justified(c) /\ StillCurrent(c)
    BY <2>3 DEF Justified
  <2> HIDE DEF success
  <2> QED
    BY <1>1, <2>1, <2>2, <2>3, <2>4 DEF Retires
<1>4. CASE DurationAnswer(c)
  <2> DEFINE success == /\ calls[c].waiting /\ ~closed
                        /\ revision = calls[c].rev /\ ~calls[c].cancelled
                        /\ selected = calls[c].token
  <2>1. /\ Returns(c, success)
        /\ (durations' = durations)
              \/ (success /\ durations' = durations \cup {calls[c].item})
        /\ UNCHANGED <<output, revision, rootEpoch, selected, current, closed, tokens,
                       archivedUsage>>
    BY <1>4 DEF DurationAnswer
  <2>2. success \in BOOLEAN
    BY <1>0 DEF Call
  <2>3. Registered(c) /\ calls[c].phase # "effected" /\ calls[c].kind \notin Readers
    BY <1>4 DEF DurationAnswer, Registered, Busy, Readers
  <2>4. success => Latest(c) /\ Justified(c)
    BY <2>3 DEF Latest, Justified
  <2> HIDE DEF success
  <2> QED
    BY <1>1, <2>1, <2>2, <2>3, <2>4 DEF Retires, Registered
<1>5. CASE MutationComplete(c) /\ output # calls[c].root
  <2> DEFINE success == calls[c].kind = "export" => ExportIsCurrent(c)
  <2>1. /\ calls' = Completed(c, success)
        /\ UNCHANGED <<activeCancel, durationCancel, durations, revision, selected>>
        /\ UNCHANGED <<output, rootEpoch, current, closed, tokens, archivedUsage>>
        /\ calls[c].phase = "effected"
    BY <1>5 DEF MutationComplete
  <2>2. success \in BOOLEAN
    OBVIOUS
  <2> HIDE DEF success
  <2>3. Answer(c, success)
    BY <2>1 DEF Completed, Answer, Become
  <2>4. Justified(c)
    BY <2>1, KindOfStage DEF Justified, Readers
  <2>5. output # calls[c].root
    BY <1>5
  <2> QED
    BY <2>1, <2>2, <2>3, <2>4, <2>5 DEF Retires, Busy
<1> QED
  BY <1>2, <1>3, <1>4, <1>5

\* A published root ends the authority.
LEMMA PublishRootRevokes ==
  ASSUME TypeOK, NEW root \in Roots, NEW cs \in [Calls -> Call], PublishRoot(root, cs),
         \A d \in Calls : \/ cs[d] = calls[d]
                           \/ /\ cs[d].phase = "idle" /\ cs[d].view = NoView
                              /\ calls[d].kind \in {"mutate", "export", "settings"}
  PROVE  Revokes
<1>1. current'.view = current.view
  BY DEF PublishRoot, TypeOK
<1>2. archivedUsage' = IF output' = output THEN archivedUsage ELSE 0
  BY DEF PublishRoot
<1> QED
  BY <1>1, <1>2 DEF PublishRoot, Revokes

\* What ends the authority.
LEMMA EndingsRevoke ==
  ASSUME TypeOK, Standing, NEW c \in Calls,
         \/ MutationComplete(c) /\ output = calls[c].root
         \/ SettingsPublish(c)
  PROVE  Revokes
<1>0. calls \in [Calls -> Call]
  BY DEF TypeOK
<1>1. ASSUME NEW success \in BOOLEAN
      PROVE  /\ Completed(c, success) \in [Calls -> Call]
             /\ \A d \in Calls :
                   \/ Completed(c, success)[d] = calls[d]
                   \/ /\ Completed(c, success)[d].phase = "idle"
                      /\ Completed(c, success)[d].view = NoView
                      /\ calls[d].kind \in {"mutate", "export", "settings"}
  <2>1. Ended(c, success) \in Call
    BY <1>0, EndedType
  <2>2. Ended(c, success).phase = "idle" /\ Ended(c, success).view = NoView
    BY DEF Ended, IdleCall
  <2>3. calls[c].kind \in {"mutate", "export", "settings"}
    BY KindOfStage DEF MutationComplete, SettingsPublish
  <2> QED
    BY <1>0, <2>1, <2>2, <2>3 DEF Completed, Update
<1>2. CASE MutationComplete(c) /\ output = calls[c].root
  <2> DEFINE success == calls[c].kind = "export" => ExportIsCurrent(c)
  <2>1. /\ InvalidateWith(Completed(c, success), NoCall)
        /\ UNCHANGED <<tokens, closed, current, output, archivedUsage>>
    BY <1>2 DEF MutationComplete
  <2>2. success \in BOOLEAN
    OBVIOUS
  <2> HIDE DEF success
  <2> QED
    BY <1>1, <2>1, <2>2 DEF Revokes
<1>3. CASE SettingsPublish(c)
  <2>1. PICK root \in Roots : PublishRoot(root, Completed(c, TRUE))
    BY <1>3 DEF SettingsPublish
  <2> QED
    BY <1>1, <2>1, PublishRootRevokes
<1> QED
  BY <1>2, <1>3

\* Every step is one of these.
LEMMA Classes ==
  ASSUME TypeOK, Standing, Next
  PROVE  \/ \E c \in Calls : \/ Works(c) \/ Admits(c) \/ Retires(c) \/ Registers(c)
                             \/ RefreshAdmit(c) \/ RefreshPublish(c) \/ CallerDrop(c)
         \/ Revokes
         \/ UNCHANGED <<output, publication, tokens, calls>>
<1> DEFINE Class(c) == \/ Works(c) \/ Admits(c) \/ Retires(c) \/ Registers(c)
                       \/ RefreshAdmit(c) \/ RefreshPublish(c) \/ CallerDrop(c)
<1>1. ASSUME NEW c \in Calls, Worker(c) PROVE Class(c) \/ Revokes
  BY <1>1, RefreshWorks, OthersWork, EndingsRetire, EndingsRevoke DEF Worker
<1>2. ASSUME NEW c \in Calls, Caller(c) PROVE Class(c)
  <2>1. CASE DurationRegister(c)
    BY <2>1, EndingsRetire DEF Registers, DurationRegister
  <2> QED
    BY <1>2, <2>1, OthersWork, EndingsRetire DEF Caller
<1>3. ASSUME NEW c \in Calls, Admission(c) PROVE Class(c)
  BY <1>3, AdmissionsAdmit
<1>4. CASE Environment
  <2>1. CASE \E root \in Roots : ReconcileRoot(root)
    BY <2>1, PublishRootRevokes DEF ReconcileRoot, TypeOK
  <2>2. CASE \E root \in Roots, game \in Games : RecorderPublishes(root, game)
    BY <2>2 DEF RecorderPublishes
  <2>3. CASE Shutdown
    BY <2>3 DEF Shutdown, Revokes, TypeOK
  <2> QED
    BY <1>4, <2>1, <2>2, <2>3 DEF Environment
<1> QED
  BY <1>1, <1>2, <1>3, <1>4 DEF Next

-----------------------------------------------------------------------------
(* The classes keep what is known of revisions, tokens and flags.          *)

\* A call that is still the same admission after a step.
Kept(d) ==
    /\ Busy(d)
    /\ calls'[d].kind = calls[d].kind /\ calls'[d].root = calls[d].root
    /\ calls'[d].token = calls[d].token /\ calls'[d].rev = calls[d].rev
    /\ calls[d].cancelled => calls'[d].cancelled
    /\ calls'[d].waiting \/ calls'[d].cancelled
    /\ ~calls'[d].ok
    /\ calls'[d].phase \in Stages(calls[d].kind)
    /\ Scans(d)' => Scans(d)
    /\ Registered(d)' => Registered(d) /\ calls'[d].item = calls[d].item
    /\ HoldsPermit(d)' => HoldsPermit(d)

\* A call a step does not touch is kept.
LEMMA UntouchedIsKept ==
  ASSUME TypeOK, Standing, NEW d \in Calls, calls'[d] = calls[d], Busy(d)
  PROVE  Kept(d)
BY DEF Kept, Standing, Scans, Registered, Refreshes, Busy, HoldsPermit

\* Steps that keep every call that is still busy, and the selection.
LEMMA KeptGoverned ==
  ASSUME TypeOK, Governed,
         \A d \in Calls : Busy(d)' => Kept(d),
         UNCHANGED <<output, revision, selected, current, tokens>>,
         \A d \in Calls : /\ Refreshes(d)' /\ activeCancel = d => activeCancel' = d
                          /\ Registered(d)' /\ durationCancel = d => durationCancel' = d,
         DurationsBelongToSelection'
  PROVE  Governed'
<1>1. ASSUME NEW d \in Calls, Busy(d)'
      PROVE  /\ Kept(d) /\ (Latest(d)' <=> Latest(d)) /\ Busy(d)
             /\ Refreshes(d)' => Refreshes(d)
  BY <1>1 DEF Kept, Latest, Refreshes
<1>2. Standing'
  <2> SUFFICES ASSUME NEW d \in Calls, Busy(d)'
               PROVE  /\ calls'[d].phase \in Stages(calls'[d].kind)
                      /\ ~calls'[d].ok /\ (calls'[d].waiting \/ calls'[d].cancelled)
                      /\ calls'[d].token \in 1 .. tokens' /\ calls'[d].rev <= revision'
    BY DEF Standing
  <2>1. /\ calls[d].token \in 1 .. tokens /\ calls[d].rev <= revision
    BY <1>1 DEF Governed, Standing
  <2> QED
    BY <1>1, <2>1 DEF Kept
<1>3. RefreshRule'
  <2> SUFFICES ASSUME NEW d \in Calls, Refreshes(d)'
               PROVE  IF Latest(d)'
                      THEN activeCancel' = d /\ selected' = 0 /\ calls'[d].root = output'
                      ELSE calls'[d].cancelled
    BY DEF RefreshRule
  <2>1. Busy(d)'
    BY DEF Refreshes
  <2>2. IF Latest(d) THEN activeCancel = d /\ selected = 0 /\ calls[d].root = output
        ELSE calls[d].cancelled
    BY <1>1, <2>1 DEF Governed, RefreshRule
  <2> QED
    BY <1>1, <2>1, <2>2 DEF Kept
<1>4. ScanRule'
  <2> SUFFICES ASSUME NEW c \in Calls, NEW d \in Calls, c # d, Scans(c)', Refreshes(d)'
               PROVE  calls'[d].rev < calls'[c].rev
    BY DEF ScanRule
  <2>1. Busy(c)' /\ Busy(d)'
    BY DEF Refreshes, Scans
  <2>2. Scans(c) /\ Refreshes(d)
    BY <1>1, <2>1 DEF Kept
  <2> QED
    BY <1>1, <2>1, <2>2 DEF Kept, Governed, ScanRule
<1>5. DurationRule'
  <2> SUFFICES ASSUME NEW d \in Calls, Registered(d)'
               PROVE  IF Latest(d)'
                      THEN /\ calls'[d].cancelled \/ durationCancel' = d
                           /\ selected' # 0 /\ current'.view[calls'[d].item] # "absent"
                      ELSE calls'[d].cancelled
    BY DEF DurationRule
  <2>1. Busy(d)'
    BY DEF Registered
  <2>2. Registered(d) /\ calls'[d].item = calls[d].item
    BY <1>1, <2>1 DEF Kept
  <2>3. IF Latest(d)
        THEN /\ calls[d].cancelled \/ durationCancel = d
             /\ selected # 0 /\ current.view[calls[d].item] # "absent"
        ELSE calls[d].cancelled
    BY <2>2 DEF Governed, DurationRule
  <2> QED
    BY <1>1, <2>1, <2>2, <2>3 DEF Kept
<1>6. BatchRule'
  <2> SUFFICES ASSUME NEW c \in Calls, NEW d \in Calls, HoldsPermit(c)', HoldsPermit(d)',
                      SlotOf(calls'[c].kind) = "duration", SlotOf(calls'[d].kind) = "duration"
               PROVE  c = d
    BY DEF BatchRule, Holders
  <2>1. Busy(c)' /\ Busy(d)'
    BY DEF HoldsPermit, Busy
  <2>2. c \in Holders("duration") /\ d \in Holders("duration")
    BY <1>1, <2>1 DEF Kept, Holders
  <2> QED
    BY <2>2 DEF Governed, BatchRule
<1>7. TokenRule'
  <2>1. tokens' <= MaxTokens /\ selected' <= tokens'
    BY DEF Governed, TokenRule
  <2>2. ASSUME NEW c \in Calls, Refreshes(c)'
        PROVE  /\ calls'[c].token # selected'
               /\ \A d \in Calls : d # c /\ Busy(d)' => calls'[d].token # calls'[c].token
    <3>1. Busy(c)'
      BY <2>2 DEF Refreshes
    <3>2. Refreshes(c)
      BY <1>1, <2>2, <3>1
    <3>3. /\ calls[c].token # selected
          /\ \A d \in Calls : d # c /\ Busy(d) => calls[d].token # calls[c].token
      BY <3>2 DEF Governed, TokenRule
    <3> QED
      BY <1>1, <3>1, <3>3 DEF Kept
  <2>3. ASSUME NEW c \in Calls, Busy(c)', calls'[c].kind \in Readers, calls'[c].token = selected'
        PROVE  Latest(c)'
    BY <1>1, <2>3 DEF Kept, Governed, TokenRule
  <2> QED
    BY <2>1, <2>2, <2>3 DEF TokenRule
<1> QED
  BY <1>2, <1>3, <1>4, <1>5, <1>6, <1>7 DEF Governed

\* A call that goes on.
LEMMA WorksKept ==
  ASSUME TypeOK, Governed, NEW c \in Calls, Works(c)
  PROVE  \A d \in Calls : Busy(d)' => Kept(d)
<1>0. calls \in [Calls -> Call] /\ Standing
  BY DEF TypeOK, Governed
<1>1. PICK call \in Call :
          /\ call.kind = calls[c].kind /\ call.root = calls[c].root
          /\ call.token = calls[c].token /\ call.rev = calls[c].rev
          /\ call.cancelled = calls[c].cancelled
          /\ call.waiting = calls[c].waiting /\ call.ok = calls[c].ok
          /\ call.phase \in Stages(call.kind) \ {"captured"}
          /\ call.kind # "refresh" => call.item = calls[c].item
          /\ Become(c, call)
  BY DEF Works
<1>2. /\ Busy(c) /\ calls[c].phase \notin WorkerEnded
      /\ calls[c].kind = "durations" => calls[c].phase # "captured"
      /\ UNCHANGED <<output, publication, tokens>>
  BY DEF Works
<1>3. calls'[c] = call /\ \A d \in Calls \ {c} : calls'[d] = calls[d]
  BY <1>0, <1>1 DEF Become, Update
<1>4. Kept(c)
  <2>1. HoldsPermit(c) /\ (Scans(c)' => Scans(c))
    BY <1>1, <1>2, <1>3 DEF HoldsPermit, Busy, Scans, Refreshes
  <2>2. Registered(c)' => Registered(c) /\ calls'[c].item = calls[c].item
    BY <1>1, <1>2, <1>3 DEF Registered, Busy
  <2>3. ~calls[c].ok /\ (calls[c].waiting \/ calls[c].cancelled)
    BY <1>0, <1>2 DEF Standing
  <2> QED
    BY <1>1, <1>2, <1>3, <2>1, <2>2, <2>3 DEF Kept
<1> QED
  BY <1>0, <1>3, <1>4, UntouchedIsKept DEF Busy

LEMMA WorksGoverned ==
  ASSUME TypeOK, Governed, NEW c \in Calls, Works(c) PROVE Governed'
<1>1. UNCHANGED <<output, revision, selected, current, tokens, activeCancel, durationCancel>>
      /\ DurationsBelongToSelection'
  BY DEF Works, publication, Governed, DurationsBelongToSelection
<1> QED
  BY <1>1, WorksKept, KeptGoverned

\* A caller that goes away.
LEMMA CallerDropKept ==
  ASSUME TypeOK, Governed, NEW c \in Calls, CallerDrop(c)
  PROVE  \A d \in Calls : Busy(d)' => Kept(d)
<1>0. calls \in [Calls -> Call] /\ Standing
  BY DEF TypeOK, Governed
<1>1. /\ calls'[c] = [calls[c] EXCEPT !.waiting = FALSE, !.cancelled = TRUE]
      /\ \A d \in Calls \ {c} : calls'[d] = calls[d]
  BY <1>0 DEF CallerDrop, Become, Update
<1>2. /\ Busy(c) /\ UNCHANGED <<output, publication, tokens>>
  BY DEF CallerDrop, Busy
<1>3. Kept(c)
  <2>1. /\ calls'[c].kind = calls[c].kind /\ calls'[c].root = calls[c].root
        /\ calls'[c].token = calls[c].token /\ calls'[c].rev = calls[c].rev
        /\ calls'[c].cancelled /\ ~calls'[c].waiting /\ calls'[c].ok = calls[c].ok
        /\ calls'[c].phase = calls[c].phase /\ calls'[c].item = calls[c].item
    BY <1>0, <1>1 DEF Call
  <2>2. ~calls[c].ok /\ calls[c].phase \in Stages(calls[c].kind)
    BY <1>0, <1>2 DEF Standing
  <2>3. /\ Scans(c)' => Scans(c)
        /\ Registered(c)' => Registered(c)
        /\ HoldsPermit(c)' => HoldsPermit(c)
    BY <2>1 DEF Scans, Refreshes, Busy, Registered, HoldsPermit
  <2> QED
    BY <1>2, <2>1, <2>2, <2>3 DEF Kept
<1> QED
  BY <1>0, <1>1, <1>3, UntouchedIsKept DEF Busy

LEMMA CallerDropGoverned ==
  ASSUME TypeOK, Governed, NEW c \in Calls, CallerDrop(c) PROVE Governed'
<1>1. UNCHANGED <<output, revision, selected, current, tokens, activeCancel, durationCancel>>
      /\ DurationsBelongToSelection'
  BY DEF CallerDrop, publication, Governed, DurationsBelongToSelection
<1> QED
  BY <1>1, CallerDropKept, KeptGoverned

\* What an ended call leaves.
LEMMA AnswerEnds ==
  ASSUME TypeOK, NEW c \in Calls, NEW success \in BOOLEAN, Answer(c, success)
  PROVE  ~Busy(c)' /\ \A d \in Calls \ {c} : calls'[d] = calls[d]
<1>1. calls'[c] = Ended(c, success) /\ \A d \in Calls \ {c} : calls'[d] = calls[d]
  BY DEF TypeOK, Answer, Become, Update
<1>2. Ended(c, success).phase = "idle"
  BY DEF Ended, IdleCall
<1> QED
  BY <1>1, <1>2 DEF Busy

\* A call that ends without an invalidation.
LEMMA RetiresKept ==
  ASSUME TypeOK, Governed, NEW c \in Calls, Retires(c)
  PROVE  \A d \in Calls : Busy(d)' => Kept(d)
<1>1. ~Busy(c)' /\ \A d \in Calls \ {c} : calls'[d] = calls[d]
  BY AnswerEnds DEF Retires
<1> QED
  BY <1>1, UntouchedIsKept DEF Busy, Governed

LEMMA RetiresGoverned ==
  ASSUME TypeOK, Governed, NEW c \in Calls, Retires(c) PROVE Governed'
<1>1. ~Busy(c)' /\ \A d \in Calls \ {c} : calls'[d] = calls[d]
  BY AnswerEnds DEF Retires
<1>2. \A d \in Calls : Busy(d)' => Kept(d)
  BY RetiresKept
<1>3. \A d \in Calls : /\ Refreshes(d)' /\ activeCancel = d => activeCancel' = d
                       /\ Registered(d)' /\ durationCancel = d => durationCancel' = d
  BY <1>1 DEF Retires, Refreshes, Registered
<1>4. UNCHANGED <<output, revision, selected, current, tokens>>
  BY DEF Retires
<1>5. DurationsBelongToSelection'
  <2>1. CASE durations' = durations
    BY <1>4, <2>1 DEF Governed, DurationsBelongToSelection
  <2>2. CASE Registered(c) /\ Latest(c) /\ durations' = durations \cup {calls[c].item}
    <3>1. selected # 0 /\ current.view[calls[c].item] # "absent"
      BY <2>2 DEF Governed, DurationRule
    <3> QED
      BY <1>4, <2>2, <3>1 DEF Governed, DurationsBelongToSelection
  <2> QED
    BY <2>1, <2>2 DEF Retires
<1> QED
  BY <1>2, <1>3, <1>4, <1>5, KeptGoverned

\* A command admitted under the selection.
LEMMA AdmitsGoverned ==
  ASSUME TypeOK, Governed, NEW c \in Calls, Admits(c) PROVE Governed'
<1>0. /\ calls \in [Calls -> Call] /\ Standing /\ selected \in Nat /\ tokens \in Nat
      /\ revision \in Nat
  BY DEF TypeOK, Governed
<1>1. PICK kind \in AllKinds \ {"refresh"}, phase \in {"captured", "admitted"},
           op \in MutationOps, item \in Items :
        /\ phase \in Stages(kind)
        /\ kind = "durations" => phase = "captured" /\ Holders("duration") = {}
        /\ Become(c, Captured(kind, phase, op, item))
  BY DEF Admits
<1>2. /\ ~Busy(c) /\ selected # 0 /\ UNCHANGED <<output, publication, tokens>>
  BY DEF Admits
<1>3. /\ calls'[c] = Captured(kind, phase, op, item)
      /\ \A d \in Calls \ {c} : calls'[d] = calls[d]
  BY <1>0, <1>1 DEF Become, Update
<1>4. /\ calls'[c].kind = kind /\ calls'[c].phase = phase /\ calls'[c].token = selected
      /\ calls'[c].rev = revision /\ ~calls'[c].ok /\ calls'[c].waiting
  BY <1>3 DEF Captured
<1>5. ~Refreshes(c)' /\ ~Scans(c)' /\ ~Registered(c)' /\ Latest(c)'
  BY <1>1, <1>2, <1>4 DEF Refreshes, Scans, Registered, Latest, publication
<1>6. ASSUME NEW d \in Calls, d # c
      PROVE  /\ calls'[d] = calls[d] /\ (Busy(d)' <=> Busy(d))
             /\ (Refreshes(d)' <=> Refreshes(d)) /\ (Scans(d)' <=> Scans(d))
             /\ (Registered(d)' <=> Registered(d)) /\ (Latest(d)' <=> Latest(d))
             /\ (HoldsPermit(d)' <=> HoldsPermit(d))
  BY <1>2, <1>3, <1>6
  DEF Busy, Refreshes, Scans, Registered, Latest, HoldsPermit, publication
<1>7. selected <= tokens
  BY DEF Governed, TokenRule
<1>8. Standing'
  <2> SUFFICES ASSUME NEW d \in Calls, Busy(d)'
               PROVE  /\ calls'[d].phase \in Stages(calls'[d].kind)
                      /\ ~calls'[d].ok /\ (calls'[d].waiting \/ calls'[d].cancelled)
                      /\ calls'[d].token \in 1 .. tokens' /\ calls'[d].rev <= revision'
    BY DEF Standing
  <2>1. CASE d = c
    BY <1>0, <1>1, <1>2, <1>4, <1>7, <2>1 DEF publication
  <2>2. CASE d # c
    BY <1>0, <1>2, <1>6, <2>2 DEF Standing, publication
  <2> QED
    BY <2>1, <2>2
<1>9. RefreshRule' /\ DurationRule' /\ DurationsBelongToSelection'
  BY <1>2, <1>5, <1>6
  DEF Governed, RefreshRule, DurationRule, DurationsBelongToSelection, publication
<1>10. ScanRule'
  BY <1>5, <1>6 DEF Governed, ScanRule
<1>11. BatchRule'
  <2> SUFFICES ASSUME NEW a \in Calls, NEW b \in Calls, HoldsPermit(a)', HoldsPermit(b)',
                      SlotOf(calls'[a].kind) = "duration", SlotOf(calls'[b].kind) = "duration"
               PROVE  a = b
    BY DEF BatchRule, Holders
  <2>1. ASSUME NEW d \in Calls, d # c, HoldsPermit(d)', SlotOf(calls'[d].kind) = "duration"
        PROVE  d \in Holders("duration")
    BY <1>6, <2>1 DEF Holders
  <2>2. SlotOf(kind) = "duration" => Holders("duration") = {}
    BY <1>1 DEF SlotOf, AllKinds
  <2> QED
    BY <1>4, <2>1, <2>2 DEF Governed, BatchRule
<1>12. TokenRule'
  <2>1. tokens' <= MaxTokens /\ selected' <= tokens'
    BY <1>2 DEF Governed, TokenRule, publication
  <2>2. ASSUME NEW d \in Calls, Refreshes(d)'
        PROVE  /\ calls'[d].token # selected'
               /\ \A e \in Calls : e # d /\ Busy(e)' => calls'[e].token # calls'[d].token
    <3>1. d # c /\ Refreshes(d)
      BY <1>5, <1>6, <2>2
    <3>2. /\ calls[d].token # selected
          /\ \A e \in Calls : e # d /\ Busy(e) => calls[e].token # calls[d].token
      BY <3>1 DEF Governed, TokenRule
    <3> QED
      BY <1>2, <1>4, <1>6, <3>1, <3>2 DEF publication
  <2>3. ASSUME NEW d \in Calls, Busy(d)', calls'[d].kind \in Readers, calls'[d].token = selected'
        PROVE  Latest(d)'
    BY <1>2, <1>5, <1>6, <2>3 DEF Governed, TokenRule, publication
  <2> QED
    BY <2>1, <2>2, <2>3 DEF TokenRule
<1> QED
  BY <1>8, <1>9, <1>10, <1>11, <1>12 DEF Governed

\* A batch that registers its flag adopts the revision it checked.
LEMMA RegistersGoverned ==
  ASSUME TypeOK, Governed, NEW c \in Calls, Registers(c) PROVE Governed'
<1>0. /\ calls \in [Calls -> Call] /\ Standing /\ revision \in Nat /\ c # NoCall
      /\ calls[c] \in Call
  BY CoordinatorAssumption DEF TypeOK, Governed
<1>1. /\ calls[c].kind = "durations" /\ calls[c].phase = "captured"
      /\ selected = calls[c].token
      /\ current.view[calls[c].item] # "absent" /\ durationCancel' = c
      /\ Become(c, [calls[c] EXCEPT !.phase = "admitted", !.rev = revision])
      /\ UNCHANGED <<output, revision, selected, current, tokens, durations, activeCancel>>
  BY DEF Registers, DurationRegistrable, DurationRegister
<1>2. /\ calls'[c].kind = "durations" /\ calls'[c].phase = "admitted"
      /\ calls'[c].token = calls[c].token /\ calls'[c].rev = revision
      /\ calls'[c].item = calls[c].item /\ calls'[c].ok = calls[c].ok
      /\ calls'[c].waiting = calls[c].waiting /\ calls'[c].cancelled = calls[c].cancelled
      /\ \A d \in Calls \ {c} : calls'[d] = calls[d]
  BY <1>0, <1>1 DEF Become, Update, Call
<1>3. /\ ~Refreshes(c)' /\ ~Scans(c)' /\ Registered(c)' /\ Latest(c)' /\ Busy(c)
      /\ HoldsPermit(c)
  BY <1>1, <1>2 DEF Refreshes, Scans, Registered, Latest, Busy, HoldsPermit, WorkerEnded
<1>4. ASSUME NEW d \in Calls, d # c
      PROVE  /\ calls'[d] = calls[d] /\ (Busy(d)' <=> Busy(d))
             /\ (Refreshes(d)' <=> Refreshes(d)) /\ (Scans(d)' <=> Scans(d))
             /\ (Registered(d)' <=> Registered(d)) /\ (Latest(d)' <=> Latest(d))
             /\ (HoldsPermit(d)' <=> HoldsPermit(d))
  BY <1>1, <1>2, <1>4 DEF Busy, Refreshes, Scans, Registered, Latest, HoldsPermit
<1>5. Standing'
  <2> SUFFICES ASSUME NEW d \in Calls, Busy(d)'
               PROVE  /\ calls'[d].phase \in Stages(calls'[d].kind)
                      /\ ~calls'[d].ok /\ (calls'[d].waiting \/ calls'[d].cancelled)
                      /\ calls'[d].token \in 1 .. tokens' /\ calls'[d].rev <= revision'
    BY DEF Standing
  <2>1. CASE d = c
    BY <1>0, <1>1, <1>2, <1>3, <2>1, StageLists DEF Standing
  <2>2. CASE d # c
    BY <1>0, <1>1, <1>4, <2>2 DEF Standing
  <2> QED
    BY <2>1, <2>2
<1>6. RefreshRule' /\ DurationsBelongToSelection'
  BY <1>1, <1>3, <1>4 DEF Governed, RefreshRule, DurationsBelongToSelection
<1>7. ScanRule'
  BY <1>3, <1>4 DEF Governed, ScanRule
<1>8. DurationRule'
  <2> SUFFICES ASSUME NEW d \in Calls, Registered(d)'
               PROVE  IF Latest(d)'
                      THEN /\ calls'[d].cancelled \/ durationCancel' = d
                           /\ selected' # 0 /\ current'.view[calls'[d].item] # "absent"
                      ELSE calls'[d].cancelled
    BY DEF DurationRule
  <2>1. CASE d = c
    <3>1. selected # 0
      BY <1>0, <1>1, <1>3 DEF Standing
    <3> QED
      BY <1>1, <1>2, <1>3, <2>1, <3>1
  <2>2. CASE d # c
    <3>1. Registered(d)
      BY <1>4, <2>2
    <3>2. calls[d].kind = "durations" /\ Busy(d)
      BY <3>1 DEF Registered
    <3>3. ~HoldsPermit(d)
      BY <1>1, <1>3, <2>2, <3>2 DEF Governed, BatchRule, Holders, SlotOf
    <3>4. calls[d].cancelled
      BY <1>0, <3>2, <3>3 DEF HoldsPermit, Busy, Standing
    <3>5. IF Latest(d)
          THEN selected # 0 /\ current.view[calls[d].item] # "absent"
          ELSE calls[d].cancelled
      BY <3>1 DEF Governed, DurationRule
    <3> QED
      BY <1>1, <1>4, <2>2, <3>4, <3>5
  <2> QED
    BY <2>1, <2>2
<1>9. BatchRule'
  <2> SUFFICES ASSUME NEW a \in Calls, NEW b \in Calls, HoldsPermit(a)', HoldsPermit(b)',
                      SlotOf(calls'[a].kind) = "duration", SlotOf(calls'[b].kind) = "duration"
               PROVE  a = b
    BY DEF BatchRule, Holders
  <2>1. ASSUME NEW d \in Calls, HoldsPermit(d)', SlotOf(calls'[d].kind) = "duration"
        PROVE  d \in Holders("duration")
    BY <1>1, <1>2, <1>3, <1>4, <2>1 DEF Holders
  <2> QED
    BY <2>1 DEF Governed, BatchRule
<1>10. TokenRule'
  <2>1. "durations" \notin Readers
    BY DEF Readers
  <2>2. ASSUME NEW d \in Calls, Refreshes(d)'
        PROVE  /\ calls'[d].token # selected'
               /\ \A e \in Calls : e # d /\ Busy(e)' => calls'[e].token # calls'[d].token
    <3>1. d # c /\ Refreshes(d)
      BY <1>3, <1>4, <2>2
    <3>2. /\ calls[d].token # selected
          /\ \A e \in Calls : e # d /\ Busy(e) => calls[e].token # calls[d].token
      BY <3>1 DEF Governed, TokenRule
    <3> QED
      BY <1>1, <1>2, <1>3, <1>4, <3>1, <3>2
  <2>3. ASSUME NEW d \in Calls, Busy(d)', calls'[d].kind \in Readers, calls'[d].token = selected'
        PROVE  Latest(d)'
    BY <1>1, <1>3, <1>4, <2>3 DEF Governed, TokenRule
  <2> QED
    BY <1>1, <2>2, <2>3 DEF Governed, TokenRule
<1> QED
  BY <1>5, <1>6, <1>7, <1>8, <1>9, <1>10 DEF Governed

\* What an invalidation does to a call the step does not otherwise touch.
LEMMA Overtaken ==
  ASSUME TypeOK, Governed, NEW cs \in [Calls -> Call], NEW next,
         InvalidateWith(cs, next), NEW d \in Calls, cs[d] = calls[d]
  PROVE  /\ calls'[d].kind = calls[d].kind /\ calls'[d].phase = calls[d].phase
         /\ calls'[d].root = calls[d].root /\ calls'[d].token = calls[d].token
         /\ calls'[d].rev = calls[d].rev /\ calls'[d].view = calls[d].view
         /\ calls'[d].item = calls[d].item /\ calls'[d].count = calls[d].count
         /\ calls'[d].waiting = calls[d].waiting /\ calls'[d].ok = calls[d].ok
         /\ calls'[d].epoch = calls[d].epoch
         /\ calls[d].cancelled => calls'[d].cancelled
         /\ (Busy(d)' <=> Busy(d)) /\ (Refreshes(d)' <=> Refreshes(d))
         /\ (Scans(d)' <=> Scans(d)) /\ (Registered(d)' <=> Registered(d))
         /\ (HoldsPermit(d)' <=> HoldsPermit(d))
         /\ Busy(d) => ~Latest(d)'
         /\ Refreshes(d) \/ Registered(d) => calls'[d].cancelled
<1>1. /\ calls[d] \in Call /\ revision \in Nat /\ revision' = revision + 1
  BY DEF TypeOK, InvalidateWith
<1>2. calls'[d] = IF d \in {activeCancel, durationCancel}
                  THEN [calls[d] EXCEPT !.cancelled = TRUE] ELSE calls[d]
  BY DEF InvalidateWith
<1>3. /\ calls'[d].kind = calls[d].kind /\ calls'[d].phase = calls[d].phase
      /\ calls'[d].root = calls[d].root /\ calls'[d].token = calls[d].token
      /\ calls'[d].rev = calls[d].rev /\ calls'[d].view = calls[d].view
      /\ calls'[d].item = calls[d].item /\ calls'[d].count = calls[d].count
      /\ calls'[d].waiting = calls[d].waiting /\ calls'[d].ok = calls[d].ok
      /\ calls'[d].epoch = calls[d].epoch
      /\ calls[d].cancelled => calls'[d].cancelled
      /\ d \in {activeCancel, durationCancel} => calls'[d].cancelled
  BY <1>1, <1>2 DEF Call
<1>4. /\ (Busy(d)' <=> Busy(d)) /\ (Refreshes(d)' <=> Refreshes(d))
      /\ (Scans(d)' <=> Scans(d)) /\ (Registered(d)' <=> Registered(d))
      /\ (HoldsPermit(d)' <=> HoldsPermit(d))
  BY <1>3 DEF Busy, Refreshes, Scans, Registered, HoldsPermit
<1>5. Busy(d) => ~Latest(d)'
  <2> SUFFICES ASSUME Busy(d) PROVE calls'[d].rev # revision'
    BY DEF Latest
  <2>1. calls[d].rev <= revision /\ calls[d].rev \in Nat
    BY <1>1 DEF Governed, Standing, Call
  <2> QED
    BY <1>1, <1>3, <2>1
<1>6. Refreshes(d) => calls'[d].cancelled
  BY <1>3 DEF Governed, RefreshRule
<1>7. Registered(d) => calls'[d].cancelled
  BY <1>3 DEF Governed, DurationRule
<1> QED
  BY <1>3, <1>4, <1>5, <1>6, <1>7

\* The authority ends.
LEMMA RevokesGoverned ==
  ASSUME TypeOK, Governed, Revokes PROVE Governed'
<1>1. PICK cs \in [Calls -> Call] :
          /\ InvalidateWith(cs, NoCall)
          /\ \A d \in Calls : \/ cs[d] = calls[d]
                             \/ /\ cs[d].phase = "idle" /\ cs[d].view = NoView
                                /\ calls[d].kind \in {"mutate", "export", "settings"}
  BY DEF Revokes
<1>2. /\ revision' = revision + 1 /\ selected' = 0 /\ durations' = {} /\ tokens' = tokens
      /\ Standing /\ revision \in Nat /\ tokens \in Nat
  BY <1>1 DEF InvalidateWith, Revokes, Governed, TypeOK
<1>3. ASSUME NEW d \in Calls, Busy(d)'
      PROVE  cs[d] = calls[d] /\ Busy(d)
  <2>1. calls'[d].phase = cs[d].phase
    BY <1>1 DEF InvalidateWith, Call
  <2>2. cs[d] = calls[d]
    BY <1>1, <1>3, <2>1 DEF Busy
  <2> QED
    BY <1>3, <2>1, <2>2 DEF Busy
<1>4. Standing'
  <2> SUFFICES ASSUME NEW d \in Calls, Busy(d)'
               PROVE  /\ calls'[d].phase \in Stages(calls'[d].kind)
                      /\ ~calls'[d].ok /\ (calls'[d].waiting \/ calls'[d].cancelled)
                      /\ calls'[d].token \in 1 .. tokens' /\ calls'[d].rev <= revision'
    BY DEF Standing
  <2>1. /\ calls[d].phase \in Stages(calls[d].kind)
        /\ ~calls[d].ok /\ (calls[d].waiting \/ calls[d].cancelled)
        /\ calls[d].token \in 1 .. tokens /\ calls[d].rev <= revision /\ calls[d].rev \in Nat
    BY <1>2, <1>3 DEF Standing, TypeOK, Call
  <2> QED
    BY <1>1, <1>2, <1>3, <2>1, Overtaken
<1>5. RefreshRule'
  <2> SUFFICES ASSUME NEW d \in Calls, Refreshes(d)'
               PROVE  ~Latest(d)' /\ calls'[d].cancelled
    BY DEF RefreshRule
  <2> QED
    BY <1>1, <1>3, Overtaken DEF Refreshes
<1>6. ScanRule'
  <2> SUFFICES ASSUME NEW c \in Calls, NEW d \in Calls, c # d, Scans(c)', Refreshes(d)'
               PROVE  calls'[d].rev < calls'[c].rev
    BY DEF ScanRule
  <2>1. cs[c] = calls[c] /\ cs[d] = calls[d]
    BY <1>3 DEF Scans, Refreshes
  <2> QED
    BY <1>1, <2>1, Overtaken DEF Governed, ScanRule
<1>7. DurationRule'
  <2> SUFFICES ASSUME NEW d \in Calls, Registered(d)'
               PROVE  ~Latest(d)' /\ calls'[d].cancelled
    BY DEF DurationRule
  <2> QED
    BY <1>1, <1>3, Overtaken DEF Registered
<1>8. BatchRule'
  <2> SUFFICES ASSUME NEW a \in Calls, NEW b \in Calls, HoldsPermit(a)', HoldsPermit(b)',
                      SlotOf(calls'[a].kind) = "duration", SlotOf(calls'[b].kind) = "duration"
               PROVE  a = b
    BY DEF BatchRule, Holders
  <2>1. cs[a] = calls[a] /\ cs[b] = calls[b]
    BY <1>3 DEF HoldsPermit, Busy
  <2>2. a \in Holders("duration") /\ b \in Holders("duration")
    BY <1>1, <2>1, Overtaken DEF Holders
  <2> QED
    BY <2>2 DEF Governed, BatchRule
<1>9. TokenRule'
  <2>1. tokens' <= MaxTokens /\ selected' <= tokens'
    BY <1>2 DEF Governed, TokenRule
  <2>2. ASSUME NEW d \in Calls, Busy(d)'
        PROVE  /\ Busy(d) /\ calls'[d].token = calls[d].token /\ calls'[d].token # 0
               /\ calls'[d].kind = calls[d].kind
    BY <1>1, <1>2, <1>3, <2>2, Overtaken DEF Standing
  <2>3. ASSUME NEW c \in Calls, Refreshes(c)'
        PROVE  /\ calls'[c].token # selected'
               /\ \A d \in Calls : d # c /\ Busy(d)' => calls'[d].token # calls'[c].token
    <3>1. Busy(c)' /\ Refreshes(c)
      BY <2>2, <2>3 DEF Refreshes
    <3> QED
      BY <1>2, <2>2, <3>1 DEF Governed, TokenRule
  <2> QED
    BY <1>2, <2>1, <2>2, <2>3 DEF TokenRule
<1>10. DurationsBelongToSelection'
  BY <1>2 DEF DurationsBelongToSelection
<1> QED
  BY <1>4, <1>5, <1>6, <1>7, <1>8, <1>9, <1>10 DEF Governed

\* What a refresh is admitted with.
LEMMA RefreshAdmits ==
  ASSUME TypeOK, NEW c \in Calls, RefreshAdmit(c)
  PROVE  \E call \in Call :
            /\ call.kind = "refresh" /\ call.phase = "admitted" /\ call.root = output
            /\ call.token = tokens + 1 /\ call.rev = revision + 1
            /\ call.waiting /\ ~call.ok /\ call.view = NoView /\ call.count = 0
            /\ InvalidateWith(Update(c, call), c)
<1> DEFINE call == [CapturedRead("refresh", "admitted") EXCEPT
                        !.token = tokens + 1, !.rev = revision + 1]
<1>1. InvalidateWith(Update(c, call), c)
  BY DEF RefreshAdmit
<1>2. call \in Call
  <2>1. IdleCall.op \in MutationOps /\ IdleCall.item \in Items
    BY IdleCallType DEF Call
  <2>2. "refresh" \in AllKinds /\ "admitted" \in Phases
    BY DEF AllKinds, Phases
  <2>3. CapturedRead("refresh", "admitted") \in Call
    BY <2>1, <2>2, CapturedType
  <2>4. tokens + 1 \in Nat /\ revision + 1 \in Nat
    BY DEF TypeOK
  <2> QED
    BY <2>3, <2>4 DEF Call
<1>3. /\ call.kind = "refresh" /\ call.phase = "admitted" /\ call.root = output
      /\ call.token = tokens + 1 /\ call.rev = revision + 1 /\ call.waiting /\ ~call.ok
      /\ call.view = NoView /\ call.count = 0
  BY DEF CapturedRead, Captured
<1> HIDE DEF call
<1> QED
  BY <1>1, <1>2, <1>3

\* A refresh is admitted: every capture before it is overtaken.
LEMMA RefreshAdmitGoverned ==
  ASSUME TypeOK, Governed, NEW c \in Calls, RefreshAdmit(c) PROVE Governed'
<1>0. PICK call \in Call :
        /\ call.kind = "refresh" /\ call.phase = "admitted" /\ call.root = output
        /\ call.token = tokens + 1 /\ call.rev = revision + 1 /\ call.waiting /\ ~call.ok
        /\ InvalidateWith(Update(c, call), c)
  BY RefreshAdmits
<1> DEFINE cs == Update(c, call)
<1>1. /\ InvalidateWith(cs, c) /\ ~Busy(c) /\ Holders("scan") = {}
      /\ tokens' = tokens + 1 /\ tokens < MaxTokens /\ UNCHANGED output
  BY <1>0 DEF RefreshAdmit, Idle, Busy, CanAcquire, SlotOf
<1>4. /\ cs \in [Calls -> Call] /\ cs[c] = call
      /\ \A d \in Calls \ {c} : cs[d] = calls[d]
  BY DEF TypeOK, Update
<1> HIDE DEF cs
<1>5. /\ revision' = revision + 1 /\ selected' = 0 /\ durations' = {} /\ activeCancel' = c
      /\ Standing /\ revision \in Nat /\ tokens \in Nat /\ MaxTokens \in Nat
  BY <1>1, CoordinatorAssumption DEF InvalidateWith, Governed, TypeOK
<1>6. /\ calls'[c].kind = "refresh" /\ calls'[c].phase = "admitted"
      /\ calls'[c].root = output /\ calls'[c].token = tokens + 1
      /\ calls'[c].rev = revision + 1 /\ calls'[c].waiting /\ ~calls'[c].ok
  BY <1>0, <1>1, <1>4 DEF InvalidateWith, Call
<1>7. Refreshes(c)' /\ Latest(c)' /\ ~Registered(c)'
  BY <1>5, <1>6 DEF Refreshes, Busy, Latest, Registered
<1>8. ASSUME NEW d \in Calls, d # c, Busy(d)'
      PROVE  /\ Busy(d) /\ cs[d] = calls[d] /\ calls[d].rev <= revision
             /\ calls[d].rev \in Nat /\ calls[d].token \in 1 .. tokens
             /\ calls'[d].token = calls[d].token /\ calls'[d].rev = calls[d].rev
             /\ calls'[d].kind = calls[d].kind
  <2>1. cs[d] = calls[d] /\ Busy(d)
    BY <1>1, <1>4, <1>8, Overtaken
  <2>2. /\ calls'[d].token = calls[d].token /\ calls'[d].rev = calls[d].rev
        /\ calls'[d].kind = calls[d].kind
    BY <1>1, <1>4, <2>1, Overtaken
  <2>3. calls[d].rev <= revision /\ calls[d].token \in 1 .. tokens
    BY <1>5, <2>1 DEF Standing
  <2>4. calls[d].rev \in Nat
    <3>1. calls[d] \in Call
      BY DEF TypeOK
    <3> QED
      BY <3>1 DEF Call
  <2> QED
    BY <2>1, <2>2, <2>3, <2>4
<1>9. Standing'
  <2> SUFFICES ASSUME NEW d \in Calls, Busy(d)'
               PROVE  /\ calls'[d].phase \in Stages(calls'[d].kind)
                      /\ ~calls'[d].ok /\ (calls'[d].waiting \/ calls'[d].cancelled)
                      /\ calls'[d].token \in 1 .. tokens' /\ calls'[d].rev <= revision'
    BY DEF Standing
  <2>1. CASE d = c
    BY <1>1, <1>5, <1>6, <2>1, StageLists
  <2>2. CASE d # c
    BY <1>1, <1>4, <1>5, <1>8, <2>2, Overtaken DEF Standing
  <2> QED
    BY <2>1, <2>2
<1>10. RefreshRule'
  <2> SUFFICES ASSUME NEW d \in Calls, Refreshes(d)', d # c
               PROVE  ~Latest(d)' /\ calls'[d].cancelled
    BY <1>1, <1>5, <1>6, <1>7 DEF RefreshRule
  <2> QED
    BY <1>1, <1>4, <1>8, Overtaken DEF Refreshes
<1>11. ScanRule'
  <2> SUFFICES ASSUME NEW a \in Calls, NEW b \in Calls, a # b, Scans(a)', Refreshes(b)'
               PROVE  calls'[b].rev < calls'[a].rev
    BY DEF ScanRule
  <2>1. Busy(a)' /\ Busy(b)'
    BY DEF Scans, Refreshes
  <2>2. a = c
    <3> SUFFICES ASSUME a # c PROVE FALSE
      OBVIOUS
    <3>1. Scans(a)
      BY <1>1, <1>4, <1>8, <2>1, Overtaken
    <3>2. a \in Holders("scan")
      BY <3>1 DEF Scans, Refreshes, Busy, Holders, HoldsPermit, SlotOf
    <3> QED
      BY <1>1, <3>2
  <2> QED
    BY <1>5, <1>6, <1>8, <2>1, <2>2
<1>12. DurationRule'
  <2> SUFFICES ASSUME NEW d \in Calls, Registered(d)'
               PROVE  ~Latest(d)' /\ calls'[d].cancelled
    BY DEF DurationRule
  <2> QED
    BY <1>1, <1>4, <1>7, <1>8, Overtaken DEF Registered
<1>13. BatchRule'
  <2> SUFFICES ASSUME NEW a \in Calls, NEW b \in Calls, HoldsPermit(a)', HoldsPermit(b)',
                      SlotOf(calls'[a].kind) = "duration", SlotOf(calls'[b].kind) = "duration"
               PROVE  a = b
    BY DEF BatchRule, Holders
  <2>1. a # c /\ b # c
    BY <1>6 DEF SlotOf
  <2>2. a \in Holders("duration") /\ b \in Holders("duration")
    BY <1>1, <1>4, <2>1, Overtaken DEF Holders
  <2> QED
    BY <2>2 DEF Governed, BatchRule
<1>14. TokenRule'
  <2>1. tokens' <= MaxTokens /\ selected' <= tokens'
    BY <1>1, <1>5
  <2>2. ASSUME NEW d \in Calls, Refreshes(d)'
        PROVE  /\ calls'[d].token # selected'
               /\ \A e \in Calls : e # d /\ Busy(e)' => calls'[e].token # calls'[d].token
    <3>1. Busy(d)'
      BY <2>2 DEF Refreshes
    <3>2. CASE d = c
      BY <1>5, <1>6, <1>8, <3>2
    <3>3. CASE d # c
      <4>1. Refreshes(d)
        BY <1>8, <2>2, <3>1, <3>3 DEF Refreshes
      <4>2. \A e \in Calls : e # d /\ Busy(e) => calls[e].token # calls[d].token
        BY <4>1 DEF Governed, TokenRule
      <4> QED
        BY <1>5, <1>6, <1>8, <3>1, <3>3, <4>2
    <3> QED
      BY <3>2, <3>3
  <2>3. ASSUME NEW d \in Calls, Busy(d)', calls'[d].token = selected' PROVE FALSE
    BY <1>5, <1>6, <1>8, <2>3
  <2> QED
    BY <2>1, <2>2, <2>3 DEF TokenRule
<1>15. DurationsBelongToSelection'
  BY <1>5 DEF DurationsBelongToSelection
<1> QED
  BY <1>9, <1>10, <1>11, <1>12, <1>13, <1>14, <1>15 DEF Governed

\* A refresh publishes its snapshot and its token becomes the selection.
LEMMA RefreshPublishGoverned ==
  ASSUME TypeOK, Governed, NEW c \in Calls, RefreshPublish(c) PROVE Governed'
<1>0. Standing /\ calls[c] \in Call /\ selected \in Nat
  BY DEF Governed, TypeOK
<1>1. /\ Refreshes(c) /\ Latest(c)
  BY DEF RefreshPublish, RefreshIsCurrent, Refreshes, Busy, Latest
<1>2. activeCancel = c /\ selected = 0
  BY <1>1 DEF Governed, RefreshRule
<1>3. /\ ~Busy(c)' /\ \A d \in Calls \ {c} : calls'[d] = calls[d]
      /\ selected' = calls[c].token
      /\ UNCHANGED <<output, revision, tokens, durations, durationCancel>>
  BY AnswerEnds DEF RefreshPublish
<1>4. ASSUME NEW d \in Calls, Busy(d)'
      PROVE  /\ Busy(d) /\ d # c /\ calls'[d] = calls[d] /\ (Latest(d)' <=> Latest(d))
             /\ (Refreshes(d)' <=> Refreshes(d)) /\ (Scans(d)' <=> Scans(d))
             /\ (Registered(d)' <=> Registered(d))
             /\ (HoldsPermit(d)' <=> HoldsPermit(d))
  BY <1>3, <1>4 DEF Busy, Refreshes, Scans, Registered, Latest, HoldsPermit
<1>5. Standing'
  BY <1>0, <1>3, <1>4 DEF Standing
<1>6. RefreshRule'
  <2> SUFFICES ASSUME NEW d \in Calls, Refreshes(d)'
               PROVE  ~Latest(d)' /\ calls'[d].cancelled
    BY DEF RefreshRule
  <2>1. Busy(d)'
    BY DEF Refreshes
  <2> QED
    BY <1>2, <1>4, <2>1 DEF Governed, RefreshRule
<1>7. ScanRule'
  <2> SUFFICES ASSUME NEW a \in Calls, NEW b \in Calls, a # b, Scans(a)', Refreshes(b)'
               PROVE  calls'[b].rev < calls'[a].rev
    BY DEF ScanRule
  <2>1. Busy(a)' /\ Busy(b)'
    BY DEF Scans, Refreshes
  <2> QED
    BY <1>4, <2>1 DEF Governed, ScanRule
<1>8. DurationRule'
  <2> SUFFICES ASSUME NEW d \in Calls, Registered(d)'
               PROVE  ~Latest(d)' /\ calls'[d].cancelled
    BY DEF DurationRule
  <2>1. Busy(d)'
    BY DEF Registered
  <2> QED
    BY <1>2, <1>4, <2>1 DEF Governed, DurationRule
<1>9. BatchRule'
  <2> SUFFICES ASSUME NEW a \in Calls, NEW b \in Calls, HoldsPermit(a)', HoldsPermit(b)',
                      SlotOf(calls'[a].kind) = "duration", SlotOf(calls'[b].kind) = "duration"
               PROVE  a = b
    BY DEF BatchRule, Holders
  <2>1. Busy(a)' /\ Busy(b)'
    BY DEF HoldsPermit, Busy
  <2> QED
    BY <1>4, <2>1 DEF Governed, BatchRule, Holders
<1>10. TokenRule'
  <2>1. \A d \in Calls : d # c /\ Busy(d) => calls[d].token # calls[c].token
    BY <1>1 DEF Governed, TokenRule
  <2>2. tokens' <= MaxTokens /\ selected' <= tokens'
    BY <1>0, <1>1, <1>3 DEF Governed, TokenRule, Standing, Refreshes
  <2>3. ASSUME NEW d \in Calls, Refreshes(d)'
        PROVE  /\ calls'[d].token # selected'
               /\ \A e \in Calls : e # d /\ Busy(e)' => calls'[e].token # calls'[d].token
    <3>1. Busy(d)'
      BY <2>3 DEF Refreshes
    <3>2. \A e \in Calls : e # d /\ Busy(e) => calls[e].token # calls[d].token
      BY <1>4, <2>3, <3>1 DEF Governed, TokenRule
    <3> QED
      BY <1>3, <1>4, <2>1, <3>1, <3>2
  <2>4. ASSUME NEW d \in Calls, Busy(d)', calls'[d].token = selected' PROVE FALSE
    BY <1>3, <1>4, <2>1, <2>4
  <2> QED
    BY <2>2, <2>3, <2>4 DEF TokenRule
<1>11. DurationsBelongToSelection'
  BY <1>2, <1>3 DEF Governed, DurationsBelongToSelection
<1> QED
  BY <1>5, <1>6, <1>7, <1>8, <1>9, <1>10, <1>11 DEF Governed

\* Nothing the invariant speaks of changes.
LEMMA QuietGoverned ==
  ASSUME TypeOK, Governed, UNCHANGED <<output, publication, tokens, calls>>
  PROVE  Governed'
<1>1. \A d \in Calls : Busy(d)' => Kept(d)
  BY UntouchedIsKept DEF Busy, Governed
<1>2. UNCHANGED <<output, revision, selected, current, tokens, activeCancel, durationCancel>>
      /\ DurationsBelongToSelection'
  BY DEF publication, Governed, DurationsBelongToSelection
<1> QED
  BY <1>1, <1>2, KeptGoverned

\* Revisions, tokens and cancellation flags stay governed in every behaviour.
THEOREM Governance == Spec => [](TypeOK /\ Governed)
<1>1. Init => Governed
  <2> SUFFICES ASSUME Init PROVE Governed
    OBVIOUS
  <2>1. /\ \A c \in Calls : ~Busy(c)
        /\ tokens = 0 /\ selected = 0 /\ durations = {} /\ MaxTokens \in Nat
    BY CoordinatorAssumption DEF Init, IdleCall, Busy
  <2>2. Holders("duration") = {}
    BY <2>1 DEF Holders, HoldsPermit, Busy
  <2> QED
    BY <2>1, <2>2 DEF Governed, Standing, RefreshRule, ScanRule, DurationRule, BatchRule,
       TokenRule, DurationsBelongToSelection, Scans, Refreshes, Registered
<1>2. TypeOK /\ Governed /\ [Next]_vars => Governed'
  <2> SUFFICES ASSUME TypeOK, Governed, [Next]_vars PROVE Governed'
    OBVIOUS
  <2>1. CASE UNCHANGED vars
    BY <2>1, QuietGoverned DEF vars
  <2>2. CASE Next
    BY <2>2, Classes, WorksGoverned, AdmitsGoverned, RetiresGoverned, RegistersGoverned,
       RefreshAdmitGoverned, RefreshPublishGoverned, CallerDropGoverned, RevokesGoverned,
       QuietGoverned DEF Governed
  <2> QED
    BY <2>1, <2>2
<1> QED
  BY <1>1, <1>2, TypeCorrect, PTL DEF Spec

-----------------------------------------------------------------------------
(* The coordinator keeps the promise of LibraryAuthority.                  *)

LiveTokens == {calls[c].token : c \in {d \in Calls : Live(d)}}
Spent == 1 .. tokens \ LiveTokens

\* A refresh is live only under the latest revision.
LEMMA LiveIsLatest ==
  ASSUME NEW c \in Calls, Live(c)
  PROVE  Busy(c) /\ Refreshes(c) /\ Latest(c)
BY DEF Live, Busy, Refreshes, Latest

\* Where every live refresh was live before, no token comes back.
LEMMA SpentGrows ==
  ASSUME Governed, Governed', tokens \in Nat, tokens' \in Nat, tokens <= tokens',
         \A d \in Calls : Live(d)' =>
            \/ Live(d) /\ calls'[d].token = calls[d].token
            \/ calls'[d].token \notin 1 .. tokens
  PROVE  Spent \subseteq Spent' /\ Spent' \subseteq 1 .. MaxTokens
<1>1. tokens' <= MaxTokens /\ MaxTokens \in Nat
  BY CoordinatorAssumption DEF Governed, TokenRule
<1>2. Spent' \subseteq 1 .. MaxTokens
  BY <1>1 DEF Spent
<1>3. ASSUME NEW t \in Spent PROVE t \in Spent'
  <2>1. t \in 1 .. tokens /\ t \notin LiveTokens
    BY DEF Spent
  <2>2. t \in 1 .. tokens'
    BY <2>1
  <2>3. ASSUME NEW d \in Calls, Live(d)', calls'[d].token = t PROVE FALSE
    BY <2>1, <2>3 DEF LiveTokens
  <2> QED
    BY <2>2, <2>3 DEF Spent, LiveTokens
<1> QED
  BY <1>2, <1>3

\* A kept call is live only if it was.
LEMMA KeptLive ==
  ASSUME NEW d \in Calls, Live(d)', Busy(d)' => Kept(d),
         UNCHANGED <<output, revision, closed>>
  PROVE  Live(d) /\ calls'[d].token = calls[d].token
BY DEF Live, Kept, Busy

\* Each step is a step of the authority, or leaves it alone.
LEMMA AuthorityStep ==
  ASSUME TypeOK, TypeOK', Governed, Governed', Next
  PROVE  Authority!Next
<1> USE DEF Spent, LiveTokens
<1>0. tokens \in Nat /\ tokens' \in Nat /\ tokens <= MaxTokens /\ MaxTokens \in Nat
  BY CoordinatorAssumption DEF TypeOK, Governed, TokenRule
<1>s. ASSUME Spent \subseteq Spent', Spent' \subseteq 1 .. MaxTokens,
             UNCHANGED <<selected, closed>>
      PROVE  Authority!Next
  BY <1>s DEF Authority!Next, Authority!Spend
<1>r. ASSUME Spent \subseteq Spent', Spent' \subseteq 1 .. MaxTokens,
             selected' = 0, closed' \in {closed, TRUE}
      PROVE  Authority!Next
  BY <1>r DEF Authority!Next, Authority!Revoke, Authority!Close
<1>k. ASSUME \A d \in Calls : Busy(d)' => Kept(d),
             UNCHANGED <<output, revision, closed, selected, tokens>>
      PROVE  Authority!Next
  <2>1. \A d \in Calls : Live(d)' => Live(d) /\ calls'[d].token = calls[d].token
    BY <1>k, KeptLive
  <2>2. Spent \subseteq Spent' /\ Spent' \subseteq 1 .. MaxTokens
    BY <1>0, <1>k, <2>1, SpentGrows
  <2> QED
    BY <1>k, <1>s, <2>2
<1>n. ASSUME NEW c \in Calls, calls'[c].kind # "refresh",
             \A d \in Calls \ {c} : calls'[d] = calls[d],
             UNCHANGED <<output, revision, closed, selected, tokens>>
      PROVE  Authority!Next
  <2>1. \A d \in Calls : Live(d)' => Live(d) /\ calls'[d].token = calls[d].token
    BY <1>n DEF Live
  <2>2. Spent \subseteq Spent' /\ Spent' \subseteq 1 .. MaxTokens
    BY <1>0, <1>n, <2>1, SpentGrows
  <2> QED
    BY <1>n, <1>s, <2>2
<1>1. ASSUME NEW c \in Calls, Works(c) PROVE Authority!Next
  BY <1>1, <1>k, WorksKept DEF Works, publication
<1>2. ASSUME NEW c \in Calls, Admits(c) PROVE Authority!Next
  <2>1. /\ calls'[c].kind # "refresh" /\ \A d \in Calls \ {c} : calls'[d] = calls[d]
        /\ UNCHANGED <<output, publication, tokens>>
    BY <1>2 DEF Admits, Become, Update, Captured, TypeOK
  <2> QED
    BY <1>n, <2>1 DEF publication
<1>3. ASSUME NEW c \in Calls, Retires(c) PROVE Authority!Next
  BY <1>3, <1>k, RetiresKept DEF Retires
<1>4. ASSUME NEW c \in Calls, Registers(c) PROVE Authority!Next
  <2>1. calls[c] \in Call /\ calls \in [Calls -> Call]
    BY DEF TypeOK
  <2>2. /\ calls[c].kind = "durations"
        /\ Become(c, [calls[c] EXCEPT !.phase = "admitted", !.rev = revision])
        /\ UNCHANGED <<output, revision, closed, selected, tokens>>
    BY <1>4 DEF Registers, DurationRegister
  <2>3. calls'[c].kind # "refresh" /\ \A d \in Calls \ {c} : calls'[d] = calls[d]
    BY <2>1, <2>2 DEF Become, Update, Call
  <2> QED
    BY <1>n, <2>2, <2>3
<1>5. ASSUME NEW c \in Calls, CallerDrop(c) PROVE Authority!Next
  BY <1>5, <1>k, CallerDropKept DEF CallerDrop, publication
<1>6. ASSUME NEW c \in Calls, RefreshAdmit(c) PROVE Authority!Next
  <2>1. /\ tokens' = tokens + 1 /\ selected' = 0 /\ UNCHANGED closed /\ activeCancel' = c
    BY <1>6 DEF RefreshAdmit, InvalidateWith
  <2>2. ASSUME NEW d \in Calls, Live(d)' PROVE calls'[d].token \notin 1 .. tokens
    <3>1. Refreshes(d)' /\ Latest(d)'
      BY <2>2, LiveIsLatest DEF Live, Refreshes, Latest, Busy
    <3>2. d = c
      BY <2>1, <3>1 DEF Governed, RefreshRule
    <3>3. calls'[c].token = tokens + 1
      <4>1. PICK call \in Call :
              call.token = tokens + 1 /\ InvalidateWith(Update(c, call), c)
        BY <1>6, RefreshAdmits
      <4> QED
        BY <4>1 DEF InvalidateWith, Update, TypeOK, Call
    <3> QED
      BY <1>0, <3>2, <3>3
  <2>3. Spent \subseteq Spent' /\ Spent' \subseteq 1 .. MaxTokens
    BY <1>0, <2>1, <2>2, SpentGrows
  <2> QED
    BY <1>r, <2>1, <2>3
<1>7. ASSUME NEW c \in Calls, RefreshPublish(c) PROVE Authority!Next
  <2>1. /\ Refreshes(c) /\ Latest(c) /\ Live(c) /\ ~closed
    BY <1>7 DEF RefreshPublish, RefreshIsCurrent, Refreshes, Busy, Latest, Live
  <2>2. /\ activeCancel = c /\ selected = 0
    BY <2>1 DEF Governed, RefreshRule
  <2>3. /\ ~Busy(c)' /\ \A d \in Calls \ {c} : calls'[d] = calls[d]
        /\ selected' = calls[c].token
        /\ UNCHANGED <<output, revision, closed, tokens>>
    BY <1>7, AnswerEnds DEF RefreshPublish
  <2>4. calls[c].token \in 1 .. tokens
    BY <2>1 DEF Governed, Standing, Refreshes
  <2>5. \A d \in Calls : Live(d) => d = c
    BY <2>2, LiveIsLatest DEF Governed, RefreshRule
  <2>6. \A d \in Calls : ~Live(d)'
    <3> SUFFICES ASSUME NEW d \in Calls, Live(d)' PROVE FALSE
      OBVIOUS
    <3>1. Busy(d)'
      BY DEF Live, Busy
    <3>2. Live(d) /\ d # c
      BY <2>3, <3>1 DEF Live
    <3> QED
      BY <2>5, <3>2
  <2>7. LiveTokens = {calls[c].token} /\ LiveTokens' = {}
    BY <2>1, <2>5, <2>6
  <2>8. Spent = (1 .. tokens) \ {calls[c].token} /\ Spent' = 1 .. tokens
    BY <2>3, <2>7
  <2>9. /\ calls[c].token \notin Spent /\ Spent' = Spent \cup {calls[c].token}
        /\ calls[c].token \in 1 .. MaxTokens
    BY <1>0, <2>4, <2>8
  <2> HIDE DEF Spent
  <2> QED
    BY <2>1, <2>2, <2>3, <2>9 DEF Authority!Next, Authority!Grant, Spent
<1>8. ASSUME Revokes PROVE Authority!Next
  <2>1. PICK cs \in [Calls -> Call] :
          /\ InvalidateWith(cs, NoCall)
          /\ \A d \in Calls : \/ cs[d] = calls[d]
                             \/ /\ cs[d].phase = "idle" /\ cs[d].view = NoView
                                /\ calls[d].kind \in {"mutate", "export", "settings"}
    BY <1>8 DEF Revokes
  <2>2. selected' = 0 /\ tokens' = tokens /\ closed' \in {closed, TRUE} /\ activeCancel' = NoCall
    BY <1>8, <2>1 DEF Revokes, InvalidateWith
  <2>3. ASSUME NEW d \in Calls PROVE ~Live(d)'
    BY <2>2, CoordinatorAssumption
    DEF Live, Governed, RefreshRule, Refreshes, Latest, Busy
  <2>4. Spent \subseteq Spent' /\ Spent' \subseteq 1 .. MaxTokens
    BY <1>0, <2>2, <2>3, SpentGrows
  <2> QED
    BY <1>r, <2>2, <2>4
<1>9. ASSUME UNCHANGED <<output, publication, tokens, calls>> PROVE Authority!Next
  <2>1. \A d \in Calls : Busy(d)' => Kept(d)
    BY <1>9, UntouchedIsKept DEF Busy, Governed
  <2> QED
    BY <1>9, <1>k, <2>1 DEF publication
<1> QED
  BY <1>1, <1>2, <1>3, <1>4, <1>5, <1>6, <1>7, <1>8, <1>9, Classes DEF Governed

\* The coordinator implements the authority: a token is selected at most once,
\* only while nothing is, and never again after it was revoked or overtaken.
THEOREM AuthorityImplemented == Spec => AuthoritySpec
<1>1. Init => Authority!Init
  <2> SUFFICES ASSUME Init PROVE Authority!Init
    OBVIOUS
  <2>1. 1 .. tokens = {}
    BY DEF Init
  <2> QED
    BY <2>1 DEF Init, Authority!Init
<1>2. /\ TypeOK /\ TypeOK' /\ Governed /\ Governed' /\ [Next]_vars
      => [Authority!Next]_(Authority!vars)
  <2> SUFFICES ASSUME TypeOK, TypeOK', Governed, Governed', [Next]_vars
               PROVE  [Authority!Next]_(Authority!vars)
    OBVIOUS
  <2>1. CASE Next
    BY <2>1, AuthorityStep
  <2>2. CASE UNCHANGED vars
    BY <2>2 DEF vars, publication, Authority!vars, Live
  <2> QED
    BY <2>1, <2>2
<1> QED
  BY <1>1, <1>2, TypeCorrect, Governance, PTL DEF Spec, AuthoritySpec, Authority!Spec

-----------------------------------------------------------------------------
(* Successful answers.                                                     *)

\* A read or a batch is answered with success only in its own revision.
LEMMA AnswersAreCurrent ==
  ASSUME TypeOK, Governed, Next, NEW c \in Calls, Busy(c),
         calls[c].kind \in Readers \cup {"durations"}, calls'[c].ok
  PROVE  Latest(c)
<1>0. /\ calls \in [Calls -> Call] /\ calls[c] \in Call /\ ~calls[c].ok
      /\ calls[c].kind \notin {"refresh", "mutate", "export", "settings"}
  BY DEF TypeOK, Governed, Standing, Readers
<1>1. ASSUME NEW d \in Calls, Works(d) PROVE FALSE
  <2>1. PICK call \in Call : call.ok = calls[d].ok /\ Become(d, call)
    BY <1>1 DEF Works
  <2>2. calls'[c].ok = calls[c].ok
    BY <1>0, <2>1 DEF Become, Update
  <2> QED
    BY <1>0, <2>2
<1>2. ASSUME NEW d \in Calls, Admits(d) PROVE FALSE
  BY <1>0, <1>2 DEF Admits, Become, Update
<1>3. ASSUME NEW d \in Calls, Retires(d) PROVE Latest(c)
  <2>1. PICK success \in BOOLEAN : Answer(d, success) /\ (success => Justified(d))
    BY <1>3 DEF Retires
  <2>2. d = c
    BY <1>0, <2>1, AnswerEnds
  <2>3. calls'[c].ok = (success /\ calls[c].waiting)
    BY <1>0, <2>1, <2>2 DEF Answer, Become, Update, Ended, IdleCall
  <2>4. Justified(c)
    BY <2>1, <2>2, <2>3
  <2>5. CASE calls[c].kind \in Readers
    <3>1. calls[c].token = selected
      BY <2>4, <2>5 DEF Justified, StillCurrent, CapturesSelection
    <3> QED
      BY <2>5, <3>1 DEF Governed, TokenRule
  <2>6. CASE calls[c].kind = "durations"
    BY <2>4, <2>6 DEF Justified
  <2> QED
    BY <2>5, <2>6
<1>4. ASSUME NEW d \in Calls, Registers(d) PROVE FALSE
  <2>1. Become(d, [calls[d] EXCEPT !.phase = "admitted", !.rev = revision])
    BY <1>4 DEF Registers, DurationRegister
  <2>2. calls'[c].ok = calls[c].ok
    BY <1>0, <2>1 DEF Become, Update, Call
  <2> QED
    BY <1>0, <2>2
<1>5. ASSUME NEW d \in Calls, RefreshAdmit(d) PROVE FALSE
  <2>1. /\ ~Busy(d) /\ \E call \in Call : InvalidateWith(Update(d, call), d)
    BY <1>5, RefreshAdmits DEF RefreshAdmit, Idle, Busy
  <2>0. PICK call \in Call : InvalidateWith(Update(d, call), d)
    BY <2>1
  <2>2. Update(d, call)[c] = calls[c]
    BY <1>0, <2>1 DEF Update
  <2>3. calls'[c].ok = calls[c].ok
    BY <1>0, <2>0, <2>2 DEF InvalidateWith, Call
  <2> QED
    BY <1>0, <2>3
<1>6. ASSUME NEW d \in Calls, RefreshPublish(d) PROVE FALSE
  <2>1. d # c
    BY <1>0, <1>6 DEF RefreshPublish
  <2>2. calls'[c] = calls[c]
    BY <1>6, <2>1, AnswerEnds DEF RefreshPublish
  <2> QED
    BY <1>0, <2>2
<1>7. ASSUME NEW d \in Calls, CallerDrop(d) PROVE FALSE
  <2>1. Become(d, [calls[d] EXCEPT !.waiting = FALSE, !.cancelled = TRUE])
    BY <1>7 DEF CallerDrop
  <2>2. calls'[c].ok = calls[c].ok
    BY <1>0, <2>1 DEF Become, Update, Call
  <2> QED
    BY <1>0, <2>2
<1>8. ASSUME Revokes PROVE FALSE
  <2>1. PICK cs \in [Calls -> Call] :
          /\ InvalidateWith(cs, NoCall)
          /\ \A d \in Calls : \/ cs[d] = calls[d]
                              \/ /\ cs[d].phase = "idle" /\ cs[d].view = NoView
                                 /\ calls[d].kind \in {"mutate", "export", "settings"}
    BY <1>8 DEF Revokes
  <2>2. cs[c] = calls[c]
    BY <1>0, <2>1
  <2> QED
    BY <1>0, <2>1, <2>2, Overtaken
<1>9. ASSUME UNCHANGED <<output, publication, tokens, calls>> PROVE FALSE
  BY <1>0, <1>9
<1> QED
  BY <1>1, <1>2, <1>3, <1>4, <1>5, <1>6, <1>7, <1>8, <1>9, Classes DEF Governed

\* A read or a duration batch that succeeds was overtaken by no refresh, mutation,
\* change of root or shutdown between its admission and its answer.
THEOREM ReadsAreWithinOneRevision == Spec => ReadWithinOneRevision
<1> DEFINE Answers == \A c \in Calls :
              calls[c].kind \in Readers \cup {"durations"} /\ calls'[c].ok
                  /\ calls[c].phase # "idle" => calls[c].rev = revision
<1>1. TypeOK /\ Governed /\ [Next]_vars => [Answers]_vars
  <2> SUFFICES ASSUME TypeOK, Governed, Next PROVE Answers
    OBVIOUS
  <2> QED
    BY AnswersAreCurrent DEF Busy, Latest
<1> HIDE DEF Answers
<1>2. Spec => [][Answers]_vars
  BY <1>1, Governance, PTL DEF Spec
<1> QED
  BY <1>2 DEF Answers, ReadWithinOneRevision

-----------------------------------------------------------------------------
(* What the selected snapshot and the answers to reads say of the files.   *)
(* It rests on Governed: which refresh is the latest, and that every other *)
(* one has been told.                                                      *)

\* A refresh whose view is a scan of its root.
Viewed(c) ==
    Refreshes(c) /\ calls[c].phase \in {"scanned", "archiving", "moving", "finishing", "done"}

\* An identifier the recorder has not used is nowhere.
RecordedRule ==
    \A g \in Games : g \notin recorded =>
        /\ \A r \in Roots : disk[r][g] = "absent"
        /\ current.view[g] = "absent"
        /\ \A c \in Calls : calls[c].view[g] = "absent"

\* An export creates a clip.
ExportRule ==
    \A c \in Calls : Busy(c) /\ calls[c].kind = "export" => calls[c].item \in Clips

\* What a refresh has seen is still there.
SeesRoot(c) ==
    /\ \A g \in Games : calls[c].view[g] # "absent" =>
                           calls[c].view[g] = disk[output][g]
    /\ calls[c].phase = "done" =>
          \A i \in Clips : calls[c].view[i] = disk[output][i]

\* A refresh that may still be published sees its root, unless an effect is about
\* to supersede it.
ViewRule ==
    \A c \in Calls : Viewed(c) /\ Latest(c) /\ ~EffectPending(output) => SeesRoot(c)

\* Files and the views of them.
Filed ==
    /\ RecordedRule /\ ExportRule /\ ViewRule
    /\ FreshSelection /\ ScanningRevokesSelection

\* An archive holds at most what was moved into it, and a total that will be
\* published counts at most that.
CountRule ==
    /\ \A r \in Roots : ArchiveCount(r) <= moved[r]
    /\ \A c \in Calls : Refreshes(c) /\ Latest(c) =>
          archivedUsage + calls[c].count <= moved[output]
    /\ \A c \in Calls : Busy(c) /\ calls[c].kind = "usage" =>
          calls[c].count <= moved[calls[c].root]

Counted == CountRule /\ UsageNeverOvercounts

\* Which steps change files.
LEMMA FileSteps ==
  ASSUME Next
  PROVE  \/ UNCHANGED files
         \/ \E c \in Calls : RefreshArchiveMove(c) \/ MutateEffect(c) \/ ExportEffect(c)
         \/ \E root \in Roots, game \in Games : RecorderPublishes(root, game)
<1>1. ASSUME NEW c \in Calls, Worker(c)
      PROVE  \/ UNCHANGED files
             \/ RefreshArchiveMove(c) \/ MutateEffect(c) \/ ExportEffect(c)
  BY <1>1 DEF Worker, RefreshScan, RefreshArchiveBegin, RefreshArchiveCheck,
     RefreshArchiveEnd, RefreshFinish, IndexBuild, IndexRecheck, PlainRead, DurationProbe,
     MutateLease, MutationComplete, SettingsPublish, PublishRoot, SettingsFail
<1>2. ASSUME NEW c \in Calls, Caller(c) PROVE UNCHANGED files
  BY <1>2 DEF Caller, IndexLoad, IndexLoadSuperseded, DurationRegister, RefreshPublish,
     RefreshReject, ReadAnswer, DurationAnswer
<1>3. ASSUME NEW c \in Calls, Admission(c) PROVE UNCHANGED files
  BY <1>3 DEF Admission, RefreshAdmit, ReadAdmit, DurationAdmit, MutateAdmit, ExportAdmit,
     SettingsAdmit
<1>4. ASSUME NEW c \in Calls, CallerDrop(c) PROVE UNCHANGED files
  BY <1>4 DEF CallerDrop
<1>5. CASE Environment
  BY <1>5 DEF Environment, ReconcileRoot, PublishRoot, Shutdown
<1> QED
  BY <1>1, <1>2, <1>3, <1>4, <1>5 DEF Next

\* While a worker scans, nothing is selected.
LEMMA ScanningStep ==
  ASSUME TypeOK, Governed, ScanningRevokesSelection, Next
  PROVE  ScanningRevokesSelection'
<1>0. calls \in [Calls -> Call]
  BY DEF TypeOK
<1>1. ASSUME NEW d \in Calls, selected # 0 PROVE ~Scans(d)
  BY <1>1 DEF ScanningRevokesSelection, Scans, Refreshes, Busy
<1>2. ASSUME selected' # 0 => \A d \in Calls : ~Scans(d)'
      PROVE  ScanningRevokesSelection'
  BY <1>2 DEF ScanningRevokesSelection, Scans, Refreshes, Busy
<1>k. ASSUME \A d \in Calls : Busy(d)' => Kept(d), selected' = selected
      PROVE  ScanningRevokesSelection'
  <2>1. \A d \in Calls : Scans(d)' => Scans(d)
    BY <1>k DEF Kept, Scans, Refreshes
  <2> QED
    BY <1>1, <1>2, <1>k, <2>1
<1>n. ASSUME NEW c \in Calls, calls'[c].kind # "refresh",
             \A d \in Calls \ {c} : calls'[d] = calls[d], selected' = selected
      PROVE  ScanningRevokesSelection'
  <2>1. \A d \in Calls : Scans(d)' => Scans(d)
    BY <1>n DEF Scans, Refreshes, Busy
  <2> QED
    BY <1>1, <1>2, <1>n, <2>1
<1>3. ASSUME NEW c \in Calls, Works(c) \/ Retires(c) \/ CallerDrop(c)
      PROVE  ScanningRevokesSelection'
  <2>1. selected' = selected
    BY <1>3 DEF Works, Retires, CallerDrop, publication
  <2> QED
    BY <1>3, <1>k, <2>1, WorksKept, RetiresKept, CallerDropKept
<1>4. ASSUME NEW c \in Calls, Admits(c) PROVE ScanningRevokesSelection'
  <2>1. /\ calls'[c].kind # "refresh" /\ \A d \in Calls \ {c} : calls'[d] = calls[d]
        /\ UNCHANGED <<output, publication, tokens>>
    BY <1>4 DEF Admits, Become, Update, Captured, TypeOK
  <2> QED
    BY <1>n, <2>1 DEF publication
<1>5. ASSUME NEW c \in Calls, Registers(c) PROVE ScanningRevokesSelection'
  <2>1. /\ calls[c].kind = "durations"
        /\ Become(c, [calls[c] EXCEPT !.phase = "admitted", !.rev = revision])
        /\ UNCHANGED selected
    BY <1>5 DEF Registers, DurationRegister
  <2>2. calls'[c].kind # "refresh" /\ \A d \in Calls \ {c} : calls'[d] = calls[d]
    BY <1>0, <2>1 DEF Become, Update, Call
  <2> QED
    BY <1>n, <2>1, <2>2
<1>6. ASSUME NEW c \in Calls, RefreshAdmit(c) PROVE ScanningRevokesSelection'
  BY <1>6 DEF RefreshAdmit, InvalidateWith, ScanningRevokesSelection
<1>7. ASSUME NEW c \in Calls, RefreshPublish(c) PROVE ScanningRevokesSelection'
  <2>1. Refreshes(c) /\ calls[c].rev = revision
    BY <1>7 DEF RefreshPublish, RefreshIsCurrent, Refreshes, Busy
  <2>2. ~Busy(c)' /\ \A d \in Calls \ {c} : calls'[d] = calls[d]
    BY <1>7, AnswerEnds DEF RefreshPublish
  <2>3. ASSUME NEW d \in Calls, Scans(d)' PROVE FALSE
    <3>1. d # c /\ Scans(d)
      BY <2>2, <2>3 DEF Scans, Refreshes, Busy
    <3>2. revision < calls[d].rev /\ calls[d].rev <= revision
      BY <2>1, <3>1 DEF Governed, ScanRule, Standing, Scans, Refreshes
    <3> QED
      BY <1>0, <3>2 DEF TypeOK, Call
  <2> QED
    BY <1>2, <2>3
<1>8. ASSUME Revokes PROVE ScanningRevokesSelection'
  BY <1>8 DEF Revokes, InvalidateWith, ScanningRevokesSelection
<1>9. ASSUME UNCHANGED <<output, publication, tokens, calls>>
      PROVE  ScanningRevokesSelection'
  BY <1>9 DEF publication, ScanningRevokesSelection
<1> QED
  BY <1>3, <1>4, <1>5, <1>6, <1>7, <1>8, <1>9, Classes DEF Governed

\* Where a view comes from.
LEMMA ViewSources ==
  ASSUME TypeOK, Governed, Next, NEW d \in Calls, NEW g \in Games
  PROVE  calls'[d].view[g] \in SeenOf(d, g)
<1>0. calls \in [Calls -> Call] /\ calls[d] \in Call /\ g \in Items
  BY DEF TypeOK, Items
<1>1. NoView[g] = "absent"
  BY <1>0 DEF NoView
<1>2. ASSUME calls'[d].view \in {calls[d].view, NoView}
      PROVE  calls'[d].view[g] \in SeenOf(d, g)
  BY <1>1, <1>2 DEF SeenOf
<1>3. ASSUME NEW c \in Calls, Works(c) PROVE calls'[d].view[g] \in SeenOf(d, g)
  <2>1. PICK call \in Call : (\A h \in Games : call.view[h] \in SeenOf(c, h)) /\ Become(c, call)
    BY <1>3 DEF Works
  <2>2. calls'[c] = call /\ (d # c => calls'[d] = calls[d])
    BY <1>0, <2>1 DEF Become, Update
  <2> QED
    BY <1>2, <2>1, <2>2
<1>4. ASSUME NEW c \in Calls, Admits(c) PROVE calls'[d].view[g] \in SeenOf(d, g)
  <2>1. calls'[d].view \in {calls[d].view, NoView}
    BY <1>0, <1>4 DEF Admits, Become, Update, Captured
  <2> QED
    BY <1>2, <2>1
<1>5. ASSUME NEW c \in Calls, NEW success \in BOOLEAN, Answer(c, success)
      PROVE  calls'[d].view[g] \in SeenOf(d, g)
  <2>1. calls'[d].view \in {calls[d].view, NoView}
    BY <1>0, <1>5 DEF Answer, Become, Update, Ended, IdleCall
  <2> QED
    BY <1>2, <2>1
<1>6. ASSUME NEW c \in Calls, Registers(c) PROVE calls'[d].view[g] \in SeenOf(d, g)
  <2>1. Become(c, [calls[c] EXCEPT !.phase = "admitted", !.rev = revision])
    BY <1>6 DEF Registers, DurationRegister
  <2>2. calls'[d].view = calls[d].view
    BY <1>0, <2>1 DEF Become, Update, Call
  <2> QED
    BY <1>2, <2>2
<1>7. ASSUME NEW c \in Calls, CallerDrop(c) PROVE calls'[d].view[g] \in SeenOf(d, g)
  <2>1. Become(c, [calls[c] EXCEPT !.waiting = FALSE, !.cancelled = TRUE])
    BY <1>7 DEF CallerDrop
  <2>2. calls'[d].view = calls[d].view
    BY <1>0, <2>1 DEF Become, Update, Call
  <2> QED
    BY <1>2, <2>2
<1>8. ASSUME NEW cs \in [Calls -> Call], NEW next, InvalidateWith(cs, next),
             cs[d].view \in {calls[d].view, NoView}
      PROVE  calls'[d].view[g] \in SeenOf(d, g)
  <2>1. calls'[d].view = cs[d].view
    BY <1>8 DEF InvalidateWith, Call
  <2> QED
    BY <1>2, <1>8, <2>1
<1>9. ASSUME NEW c \in Calls, RefreshAdmit(c) PROVE calls'[d].view[g] \in SeenOf(d, g)
  <2>1. PICK call \in Call : call.view = NoView /\ InvalidateWith(Update(c, call), c)
    BY <1>9, RefreshAdmits
  <2>2. /\ Update(c, call) \in [Calls -> Call]
        /\ Update(c, call)[d].view \in {calls[d].view, NoView}
    BY <1>0, <2>1 DEF Update
  <2> QED
    BY <1>8, <2>1, <2>2
<1>10. ASSUME Revokes PROVE calls'[d].view[g] \in SeenOf(d, g)
  <2>1. PICK cs \in [Calls -> Call] :
          /\ InvalidateWith(cs, NoCall)
          /\ \A e \in Calls : cs[e] = calls[e] \/ cs[e].view = NoView
    BY <1>10 DEF Revokes
  <2> QED
    BY <1>8, <2>1
<1>11. ASSUME UNCHANGED <<output, publication, tokens, calls>>
       PROVE  calls'[d].view[g] \in SeenOf(d, g)
  BY <1>2, <1>11
<1> QED
  BY <1>3, <1>4, <1>5, <1>6, <1>7, <1>9, <1>10, <1>11, Classes
  DEF Governed, Retires, RefreshPublish

\* No effect of a mutation creates anything.
LEMMA EffectsKeepAbsent ==
  ASSUME NEW op \in MutationOps, NEW item \in Items, NEW before \in Views,
         NEW after \in Effects(op, item, before), NEW i \in Items,
         before[i] = "absent"
  PROVE  after[i] = "absent"
<1>1. CASE op = "retention"
  <2>1. after \in Expired(before)
    BY <1>1 DEF Effects
  <2>2. PICK gone \in SUBSET {g \in Games : before[g] = "unsaved"} :
          after = [j \in DOMAIN before |-> IF j \in gone THEN "absent" ELSE before[j]]
    BY <2>1 DEF Expired
  <2> QED
    BY <2>2 DEF Views
<1>2. CASE op \in {"deleteGame", "deleteClip"}
  <2>1. after = [before EXCEPT ![item] = "absent"]
    BY <1>2 DEF Effects
  <2> QED
    BY <2>1 DEF Views
<1>3. CASE op \in {"save", "unsave"}
  <2>1. before[item] # "absent" /\ after \in {[before EXCEPT ![item] = "saved"],
                                              [before EXCEPT ![item] = "unsaved"]}
    BY <1>3 DEF Effects
  <2> QED
    BY <2>1 DEF Views
<1> QED
  BY <1>1, <1>2, <1>3 DEF MutationOps

\* A game the recorder has not published stays unseen.
LEMMA RecordedStep ==
  ASSUME TypeOK, Governed, Filed, Next PROVE RecordedRule'
<1> SUFFICES ASSUME NEW g \in Games, g \notin recorded'
             PROVE  /\ \A r \in Roots : disk'[r][g] = "absent"
                    /\ current'.view[g] = "absent"
                    /\ \A c \in Calls : calls'[c].view[g] = "absent"
  BY DEF RecordedRule
<1>0. g \in Items /\ calls \in [Calls -> Call] /\ disk \in [Roots -> Views]
      /\ current.view \in Views
  BY DEF TypeOK, Items
<1>1. g \notin recorded
  BY FileSteps DEF files, RefreshArchiveMove, MutateEffect, ExportEffect, RecorderPublishes
<1>2. /\ \A r \in Roots : disk[r][g] = "absent"
      /\ current.view[g] = "absent"
      /\ \A c \in Calls : calls[c].view[g] = "absent"
  BY <1>1 DEF Filed, RecordedRule
<1>3. ASSUME NEW r \in Roots PROVE disk'[r][g] = "absent"
  <2>1. CASE UNCHANGED files
    BY <1>2, <2>1 DEF files
  <2>2. ASSUME NEW c \in Calls, RefreshArchiveMove(c) PROVE disk'[r][g] = "absent"
    BY <1>0, <1>2, <2>2 DEF RefreshArchiveMove, Views, Call
  <2>3. ASSUME NEW c \in Calls, MutateEffect(c) PROVE disk'[r][g] = "absent"
    <3>1. calls[c].op \in MutationOps /\ calls[c].item \in Items /\ calls[c].root \in Roots
      BY <1>0 DEF Call
    <3>2. CASE UNCHANGED disk
      BY <1>2, <3>2
    <3>3. CASE \E after \in Effects(calls[c].op, calls[c].item, disk[calls[c].root]) :
                  disk' = [disk EXCEPT ![calls[c].root] = after]
      BY <1>0, <1>2, <3>1, <3>3, EffectsKeepAbsent
    <3> QED
      BY <2>3, <3>2, <3>3 DEF MutateEffect
  <2>4. ASSUME NEW c \in Calls, ExportEffect(c) PROVE disk'[r][g] = "absent"
    <3>1. calls[c].item \in Clips
      BY <2>4 DEF ExportEffect, Filed, ExportRule, Busy
    <3>2. calls[c].item # g
      BY <3>1, CoordinatorAssumption
    <3> QED
      BY <1>0, <1>2, <2>4, <3>2 DEF ExportEffect, Views, Call
  <2>5. ASSUME NEW root \in Roots, NEW game \in Games, RecorderPublishes(root, game)
        PROVE  disk'[r][g] = "absent"
    <3>1. game # g
      BY <2>5 DEF RecorderPublishes
    <3> QED
      BY <1>0, <1>2, <2>5, <3>1 DEF RecorderPublishes, Views
  <2> QED
    BY <2>1, <2>2, <2>3, <2>4, <2>5, FileSteps
<1>4. current'.view[g] = "absent"
  <2>1. current'.view = current.view \/ \E c \in Calls : current'.view = calls[c].view
    <3>1. ASSUME NEW c \in Calls, RefreshPublish(c) PROVE current'.view = calls[c].view
      BY <3>1 DEF RefreshPublish
    <3> QED
      BY <3>1, Classes DEF Works, Admits, Retires, Registers, DurationRegister, RefreshAdmit,
         CallerDrop, Revokes, publication, Governed
  <2> QED
    BY <1>2, <2>1
<1>5. ASSUME NEW c \in Calls PROVE calls'[c].view[g] = "absent"
  <2>1. calls[c].root \in Roots
    BY <1>0 DEF Call
  <2> QED
    BY <1>2, <2>1, ViewSources DEF SeenOf
<1> QED
  BY <1>3, <1>4, <1>5

\* An export keeps the clip it was admitted for.
LEMMA ExportStep ==
  ASSUME TypeOK, Governed, ExportRule, Next PROVE ExportRule'
<1> SUFFICES ASSUME NEW d \in Calls, Busy(d)', calls'[d].kind = "export"
             PROVE  calls'[d].item \in Clips
  BY DEF ExportRule
<1>0. calls \in [Calls -> Call] /\ calls[d] \in Call
  BY DEF TypeOK
<1>1. ASSUME Busy(d), calls'[d].kind = calls[d].kind, calls'[d].item = calls[d].item
      PROVE  calls'[d].item \in Clips
  BY <1>1 DEF ExportRule
<1>2. ASSUME calls'[d] = calls[d] PROVE calls'[d].item \in Clips
  BY <1>1, <1>2 DEF Busy
<1>3. ASSUME NEW c \in Calls, Works(c) PROVE calls'[d].item \in Clips
  <2>1. PICK call \in Call :
          /\ call.kind = calls[c].kind /\ (call.kind # "refresh" => call.item = calls[c].item)
          /\ Become(c, call)
    BY <1>3 DEF Works
  <2>2. calls'[c] = call /\ (d # c => calls'[d] = calls[d])
    BY <1>0, <2>1 DEF Become, Update
  <2>3. Busy(c)
    BY <1>3 DEF Works
  <2> QED
    BY <1>1, <1>2, <2>1, <2>2, <2>3
<1>4. ASSUME NEW c \in Calls, Admits(c) PROVE calls'[d].item \in Clips
  BY <1>0, <1>2, <1>4 DEF Admits, Become, Update, Captured
<1>5. ASSUME NEW c \in Calls, NEW success \in BOOLEAN, Answer(c, success)
      PROVE  calls'[d].item \in Clips
  BY <1>2, <1>5, AnswerEnds
<1>6. ASSUME NEW c \in Calls, Registers(c) PROVE calls'[d].item \in Clips
  <2>1. Become(c, [calls[c] EXCEPT !.phase = "admitted", !.rev = revision])
        /\ calls[c].kind = "durations"
    BY <1>6 DEF Registers, DurationRegister
  <2>2. calls'[d] = calls[d] \/ calls'[d].kind = "durations"
    BY <1>0, <2>1 DEF Become, Update, Call
  <2> QED
    BY <1>2, <2>2
<1>7. ASSUME NEW c \in Calls, CallerDrop(c) PROVE calls'[d].item \in Clips
  <2>1. Become(c, [calls[c] EXCEPT !.waiting = FALSE, !.cancelled = TRUE])
    BY <1>7 DEF CallerDrop
  <2>2. calls'[d].kind = calls[d].kind /\ calls'[d].item = calls[d].item
        /\ calls'[d].phase = calls[d].phase
    BY <1>0, <2>1 DEF Become, Update, Call
  <2> QED
    BY <1>1, <2>2 DEF Busy
<1>8. ASSUME NEW cs \in [Calls -> Call], NEW next, InvalidateWith(cs, next), cs[d] = calls[d]
      PROVE  calls'[d].item \in Clips
  BY <1>1, <1>8, Overtaken
<1>9. ASSUME NEW c \in Calls, RefreshAdmit(c) PROVE calls'[d].item \in Clips
  <2>1. PICK call \in Call : call.kind = "refresh" /\ InvalidateWith(Update(c, call), c)
    BY <1>9, RefreshAdmits
  <2>2. Update(c, call) \in [Calls -> Call]
    BY <1>0, <2>1 DEF Update
  <2>3. d # c
    BY <1>0, <2>1 DEF InvalidateWith, Update, Call
  <2>4. Update(c, call)[d] = calls[d]
    BY <1>0, <2>3 DEF Update
  <2> QED
    BY <1>8, <2>1, <2>2, <2>4
<1>10. ASSUME Revokes PROVE calls'[d].item \in Clips
  <2>1. PICK cs \in [Calls -> Call] :
          /\ InvalidateWith(cs, NoCall)
          /\ \A e \in Calls : cs[e] = calls[e] \/ cs[e].phase = "idle"
    BY <1>10 DEF Revokes
  <2>2. cs[d] = calls[d]
    BY <2>1 DEF InvalidateWith, Call, Busy
  <2> QED
    BY <1>8, <2>1, <2>2
<1>11. ASSUME UNCHANGED <<output, publication, tokens, calls>>
       PROVE  calls'[d].item \in Clips
  BY <1>2, <1>11
<1> QED
  BY <1>3, <1>4, <1>5, <1>6, <1>7, <1>9, <1>10, <1>11, Classes
  DEF Governed, Retires, RefreshPublish

\* A refresh whose scan a step does not touch.
Unscanned(d) ==
    /\ Viewed(d) /\ calls'[d].rev = calls[d].rev /\ calls'[d].view = calls[d].view
    /\ calls'[d].phase = "done" => calls[d].phase = "done"

\* What a step may do to the served root without superseding what was seen.
RootKept ==
    \A i \in Items : disk'[output][i] = disk[output][i] \/ (i \in Games /\ i \notin recorded)

\* Steps that keep the selection keep what is known of views.
LEMMA ViewsKept ==
  ASSUME TypeOK, Filed, UNCHANGED <<output, revision, selected, current>>,
         EffectPending(output) => EffectPending(output)',
         EffectPending(output)' \/ RootKept,
         \A d \in Calls : Viewed(d)' /\ Latest(d)' /\ ~EffectPending(output)' =>
                             Unscanned(d) \/ SeesRoot(d)'
  PROVE  ViewRule' /\ FreshSelection'
<1>0. \A i \in Games \cup Clips : i \in Items
  BY DEF Items
<1>1. ViewRule'
  <2> SUFFICES ASSUME NEW d \in Calls, Viewed(d)', Latest(d)', ~EffectPending(output)',
                      Unscanned(d)
               PROVE  SeesRoot(d)'
    BY DEF ViewRule
  <2>1. RootKept /\ SeesRoot(d)
    BY DEF Unscanned, Filed, ViewRule, Latest
  <2>2. \A g \in Games : calls[d].view[g] # "absent" => g \in recorded
    BY DEF Filed, RecordedRule
  <2>3. \A g \in Games : calls'[d].view[g] # "absent" =>
                            calls'[d].view[g] = disk'[output'][g]
    BY <1>0, <2>1, <2>2 DEF RootKept, SeesRoot, Unscanned
  <2>4. calls'[d].phase = "done" =>
           \A i \in Clips : calls'[d].view[i] = disk'[output'][i]
    BY <1>0, <2>1, CoordinatorAssumption DEF RootKept, SeesRoot, Unscanned
  <2> QED
    BY <2>3, <2>4 DEF SeesRoot
<1>2. FreshSelection'
  <2> SUFFICES ASSUME selected' # 0, ~EffectPending(output)'
               PROVE  /\ \A i \in Clips : current'.view[i] = disk'[output'][i]
                      /\ \A g \in Games : current'.view[g] # "absent" =>
                                             current'.view[g] = disk'[output'][g]
    BY DEF FreshSelection, EffectPending
  <2>1. /\ RootKept
        /\ \A i \in Clips : current.view[i] = disk[output][i]
        /\ \A g \in Games : current.view[g] # "absent" => current.view[g] = disk[output][g]
    BY DEF Filed, FreshSelection
  <2>2. \A g \in Games : current.view[g] # "absent" => g \in recorded
    BY DEF Filed, RecordedRule
  <2> QED
    BY <1>0, <2>1, <2>2, CoordinatorAssumption DEF RootKept
<1> QED
  BY <1>1, <1>2

\* The same where at most one call changes.
LEMMA OneCallViews ==
  ASSUME TypeOK, Filed, UNCHANGED <<output, revision, selected, current>>,
         NEW c \in Calls, \A d \in Calls \ {c} : calls'[d] = calls[d],
         calls[c].phase = "effected" /\ calls[c].root = output => EffectPending(output)',
         EffectPending(output)' \/ RootKept,
         Viewed(c)' /\ Latest(c)' /\ ~EffectPending(output)' => Unscanned(c) \/ SeesRoot(c)'
  PROVE  ViewRule' /\ FreshSelection'
<1>1. EffectPending(output) => EffectPending(output)'
  <2> SUFFICES ASSUME NEW d \in Calls, calls[d].phase = "effected", calls[d].root = output,
                      d # c
               PROVE  EffectPending(output)'
    BY DEF EffectPending
  <2>1. calls'[d] = calls[d]
    OBVIOUS
  <2> QED
    BY <2>1 DEF EffectPending
<1>2. ASSUME NEW d \in Calls, d # c, Viewed(d)' PROVE Unscanned(d)
  BY <1>2 DEF Unscanned, Viewed, Refreshes, Busy
<1> QED
  BY <1>1, <1>2, ViewsKept

\* Nothing is selected, and no refresh that has scanned is the latest.
LEMMA ViewsRevoked ==
  ASSUME selected' = 0, \A d \in Calls : ~(Viewed(d)' /\ Latest(d)')
  PROVE  ViewRule' /\ FreshSelection'
BY DEF ViewRule, FreshSelection, Viewed, Latest

\* Only one scanned refresh can be the latest while a worker scans.
LEMMA ScansAlone ==
  ASSUME TypeOK, Governed, NEW c \in Calls, NEW d \in Calls, Scans(c), Refreshes(d), Latest(d)
  PROVE  d = c
<1>1. calls[c].rev \in Nat /\ calls[d].rev \in Nat /\ revision \in Nat
      /\ calls[c].rev <= revision
  BY DEF TypeOK, Call, Governed, Standing, Scans, Refreshes
<1> QED
  BY <1>1 DEF Governed, ScanRule, Latest

\* A worker that scans keeps what is known of views.
LEMMA ScanViews ==
  ASSUME TypeOK, Governed, Filed, NEW c \in Calls,
         \/ RefreshScan(c) \/ RefreshArchiveMove(c) \/ RefreshFinish(c)
  PROVE  ViewRule' /\ FreshSelection'
<1>0. /\ calls \in [Calls -> Call] /\ calls[c] \in Call /\ disk \in [Roots -> Views]
      /\ output \in Roots
      /\ UNCHANGED <<output, revision, selected, current>>
  BY DEF TypeOK, RefreshScan, RefreshArchiveMove, RefreshFinish, publication
<1>1. Refreshes(c) /\ Scans(c) /\ calls[c].phase \notin WorkerEnded \cup {"effected"}
  <2>1. /\ calls[c].phase \in {"admitted", "moving", "finishing"}
        /\ calls[c].phase = "admitted" => calls[c].kind = "refresh"
    BY DEF RefreshScan, RefreshArchiveMove, RefreshFinish
  <2> QED
    BY <2>1, KindOfStage DEF Scans, Refreshes, Busy, WorkerEnded, Governed
<1>2. selected = 0
  BY <1>1 DEF Filed, ScanningRevokesSelection, Scans, Refreshes, Busy
<1>3. Latest(c) => calls[c].root = output
  BY <1>1 DEF Governed, RefreshRule
<1>4. \A d \in Calls \ {c} : calls'[d] = calls[d]
  BY <1>0 DEF RefreshScan, RefreshArchiveMove, RefreshFinish, Step, Become, Update
<1>5. ASSUME Step(c, "failed"), UNCHANGED files PROVE ViewRule' /\ FreshSelection'
  <2>1. calls'[c].phase = "failed"
    BY <1>0, <1>5 DEF Step, Become, Update, Call
  <2>2. ~Viewed(c)' /\ RootKept
    BY <1>5, <2>1 DEF Viewed, RootKept, files
  <2> QED
    BY <1>0, <1>1, <1>4, <2>2, OneCallViews
<1>6. CASE RefreshScan(c)
  <2>1. CASE Become(c, [calls[c] EXCEPT !.phase = "scanned", !.view = disk[calls[c].root]])
    <3>1. /\ calls'[c].phase = "scanned" /\ calls'[c].view = disk[calls[c].root]
          /\ calls'[c].rev = calls[c].rev /\ UNCHANGED disk
      BY <1>0, <1>6, <2>1 DEF Become, Update, Call, RefreshScan, files
    <3>2. Latest(c)' => SeesRoot(c)'
      BY <1>0, <1>3, <3>1 DEF Latest, SeesRoot
    <3>3. RootKept
      BY <3>1 DEF RootKept
    <3> QED
      BY <1>0, <1>1, <1>4, <3>2, <3>3, OneCallViews
  <2> QED
    BY <1>5, <1>6, <2>1 DEF RefreshScan
<1>7. CASE RefreshFinish(c)
  <2> DEFINE view == [i \in Items |-> IF i \in Clips THEN disk[calls[c].root][i]
                                       ELSE calls[c].view[i]]
  <2>1. CASE ~calls[c].cancelled /\ Become(c, [calls[c] EXCEPT !.phase = "done", !.view = view])
    <3> HIDE DEF view
    <3>1. /\ calls'[c].phase = "done" /\ calls'[c].view = view
          /\ calls'[c].rev = calls[c].rev /\ UNCHANGED disk
      BY <1>0, <1>7, <2>1 DEF Become, Update, Call, RefreshFinish, files
    <3> USE DEF view
    <3>2. ASSUME Latest(c)', ~EffectPending(output)' PROVE SeesRoot(c)'
      <4>1. Latest(c) /\ Viewed(c) /\ calls[c].root = output
        BY <1>0, <1>1, <1>3, <1>7, <3>1, <3>2 DEF Latest, Viewed, RefreshFinish
      <4>2. ~EffectPending(output)
        BY <1>0, <1>1, <1>4, <3>2 DEF EffectPending
      <4>3. SeesRoot(c)
        BY <4>1, <4>2 DEF Filed, ViewRule
      <4>4. \A i \in Clips : calls'[c].view[i] = disk'[output'][i]
        BY <1>0, <3>1, <4>1 DEF Items
      <4>5. \A g \in Games : calls'[c].view[g] = calls[c].view[g]
        BY <1>0, <3>1, CoordinatorAssumption DEF Items
      <4> QED
        BY <1>0, <3>1, <4>3, <4>4, <4>5 DEF SeesRoot
    <3>3. RootKept
      BY <3>1 DEF RootKept
    <3> QED
      BY <1>0, <1>1, <1>4, <3>2, <3>3, OneCallViews
  <2> QED
    BY <1>5, <1>7, <2>1 DEF RefreshFinish
<1>8. CASE RefreshArchiveMove(c)
  <2> DEFINE view == [calls[c].view EXCEPT ![calls[c].item] = "absent"]
  <2> HIDE DEF view
  <2>1. /\ calls'[c].phase = "archiving" /\ calls'[c].view = view
        /\ calls'[c].rev = calls[c].rev
        /\ disk' = [disk EXCEPT ![calls[c].root][calls[c].item] = "absent"]
    BY <1>0, <1>8 DEF Become, Update, Call, RefreshArchiveMove, view
  <2> USE DEF view
  <2>2. FreshSelection'
    BY <1>0, <1>2 DEF FreshSelection
  <2>3. ViewRule'
    <3> SUFFICES ASSUME NEW d \in Calls, Viewed(d)', Latest(d)', ~EffectPending(output)'
                 PROVE  SeesRoot(d)'
      BY DEF ViewRule
    <3>1. CASE d # c
      <4>1. Refreshes(d) /\ Latest(d)
        BY <1>0, <1>4, <3>1 DEF Viewed, Refreshes, Busy, Latest
      <4> QED
        BY <1>1, <3>1, <4>1, ScansAlone
    <3>2. CASE d = c
      <4>1. Latest(c) /\ Viewed(c) /\ calls[c].root = output
        BY <1>0, <1>1, <1>3, <1>8, <2>1, <3>2 DEF Latest, Viewed, RefreshArchiveMove
      <4>2. ~EffectPending(output)
        BY <1>0, <1>1, <1>4 DEF EffectPending
      <4>3. SeesRoot(c)
        BY <4>1, <4>2 DEF Filed, ViewRule
      <4>4. ASSUME NEW g \in Games, view[g] # "absent" PROVE view[g] = disk'[output][g]
        <5>1. g \in Items /\ calls[c].view \in Views /\ disk[output] \in Views
          BY <1>0 DEF Items, Call
        <5>2. g # calls[c].item /\ view[g] = calls[c].view[g]
          BY <4>4, <5>1 DEF Views
        <5>3. disk'[output][g] = disk[output][g]
          BY <1>0, <2>1, <4>1, <5>1, <5>2 DEF Views
        <5> QED
          BY <4>3, <4>4, <5>2, <5>3 DEF SeesRoot
      <4> QED
        BY <1>0, <2>1, <3>2, <4>4 DEF SeesRoot
    <3> QED
      BY <3>1, <3>2
  <2> QED
    BY <2>2, <2>3
<1> QED
  BY <1>6, <1>7, <1>8

\* An effect is pending once it happened.
LEMMA EffectViews ==
  ASSUME TypeOK, Governed, Filed, NEW c \in Calls, MutateEffect(c) \/ ExportEffect(c)
  PROVE  ViewRule' /\ FreshSelection'
<1>0. /\ calls \in [Calls -> Call] /\ calls[c] \in Call /\ disk \in [Roots -> Views]
      /\ output \in Roots /\ calls[c].root \in Roots
      /\ UNCHANGED <<output, revision, selected, current>>
      /\ Step(c, "effected") /\ calls[c].phase # "effected"
      /\ calls[c].kind # "refresh"
  <2>1. calls[c].kind # "refresh"
    BY KindOfStage DEF MutateEffect, ExportEffect, Governed
  <2> QED
    BY <2>1 DEF TypeOK, MutateEffect, ExportEffect, publication, Call
<1>1. /\ calls'[c].phase = "effected" /\ calls'[c].root = calls[c].root
      /\ calls'[c].kind = calls[c].kind
      /\ \A d \in Calls \ {c} : calls'[d] = calls[d]
  BY <1>0 DEF Step, Become, Update, Call
<1>2. EffectPending(output)' \/ RootKept
  <2>1. CASE calls[c].root = output
    BY <1>0, <1>1, <2>1 DEF EffectPending
  <2>2. CASE calls[c].root # output
    BY <1>0, <2>2 DEF MutateEffect, ExportEffect, RootKept
  <2> QED
    BY <2>1, <2>2
<1>3. ~Viewed(c)'
  BY <1>0, <1>1 DEF Viewed, Refreshes
<1> QED
  BY <1>0, <1>1, <1>2, <1>3, OneCallViews

\* Steps that leave the files alone.
LEMMA QuietViews ==
  ASSUME TypeOK, Governed, Filed, Next, UNCHANGED files
  PROVE  ViewRule' /\ FreshSelection'
<1>0. calls \in [Calls -> Call] /\ UNCHANGED disk /\ RootKept
  BY DEF TypeOK, files, RootKept
<1>1. ASSUME NEW c \in Calls, Works(c) PROVE ViewRule' /\ FreshSelection'
  <2>1. PICK call \in Call :
          /\ call.kind = calls[c].kind /\ call.rev = calls[c].rev
          /\ call.phase \in Stages(call.kind) \ {"captured"}
          /\ call.kind = "refresh" =>
                \/ RefreshScan(c) \/ RefreshArchiveMove(c) \/ RefreshFinish(c)
                \/ /\ call.view = calls[c].view /\ call.count = calls[c].count
                   /\ calls[c].phase # "admitted" /\ call.phase # "done"
          /\ Become(c, call)
    BY <1>1 DEF Works
  <2>2. /\ calls'[c] = call /\ \A d \in Calls \ {c} : calls'[d] = calls[d]
        /\ Busy(c) /\ calls[c].phase \notin WorkerEnded \cup {"effected"}
        /\ UNCHANGED <<output, revision, selected, current>>
    BY <1>0, <1>1, <2>1 DEF Become, Update, Works, publication
  <2>3. CASE RefreshScan(c) \/ RefreshArchiveMove(c) \/ RefreshFinish(c)
    BY <2>3, ScanViews
  <2>4. CASE ~(RefreshScan(c) \/ RefreshArchiveMove(c) \/ RefreshFinish(c))
    <3>1. ASSUME Viewed(c)' PROVE Unscanned(c)
      <4>1. calls[c].kind = "refresh" /\ Refreshes(c)
        BY <2>1, <2>2, <3>1 DEF Viewed, Refreshes
      <4>2. calls[c].phase \in Stages("refresh")
        BY <2>2, <4>1 DEF Governed, Standing
      <4>3. call.view = calls[c].view /\ calls[c].phase # "admitted" /\ call.phase # "done"
        BY <2>1, <2>4, <4>1
      <4> QED
        BY <2>1, <2>2, <4>1, <4>2, <4>3, StageLists DEF Viewed, Unscanned, WorkerEnded
    <3> QED
      BY <1>0, <2>2, <3>1, OneCallViews
  <2> QED
    BY <2>3, <2>4
<1>2. ASSUME NEW c \in Calls, Admits(c) PROVE ViewRule' /\ FreshSelection'
  <2>1. /\ calls'[c].kind # "refresh" /\ \A d \in Calls \ {c} : calls'[d] = calls[d]
        /\ calls[c].phase # "effected"
        /\ UNCHANGED <<output, revision, selected, current>>
    BY <1>2 DEF Admits, Busy, Become, Update, Captured, TypeOK, publication
  <2>2. ~Viewed(c)'
    BY <2>1 DEF Viewed, Refreshes
  <2> QED
    BY <1>0, <2>1, <2>2, OneCallViews
<1>3. ASSUME NEW c \in Calls, Retires(c) PROVE ViewRule' /\ FreshSelection'
  <2>1. /\ ~Busy(c)' /\ \A d \in Calls \ {c} : calls'[d] = calls[d]
        /\ (calls[c].phase = "effected" => calls[c].root # output)
        /\ UNCHANGED <<output, revision, selected, current>>
    BY <1>3, AnswerEnds DEF Retires
  <2>2. ~Viewed(c)'
    BY <2>1 DEF Viewed, Refreshes
  <2> QED
    BY <1>0, <2>1, <2>2, OneCallViews
<1>4. ASSUME NEW c \in Calls, Registers(c) PROVE ViewRule' /\ FreshSelection'
  <2>1. /\ calls[c].kind = "durations" /\ calls[c].phase = "captured"
        /\ Become(c, [calls[c] EXCEPT !.phase = "admitted", !.rev = revision])
        /\ UNCHANGED <<output, revision, selected, current>>
    BY <1>4 DEF Registers, DurationRegister
  <2>2. calls'[c].kind # "refresh" /\ \A d \in Calls \ {c} : calls'[d] = calls[d]
    BY <1>0, <2>1 DEF Become, Update, Call
  <2>3. ~Viewed(c)'
    BY <2>2 DEF Viewed, Refreshes
  <2> QED
    BY <1>0, <2>1, <2>2, <2>3, OneCallViews
<1>5. ASSUME NEW c \in Calls, CallerDrop(c) PROVE ViewRule' /\ FreshSelection'
  <2>1. /\ Become(c, [calls[c] EXCEPT !.waiting = FALSE, !.cancelled = TRUE])
        /\ UNCHANGED <<output, revision, selected, current>>
    BY <1>5 DEF CallerDrop, publication
  <2>2. /\ calls'[c].phase = calls[c].phase /\ calls'[c].root = calls[c].root
        /\ calls'[c].kind = calls[c].kind /\ calls'[c].view = calls[c].view
        /\ calls'[c].rev = calls[c].rev
        /\ \A d \in Calls \ {c} : calls'[d] = calls[d]
    BY <1>0, <2>1 DEF Become, Update, Call
  <2>3. Viewed(c)' => Unscanned(c)
    BY <2>2 DEF Viewed, Refreshes, Busy, Unscanned
  <2>4. calls[c].phase = "effected" /\ calls[c].root = output => EffectPending(output)'
    BY <2>1, <2>2 DEF EffectPending
  <2> QED
    BY <1>0, <2>1, <2>2, <2>3, <2>4, OneCallViews
<1>6. ASSUME NEW c \in Calls, RefreshAdmit(c) PROVE ViewRule' /\ FreshSelection'
  <2>1. PICK call \in Call : /\ call.phase = "admitted"
                             /\ InvalidateWith(Update(c, call), c)
    BY <1>6, RefreshAdmits
  <2>2. /\ Update(c, call) \in [Calls -> Call] /\ Update(c, call)[c] = call
        /\ \A d \in Calls \ {c} : Update(c, call)[d] = calls[d]
    BY <1>0 DEF Update
  <2>3. ASSUME NEW d \in Calls, Viewed(d)', Latest(d)' PROVE FALSE
    <3>1. CASE d = c
      <4>1. calls'[c].phase = "admitted"
        BY <2>1, <2>2 DEF InvalidateWith, Call
      <4> QED
        BY <2>3, <3>1, <4>1 DEF Viewed
    <3>2. CASE d # c
      <4>1. Busy(d)'
        BY <2>3 DEF Viewed, Refreshes
      <4> QED
        BY <2>1, <2>2, <2>3, <3>2, <4>1, Overtaken
    <3> QED
      BY <3>1, <3>2
  <2> QED
    BY <2>1, <2>3, ViewsRevoked DEF InvalidateWith
<1>7. ASSUME Revokes PROVE ViewRule' /\ FreshSelection'
  <2>1. PICK cs \in [Calls -> Call] :
          /\ InvalidateWith(cs, NoCall)
          /\ \A e \in Calls : cs[e] = calls[e] \/ cs[e].phase = "idle"
    BY <1>7 DEF Revokes
  <2>2. ASSUME NEW d \in Calls, Viewed(d)', Latest(d)' PROVE FALSE
    <3>1. Busy(d)'
      BY <2>2 DEF Viewed, Refreshes
    <3>2. cs[d] = calls[d]
      BY <2>1, <3>1 DEF InvalidateWith, Call, Busy
    <3> QED
      BY <2>1, <2>2, <3>1, <3>2, Overtaken
  <2> QED
    BY <2>1, <2>2, ViewsRevoked DEF InvalidateWith
<1>8. ASSUME NEW c \in Calls, RefreshPublish(c) PROVE ViewRule' /\ FreshSelection'
  <2>1. /\ Refreshes(c) /\ Latest(c) /\ Viewed(c) /\ calls[c].phase = "done"
        /\ calls[c].root = output /\ current'.view = calls[c].view
        /\ UNCHANGED <<output, revision>>
    BY <1>8 DEF RefreshPublish, RefreshIsCurrent, Refreshes, Busy, Latest, Viewed
  <2>2. activeCancel = c
    BY <2>1 DEF Governed, RefreshRule
  <2>3. ~Busy(c)' /\ \A d \in Calls \ {c} : calls'[d] = calls[d]
    BY <1>8, AnswerEnds DEF RefreshPublish
  <2>4. ASSUME NEW d \in Calls, Viewed(d)', Latest(d)' PROVE FALSE
    <3>1. d # c /\ Refreshes(d) /\ Latest(d)
      BY <2>1, <2>3, <2>4 DEF Viewed, Refreshes, Busy, Latest
    <3> QED
      BY <2>2, <3>1 DEF Governed, RefreshRule
  <2>5. ASSUME ~EffectPending(output)' PROVE SeesRoot(c)
    <3>1. ~EffectPending(output)
      BY <2>1, <2>3, <2>5 DEF EffectPending
    <3> QED
      BY <2>1, <3>1 DEF Filed, ViewRule
  <2> QED
    BY <1>0, <2>1, <2>4, <2>5 DEF ViewRule, FreshSelection, SeesRoot, EffectPending
<1>9. ASSUME UNCHANGED <<output, publication, tokens, calls>>
      PROVE  ViewRule' /\ FreshSelection'
  BY <1>0, <1>9 DEF publication, Filed, ViewRule, FreshSelection, EffectPending, SeesRoot,
     Viewed, Refreshes, Busy, Latest
<1> QED
  BY <1>1, <1>2, <1>3, <1>4, <1>5, <1>6, <1>7, <1>8, <1>9, Classes DEF Governed

\* The recorder only adds what no view shows.
LEMMA RecorderViews ==
  ASSUME TypeOK, Filed, NEW root \in Roots, NEW game \in Games,
         RecorderPublishes(root, game)
  PROVE  ViewRule' /\ FreshSelection'
<1>1. /\ UNCHANGED <<output, revision, selected, current, calls>>
      /\ game \notin recorded /\ disk' = [disk EXCEPT ![root][game] = "unsaved"]
  BY DEF RecorderPublishes, publication
<1>2. RootKept
  BY <1>1 DEF RootKept, TypeOK, Views
<1>3. \A d \in Calls : Viewed(d)' => Unscanned(d)
  BY <1>1 DEF Viewed, Refreshes, Busy, Unscanned
<1>4. EffectPending(output) => EffectPending(output)'
  BY <1>1 DEF EffectPending
<1> QED
  BY <1>1, <1>2, <1>3, <1>4, ViewsKept

\* Nothing is selected that is not fresh, whatever roots, items and calls there are:
\* no scan that overlapped a mutation, an export, an archive move or a change of root
\* is ever published, and nothing is selected while a worker moves recordings.
THEOREM SelectionFresh == Spec => []SelectionIsFresh
<1>1. Init => Filed
  <2> SUFFICES ASSUME Init PROVE Filed
    OBVIOUS
  <2>1. /\ \A c \in Calls : ~Busy(c) /\ calls[c].view = NoView
        /\ selected = 0 /\ current.view = NoView
    BY DEF Init, IdleCall, Busy
  <2>2. \A g \in Games : NoView[g] = "absent"
    BY DEF NoView, Items
  <2>3. \A g \in Games : g \notin recorded => \A r \in Roots : disk[r][g] = "absent"
    BY DEF Init
  <2> QED
    BY <2>1, <2>2, <2>3 DEF Filed, RecordedRule, ExportRule, ViewRule, Viewed, Refreshes,
       FreshSelection, ScanningRevokesSelection
<1>2. TypeOK /\ Governed /\ Filed /\ [Next]_vars => Filed'
  <2> SUFFICES ASSUME TypeOK, Governed, Filed, [Next]_vars PROVE Filed'
    OBVIOUS
  <2>1. CASE UNCHANGED vars
    BY <2>1 DEF vars, files, publication, Filed, RecordedRule, ExportRule, ViewRule, Viewed,
       Refreshes, Busy, Latest, SeesRoot, EffectPending, FreshSelection,
       ScanningRevokesSelection
  <2>2. CASE Next
    <3>1. ViewRule' /\ FreshSelection'
      BY <2>2, FileSteps, QuietViews, ScanViews, EffectViews, RecorderViews
    <3>2. ScanningRevokesSelection'
      BY <2>2, ScanningStep DEF Filed
    <3>3. RecordedRule' /\ ExportRule'
      BY <2>2, RecordedStep, ExportStep DEF Filed
    <3> QED
      BY <3>1, <3>2, <3>3 DEF Filed
  <2> QED
    BY <2>1, <2>2
<1>3. Filed => SelectionIsFresh
  BY DEF Filed, SelectionIsFresh
<1> QED
  BY <1>1, <1>2, <1>3, Governance, PTL DEF Spec

-----------------------------------------------------------------------------
(* The archive subtotal.                                                   *)

\* What a root has in its archive.
ArchivedIn(root) == {g \in Games : archived[root][g] # "absent"}

\* Moves are only ever added, one recording at a time.
LEMMA ArchiveStep ==
  ASSUME TypeOK, Next, NEW r \in Roots
  PROVE  /\ moved'[r] >= moved[r] /\ moved'[r] \in Nat
         /\ ArchiveCount(r) <= moved[r] => ArchiveCount(r)' <= moved'[r]
<1>0. /\ moved \in [Roots -> Nat] /\ archived \in [Roots -> [Games -> ItemState]]
      /\ calls \in [Calls -> Call] /\ IsFiniteSet(Games)
  BY CoordinatorAssumption DEF TypeOK
<1>1. IsFiniteSet(ArchivedIn(r))
  BY <1>0, FS_Subset DEF ArchivedIn
<1>2. ASSUME ArchivedIn(r)' \subseteq ArchivedIn(r), moved'[r] = moved[r]
      PROVE  /\ moved'[r] >= moved[r] /\ moved'[r] \in Nat
             /\ ArchiveCount(r) <= moved[r] => ArchiveCount(r)' <= moved'[r]
  <2>1. Cardinality(ArchivedIn(r)') <= Cardinality(ArchivedIn(r))
        /\ Cardinality(ArchivedIn(r)) \in Nat /\ Cardinality(ArchivedIn(r)') \in Nat
    BY <1>1, <1>2, FS_Subset, FS_CardinalityType
  <2> QED
    BY <1>0, <1>2, <2>1 DEF ArchiveCount, ArchivedIn
<1>3. CASE UNCHANGED files
  BY <1>2, <1>3 DEF files, ArchivedIn
<1>4. ASSUME NEW c \in Calls, RefreshArchiveMove(c)
      PROVE  /\ moved'[r] >= moved[r] /\ moved'[r] \in Nat
             /\ ArchiveCount(r) <= moved[r] => ArchiveCount(r)' <= moved'[r]
  <2> DEFINE root == calls[c].root  game == calls[c].item
  <2>1. /\ archived' = [archived EXCEPT ![root][game] = disk[root][game]]
        /\ moved' = [moved EXCEPT ![root] = @ + 1] /\ root \in Roots
    BY <1>0, <1>4 DEF RefreshArchiveMove, Call
  <2>2. CASE r # root
    BY <1>0, <1>2, <2>1, <2>2 DEF ArchivedIn
  <2>3. CASE r = root
    <3>1. ArchivedIn(r)' \subseteq ArchivedIn(r) \cup {game}
      BY <1>0, <2>1, <2>3 DEF ArchivedIn
    <3>2. /\ IsFiniteSet(ArchivedIn(r) \cup {game})
          /\ Cardinality(ArchivedIn(r) \cup {game}) <= Cardinality(ArchivedIn(r)) + 1
      <4>1. Cardinality(ArchivedIn(r)) \in Nat
        BY <1>1, FS_CardinalityType
      <4> QED
        BY <1>1, <4>1, FS_AddElement
    <3>3. /\ Cardinality(ArchivedIn(r)') <= Cardinality(ArchivedIn(r) \cup {game})
          /\ Cardinality(ArchivedIn(r)') \in Nat
      BY <3>1, <3>2, FS_Subset, FS_CardinalityType
    <3>4. Cardinality(ArchivedIn(r)) \in Nat /\ Cardinality(ArchivedIn(r) \cup {game}) \in Nat
      BY <1>1, <3>2, FS_CardinalityType
    <3>5. moved'[r] = moved[r] + 1 /\ moved[r] \in Nat
      BY <1>0, <2>1, <2>3
    <3> QED
      BY <3>2, <3>3, <3>4, <3>5 DEF ArchiveCount, ArchivedIn
  <2> QED
    BY <2>2, <2>3
<1>5. ASSUME NEW c \in Calls, MutateEffect(c)
      PROVE  ArchivedIn(r)' \subseteq ArchivedIn(r) /\ moved'[r] = moved[r]
  <2>1. UNCHANGED moved
    BY <1>5 DEF MutateEffect
  <2>2. CASE UNCHANGED archived
    BY <2>1, <2>2 DEF ArchivedIn
  <2>3. CASE \E kept \in Expired(archived[calls[c].root]) :
               archived' = [archived EXCEPT ![calls[c].root] = kept]
    <3>1. PICK kept \in Expired(archived[calls[c].root]) :
            archived' = [archived EXCEPT ![calls[c].root] = kept]
      BY <2>3
    <3>2. calls[c].root \in Roots
      BY <1>0 DEF Call
    <3>3. \A g \in Games : kept[g] \in {"absent", archived[calls[c].root][g]}
      BY <1>0, <3>2 DEF Expired
    <3> QED
      BY <1>0, <2>1, <3>1, <3>2, <3>3 DEF ArchivedIn
  <2> QED
    BY <1>5, <2>2, <2>3 DEF MutateEffect
<1>6. ASSUME NEW c \in Calls, ExportEffect(c)
      PROVE  ArchivedIn(r)' \subseteq ArchivedIn(r) /\ moved'[r] = moved[r]
  BY <1>6 DEF ExportEffect, ArchivedIn
<1>7. ASSUME NEW root \in Roots, NEW game \in Games, RecorderPublishes(root, game)
      PROVE  ArchivedIn(r)' \subseteq ArchivedIn(r) /\ moved'[r] = moved[r]
  BY <1>7 DEF RecorderPublishes, ArchivedIn
<1> QED
  BY <1>2, <1>3, <1>4, <1>5, <1>6, <1>7, FileSteps

\* A refresh or a total whose count a step does not touch.
Uncounted(d) ==
    /\ Busy(d) /\ calls'[d].kind = calls[d].kind /\ calls'[d].root = calls[d].root
    /\ calls'[d].rev = calls[d].rev /\ calls'[d].count = calls[d].count

\* Steps that keep the counts, or set them to what an archive holds.
LEMMA CountsKept ==
  ASSUME TypeOK, TypeOK', Counted, Next,
         \A d \in Calls : Busy(d)' =>
            \/ Uncounted(d)
            \/ calls'[d].kind \notin {"refresh", "usage"}
            \/ calls'[d].kind = "usage" /\ calls'[d].count <= moved'[calls'[d].root]
            \/ /\ calls'[d].kind = "refresh"
               /\ Latest(d)' => archivedUsage' + calls'[d].count <= moved'[output'],
         \/ /\ UNCHANGED <<archivedUsage, output>>
            /\ \A d \in Calls : Busy(d) /\ calls[d].rev = revision' => Latest(d)
         \/ /\ archivedUsage' <= moved'[output']
            /\ \A d \in Calls : ~(Refreshes(d)' /\ Latest(d)')
  PROVE  Counted'
<1>0. /\ moved \in [Roots -> Nat] /\ moved' \in [Roots -> Nat]
      /\ calls \in [Calls -> Call] /\ calls' \in [Calls -> Call]
      /\ archivedUsage \in Nat /\ archivedUsage' \in Nat /\ output \in Roots
      /\ output' \in Roots
  BY DEF TypeOK
<1>1. \A r \in Roots : moved'[r] >= moved[r] /\ ArchiveCount(r)' <= moved'[r]
  BY ArchiveStep DEF Counted, CountRule
<1>2. UsageNeverOvercounts'
  BY <1>0, <1>1 DEF Counted, UsageNeverOvercounts
<1>3. ASSUME NEW d \in Calls, Refreshes(d)', Latest(d)'
      PROVE  archivedUsage' + calls'[d].count <= moved'[output']
  <2>1. /\ UNCHANGED <<archivedUsage, output>>
        /\ Busy(d) /\ calls[d].rev = revision' => Latest(d)
    BY <1>3
  <2>2. CASE Uncounted(d)
    <3>1. Refreshes(d) /\ Latest(d) /\ calls'[d].count = calls[d].count
      BY <1>3, <2>1, <2>2 DEF Uncounted, Refreshes, Latest
    <3>2. archivedUsage + calls[d].count <= moved[output]
      BY <3>1 DEF Counted, CountRule
    <3>3. calls[d].count \in Nat /\ moved[output] \in Nat /\ moved'[output] \in Nat
      BY <1>0 DEF Call
    <3> QED
      BY <1>0, <1>1, <2>1, <3>1, <3>2, <3>3
  <2>3. CASE ~Uncounted(d)
    BY <1>3, <2>3 DEF Refreshes, Busy
  <2> QED
    BY <2>2, <2>3
<1>4. ASSUME NEW d \in Calls, Busy(d)', calls'[d].kind = "usage"
      PROVE  calls'[d].count <= moved'[calls'[d].root]
  <2>1. CASE Uncounted(d)
    <3>1. /\ calls[d].count <= moved[calls[d].root]
          /\ calls[d].root \in Roots /\ calls[d].count \in Nat
      BY <1>0, <1>4, <2>1 DEF Counted, CountRule, Uncounted, Call
    <3> QED
      BY <1>0, <1>1, <2>1, <3>1 DEF Uncounted
  <2> QED
    BY <1>4, <2>1
<1> QED
  BY <1>1, <1>2, <1>3, <1>4 DEF Counted, CountRule

\* Each step keeps the counts.
LEMMA CountedStep ==
  ASSUME TypeOK, TypeOK', Governed, Counted, Next PROVE Counted'
<1>0. /\ moved \in [Roots -> Nat] /\ moved' \in [Roots -> Nat]
      /\ calls \in [Calls -> Call] /\ calls' \in [Calls -> Call]
      /\ archivedUsage \in Nat /\ output \in Roots /\ revision \in Nat
      /\ \A r \in Roots : moved'[r] >= moved[r]
      /\ archivedUsage <= moved[output]
  BY ArchiveStep DEF TypeOK, Counted, UsageNeverOvercounts
<1>1. ASSUME NEW d \in Calls, calls'[d] = calls[d], Busy(d)' PROVE Uncounted(d)
  BY <1>1 DEF Uncounted, Busy
<1>2. ASSUME NEW d \in Calls, Busy(d) PROVE calls[d].rev <= revision /\ calls[d].rev \in Nat
  BY <1>0, <1>2 DEF Governed, Standing, Call
<1>3. ASSUME NEW c \in Calls, Works(c) PROVE Counted'
  <2>1. PICK call \in Call :
          /\ call.kind = calls[c].kind /\ call.root = calls[c].root /\ call.rev = calls[c].rev
          /\ call.kind = "usage" =>
                call.count \in {calls[c].count, ArchiveCount(calls[c].root)}
          /\ call.kind = "refresh" =>
                \/ RefreshScan(c) \/ RefreshArchiveMove(c) \/ RefreshFinish(c)
                \/ /\ call.view = calls[c].view /\ call.count = calls[c].count
                   /\ calls[c].phase # "admitted" /\ call.phase # "done"
          /\ Become(c, call)
    BY <1>3 DEF Works
  <2>2. /\ calls'[c] = call /\ \A d \in Calls \ {c} : calls'[d] = calls[d]
        /\ Busy(c) /\ UNCHANGED <<output, archivedUsage, revision>>
    BY <1>0, <1>3, <2>1 DEF Become, Update, Works, publication
  <2>3. CASE call.count = calls[c].count
    <3>1. Uncounted(c)
      BY <2>1, <2>2, <2>3 DEF Uncounted
    <3> QED
      BY <1>1, <2>2, <3>1, CountsKept DEF Latest
  <2>4. CASE call.count # calls[c].count /\ call.kind = "usage"
    <3>1. call.count <= moved[call.root] /\ call.root \in Roots
      BY <2>1, <2>4 DEF Call, Counted, CountRule
    <3>2. call.count <= moved'[call.root]
      <4>1. moved[call.root] \in Nat /\ moved'[call.root] \in Nat /\ call.count \in Nat
        BY <1>0, <3>1 DEF Call
      <4> QED
        BY <1>0, <3>1, <4>1
    <3> QED
      BY <1>1, <2>2, <2>4, <3>2, CountsKept DEF Latest
  <2>5. CASE call.count # calls[c].count /\ call.kind = "refresh"
    <3>1. RefreshArchiveMove(c)
      <4>0. calls'[c] = call
        BY <2>2
      <4>1. ASSUME NEW phase, NEW view,
                   \/ Step(c, phase)
                   \/ Become(c, [calls[c] EXCEPT !.phase = phase, !.view = view])
            PROVE  calls'[c].count = calls[c].count
        BY <1>0, <4>1 DEF Step, Become, Update, Call
      <4>2. RefreshScan(c) \/ RefreshFinish(c) => calls'[c].count = calls[c].count
        BY <4>1 DEF RefreshScan, RefreshFinish
      <4> QED
        BY <2>1, <2>5, <4>0, <4>2
    <3>2. /\ calls'[c].count = calls[c].count + 1 /\ calls[c].root \in Roots
          /\ moved' = [moved EXCEPT ![calls[c].root] = @ + 1]
      BY <1>0, <3>1 DEF RefreshArchiveMove, Become, Update, Call
    <3>3. ASSUME Latest(c)' PROVE archivedUsage' + calls'[c].count <= moved'[output']
      <4>1. Refreshes(c) /\ Latest(c)
        BY <2>1, <2>2, <2>5, <3>3 DEF Refreshes, Latest
      <4>2. calls[c].root = output /\ archivedUsage + calls[c].count <= moved[output]
        BY <4>1 DEF Governed, RefreshRule, Counted, CountRule
      <4>3. moved'[output] = moved[output] + 1 /\ moved[output] \in Nat
            /\ calls[c].count \in Nat
        BY <1>0, <3>2, <4>2 DEF Call
      <4> QED
        BY <1>0, <2>2, <3>2, <4>2, <4>3
    <3> QED
      BY <1>1, <2>2, <2>5, <3>3, CountsKept DEF Latest
  <2>6. CASE call.kind \notin {"refresh", "usage"}
    BY <1>1, <2>2, <2>6, CountsKept DEF Latest
  <2> QED
    BY <2>3, <2>4, <2>5, <2>6
<1>4. ASSUME NEW c \in Calls, Admits(c) PROVE Counted'
  <2>1. /\ calls'[c].kind # "refresh" /\ calls'[c].count = 0 /\ calls'[c].root = output
        /\ \A d \in Calls \ {c} : calls'[d] = calls[d]
        /\ UNCHANGED <<output, archivedUsage, revision>>
    BY <1>0, <1>4 DEF Admits, Become, Update, Captured, publication
  <2>2. calls'[c].count <= moved'[calls'[c].root]
    BY <1>0, <2>1
  <2> QED
    BY <1>1, <2>1, <2>2, CountsKept DEF Latest
<1>5. ASSUME NEW c \in Calls, Retires(c) PROVE Counted'
  <2>1. /\ ~Busy(c)' /\ \A d \in Calls \ {c} : calls'[d] = calls[d]
        /\ Busy(c) /\ UNCHANGED <<output, revision, selected>>
    BY <1>5, AnswerEnds DEF Retires
  <2>2. \A d \in Calls : Busy(d)' => Uncounted(d)
    BY <1>1, <2>1
  <2>3. CASE archivedUsage' = archivedUsage
    BY <2>1, <2>2, <2>3, CountsKept DEF Latest
  <2>4. CASE calls[c].kind = "usage" /\ StillCurrent(c) /\ archivedUsage' = calls[c].count
    <3>1. selected # 0 /\ calls[c].root = output
      BY <2>4 DEF StillCurrent, CapturesSelection
    <3>2. calls[c].count <= moved[output] /\ calls[c].count \in Nat
      BY <1>0, <2>1, <2>4, <3>1 DEF Counted, CountRule, Call
    <3>3. archivedUsage' <= moved'[output']
      <4>1. moved[output] \in Nat /\ moved'[output] \in Nat /\ moved'[output] >= moved[output]
        BY <1>0
      <4> QED
        BY <2>1, <2>4, <3>2, <4>1
    <3>4. ASSUME NEW d \in Calls, Refreshes(d)', Latest(d)' PROVE FALSE
      <4>1. Refreshes(d) /\ Latest(d)
        BY <2>1, <3>4 DEF Refreshes, Latest, Busy
      <4> QED
        BY <3>1, <4>1 DEF Governed, RefreshRule
    <3> QED
      BY <2>2, <3>3, <3>4, CountsKept
  <2> QED
    BY <1>5, <2>3, <2>4 DEF Retires
<1>6. ASSUME NEW c \in Calls, Registers(c) PROVE Counted'
  <2>1. /\ calls[c].kind = "durations"
        /\ Become(c, [calls[c] EXCEPT !.phase = "admitted", !.rev = revision])
        /\ UNCHANGED <<output, archivedUsage, revision>>
    BY <1>6 DEF Registers, DurationRegister
  <2>2. calls'[c].kind = "durations" /\ \A d \in Calls \ {c} : calls'[d] = calls[d]
    BY <1>0, <2>1 DEF Become, Update, Call
  <2> QED
    BY <1>1, <2>1, <2>2, CountsKept DEF Latest
<1>7. ASSUME NEW c \in Calls, CallerDrop(c) PROVE Counted'
  <2>1. /\ Become(c, [calls[c] EXCEPT !.waiting = FALSE, !.cancelled = TRUE])
        /\ UNCHANGED <<output, archivedUsage, revision>>
    BY <1>7 DEF CallerDrop, publication
  <2>2. \A d \in Calls : Busy(d)' => Uncounted(d)
    BY <1>0, <2>1 DEF Become, Update, Call, Busy, Uncounted
  <2> QED
    BY <2>1, <2>2, CountsKept DEF Latest
<1>8. ASSUME NEW c \in Calls, RefreshAdmit(c) PROVE Counted'
  <2>1. PICK call \in Call : /\ call.kind = "refresh" /\ call.count = 0
                             /\ InvalidateWith(Update(c, call), c)
    BY <1>8, RefreshAdmits
  <2>2. /\ Update(c, call) \in [Calls -> Call] /\ Update(c, call)[c] = call
        /\ \A d \in Calls \ {c} : Update(c, call)[d] = calls[d]
    BY <1>0 DEF Update
  <2>3. /\ revision' = revision + 1 /\ UNCHANGED <<output, archivedUsage>>
        /\ calls'[c].kind = "refresh" /\ calls'[c].count = 0
    BY <1>8, <2>1, <2>2 DEF InvalidateWith, RefreshAdmit, Call
  <2>4. archivedUsage' + calls'[c].count <= moved'[output']
    <3>1. moved[output] \in Nat /\ moved'[output] \in Nat /\ moved'[output] >= moved[output]
      BY <1>0
    <3> QED
      BY <1>0, <2>3, <3>1
  <2>5. ASSUME NEW d \in Calls, d # c, Busy(d)' PROVE Uncounted(d)
    BY <2>1, <2>2, <2>5, Overtaken DEF Uncounted
  <2>6. \A d \in Calls : Busy(d) => calls[d].rev # revision'
    BY <1>0, <1>2, <2>3
  <2> QED
    BY <2>3, <2>4, <2>5, <2>6, CountsKept
<1>9. ASSUME NEW c \in Calls, RefreshPublish(c) PROVE Counted'
  <2>1. /\ Refreshes(c) /\ Latest(c) /\ archivedUsage' = archivedUsage + calls[c].count
        /\ UNCHANGED <<output, revision>>
    BY <1>9 DEF RefreshPublish, RefreshIsCurrent, Refreshes, Busy, Latest
  <2>2. activeCancel = c /\ archivedUsage + calls[c].count <= moved[output]
    BY <2>1 DEF Governed, RefreshRule, Counted, CountRule
  <2>3. ~Busy(c)' /\ \A d \in Calls \ {c} : calls'[d] = calls[d]
    BY <1>9, AnswerEnds DEF RefreshPublish
  <2>4. ASSUME NEW d \in Calls, Refreshes(d)', Latest(d)' PROVE FALSE
    <3>1. d # c /\ Refreshes(d) /\ Latest(d)
      BY <2>1, <2>3, <2>4 DEF Refreshes, Busy, Latest
    <3> QED
      BY <2>2, <3>1 DEF Governed, RefreshRule
  <2>5. archivedUsage' <= moved'[output']
    <3>1. moved[output] \in Nat /\ moved'[output] \in Nat /\ moved'[output] >= moved[output]
          /\ calls[c].count \in Nat
      BY <1>0 DEF Call
    <3> QED
      BY <1>0, <2>1, <2>2, <3>1
  <2> QED
    BY <1>1, <2>3, <2>4, <2>5, CountsKept
<1>10. ASSUME Revokes PROVE Counted'
  <2>1. PICK cs \in [Calls -> Call] :
          /\ InvalidateWith(cs, NoCall)
          /\ \A e \in Calls : cs[e] = calls[e] \/ cs[e].phase = "idle"
    BY <1>10 DEF Revokes
  <2>2. ASSUME NEW d \in Calls, Busy(d)' PROVE cs[d] = calls[d] /\ Uncounted(d) /\ ~Latest(d)'
    <3>1. cs[d] = calls[d]
      BY <2>1, <2>2 DEF InvalidateWith, Call, Busy
    <3> QED
      BY <2>1, <2>2, <3>1, Overtaken DEF Uncounted
  <2>3. CASE output' = output
    <3>1. UNCHANGED <<output, archivedUsage>> /\ revision' = revision + 1
      BY <1>10, <2>1, <2>3 DEF Revokes, InvalidateWith
    <3>2. \A d \in Calls : Busy(d) => calls[d].rev # revision'
      BY <1>0, <1>2, <3>1
    <3> QED
      BY <2>2, <3>1, <3>2, CountsKept
  <2>4. CASE output' # output
    <3>1. archivedUsage' = 0 /\ output' \in Roots
      BY <1>10, <2>4 DEF Revokes, TypeOK
    <3>2. archivedUsage' <= moved'[output']
      BY <1>0, <3>1
    <3> QED
      BY <2>2, <3>2, CountsKept DEF Refreshes
  <2> QED
    BY <2>3, <2>4
<1>11. ASSUME UNCHANGED <<output, publication, tokens, calls>> PROVE Counted'
  BY <1>1, <1>11, CountsKept DEF publication, Latest
<1> QED
  BY <1>3, <1>4, <1>5, <1>6, <1>7, <1>8, <1>9, <1>10, <1>11, Classes DEF Governed

\* Workers, cached durations and the archive subtotal that answer reads belong to the
\* selection: an overtaken worker has its flag raised, a cached duration is of a clip of
\* the selected snapshot, and the subtotal counts no recording the archive did not get.
THEOREM ReadersCurrent == Spec => []ReadersAreCurrent
<1>1. Init => Counted
  <2> SUFFICES ASSUME Init PROVE Counted
    OBVIOUS
  <2>1. /\ \A c \in Calls : ~Busy(c)
        /\ archivedUsage = 0 /\ output \in Roots /\ \A r \in Roots : moved[r] = 0
    BY DEF Init, IdleCall, Busy
  <2>2. ASSUME NEW r \in Roots PROVE ArchiveCount(r) = 0
    <3>1. {g \in Games : archived[r][g] # "absent"} = {}
      BY DEF Init
    <3> QED
      BY <3>1, FS_EmptySet DEF ArchiveCount
  <2> QED
    BY <2>1, <2>2 DEF Counted, CountRule, UsageNeverOvercounts, Refreshes
<1>2. TypeOK /\ TypeOK' /\ Governed /\ Counted /\ [Next]_vars => Counted'
  <2> SUFFICES ASSUME TypeOK, TypeOK', Governed, Counted, [Next]_vars PROVE Counted'
    OBVIOUS
  <2>1. CASE UNCHANGED vars
    BY <2>1 DEF vars, files, publication, Counted, CountRule, UsageNeverOvercounts,
       ArchiveCount, Refreshes, Busy, Latest
  <2> QED
    BY <2>1, CountedStep
<1>3. TypeOK /\ Governed /\ Counted => ReadersAreCurrent
  <2> SUFFICES ASSUME TypeOK, Governed, Counted PROVE StaleWorkersAreCancelled
    BY DEF Counted, Governed, ReadersAreCurrent
  <2> SUFFICES ASSUME NEW c \in Calls, calls[c].kind \in {"refresh", "durations"},
                      calls[c].phase \notin {"idle", "captured"}, ~Latest(c)
               PROVE  calls[c].cancelled
    BY DEF StaleWorkersAreCancelled, Latest
  <2>1. Refreshes(c) \/ Registered(c)
    BY DEF Refreshes, Registered, Busy
  <2> QED
    BY <2>1 DEF Governed, RefreshRule, DurationRule
<1> QED
  BY <1>1, <1>2, <1>3, TypeCorrect, Governance, PTL DEF Spec

=============================================================================
