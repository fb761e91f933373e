----------------------------- MODULE SidecarFiles -----------------------------
(***************************************************************************)
(* The files that the recorder adds to the directory of a recording        *)
(* (league_client/sidecar.rs): the context, the journal, the checkpoint,   *)
(* the post-game result and the match history.  Each is written to a       *)
(* temporary of its own and renamed, relative to a handle of the directory *)
(* that was captured.  The user may move, delete or replace the directory  *)
(* between any two calls, and calls may fail.                              *)
(***************************************************************************)
EXTENDS Integers

CONSTANTS Leaves,     \* the leaves that are written
          Games,      \* the games that a context, result or history tells of
          MaxWrites,  \* bound: writes begun per leaf
          MaxMoves    \* bound: what the user does to the directory

None == 0

SidecarAssumption ==
    /\ Leaves \subseteq {"match", "journal", "checkpoint", "result", "history"}
    /\ None \notin Games /\ MaxWrites \in Nat /\ MaxMoves \in Nat

VARIABLES atPath,     \* what the path names: "own", "other" or "none"
          removed,    \* the captured directory was deleted
          core,       \* metadata, manifest and video are published in it
          files,      \* per directory and leaf: the game of the whole file, or None
          partial,    \* the leaves that hold less than was to be written
          temps,      \* the temporaries in the captured directory
          writes,     \* per leaf, its writer
          begun, installs, moves

vars == <<atPath, removed, core, files, partial, temps, writes, begun, installs, moves>>

NoWrite == [step |-> "idle", game |-> None, full |-> FALSE]
Go(l, s) == writes' = [writes EXCEPT ![l].step = s]

Replaces(l) == l \in {"checkpoint", "history"}
Exclusive(l) == l = "match"
NeedsCore(l) == l \in {"result", "history"}

\* open_directory and identity: the path leads to the captured allocation.
Pinned == atPath = "own" /\ ~removed

\* A writer that holds the directory without delete sharing.
Held == \E l \in Leaves : Exclusive(l) /\ writes[l].step \notin {"idle", "start"}

-----------------------------------------------------------------------------
(* The user and the publication of the recording. *)

UserActs ==
    /\ moves < MaxMoves /\ moves' = moves + 1
    /\ \/ /\ atPath = "own" /\ ~Held /\ atPath' = "none" /\ UNCHANGED <<removed, core, files, temps>>
       \/ /\ atPath = "own" /\ ~Held /\ atPath' = "none" /\ removed' = TRUE
          /\ core' = FALSE /\ temps' = {}
          /\ files' = [files EXCEPT !["own"] = [l \in Leaves |-> None]]
       \/ /\ atPath = "none" /\ atPath' = "other" /\ UNCHANGED <<removed, core, files, temps>>
       \/ /\ atPath \in {"other", "none"} /\ ~removed /\ atPath' = "own"
          /\ UNCHANGED <<removed, core, files, temps>>
    /\ UNCHANGED <<partial, writes, begun, installs>>

PublishCore ==
    /\ ~core /\ ~removed /\ atPath = "own" /\ core' = TRUE
    /\ UNCHANGED <<atPath, removed, files, partial, temps, writes, begun, installs, moves>>

-----------------------------------------------------------------------------
(* The writers. *)

Begin(l) ==
    /\ writes[l].step = "idle" /\ begun[l] < MaxWrites
    /\ begun' = [begun EXCEPT ![l] = @ + 1]
    /\ \E g \in Games :
          writes' = [writes EXCEPT ![l] = [step |-> IF l = "history" THEN "check" ELSE "start",
                                           game |-> g, full |-> FALSE]]
    /\ UNCHANGED <<atPath, removed, core, files, partial, temps, installs, moves>>

\* The end of a write that failed: OwnedTemporary::drop removes its own file.
Abandon(l) ==
    /\ writes' = [writes EXCEPT ![l] = NoWrite]
    /\ temps' = temps \ {l}

Fails(l) ==
    /\ writes[l].step # "idle"
    /\ Abandon(l)
    /\ UNCHANGED <<atPath, removed, core, files, partial, begun, installs, moves>>

\* pin_current, and the open without delete sharing of the context.
Pin(l) ==
    /\ writes[l].step = "start" /\ Pinned /\ Go(l, "create")
    /\ UNCHANGED <<atPath, removed, core, files, partial, temps, begun, installs, moves>>

\* create_shared: relative to the handle, and never in a deleted directory.
CreateTemporary(l) ==
    /\ writes[l].step = "create" /\ ~removed
    /\ temps' = temps \cup {l}
    /\ Go(l, IF l = "journal" THEN "repin" ELSE "write")
    /\ UNCHANGED <<atPath, removed, core, files, partial, begun, installs, moves>>

\* write_all and sync_all; the journal is created empty.
WriteTemporary(l) ==
    /\ writes[l].step = "write"
    /\ writes' = [writes EXCEPT ![l].full = TRUE,
                                ![l].step = IF l = "result" THEN "check"
                                            ELSE IF Exclusive(l) THEN "install" ELSE "repin"]
    /\ UNCHANGED <<atPath, removed, core, files, partial, temps, begun, installs, moves>>

\* The second pin_current.
Repin(l) ==
    /\ writes[l].step = "repin" /\ Pinned /\ Go(l, "install")
    /\ UNCHANGED <<atPath, removed, core, files, partial, temps, begun, installs, moves>>

\* validate_result_core: the directory is pinned, read by its path, and pinned again.
CheckCore(l) ==
    /\ writes[l].step = "check" /\ NeedsCore(l) /\ Pinned /\ Go(l, "read")
    /\ UNCHANGED <<atPath, removed, core, files, partial, temps, begun, installs, moves>>
ReadCore(l) ==
    /\ writes[l].step = "read" /\ Pinned /\ core
    /\ "match" \in Leaves => files["own"]["match"] = writes[l].game
    /\ Go(l, "recheck")
    /\ UNCHANGED <<atPath, removed, core, files, partial, temps, begun, installs, moves>>
RecheckCore(l) ==
    /\ writes[l].step = "recheck" /\ Pinned
    /\ Go(l, IF l = "history" THEN "start" ELSE "existing")
    /\ UNCHANGED <<atPath, removed, core, files, partial, temps, begun, installs, moves>>

\* install_result_with: a result that is there, and is of this game, will do.
FindExisting(l) ==
    /\ writes[l].step = "existing" /\ atPath # "none"
    /\ LET found == files[atPath][l] IN
       \/ found # None /\ atPath = "own" /\ found = writes[l].game /\ Abandon(l)
       \/ found = None /\ Go(l, "repin") /\ UNCHANGED temps
    /\ UNCHANGED <<atPath, removed, core, files, partial, begun, installs, moves>>

\* Mutant: the rename goes to whatever the path names now.
TargetByPath(l) == atPath

\* The rename is relative to the pinned directory.
Target(l) == "own"

InstallLeaf(l) ==
    /\ writes[l].step = "install" /\ ~removed
    /\ Target(l) # "none" /\ (Replaces(l) \/ files[Target(l)][l] = None)
    /\ files' = [files EXCEPT ![Target(l)][l] = writes[l].game]
    /\ partial' = IF writes[l].full \/ l = "journal" THEN partial \ {l} ELSE partial \cup {l}
    /\ installs' = [installs EXCEPT ![l] = @ + 1]
    /\ writes' = [writes EXCEPT ![l] = NoWrite] /\ temps' = temps \ {l}
    /\ UNCHANGED <<atPath, removed, core, begun, moves>>

Init ==
    /\ atPath = "own" /\ removed = FALSE /\ core = FALSE
    /\ files = [d \in {"own", "other"} |-> [l \in Leaves |-> None]]
    /\ partial = {} /\ temps = {}
    /\ writes = [l \in Leaves |-> NoWrite]
    /\ begun = [l \in Leaves |-> 0] /\ installs = [l \in Leaves |-> 0] /\ moves = 0

Next ==
    \/ UserActs \/ PublishCore
    \/ \E l \in Leaves :
          \/ Begin(l) \/ Fails(l) \/ Pin(l) \/ CreateTemporary(l) \/ WriteTemporary(l)
          \/ Repin(l) \/ CheckCore(l) \/ ReadCore(l) \/ RecheckCore(l) \/ FindExisting(l)
          \/ InstallLeaf(l)

Spec == Init /\ [][Next]_vars
-----------------------------------------------------------------------------
\* Nothing is written into a directory that took the place of the recording's,
\* and a file has its name only when it is whole.
WritesStayInside ==
    /\ \A l \in Leaves : files["other"][l] = None
    /\ partial = {}

\* What a recording says of its game is said once and by one voice: the context
\* and the result are not overwritten, and the result and the history tell of
\* the game of the context, beside media that were published.
FactsAgree ==
    /\ \A l \in Leaves : ~Replaces(l) => installs[l] <= 1 \/ removed
    /\ \A l \in Leaves : NeedsCore(l) /\ files["own"][l] # None =>
          core /\ ("match" \in Leaves => files["own"]["match"] = files["own"][l])

\* Only a write that is under way owns a temporary.
TemporariesAreOwned ==
    \A l \in temps : writes[l].step \in {"write", "check", "read", "recheck",
                                         "existing", "repin", "install"}

SidecarsAreSound == WritesStayInside /\ FactsAgree /\ TemporariesAreOwned
=============================================================================
