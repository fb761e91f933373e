---------------------------- MODULE RecorderProofs ----------------------------
(***************************************************************************)
(* Proofs about what the recorder keeps of a game beside its video, for    *)
(* every number of recordings, jobs, games, writes and crashes.            *)
(*                                                                         *)
(* Each part has an inductive invariant of its own, kept by the steps of   *)
(* its component (HistoryKept, ContextKept, FilesKept, PostGameKept,       *)
(* AcquisitionKept, WriterKept), and a step of the recorder is a step of   *)
(* one component or leaves it alone (StepsOfTheParts,                      *)
(* StepsOfTheTelemetry).                                                   *)
(*                                                                         *)
(*   - The files beside a recording: a writer that installs holds a whole  *)
(*     file and knows the recording's own game (WholeFiles, SameGame), a   *)
(*     leaf that is never replaced was installed once (OneVoice), and a    *)
(*     temporary belongs to a writer that runs (OwnedTemporaries).         *)
(*   - The match history: a job holds its recording's own match or none,   *)
(*     on disk, in memory and on the way there (LedgerRule), and the file  *)
(*     is up to date when a job is fetched or installed (HandRule).        *)
(*   - The provisional context: a pair of answers that is kept was given   *)
(*     by one client about one game (RoundRule, PairRule).                 *)
(*   - The post-game jobs: what the worker holds accounts for the requests *)
(*     that were made and agrees with what the file has closed (Book); a   *)
(*     recording whose job was not taken in yet is unknown to the file and *)
(*     to the worker (NewRule); a save writes what the worker holds, with  *)
(*     the attempt counted before it is made (SaveRule); the worker acts   *)
(*     only when the file agrees with it (ActRule).                        *)
(*   - The acquisition of telemetry: the journal is in the epoch of the    *)
(*     game clock, or behind a reset that is still pending (EpochRule).    *)
(*   - The writer of telemetry: the journal holds what was admitted, in    *)
(*     that order (LinesRule); what the worker still has is the rest of it *)
(*     (BookRule); what it acknowledged was synced (DurableRule); readers  *)
(*     know as much as lies before their offset (ReaderRule), and data     *)
(*     leaves the control slots free (RoomRule).                           *)
(***************************************************************************)
EXTENDS RecorderMC, SequenceTheorems, FiniteSetTheorems,
        WellFoundedInduction, TLAPS
-----------------------------------------------------------------------------
(* The files beside a recording. *)

Steps == {"idle", "start", "create", "write", "repin", "check", "read", "recheck", "existing",
          "install"}
Writers == [step : Steps, game : Games \cup {0}, full : BOOLEAN]

FileTypes ==
    /\ atPath \in {"own", "other", "none"} /\ removed \in BOOLEAN /\ core \in BOOLEAN
    /\ files \in [{"own", "other"} -> [Leaves -> Games \cup {0}]]
    /\ partial \subseteq Leaves /\ temps \subseteq Leaves
    /\ writes \in [Leaves -> Writers]
    /\ begun \in [Leaves -> Nat] /\ installs \in [Leaves -> Nat] /\ moves \in Nat

\* What a writer holds when it installs is whole, and it knows of a game.
WholeFiles ==
    /\ Sidecars!WritesStayInside /\ (removed => atPath # "own")
    /\ \A l \in Leaves :
          /\ writes[l].step # "idle" => writes[l].game \in Games
          /\ writes[l].step \in {"existing", "repin", "install"} /\ l # "journal" => writes[l].full
          /\ writes[l].step \in {"check", "read", "recheck"} =>
                l = "history" \/ (l = "result" /\ writes[l].full)

\* A leaf that is not replaced was installed once if it is there, and not before.
OneVoice ==
    \A l \in Leaves :
        ~Sidecars!Replaces(l) /\ ~removed =>
            installs[l] = 0 \/ (installs[l] = 1 /\ files["own"][l] # 0)

\* A writer that read the core of the recording knows it until the directory is
\* deleted, which also ends its writing.
Knowing(l, w) == \/ w.step \in {"recheck", "existing", "repin", "install"}
                 \/ l = "history" /\ w.step \in {"start", "create", "write"}
Checked(l) == Knowing(l, writes[l])
OfTheContext(of) == core /\ ("match" \in Leaves => files["own"]["match"] = of)
SameGame ==
    \A l \in Leaves :
        Sidecars!NeedsCore(l) =>
            /\ Checked(l) => removed \/ OfTheContext(writes[l].game)
            /\ files["own"][l] # 0 => OfTheContext(files["own"][l])

\* The steps in which a writer has a temporary; what the history still has to check
\* comes before it.
Owning(l, w) ==
    /\ w.step \in {"write", "check", "read", "recheck", "existing", "repin", "install"}
    /\ l = "history" => w.step \in {"write", "repin", "install"}
OwnedTemporaries == \A l \in temps : Owning(l, writes[l])

FilesInvariant == FileTypes /\ WholeFiles /\ OneVoice /\ SameGame /\ OwnedTemporaries

-----------------------------------------------------------------------------
\* What a writer may hold.
Fits(l, w) ==
    /\ w \in Writers
    /\ w.step # "idle" => w.game \in Games
    /\ w.step \in {"existing", "repin", "install"} /\ l # "journal" => w.full
    /\ w.step \in {"check", "read", "recheck"} => l = "history" \/ (l = "result" /\ w.full)
    /\ Sidecars!NeedsCore(l) /\ Knowing(l, w) => removed \/ OfTheContext(w.game)

\* A step of one writer that changes nothing but what it holds and its temporary.
LEMMA WriterMoves ==
    ASSUME Sidecars!SidecarAssumption, FilesInvariant, NEW l \in Leaves, NEW w, Fits(l, w),
           writes' = [writes EXCEPT ![l] = w], temps' \in SUBSET Leaves,
           temps' \ {l} = temps \ {l}, l \in temps' => Owning(l, w),
           begun' \in [Leaves -> Nat],
           UNCHANGED <<atPath, removed, core, files, partial, installs, moves>>
    PROVE  FilesInvariant'
  <1>0. /\ writes'[l] = w /\ \A m \in Leaves \ {l} : writes'[m] = writes[m]
        /\ \A m \in Leaves \ {l} : m \in temps' <=> m \in temps
    BY DEF FilesInvariant, FileTypes
  <1>1. FileTypes'
    BY DEF FilesInvariant, FileTypes, Fits
  <1>2. WholeFiles'
    BY <1>0 DEF FilesInvariant, WholeFiles, Fits, Sidecars!WritesStayInside
  <1>3. OneVoice'
    BY DEF FilesInvariant, OneVoice
  <1>4. SameGame'
    BY <1>0 DEF FilesInvariant, SameGame, Fits, Checked, Knowing, OfTheContext,
                   Sidecars!NeedsCore
  <1>5. OwnedTemporaries'
    BY <1>0, <1>1 DEF FilesInvariant, OwnedTemporaries, FileTypes
  <1> QED BY <1>1, <1>2, <1>3, <1>4, <1>5 DEF FilesInvariant

\* The user and the publication leave the writers alone.
LEMMA DirectoryMoves ==
    ASSUME Sidecars!SidecarAssumption, FilesInvariant, Sidecars!UserActs \/ Sidecars!PublishCore
    PROVE  FilesInvariant'
  <1>1. UNCHANGED <<partial, writes, begun, installs>> /\ (removed => removed')
    BY DEF Sidecars!UserActs, Sidecars!PublishCore
  <1>2. CASE ~removed' \/ removed
    <2>1. UNCHANGED <<files, temps, removed>> /\ (core => core')
      BY <1>2 DEF Sidecars!UserActs, Sidecars!PublishCore, FilesInvariant, FileTypes, WholeFiles
    <2>a. atPath' \in {"own", "other", "none"}
      BY DEF FilesInvariant, FileTypes, Sidecars!UserActs, Sidecars!PublishCore
    <2>b. moves' \in Nat
      BY DEF FilesInvariant, FileTypes, Sidecars!UserActs, Sidecars!PublishCore
    <2>c. core' \in BOOLEAN
      BY DEF FilesInvariant, FileTypes, Sidecars!UserActs, Sidecars!PublishCore
    <2>2. FileTypes'
      BY <1>1, <2>1, <2>a, <2>b, <2>c DEF FilesInvariant, FileTypes
    <2>3. WholeFiles' /\ OneVoice' /\ OwnedTemporaries'
      BY <1>1, <2>1 DEF FilesInvariant, WholeFiles, OneVoice, OwnedTemporaries,
                        Sidecars!WritesStayInside,
                        Sidecars!UserActs, Sidecars!PublishCore
    <2>4. SameGame'
      BY <1>1, <2>1 DEF FilesInvariant, SameGame, Checked, Knowing, OfTheContext
    <2> QED BY <2>2, <2>3, <2>4 DEF FilesInvariant
  <1>3. CASE removed' /\ ~removed
    <2>1. /\ temps' = {} /\ atPath' = "none" /\ core' = FALSE /\ moves' = moves + 1
          /\ files' = [files EXCEPT !["own"] = [l \in Leaves |-> 0]]
      BY <1>3 DEF Sidecars!UserActs, Sidecars!PublishCore, Sidecars!None
    <2>a. files' \in [{"own", "other"} -> [Leaves -> Games \cup {0}]]
      BY <2>1 DEF FilesInvariant, FileTypes
    <2>b. moves' \in Nat
      BY <2>1 DEF FilesInvariant, FileTypes
    <2>2. FileTypes'
      BY <1>1, <1>3, <2>1, <2>a, <2>b DEF FilesInvariant, FileTypes
    <2>3. files'["other"] = files["other"] /\ \A l \in Leaves : files'["own"][l] = 0
      BY <2>1 DEF FilesInvariant, FileTypes
    <2>4. WholeFiles' /\ OneVoice' /\ OwnedTemporaries' /\ SameGame'
      BY <1>1, <1>3, <2>1, <2>3
         DEF FilesInvariant, WholeFiles, OneVoice, OwnedTemporaries, SameGame,
             Sidecars!WritesStayInside
    <2> QED BY <2>2, <2>4 DEF FilesInvariant
  <1> QED BY <1>2, <1>3, <1>1 DEF FilesInvariant, FileTypes

\* Every step of a writer short of the installation.
LEMMA WritersKeep ==
    ASSUME Sidecars!SidecarAssumption, FilesInvariant, NEW l \in Leaves,
           \/ Sidecars!Begin(l) \/ Sidecars!Fails(l) \/ Sidecars!Pin(l)
           \/ Sidecars!CreateTemporary(l) \/ Sidecars!WriteTemporary(l) \/ Sidecars!Repin(l)
           \/ Sidecars!CheckCore(l) \/ Sidecars!ReadCore(l) \/ Sidecars!RecheckCore(l)
           \/ Sidecars!FindExisting(l)
    PROVE  FilesInvariant'
  <1> USE DEF Knowing, OfTheContext, Sidecars!NeedsCore
  <1>0. /\ writes \in [Leaves -> Writers] /\ temps \subseteq Leaves /\ begun \in [Leaves -> Nat]
        /\ writes[l].step # "idle" => Fits(l, writes[l])
        /\ l \in temps => Owning(l, writes[l])
    BY DEF FilesInvariant, FileTypes, WholeFiles, SameGame, Checked, OwnedTemporaries, Fits
  <1>1. CASE Sidecars!Begin(l)
    <2>0. PICK g \in Games : writes' = [writes EXCEPT ![l] =
                                   [step |-> IF l = "history" THEN "check" ELSE "start",
                                    game |-> g, full |-> FALSE]]
      BY <1>1 DEF Sidecars!Begin
    <2> DEFINE w == [step |-> IF l = "history" THEN "check" ELSE "start",
                     game |-> g, full |-> FALSE]
    <2>1. Fits(l, w)
      BY <1>0, <1>1, <2>0 DEF Sidecars!Begin, Fits, Writers, Steps, Sidecars!NoWrite,
             Sidecars!None
    <2>2. /\ writes' = [writes EXCEPT ![l] = w] /\ temps' \ {l} = temps \ {l}
          /\ temps' \in SUBSET Leaves /\ begun' \in [Leaves -> Nat]
          /\ UNCHANGED <<atPath, removed, core, files, partial, installs, moves>>
      <3>1. begun' \in [Leaves -> Nat]
        BY <1>0, <1>1 DEF Sidecars!Begin
      <3> QED BY <1>0, <1>1, <2>0, <3>1 DEF Sidecars!Begin
    <2>3. l \in temps' => Owning(l, w)
      BY <1>0, <1>1, <2>0 DEF Sidecars!Begin, Owning, Writers, Sidecars!Exclusive
    <2> HIDE DEF w
    <2> QED BY <2>1, <2>2, <2>3, WriterMoves
  <1>2. CASE Sidecars!Fails(l)
    <2> DEFINE w == Sidecars!NoWrite
    <2>1. Fits(l, w)
      BY <1>0, <1>2 DEF Sidecars!Fails, Fits, Writers, Steps, Sidecars!NoWrite,
             Sidecars!None
    <2>2. /\ writes' = [writes EXCEPT ![l] = w] /\ temps' \ {l} = temps \ {l}
          /\ temps' \in SUBSET Leaves /\ begun' \in [Leaves -> Nat]
          /\ UNCHANGED <<atPath, removed, core, files, partial, installs, moves>>
      <3>1. writes' = [writes EXCEPT ![l] = w] /\ temps' = temps \ {l}
        BY <1>2 DEF Sidecars!Fails, Sidecars!Abandon
      <3> QED BY <1>0, <1>2, <3>1 DEF Sidecars!Fails
    <2>3. l \notin temps'
      BY <1>2 DEF Sidecars!Fails, Sidecars!Abandon
    <2> HIDE DEF w
    <2> QED BY <2>1, <2>2, <2>3, WriterMoves
  <1>3. CASE Sidecars!Pin(l)
    <2> DEFINE w == [writes[l] EXCEPT !.step = "create"]
    <2>1. Fits(l, w)
      BY <1>0, <1>3 DEF Sidecars!Pin, Fits, Writers, Steps, Sidecars!NoWrite,
             Sidecars!None
    <2>2. /\ writes' = [writes EXCEPT ![l] = w] /\ temps' \ {l} = temps \ {l}
          /\ temps' \in SUBSET Leaves /\ begun' \in [Leaves -> Nat]
          /\ UNCHANGED <<atPath, removed, core, files, partial, installs, moves>>
      BY <1>0, <1>3 DEF Sidecars!Pin, Writers,
             Sidecars!Go, Sidecars!Exclusive, Sidecars!Abandon
    <2>3. l \in temps' => Owning(l, w)
      BY <1>0, <1>3 DEF Sidecars!Pin, Owning, Writers, Sidecars!Exclusive
    <2> HIDE DEF w
    <2> QED BY <2>1, <2>2, <2>3, WriterMoves
  <1>4. CASE Sidecars!CreateTemporary(l)
    <2> DEFINE w == [writes[l] EXCEPT !.step = IF l = "journal" THEN "repin" ELSE "write"]
    <2>1. Fits(l, w)
      BY <1>0, <1>4 DEF Sidecars!CreateTemporary, Fits, Writers, Steps, Sidecars!NoWrite,
             Sidecars!None
    <2>2. /\ writes' = [writes EXCEPT ![l] = w] /\ temps' \ {l} = temps \ {l}
          /\ temps' \in SUBSET Leaves /\ begun' \in [Leaves -> Nat]
          /\ UNCHANGED <<atPath, removed, core, files, partial, installs, moves>>
      BY <1>0, <1>4 DEF Sidecars!CreateTemporary, Writers,
             Sidecars!Go, Sidecars!Exclusive, Sidecars!Abandon
    <2>3. l \in temps' => Owning(l, w)
      BY <1>0, <1>4 DEF Sidecars!CreateTemporary, Owning, Writers, Sidecars!Exclusive
    <2> HIDE DEF w
    <2> QED BY <2>1, <2>2, <2>3, WriterMoves
  <1>5. CASE Sidecars!WriteTemporary(l)
    <2> DEFINE w == [writes[l] EXCEPT !.full = TRUE,
                       !.step = IF l = "result" THEN "check"
                                ELSE IF Sidecars!Exclusive(l) THEN "install" ELSE "repin"]
    <2>1. Fits(l, w)
      BY <1>0, <1>5 DEF Sidecars!WriteTemporary, Fits, Writers, Steps, Sidecars!NoWrite,
             Sidecars!None
    <2>2. /\ writes' = [writes EXCEPT ![l] = w] /\ temps' \ {l} = temps \ {l}
          /\ temps' \in SUBSET Leaves /\ begun' \in [Leaves -> Nat]
          /\ UNCHANGED <<atPath, removed, core, files, partial, installs, moves>>
      BY <1>0, <1>5 DEF Sidecars!WriteTemporary, Writers,
             Sidecars!Go, Sidecars!Exclusive, Sidecars!Abandon
    <2>3. l \in temps' => Owning(l, w)
      BY <1>0, <1>5 DEF Sidecars!WriteTemporary, Owning, Writers, Sidecars!Exclusive
    <2> HIDE DEF w
    <2> QED BY <2>1, <2>2, <2>3, WriterMoves
  <1>6. CASE Sidecars!Repin(l)
    <2> DEFINE w == [writes[l] EXCEPT !.step = "install"]
    <2>1. Fits(l, w)
      BY <1>0, <1>6 DEF Sidecars!Repin, Fits, Writers, Steps, Sidecars!NoWrite,
             Sidecars!None
    <2>2. /\ writes' = [writes EXCEPT ![l] = w] /\ temps' \ {l} = temps \ {l}
          /\ temps' \in SUBSET Leaves /\ begun' \in [Leaves -> Nat]
          /\ UNCHANGED <<atPath, removed, core, files, partial, installs, moves>>
      BY <1>0, <1>6 DEF Sidecars!Repin, Writers,
             Sidecars!Go, Sidecars!Exclusive, Sidecars!Abandon
    <2>3. l \in temps' => Owning(l, w)
      BY <1>0, <1>6 DEF Sidecars!Repin, Owning, Writers, Sidecars!Exclusive
    <2> HIDE DEF w
    <2> QED BY <2>1, <2>2, <2>3, WriterMoves
  <1>7. CASE Sidecars!CheckCore(l)
    <2> DEFINE w == [writes[l] EXCEPT !.step = "read"]
    <2>1. Fits(l, w)
      BY <1>0, <1>7 DEF Sidecars!CheckCore, Fits, Writers, Steps, Sidecars!NoWrite,
             Sidecars!None
    <2>2. /\ writes' = [writes EXCEPT ![l] = w] /\ temps' \ {l} = temps \ {l}
          /\ temps' \in SUBSET Leaves /\ begun' \in [Leaves -> Nat]
          /\ UNCHANGED <<atPath, removed, core, files, partial, installs, moves>>
      BY <1>0, <1>7 DEF Sidecars!CheckCore, Writers,
             Sidecars!Go, Sidecars!Exclusive, Sidecars!Abandon
    <2>3. l \in temps' => Owning(l, w)
      BY <1>0, <1>7 DEF Sidecars!CheckCore, Owning, Writers, Sidecars!Exclusive
    <2> HIDE DEF w
    <2> QED BY <2>1, <2>2, <2>3, WriterMoves
  <1>8. CASE Sidecars!ReadCore(l)
    <2> DEFINE w == [writes[l] EXCEPT !.step = "recheck"]
    <2>1. Fits(l, w)
      BY <1>0, <1>8 DEF Sidecars!ReadCore, Fits, Writers, Steps, Sidecars!NoWrite,
             Sidecars!None
    <2>2. /\ writes' = [writes EXCEPT ![l] = w] /\ temps' \ {l} = temps \ {l}
          /\ temps' \in SUBSET Leaves /\ begun' \in [Leaves -> Nat]
          /\ UNCHANGED <<atPath, removed, core, files, partial, installs, moves>>
      BY <1>0, <1>8 DEF Sidecars!ReadCore, Writers,
             Sidecars!Go, Sidecars!Exclusive, Sidecars!Abandon
    <2>3. l \in temps' => Owning(l, w)
      BY <1>0, <1>8 DEF Sidecars!ReadCore, Owning, Writers, Sidecars!Exclusive
    <2> HIDE DEF w
    <2> QED BY <2>1, <2>2, <2>3, WriterMoves
  <1>9. CASE Sidecars!RecheckCore(l)
    <2> DEFINE w == [writes[l] EXCEPT !.step = IF l = "history" THEN "start" ELSE "existing"]
    <2>1. Fits(l, w)
      BY <1>0, <1>9 DEF Sidecars!RecheckCore, Fits, Writers, Steps, Sidecars!NoWrite,
             Sidecars!None
    <2>2. /\ writes' = [writes EXCEPT ![l] = w] /\ temps' \ {l} = temps \ {l}
          /\ temps' \in SUBSET Leaves /\ begun' \in [Leaves -> Nat]
          /\ UNCHANGED <<atPath, removed, core, files, partial, installs, moves>>
      BY <1>0, <1>9 DEF Sidecars!RecheckCore, Writers,
             Sidecars!Go, Sidecars!Exclusive, Sidecars!Abandon
    <2>3. l \in temps' => Owning(l, w)
      BY <1>0, <1>9 DEF Sidecars!RecheckCore, Owning, Writers, Sidecars!Exclusive
    <2> HIDE DEF w
    <2> QED BY <2>1, <2>2, <2>3, WriterMoves
  <1>10. CASE Sidecars!FindExisting(l)
    <2>1. CASE Sidecars!Abandon(l)
      <3>1. Sidecars!Fails(l)
        BY <1>10, <2>1 DEF Sidecars!FindExisting, Sidecars!Fails
      <3> QED BY <3>1, <1>2
    <2>2. CASE Sidecars!Go(l, "repin") /\ UNCHANGED temps
      <3> DEFINE w == [writes[l] EXCEPT !.step = "repin"]
      <3>1. Fits(l, w)
        BY <1>0, <1>10 DEF Sidecars!FindExisting, Fits, Writers, Steps
      <3>2. /\ writes' = [writes EXCEPT ![l] = w]
            /\ UNCHANGED <<atPath, removed, core, files, partial, installs, begun, moves, temps>>
        BY <1>10, <2>2 DEF Sidecars!FindExisting, Sidecars!Go
      <3>3. l \in temps' => Owning(l, w)
        BY <1>0, <1>10, <2>2 DEF Sidecars!FindExisting, Owning, Writers
      <3> HIDE DEF w
      <3> QED BY <1>0, <3>1, <3>2, <3>3, WriterMoves
    <2> QED BY <1>10, <2>1, <2>2 DEF Sidecars!FindExisting
  <1> QED BY <1>1, <1>2, <1>3, <1>4, <1>5, <1>6, <1>7, <1>8, <1>9, <1>10

\* The installation: the file has its name now, whole and about the writer's game.
LEMMA InstallKeeps ==
    ASSUME Sidecars!SidecarAssumption, FilesInvariant, NEW l \in Leaves, Sidecars!InstallLeaf(l)
    PROVE  FilesInvariant'
  <1> DEFINE w == writes[l]
  <1>1. /\ w \in Writers /\ w.step = "install" /\ ~removed /\ w.game \in Games /\ 0 \notin Games
        /\ Sidecars!Replaces(l) \/ files["own"][l] = 0
        /\ l # "journal" => w.full
        /\ Sidecars!NeedsCore(l) => OfTheContext(w.game)
    BY DEF FilesInvariant, FileTypes, WholeFiles, SameGame, Checked, Knowing, Sidecars!InstallLeaf,
           Sidecars!Target, Sidecars!SidecarAssumption, Sidecars!None
  <1>2. /\ files' = [files EXCEPT !["own"][l] = w.game]
        /\ writes' = [writes EXCEPT ![l] = Sidecars!NoWrite] /\ temps' = temps \ {l}
        /\ installs' = [installs EXCEPT ![l] = @ + 1]
        /\ UNCHANGED <<atPath, removed, core, begun, moves>>
    BY DEF Sidecars!InstallLeaf, Sidecars!Target
  <1>3. partial' = {}
    BY <1>1 DEF FilesInvariant, WholeFiles, Sidecars!WritesStayInside, Sidecars!InstallLeaf
  <1>4. Sidecars!NoWrite \in Writers /\ Sidecars!NoWrite.step = "idle"
    BY DEF Sidecars!NoWrite, Sidecars!None, Writers, Steps
  <1>5. /\ files'["own"][l] = w.game /\ files'["other"] = files["other"]
        /\ writes'[l] = Sidecars!NoWrite /\ installs'[l] = installs[l] + 1
        /\ \A m \in Leaves \ {l} : /\ files'["own"][m] = files["own"][m]
                                   /\ writes'[m] = writes[m] /\ installs'[m] = installs[m]
    BY <1>2 DEF FilesInvariant, FileTypes
  <1>6. FileTypes'
    <2>1. files' \in [{"own", "other"} -> [Leaves -> Games \cup {0}]]
      BY <1>1, <1>2 DEF FilesInvariant, FileTypes
    <2>2. writes' \in [Leaves -> Writers] /\ installs' \in [Leaves -> Nat]
      BY <1>2, <1>4 DEF FilesInvariant, FileTypes
    <2> QED BY <1>2, <1>3, <2>1, <2>2 DEF FilesInvariant, FileTypes
  <1>7. WholeFiles'
    BY <1>1, <1>2, <1>3, <1>4, <1>5 DEF FilesInvariant, WholeFiles, Sidecars!WritesStayInside
  <1>8. OneVoice'
    <2> SUFFICES ASSUME NEW m \in Leaves, ~Sidecars!Replaces(m), ~removed
                 PROVE  installs'[m] = 0 \/ (installs'[m] = 1 /\ files'["own"][m] # 0)
      BY <1>2 DEF OneVoice, Sidecars!Replaces
    <2> QED BY <1>1, <1>5 DEF FilesInvariant, OneVoice
  <1>9. SameGame'
    <2> SUFFICES ASSUME NEW m \in Leaves, Sidecars!NeedsCore(m)
                 PROVE  /\ Checked(m)' => removed' \/ OfTheContext(writes[m].game)'
                        /\ files'["own"][m] # 0 => OfTheContext(files["own"][m])'
      BY DEF SameGame, Sidecars!NeedsCore
    <2>1. "match" \in Leaves /\ l # "match" => files'["own"]["match"] = files["own"]["match"]
      BY <1>5
    <2>2. l = "match" => files["own"][l] = 0 /\ m # l
      BY <1>1 DEF Sidecars!Replaces, Sidecars!NeedsCore
    <2>3. CASE m = l
      <3>1. ~Checked(m)' /\ writes'[m].step = "idle"
        BY <1>4, <1>5, <2>3 DEF Checked, Knowing
      <3>2. OfTheContext(w.game)
        BY <1>1, <2>3
      <3>3. files'["own"][m] = w.game /\ l # "match"
        BY <1>5, <2>2, <2>3
      <3> QED BY <1>2, <2>1, <3>1, <3>2, <3>3 DEF OfTheContext
    <2>4. CASE m # l
      <3>1. writes'[m] = writes[m] /\ files'["own"][m] = files["own"][m]
        BY <1>5, <2>4
      <3>2. Checked(m) => OfTheContext(writes[m].game)
        BY <1>1 DEF FilesInvariant, SameGame
      <3>3. files["own"][m] # 0 => OfTheContext(files["own"][m])
        BY DEF FilesInvariant, SameGame
      <3>4. Checked(m) => writes[m].game # 0
        BY <1>1 DEF FilesInvariant, WholeFiles, Checked, Knowing
      <3>5. l = "match" => ~Checked(m) /\ files["own"][m] = 0
        BY <2>2, <3>2, <3>3, <3>4 DEF OfTheContext
      <3>6. Checked(m)' = Checked(m)
        BY <3>1 DEF Checked
      <3> QED BY <1>2, <2>1, <3>1, <3>2, <3>3, <3>5, <3>6 DEF OfTheContext
    <2> QED BY <2>3, <2>4
  <1>10. OwnedTemporaries'
    BY <1>2, <1>5, <1>6 DEF FilesInvariant, OwnedTemporaries, FileTypes
  <1> QED BY <1>6, <1>7, <1>8, <1>9, <1>10 DEF FilesInvariant

\* The rules of the files hold at the start, every step keeps them, and what the writers
\* promise follows from them.
LEMMA FilesStart ==
    ASSUME Sidecars!SidecarAssumption, Sidecars!Init
    PROVE  FilesInvariant
  <1>1. \A l \in Leaves : /\ writes[l] = Sidecars!NoWrite /\ installs[l] = 0
                          /\ \A d \in {"own", "other"} : files[d][l] = 0
    BY DEF Sidecars!Init, Sidecars!None
  <1>2. Sidecars!NoWrite \in Writers /\ Sidecars!NoWrite.step = "idle"
    BY DEF Sidecars!NoWrite, Sidecars!None, Writers, Steps
  <1>3. FileTypes
    BY <1>2 DEF FileTypes, Sidecars!Init, Sidecars!None
  <1>4. WholeFiles /\ OneVoice /\ SameGame /\ OwnedTemporaries
    BY <1>1, <1>2 DEF WholeFiles, OneVoice, SameGame, OwnedTemporaries, Checked, Knowing,
                      Sidecars!WritesStayInside, Sidecars!Init, Sidecars!None
  <1> QED BY <1>3, <1>4 DEF FilesInvariant

\* Every step of a writer or of the surroundings keeps the rules of the files.
LEMMA FilesKept ==
    ASSUME Sidecars!SidecarAssumption, FilesInvariant, [Sidecars!Next]_Sidecars!vars
    PROVE  FilesInvariant'
  <1>1. CASE Sidecars!Next
    BY <1>1, DirectoryMoves, WritersKeep, InstallKeeps DEF Sidecars!Next
  <1>2. CASE UNCHANGED Sidecars!vars
    BY <1>2 DEF Sidecars!vars, FilesInvariant, FileTypes, WholeFiles, OneVoice, SameGame,
                OwnedTemporaries, Checked, OfTheContext, Sidecars!WritesStayInside
  <1> QED BY <1>1, <1>2

\* The rules of the files give what a reader of the directory relies on.
LEMMA FilesAreTheirOwn ==
    ASSUME Sidecars!SidecarAssumption, FilesInvariant
    PROVE  Sidecars!SidecarsAreSound
  <1>1. Sidecars!WritesStayInside
    BY DEF FilesInvariant, WholeFiles
  <1>2. Sidecars!FactsAgree
    BY DEF FilesInvariant, FileTypes, OneVoice, SameGame, OfTheContext, Sidecars!FactsAgree,
           Sidecars!None
  <1>3. Sidecars!TemporariesAreOwned
    BY DEF FilesInvariant, OwnedTemporaries, Owning, Sidecars!TemporariesAreOwned
  <1> QED BY <1>1, <1>2, <1>3 DEF Sidecars!SidecarsAreSound

-----------------------------------------------------------------------------
(* The match history. *)

\* The smallest of a set of numbers.
LEMMA Smallest ==
    ASSUME NEW S, S \subseteq Nat, S # {}
    PROVE  History!Min(S) \in S /\ \A c \in S : History!Min(S) <= c
  <1> DEFINE R == OpToRel(<, Nat)
  <1>1. IsWellFoundedOn(R, Nat)
    BY NatLessThanWellFounded
  <1>2. \A x, y \in Nat : <<x, y>> \in R <=> x < y
    BY DEF OpToRel
  <1> HIDE DEF R
  <1>3. PICK b \in S : \A c \in S : ~(<<c, b>> \in R)
    BY <1>1, WFMin
  <1>4. ASSUME NEW c \in S PROVE b <= c
    <2>1. b \in Nat /\ c \in Nat
      OBVIOUS
    <2>2. ~(c < b)
      BY <1>2, <1>3, <2>1
    <2> QED BY <2>1, <2>2
  <1> QED BY <1>4 DEF History!Min

\* A sequence without the element at one place.
LEMMA WithoutOne ==
    ASSUME NEW S, NEW s \in Seq(S), NEW i \in 1 .. Len(s)
    PROVE  LET t == History!Without(s, i) IN
           /\ t \in Seq(S) /\ Len(t) = Len(s) - 1
           /\ \A k \in 1 .. Len(t) : t[k] = IF k < i THEN s[k] ELSE s[k + 1]
  <1> DEFINE u == SubSeq(s, 1, i - 1)
             v == SubSeq(s, i + 1, Len(s))
  <1>0. Len(s) \in Nat /\ \A k \in 1 .. Len(s) : s[k] \in S
    BY ElementOfSeq
  <1>1. u \in Seq(S) /\ Len(u) = i - 1 /\ \A k \in 1 .. i - 1 : u[k] = s[k]
    <2>1. \A k \in 1 .. i - 1 : s[k] \in S
      BY <1>0
    <2> QED BY <1>0, <2>1, SubSeqProperties
  <1>2. /\ v \in Seq(S) /\ Len(v) = Len(s) - i
        /\ \A k \in 1 .. Len(s) - i : v[k] = s[i + k]
    <2>1. \A k \in i + 1 .. Len(s) : s[k] \in S
      BY <1>0
    <2>2. /\ v \in Seq(S) /\ Len(v) = IF i + 1 <= Len(s) THEN Len(s) - (i + 1) + 1 ELSE 0
          /\ \A k \in 1 .. Len(s) - (i + 1) + 1 : v[k] = s[(i + 1) + k - 1]
      BY <1>0, <2>1, SubSeqProperties
    <2> HIDE DEF v
    <2> QED BY <1>0, <2>2
  <1> HIDE DEF u, v
  <1>3. /\ u \o v \in Seq(S) /\ Len(u \o v) = Len(s) - 1
        /\ \A k \in 1 .. Len(s) - 1 : (u \o v)[k] = IF k < i THEN s[k] ELSE s[k + 1]
    <2>1. /\ u \o v \in Seq(S) /\ Len(u \o v) = Len(u) + Len(v)
          /\ \A k \in 1 .. Len(u) + Len(v) :
                (u \o v)[k] = IF k <= Len(u) THEN u[k] ELSE v[k - Len(u)]
      BY <1>1, <1>2, ConcatProperties
    <2>2. ASSUME NEW k \in 1 .. Len(s) - 1
          PROVE  (u \o v)[k] = IF k < i THEN s[k] ELSE s[k + 1]
      <3>1. CASE k < i
        BY <1>0, <1>1, <1>2, <2>1, <3>1
      <3>2. CASE ~(k < i)
        <4>1. k - (i - 1) \in 1 .. Len(s) - i /\ i + (k - (i - 1)) = k + 1
          BY <1>0, <3>2
        <4>2. (u \o v)[k] = v[k - (i - 1)]
          BY <1>0, <1>1, <1>2, <2>1, <3>2
        <4> QED BY <1>2, <3>2, <4>1, <4>2
      <3> QED BY <3>1, <3>2
    <2> QED BY <1>0, <1>1, <1>2, <2>1, <2>2
  <1>4. History!Without(s, i) = u \o v
    BY DEF History!Without, u, v
  <1> QED BY <1>3, <1>4

MatchJobs == [id : Recording, attempts : Nat, waits : BOOLEAN,
              result : {0} \cup {GameOf[r] : r \in Recording}, done : BOOLEAN]

\* The recordings that have their facts, or are gone.
Settled == {r \in Recording : facts[r] # 0 \/ allocation[r] = "gone"}

\* A job holds the match of its recording or none, and is done only if the recording is
\* settled.  A ledger has one job for a recording, and room for it.
FairJob(j, over) == /\ j \in MatchJobs /\ j.result \in {0, GameOf[j.id]}
                    /\ j.done => j.id \in over
Distinct(s) == \A i, k \in 1 .. Len(s) : s[i].id = s[k].id => i = k
Ledger(s, over) ==
    /\ s \in Seq(MatchJobs) /\ Len(s) <= MaxJobs /\ Distinct(s)
    /\ \A i \in 1 .. Len(s) : FairJob(s[i], over)

HistoryPlaces == {"down", "loop", "save", "choose", "reserve", "fetch", "fetched", "install",
                  "wait", "ended"}
HistoryTypes ==
    /\ ended \subseteq Recording
    /\ allocation \in [Recording -> {"private", "canonical", "gone"}]
    /\ facts \in [Recording -> {0} \cup {GameOf[r] : r \in Recording}]
    /\ \A r \in Recording : facts[r] \in {0, GameOf[r]}
    /\ submitted \in Seq(MatchJobs) /\ \A i \in 1 .. Len(submitted) : FairJob(submitted[i], {})
    /\ at \in HistoryPlaces

\* Both ledgers are in order, and the file is ahead of the requests and of the
\* installation: what it says of the job at hand is what is acted on.
LedgerRule == Ledger(matches, Settled) /\ Ledger(saved, Settled)
HandRule ==
    /\ at \in {"reserve", "fetch", "fetched", "install"} => current \in 1 .. Len(matches)
    /\ at \in {"fetch", "install"} => saved = matches
    /\ at = "fetched" =>
          /\ Len(saved) = Len(matches)
          /\ \A i \in 1 .. Len(saved) : /\ saved[i].id = matches[i].id
                                        /\ saved[i].attempts = matches[i].attempts
    /\ at = "install" => matches[current].result # 0

HistoryInvariant == HistoryTypes /\ LedgerRule /\ HandRule

-----------------------------------------------------------------------------
\* The ledger with one job changed.
LEMMA ChangedJob ==
    ASSUME NEW s \in Seq(MatchJobs), NEW i \in 1 .. Len(s), NEW j \in MatchJobs, j.id = s[i].id
    PROVE  LET t == [s EXCEPT ![i] = j] IN
           /\ t \in Seq(MatchJobs) /\ Len(t) = Len(s) /\ t[i] = j
           /\ \A k \in 1 .. Len(s) : k # i => t[k] = s[k]
           /\ \A k \in 1 .. Len(s) : t[k].id = s[k].id
  <1>1. /\ [s EXCEPT ![i] = j] \in Seq(MatchJobs) /\ Len([s EXCEPT ![i] = j]) = Len(s)
        /\ \A k \in 1 .. Len(s) : [s EXCEPT ![i] = j][k] = IF k = i THEN j ELSE s[k]
    BY ExceptSeq
  <1> QED BY <1>1

\* A ledger in which one job is replaced by a fair one of the same recording.
LEMMA ChangedLedger ==
    ASSUME NEW over, NEW s, Ledger(s, over), NEW i \in 1 .. Len(s), NEW j,
           FairJob(j, over), j.id = s[i].id
    PROVE  Ledger([s EXCEPT ![i] = j], over)
  <1> DEFINE t == [s EXCEPT ![i] = j]
  <1>1. /\ t \in Seq(MatchJobs) /\ Len(t) = Len(s) /\ t[i] = j
        /\ \A k \in 1 .. Len(s) : k # i => t[k] = s[k]
        /\ \A k \in 1 .. Len(s) : t[k].id = s[k].id
    BY ChangedJob DEF Ledger, FairJob
  <1> HIDE DEF t
  <1> SUFFICES Ledger(t, over)
    BY DEF t
  <1> QED BY <1>1 DEF Ledger, Distinct

\* A job is taken in once, and one of the others makes room for it.
LEMMA AdmitKeeps ==
    ASSUME History!HistoryAssumption, NEW over, NEW s, Ledger(s, over), NEW j, FairJob(j, over)
    PROVE  Ledger(History!Admit(s, j), over)
  <1>0. /\ MaxJobs \in Nat /\ MaxJobs > 0 /\ s \in Seq(MatchJobs) /\ j \in MatchJobs
        /\ Len(s) \in Nat /\ DOMAIN s = 1 .. Len(s)
    BY LenProperties DEF History!HistoryAssumption, Ledger, FairJob
  <1>1. CASE j.id \in History!Ids(s)
    BY <1>1 DEF History!Admit
  <1>2. CASE j.id \notin History!Ids(s)
    <2> DEFINE t == IF Len(s) = MaxJobs THEN History!Without(s, History!Evicted(s)) ELSE s
    <2>1. /\ Ledger(t, over) /\ Len(t) < MaxJobs
          /\ \A k \in 1 .. Len(t) : t[k].id # j.id
      <3>1. \A k \in 1 .. Len(s) : s[k].id # j.id
        BY <1>0, <1>2 DEF History!Ids
      <3>2. CASE Len(s) # MaxJobs
        <4>1. t = s
          BY <3>2
        <4> HIDE DEF t
        <4>2. Len(s) < MaxJobs
          <5>1. Len(s) <= MaxJobs
            BY DEF Ledger
          <5>2. Len(s) \in Nat /\ MaxJobs \in Nat
            BY <1>0
          <5> QED BY <3>2, <5>1, <5>2
        <4> QED BY <3>1, <4>1, <4>2
      <3>3. CASE Len(s) = MaxJobs
        <4>1. History!Evicted(s) \in 1 .. Len(s)
          <5> DEFINE D == {i \in DOMAIN s : s[i].done}
          <5>1. D \subseteq 1 .. Len(s) /\ D \subseteq Nat
            BY <1>0
          <5>2. D # {} => History!Min(D) \in 1 .. Len(s)
            <6> HIDE DEF D
            <6> QED BY <5>1, Smallest
          <5>3. History!Evicted(s) = IF D = {} THEN 1 ELSE History!Min(D)
            BY DEF History!Evicted
          <5> HIDE DEF D
          <5> QED BY <1>0, <3>3, <5>2, <5>3
        <4> DEFINE e == History!Evicted(s)
                   u == History!Without(s, e)
        <4> HIDE DEF e
        <4>2. /\ u \in Seq(MatchJobs) /\ Len(u) = Len(s) - 1
              /\ \A k \in 1 .. Len(u) : u[k] = IF k < e THEN s[k] ELSE s[k + 1]
          BY <1>0, <4>1, WithoutOne DEF e
        <4> HIDE DEF u
        <4>3. e \in 1 .. Len(s)
          BY <4>1 DEF e
        <4> DEFINE From(k) == IF k < e THEN k ELSE k + 1
        <4>4. \A k \in 1 .. Len(u) : From(k) \in 1 .. Len(s) /\ u[k] = s[From(k)]
          BY <1>0, <4>2, <4>3
        <4>5. \A k, m \in 1 .. Len(u) : From(k) = From(m) => k = m
          BY <1>0, <4>2, <4>3
        <4> HIDE DEF From
        <4>6. Ledger(u, over) /\ Len(u) < MaxJobs /\ \A k \in 1 .. Len(u) : u[k].id # j.id
          BY <1>0, <3>1, <3>3, <4>2, <4>4, <4>5 DEF Ledger, Distinct
        <4>7. t = u
          BY <3>3 DEF u, e
        <4> QED BY <4>6, <4>7
      <3> QED BY <3>2, <3>3
    <2> HIDE DEF t
    <2>2. /\ Append(t, j) \in Seq(MatchJobs) /\ Len(Append(t, j)) = Len(t) + 1
          /\ \A k \in 1 .. Len(t) : Append(t, j)[k] = t[k]
          /\ Append(t, j)[Len(t) + 1] = j
      BY <1>0, <2>1, AppendProperties DEF Ledger
    <2>3. Len(t) \in Nat
      BY <2>1, LenProperties DEF Ledger
    <2>4. Distinct(Append(t, j))
      BY <2>1, <2>2, <2>3 DEF Ledger, Distinct
    <2>5. \A k \in 1 .. Len(t) + 1 : FairJob(Append(t, j)[k], over)
      <3> SUFFICES ASSUME NEW k \in 1 .. Len(t) + 1 PROVE FairJob(Append(t, j)[k], over)
        OBVIOUS
      <3>1. CASE k = Len(t) + 1
        BY <2>2, <3>1
      <3>2. CASE k \in 1 .. Len(t)
        BY <2>1, <2>2, <3>2 DEF Ledger
      <3> QED BY <2>3, <3>1, <3>2
    <2>6. Ledger(Append(t, j), over)
      BY <1>0, <2>1, <2>2, <2>3, <2>4, <2>5 DEF Ledger
    <2>7. History!Admit(s, j) = Append(t, j)
      BY <1>2 DEF History!Admit, t
    <2> QED BY <2>6, <2>7
  <1> QED BY <1>1, <1>2

\* So are the jobs of the queue, one after the other.
LEMMA AdmittedKeeps ==
    ASSUME History!HistoryAssumption, NEW over, NEW s, Ledger(s, over),
           NEW added \in Seq(MatchJobs),
           \A k \in 1 .. Len(added) : FairJob(added[k], over)
    PROVE  Ledger(History!Admitted(s, added), over)
  <1> DEFINE Runs(n, g) ==
        g = [k \in 0 .. n |-> IF k = 0 THEN s ELSE History!Admit(g[k - 1], added[k])]
  <1> DEFINE after == CHOOSE g : Runs(Len(added), g)
  <1>0. Len(added) \in Nat
    BY LenProperties
  <1>1. History!Admitted(s, added) = after[Len(added)]
    BY DEF History!Admitted
  <1>2. \A n \in 0 .. Len(added) : \E g : Runs(n, g)
    <2> DEFINE Bad == {n \in 0 .. Len(added) : ~\E g : Runs(n, g)}
    <2> SUFFICES ASSUME Bad # {} PROVE FALSE
      OBVIOUS
    <2> DEFINE m == History!Min(Bad)
    <2>1. m \in Bad /\ \A c \in Bad : m <= c
      <3>1. Bad \subseteq Nat
        BY <1>0
      <3> HIDE DEF Bad
      <3> QED BY <3>1, Smallest
    <2> HIDE DEF m
    <2>2. m \in 0 .. Len(added)
      BY <2>1
    <2>3. CASE m = 0
      <3>1. Runs(0, [k \in 0 .. 0 |-> s])
        OBVIOUS
      <3> QED BY <2>1, <2>3, <3>1
    <2>4. CASE m # 0
      <3>1. m - 1 \in 0 .. Len(added) /\ ~(m <= m - 1)
        BY <1>0, <2>2, <2>4
      <3>2. PICK h : Runs(m - 1, h)
        BY <2>1, <3>1
      <3> DEFINE g == [k \in 0 .. m |-> IF k = m THEN History!Admit(h[m - 1], added[m]) ELSE h[k]]
      <3>3. \A k \in 0 .. m - 1 : h[k] = IF k = 0 THEN s ELSE History!Admit(h[k - 1], added[k])
        BY <3>2
      <3>4. ASSUME NEW k \in 0 .. m
            PROVE  g[k] = IF k = 0 THEN s ELSE History!Admit(g[k - 1], added[k])
        <4>1. CASE k = m
          BY <1>0, <2>2, <2>4, <4>1
        <4>2. CASE k # m
          <5>1. k \in 0 .. m - 1 /\ (k # 0 => k - 1 \in 0 .. m - 1)
            BY <1>0, <2>2, <4>2
          <5>2. g[k] = h[k] /\ (k # 0 => g[k - 1] = h[k - 1])
            BY <1>0, <2>2, <4>2, <5>1
          <5> QED BY <3>3, <5>1, <5>2
        <4> QED BY <4>1, <4>2
      <3>5. g = [k \in 0 .. m |-> g[k]]
        OBVIOUS
      <3> HIDE DEF g
      <3>6. Runs(m, g)
        BY <3>4, <3>5
      <3> QED BY <2>1, <3>6
    <2> QED BY <2>3, <2>4
  <1>3. Runs(Len(added), after)
    <2>1. \E g : Runs(Len(added), g)
      BY <1>0, <1>2
    <2> HIDE DEF Runs
    <2> QED BY <2>1
  <1> HIDE DEF after
  <1>4. \A k \in 0 .. Len(added) :
            after[k] = IF k = 0 THEN s ELSE History!Admit(after[k - 1], added[k])
    BY <1>3
  <1> HIDE DEF Runs
  <1>5. \A n \in 0 .. Len(added) : Ledger(after[n], over)
    <2> DEFINE Bad == {n \in 0 .. Len(added) : ~Ledger(after[n], over)}
    <2> SUFFICES ASSUME Bad # {} PROVE FALSE
      OBVIOUS
    <2> DEFINE m == History!Min(Bad)
    <2>1. m \in Bad /\ \A c \in Bad : m <= c
      <3>1. Bad \subseteq Nat
        BY <1>0
      <3> HIDE DEF Bad
      <3> QED BY <3>1, Smallest
    <2> HIDE DEF m
    <2>2. m \in 0 .. Len(added) /\ ~Ledger(after[m], over)
      BY <2>1
    <2>3. CASE m = 0
      BY <1>4, <2>2, <2>3
    <2>4. CASE m # 0
      <3>1. m - 1 \in 0 .. Len(added) /\ ~(m <= m - 1) /\ m \in 1 .. Len(added)
        BY <1>0, <2>2, <2>4
      <3>2. Ledger(after[m - 1], over)
        BY <2>1, <3>1
      <3>3. after[m] = History!Admit(after[m - 1], added[m])
        BY <1>4, <2>2, <2>4
      <3>4. Ledger(after[m], over)
        BY <3>1, <3>2, <3>3, AdmitKeeps
      <3> QED BY <2>2, <3>4
    <2> QED BY <2>3, <2>4
  <1> QED BY <1>0, <1>1, <1>5

\* A ledger stays in order when more recordings are settled.
LEMMA LedgerStays ==
    ASSUME NEW over, NEW more, over \subseteq more, NEW s, Ledger(s, over)
    PROVE  Ledger(s, more)
  BY DEF Ledger, FairJob

-----------------------------------------------------------------------------
\* The recordings, the files and the queue move while the collector stands still.
LEMMA WorldKeeps ==
    ASSUME History!HistoryAssumption, HistoryInvariant,
           \/ History!WorldMoves \/ \E r \in Recording : History!SubmitHistory(r)
           \/ History!StopHistory \/ History!WakeUp \/ History!Load \/ History!Die
    PROVE  HistoryInvariant'
  <1>1. CASE History!WorldMoves
    <2>0. UNCHANGED <<ended, deaths, saved, submitted, stopping, at, matches, dirty, current>>
      BY <1>1 DEF History!WorldMoves
    <2>1. HistoryTypes' /\ Settled \subseteq Settled'
      BY <1>1, <2>0 DEF HistoryInvariant, HistoryTypes, History!WorldMoves, Settled
    <2>2. LedgerRule'
      BY <2>0, <2>1, LedgerStays DEF HistoryInvariant, LedgerRule
    <2> QED BY <2>0, <2>1, <2>2 DEF HistoryInvariant, HandRule
  <1>2. ASSUME NEW r \in Recording, History!SubmitHistory(r) PROVE HistoryInvariant'
    <2>0. UNCHANGED <<allocation, facts, history, deaths, saved, stopping, at, matches, dirty,
                      current>>
      BY <1>2 DEF History!SubmitHistory
    <2>1. FairJob(History!Job(r), {})
      BY DEF FairJob, History!Job, MatchJobs
    <2>2. submitted \in Seq(MatchJobs) /\ \A i \in 1 .. Len(submitted) : FairJob(submitted[i], {})
      BY DEF HistoryInvariant, HistoryTypes
    <2>3. Len(submitted) \in Nat /\ History!Job(r) \in MatchJobs
      BY <2>1, <2>2, LenProperties DEF FairJob
    <2>4. \/ submitted' = submitted
          \/ /\ submitted' \in Seq(MatchJobs) /\ Len(submitted') = Len(submitted) + 1
             /\ \A k \in 1 .. Len(submitted) : submitted'[k] = submitted[k]
             /\ submitted'[Len(submitted) + 1] = History!Job(r)
      BY <1>2, <2>2, <2>3, AppendProperties DEF History!SubmitHistory
    <2>5. /\ submitted' \in Seq(MatchJobs)
          /\ \A i \in 1 .. Len(submitted') : FairJob(submitted'[i], {})
      BY <2>1, <2>2, <2>3, <2>4
    <2>6. ended' \subseteq Recording
      BY <1>2 DEF HistoryInvariant, HistoryTypes, History!SubmitHistory
    <2>7. HistoryTypes'
      BY <2>0, <2>5, <2>6 DEF HistoryInvariant, HistoryTypes
    <2> QED BY <2>0, <2>7 DEF HistoryInvariant, LedgerRule, HandRule, Settled
  <1>3. CASE History!StopHistory
    BY <1>3 DEF History!StopHistory, History!world, HistoryInvariant, HistoryTypes, LedgerRule,
                HandRule, Settled
  <1>4. CASE History!WakeUp
    BY <1>4 DEF History!WakeUp, History!world, HistoryInvariant, HistoryTypes, LedgerRule,
                HandRule, Settled, HistoryPlaces
  <1>5. CASE History!Load
    BY <1>5 DEF History!Load, History!world, HistoryInvariant, HistoryTypes, LedgerRule,
                HandRule, Settled, HistoryPlaces
  <1>6. CASE History!Die
    <2>1. /\ at' = "down" /\ matches' = <<>> /\ submitted' = <<>>
          /\ UNCHANGED <<ended, allocation, facts, history, saved>>
      BY <1>6 DEF History!Die
    <2>2. <<>> \in Seq(MatchJobs) /\ Len(<<>>) = 0
      BY EmptySeq
    <2>3. Ledger(<<>>, Settled)
      BY <2>2 DEF Ledger, Distinct, History!HistoryAssumption
    <2>4. HistoryTypes'
      BY <2>1, <2>2 DEF HistoryInvariant, HistoryTypes, HistoryPlaces
    <2>5. LedgerRule'
      BY <2>1, <2>3 DEF HistoryInvariant, LedgerRule, Settled
    <2> QED BY <2>1, <2>4, <2>5 DEF HistoryInvariant, HandRule
  <1> QED BY <1>1, <1>2, <1>3, <1>4, <1>5, <1>6

\* A step of the collector with the ledger in memory, which has stayed in order.
LEMMA CollectorKeeps ==
    ASSUME HistoryInvariant, UNCHANGED <<ended, allocation, facts>>,
           UNCHANGED submitted \/ submitted' = <<>>, at' \in HistoryPlaces,
           Ledger(matches', Settled), saved' \in {saved, matches}, HandRule'
    PROVE  HistoryInvariant'
  <1>1. HistoryTypes'
    <2>1. <<>> \in Seq(MatchJobs) /\ Len(<<>>) = 0
      BY EmptySeq
    <2>2. /\ submitted' \in Seq(MatchJobs)
          /\ \A i \in 1 .. Len(submitted') : FairJob(submitted'[i], {})
      <3>1. CASE UNCHANGED submitted
        BY <3>1 DEF HistoryInvariant, HistoryTypes
      <3>2. CASE submitted' = <<>>
        BY <2>1, <3>2
      <3> QED BY <3>1, <3>2
    <2> QED BY <2>2 DEF HistoryInvariant, HistoryTypes
  <1>2. LedgerRule'
    BY DEF HistoryInvariant, LedgerRule, Settled
  <1> QED BY <1>1, <1>2 DEF HistoryInvariant

\* What the worker of the history does to its ledger as a whole keeps the rules.
LEMMA LoopKeeps ==
    ASSUME History!HistoryAssumption, HistoryInvariant,
           \/ \E i \in 1 .. MaxJobs : History!RetryIsDue(i)
           \/ History!TakeJobs \/ History!SaveJobs \/ History!SaveReservation \/ History!SaveFacts
    PROVE  HistoryInvariant'
  <1>0. /\ Ledger(matches, Settled) /\ matches \in Seq(MatchJobs)
        /\ Len(matches) \in Nat /\ DOMAIN matches = 1 .. Len(matches)
    BY LenProperties DEF HistoryInvariant, LedgerRule, Ledger
  <1>1. ASSUME NEW i \in 1 .. MaxJobs, History!RetryIsDue(i) PROVE HistoryInvariant'
    <2>0. /\ i \in 1 .. Len(matches) /\ UNCHANGED <<History!world, saved, submitted, at, current>>
          /\ at \in {"loop", "wait"}
      BY <1>0, <1>1 DEF History!RetryIsDue
    <2>1. FairJob(matches[i], Settled)
      BY <1>0, <2>0 DEF Ledger
    <2> DEFINE j == [matches[i] EXCEPT !.waits = FALSE]
    <2>2. FairJob(j, Settled) /\ j.id = matches[i].id
      BY <2>1 DEF FairJob, MatchJobs
    <2>3. matches' = [matches EXCEPT ![i] = j]
      BY <1>1 DEF History!RetryIsDue
    <2> HIDE DEF j
    <2>4. Ledger(matches', Settled)
      BY <1>0, <2>0, <2>2, <2>3, ChangedLedger
    <2>5. HandRule'
      BY <2>0 DEF HandRule
    <2>6. at' \in HistoryPlaces
      BY <2>0 DEF HistoryPlaces
    <2> QED BY <2>0, <2>4, <2>5, <2>6, CollectorKeeps DEF History!world
  <1>2. CASE History!TakeJobs
    <2>1. /\ matches' = History!Admitted(matches, submitted) /\ submitted' = <<>>
          /\ at' \in {"save", "choose"} /\ UNCHANGED <<History!world, saved, current>>
      BY <1>2 DEF History!TakeJobs
    <2>2. submitted \in Seq(MatchJobs) /\ \A i \in 1 .. Len(submitted) : FairJob(submitted[i], Settled)
      BY DEF HistoryInvariant, HistoryTypes, FairJob
    <2>3. Ledger(matches', Settled)
      BY <1>0, <2>1, <2>2, AdmittedKeeps
    <2>4. HandRule' /\ at' \in HistoryPlaces
      BY <2>1 DEF HandRule, HistoryPlaces
    <2> QED BY <2>1, <2>3, <2>4, CollectorKeeps DEF History!world
  <1>3. CASE History!SaveJobs
    <2>1. /\ at' \in {"choose", "ended"} /\ saved' \in {saved, matches}
          /\ UNCHANGED <<History!world, submitted, matches, current>>
      BY <1>3 DEF History!SaveJobs, History!SaveThen
    <2>2. HandRule' /\ at' \in HistoryPlaces
      BY <2>1 DEF HandRule, HistoryPlaces
    <2> QED BY <1>0, <2>1, <2>2, CollectorKeeps DEF History!world
  <1>4. CASE History!SaveReservation
    <2>1. /\ at = "reserve" /\ UNCHANGED <<History!world, submitted, matches, current>>
          /\ \/ at' = "fetch" /\ saved' = matches
             \/ at' = "ended" /\ saved' = saved
      BY <1>4 DEF History!SaveReservation, History!SaveThen
    <2>2. HandRule' /\ at' \in HistoryPlaces
      BY <2>1 DEF HistoryInvariant, HandRule, HistoryPlaces
    <2> QED BY <1>0, <2>1, <2>2, CollectorKeeps DEF History!world
  <1>5. CASE History!SaveFacts
    <2>1. /\ at = "fetched" /\ UNCHANGED <<History!world, submitted, matches, current>>
          /\ \/ /\ at' = IF matches[current].result # 0 THEN "install" ELSE "loop"
                /\ saved' = matches
             \/ at' = "ended" /\ saved' = saved
      BY <1>5 DEF History!SaveFacts, History!SaveThen
    <2>2. HandRule' /\ at' \in HistoryPlaces
      BY <2>1 DEF HistoryInvariant, HandRule, HistoryPlaces
    <2> QED BY <1>0, <2>1, <2>2, CollectorKeeps DEF History!world
  <1> QED BY <1>1, <1>2, <1>3, <1>4, <1>5

\* A due job is closed, or reserved an attempt.
LEMMA ChooseKeeps ==
    ASSUME History!HistoryAssumption, HistoryInvariant, History!Choose
    PROVE  HistoryInvariant'
  <1>0. /\ Ledger(matches, Settled) /\ matches \in Seq(MatchJobs)
        /\ Len(matches) \in Nat /\ DOMAIN matches = 1 .. Len(matches)
        /\ UNCHANGED <<History!world, saved, submitted>>
    BY LenProperties DEF HistoryInvariant, LedgerRule, Ledger, History!Choose
  <1>1. CASE stopping \/ History!Due = {}
    <2>1. at' \in {"ended", "wait"} /\ UNCHANGED <<matches, current>>
      BY <1>1 DEF History!Choose
    <2>2. HandRule' /\ at' \in HistoryPlaces
      BY <2>1 DEF HandRule, HistoryPlaces
    <2> QED BY <1>0, <2>1, <2>2, CollectorKeeps DEF History!world
  <1>2. CASE ~stopping /\ History!Due # {}
    <2> DEFINE i == History!Min(History!Due)
    <2>1. i \in 1 .. Len(matches)
      <3>1. History!Due \subseteq 1 .. Len(matches) /\ History!Due \subseteq Nat
        BY <1>0 DEF History!Due
      <3> QED BY <1>2, <3>1, Smallest
    <2>2. IF allocation[matches[i].id] = "gone"
          THEN matches' = [matches EXCEPT ![i].done = TRUE] /\ at' = "loop" /\ UNCHANGED current
          ELSE /\ matches' = [matches EXCEPT ![i].attempts = History!Min({@ + 1, MaxTries}),
                                             ![i].waits = TRUE]
               /\ current' = i /\ at' = "reserve"
      BY <1>2 DEF History!Choose
    <2> HIDE DEF i
    <2>3. FairJob(matches[i], Settled) /\ matches[i] \in MatchJobs
      BY <1>0, <2>1 DEF Ledger, FairJob
    <2>4. CASE allocation[matches[i].id] = "gone"
      <3> DEFINE j == [matches[i] EXCEPT !.done = TRUE]
      <3>1. FairJob(j, Settled) /\ j.id = matches[i].id
        BY <2>3, <2>4 DEF FairJob, MatchJobs, Settled
      <3>2. matches' = [matches EXCEPT ![i] = j]
        BY <2>2, <2>4
      <3> HIDE DEF j
      <3>3. Ledger(matches', Settled)
        BY <1>0, <2>1, <3>1, <3>2, ChangedLedger
      <3>4. HandRule' /\ at' \in HistoryPlaces
        BY <2>2, <2>4 DEF HandRule, HistoryPlaces
      <3> QED BY <1>0, <3>3, <3>4, CollectorKeeps DEF History!world
    <2>5. CASE allocation[matches[i].id] # "gone"
      <3> DEFINE n == History!Min({matches[i].attempts + 1, MaxTries})
      <3> DEFINE j == [matches[i] EXCEPT !.attempts = n, !.waits = TRUE]
      <3>0. n \in Nat
        <4>1. {matches[i].attempts + 1, MaxTries} \subseteq Nat
          BY <2>3 DEF MatchJobs, History!HistoryAssumption
        <4> QED BY <4>1, Smallest
      <3>2. matches' = [matches EXCEPT ![i] = j]
        BY <2>2, <2>5
      <3> HIDE DEF n
      <3>1. FairJob(j, Settled) /\ j.id = matches[i].id /\ j \in MatchJobs
        BY <2>3, <3>0 DEF FairJob, MatchJobs
      <3> HIDE DEF j
      <3>3. Ledger(matches', Settled)
        BY <1>0, <2>1, <3>1, <3>2, ChangedLedger
      <3>4. Len(matches') = Len(matches)
        BY <1>0, <2>1, <3>1, <3>2, ChangedJob
      <3>5. HandRule' /\ at' \in HistoryPlaces
        BY <2>1, <2>2, <2>5, <3>4 DEF HandRule, HistoryPlaces
      <3> QED BY <1>0, <3>3, <3>5, CollectorKeeps DEF History!world
    <2> QED BY <2>4, <2>5
  <1> QED BY <1>1, <1>2

\* What a request brings, or another recording of the match has, is of the match of
\* the job.
LEMMA FetchKeeps ==
    ASSUME History!HistoryAssumption, HistoryInvariant, History!Fetch
    PROVE  HistoryInvariant'
  <1> DEFINE i == current
  <1>0. /\ Ledger(matches, Settled) /\ matches \in Seq(MatchJobs) /\ saved = matches
        /\ Len(matches) \in Nat /\ DOMAIN matches = 1 .. Len(matches) /\ i \in 1 .. Len(matches)
        /\ UNCHANGED <<History!world, saved, submitted, current>> /\ at' = "fetched"
    BY LenProperties DEF HistoryInvariant, LedgerRule, HandRule, Ledger, History!Fetch
  <1>1. FairJob(matches[i], Settled) /\ matches[i] \in MatchJobs /\ matches[i].id \in Recording
    BY <1>0 DEF Ledger, FairJob, MatchJobs
  <1>2. \/ matches' = matches
        \/ matches' = [matches EXCEPT ![i].result = GameOf[matches[i].id]]
    <2>1. CASE History!Shared(i) # {}
      <3> DEFINE m == History!Min(History!Shared(i))
      <3>1. m \in 1 .. Len(matches) /\ m \in History!Shared(i)
        <4>1. History!Shared(i) \subseteq 1 .. Len(matches) /\ History!Shared(i) \subseteq Nat
          BY <1>0 DEF History!Shared
        <4> QED BY <2>1, <4>1, Smallest
      <3>2. matches[m].result = GameOf[matches[i].id]
        <4> HIDE DEF m
        <4>1. FairJob(matches[m], Settled) /\ matches[m].result # 0
          BY <1>0, <3>1 DEF Ledger, History!Shared
        <4>2. GameOf[matches[m].id] = GameOf[matches[i].id]
          BY <3>1 DEF History!Shared
        <4> QED BY <4>1, <4>2 DEF FairJob
      <3>3. matches' = matches \/ matches' = [matches EXCEPT ![i].result = matches[m].result]
        BY <2>1 DEF History!Fetch
      <3> QED BY <3>2, <3>3
    <2>2. CASE History!Shared(i) = {}
      BY <2>2 DEF History!Fetch
    <2> QED BY <2>1, <2>2
  <1> DEFINE j == [matches[i] EXCEPT !.result = GameOf[matches[i].id]]
  <1>3. /\ FairJob(j, Settled) /\ j.id = matches[i].id /\ j \in MatchJobs
        /\ j.attempts = matches[i].attempts
    BY <1>1 DEF FairJob, MatchJobs
  <1>4. matches' = matches \/ matches' = [matches EXCEPT ![i] = j]
    BY <1>2
  <1> HIDE DEF i, j
  <1>5. Ledger(matches', Settled)
    BY <1>0, <1>3, <1>4, ChangedLedger
  <1>6. /\ Len(matches') = Len(matches)
        /\ \A k \in 1 .. Len(matches) : /\ matches'[k].id = matches[k].id
                                        /\ matches'[k].attempts = matches[k].attempts
    <2>1. CASE matches' = matches
      BY <2>1
    <2>2. CASE matches' = [matches EXCEPT ![i] = j]
      <3>1. /\ Len(matches') = Len(matches) /\ matches'[i] = j
            /\ \A k \in 1 .. Len(matches) : k # i => matches'[k] = matches[k]
        BY <1>0, <1>3, <2>2, ChangedJob
      <3> QED BY <1>3, <3>1
    <2> QED BY <1>4, <2>1, <2>2
  <1>7. HandRule' /\ at' \in HistoryPlaces
    BY <1>0, <1>6 DEF HandRule, HistoryPlaces, i
  <1> QED BY <1>0, <1>5, <1>7, CollectorKeeps DEF History!world

\* Once its facts are installed, a job is done.
LEMMA InstallationKeeps ==
    ASSUME History!HistoryAssumption, HistoryInvariant, History!InstallFacts
    PROVE  HistoryInvariant'
  <1> DEFINE i == current
  <1>0. /\ Ledger(matches, Settled) /\ matches \in Seq(MatchJobs) /\ saved = matches
        /\ Len(matches) \in Nat /\ DOMAIN matches = 1 .. Len(matches) /\ i \in 1 .. Len(matches)
        /\ UNCHANGED <<ended, allocation, history, saved, submitted, current>> /\ at' = "loop"
        /\ matches[i].result # 0
    BY LenProperties DEF HistoryInvariant, LedgerRule, HandRule, Ledger, History!InstallFacts
  <1>1. /\ FairJob(matches[i], Settled) /\ matches[i] \in MatchJobs /\ matches[i].id \in Recording
        /\ matches[i].result = GameOf[matches[i].id]
    BY <1>0 DEF Ledger, FairJob, MatchJobs
  <1>2. \/ UNCHANGED <<facts, matches>>
        \/ /\ facts' = [facts EXCEPT ![matches[i].id] = matches[i].result]
           /\ matches' = [matches EXCEPT ![i].done = TRUE]
    BY DEF History!InstallFacts
  <1> HIDE DEF i
  <1>3. /\ facts' \in [Recording -> {0} \cup {GameOf[r] : r \in Recording}]
        /\ \A r \in Recording : facts'[r] \in {0, GameOf[r]}
        /\ Settled \subseteq Settled'
        /\ matches' # matches => matches[i].id \in Settled'
    <2>0. facts \in [Recording -> {0} \cup {GameOf[r] : r \in Recording}]
      BY DEF HistoryInvariant, HistoryTypes
    <2>1. CASE UNCHANGED <<facts, matches>>
      BY <1>0, <2>1 DEF HistoryInvariant, HistoryTypes, Settled
    <2>2. CASE facts' = [facts EXCEPT ![matches[i].id] = matches[i].result]
      <3>1. /\ facts' \in [Recording -> {0} \cup {GameOf[r] : r \in Recording}]
            /\ facts'[matches[i].id] = GameOf[matches[i].id] /\ facts'[matches[i].id] # 0
            /\ \A r \in Recording : r # matches[i].id => facts'[r] = facts[r]
        BY <1>0, <1>1, <2>0, <2>2
      <3>2. matches[i].id \in Settled'
        BY <1>1, <3>1 DEF Settled
      <3>3. Settled \subseteq Settled'
        BY <1>0, <1>1, <3>1 DEF Settled
      <3>4. \A r \in Recording : facts'[r] \in {0, GameOf[r]}
        BY <3>1 DEF HistoryInvariant, HistoryTypes
      <3> QED BY <3>1, <3>2, <3>3, <3>4
    <2> QED BY <1>2, <2>1, <2>2
  <1>4. HistoryTypes'
    BY <1>0, <1>3 DEF HistoryInvariant, HistoryTypes, HistoryPlaces
  <1>5. Ledger(matches', Settled')
    <2>1. Ledger(matches, Settled')
      BY <1>0, <1>3, LedgerStays
    <2>2. CASE matches' = matches
      BY <2>1, <2>2
    <2>3. CASE matches' # matches
      <3> DEFINE j == [matches[i] EXCEPT !.done = TRUE]
      <3>1. matches[i].id \in Settled'
        BY <1>3, <2>3
      <3>2. FairJob(j, Settled') /\ j.id = matches[i].id
        BY <1>1, <3>1 DEF FairJob, MatchJobs
      <3>3. matches' = [matches EXCEPT ![i] = j]
        BY <1>2, <2>3
      <3> HIDE DEF j
      <3> QED BY <1>0, <2>1, <3>2, <3>3, ChangedLedger
    <2> QED BY <2>2, <2>3
  <1>6. Ledger(saved, Settled')
    BY <1>0, <1>3, LedgerStays
  <1>7. LedgerRule'
    BY <1>0, <1>5, <1>6 DEF LedgerRule
  <1>8. HandRule'
    BY <1>0 DEF HandRule
  <1> QED BY <1>4, <1>7, <1>8 DEF HistoryInvariant

\* At the start nothing ended and both ledgers are empty.
LEMMA HistoryStarts ==
    ASSUME History!HistoryAssumption, History!Init
    PROVE  HistoryInvariant
  <1>1. <<>> \in Seq(MatchJobs) /\ Len(<<>>) = 0
    BY EmptySeq
  <1>2. Ledger(<<>>, Settled)
    BY <1>1 DEF Ledger, Distinct, History!HistoryAssumption
  <1> QED BY <1>1, <1>2 DEF History!Init, HistoryInvariant, HistoryTypes, LedgerRule, HandRule,
                            HistoryPlaces

\* Every step of the service, of the user and of the worker keeps the rules.
LEMMA HistoryKept ==
    ASSUME History!HistoryAssumption, HistoryInvariant, [History!Next]_History!vars
    PROVE  HistoryInvariant'
  <1>1. CASE History!Next
    BY <1>1, WorldKeeps, LoopKeeps, ChooseKeeps, FetchKeeps, InstallationKeeps
       DEF History!Next, History!Collector
  <1>2. CASE UNCHANGED History!vars
    BY <1>2 DEF History!vars, History!world, HistoryInvariant, HistoryTypes, LedgerRule, HandRule,
                Settled
  <1> QED BY <1>1, <1>2

\* Facts are those of their own match, and what is under way is accounted for in the file.
LEMMA HistoryIsTheirOwn ==
    ASSUME History!HistoryAssumption, HistoryInvariant
    PROVE  History!HistoryIsSound
  <1>0. /\ saved \in Seq(MatchJobs) /\ Len(saved) \in Nat /\ DOMAIN saved = 1 .. Len(saved)
        /\ Ledger(saved, Settled)
    BY LenProperties DEF HistoryInvariant, LedgerRule, Ledger
  <1>1. History!FactsAreTheirOwn
    BY DEF HistoryInvariant, HistoryTypes, HandRule, History!FactsAreTheirOwn
  <1>2. History!HistoryIsAccountedFor
    <2>1. at \in {"fetch", "fetched", "install"} =>
              /\ saved[current].id = matches[current].id
              /\ saved[current].attempts = matches[current].attempts
      BY DEF HistoryInvariant, HandRule
    <2>2. \A i \in DOMAIN saved : saved[i].done =>
              facts[saved[i].id] # 0 \/ allocation[saved[i].id] = "gone"
      BY <1>0 DEF Ledger, FairJob, Settled
    <2> QED BY <2>1, <2>2 DEF History!HistoryIsAccountedFor
  <1>3. History!LedgerIsBounded
    BY <1>0 DEF Ledger, Distinct, History!LedgerIsBounded, History!IsInjective
  <1> QED BY <1>1, <1>2, <1>3 DEF History!HistoryIsSound

-----------------------------------------------------------------------------
(* The post-game jobs. *)

Endings == {"no", "expired", "deleted", "cancelled", "completed", "publication_failed",
            "rejected"}
PostJobs == [media : Media, closed : Int, nextMs : Int, attempts : Nat, published : BOOLEAN,
             result : BOOLEAN, terminal : Endings, expires : Int, next : Int]
SavedPostJobs == [media : Media, closed : Int, nextMs : Int, attempts : Nat,
                  published : BOOLEAN, result : BOOLEAN, terminal : Endings]
Commands == [op : {"submit", "published", "cancel"}, media : Media, time : Int, wall : Int]
SavedOf(s) == [i \in 1 .. Len(s) |-> Enrichment!Saved(s[i])]
MediaOf(s) == {s[i].media : i \in 1 .. Len(s)}

PostGameTypes ==
    /\ time \in Nat /\ skew \in Nat /\ last \in Int
    /\ recording \in [Media -> {"capturing", "submitted", "done"}]
    /\ folder \in [Media -> {"private", "published", "gone"}]
    /\ sidecar \subseteq Media /\ asked \in [Media -> Nat]
    /\ ledger \in [last : Int, jobs : Seq(SavedPostJobs)]
    /\ channel \in Seq(Commands)

\* A job that the worker holds accounts for the requests that were made, and what the
\* file has closed is closed in it.
Tracked(j, counts, file) ==
    /\ counts[j.media] <= j.attempts
    /\ \A k \in 1 .. Len(file) : file[k].media = j.media /\ file[k].terminal # "no" =>
                                    j.terminal = file[k].terminal
Book(s, counts, file) ==
    s \in Seq(PostJobs) /\ \A i \in 1 .. Len(s) : Tracked(s[i], counts, file)

\* The file is one that the next start accepts, and accounts for the requests.
FileRule ==
    /\ Enrichment!Valid(ledger)
    /\ \A m \in Media : asked[m] <= MaxAsked
    /\ \A k \in 1 .. Len(ledger.jobs) : asked[ledger.jobs[k].media] <= ledger.jobs[k].attempts

\* A recording is submitted once: until its job is taken in, nobody knows of it.
Fresh(m) == asked[m] = 0 /\ m \notin MediaOf(jobs) /\ m \notin MediaOf(ledger.jobs)
Submits(k) == channel[k].op = "submit"
NewRule ==
    /\ \A m \in Media : recording[m] = "capturing" =>
          Fresh(m) /\ \A k \in 1 .. Len(channel) : Submits(k) => channel[k].media # m
    /\ \A k \in 1 .. Len(channel) : Submits(k) => Fresh(channel[k].media)
    /\ \A k, l \in 1 .. Len(channel) :
          Submits(k) /\ Submits(l) /\ channel[k].media = channel[l].media => k = l

\* What is being saved is what the worker holds; an attempt that is reserved is counted
\* in it.
SaveRule ==
    place = "saving" =>
        /\ writing.ledger = [last |-> last, jobs |-> SavedOf(jobs)]
        /\ writing.then = "dispatch" =>
              \A m \in flight.media : \E i \in 1 .. Len(jobs) :
                  jobs[i].media = m /\ asked[m] < jobs[i].attempts

\* The worker acts on the world only with the file up to date.
ActRule ==
    /\ place \in {"install", "acquire"} => ledger.jobs = SavedOf(jobs)
    /\ place = "install" => Enrichment!Installable # {}
    /\ place = "acquire" => \E i \in 1 .. Len(jobs) :
           jobs[i].media = flight.first /\ jobs[i].terminal = "no"

PostGameInvariant ==
    /\ PostGameTypes /\ Book(jobs, asked, ledger.jobs) /\ FileRule /\ NewRule /\ SaveRule /\ ActRule
    /\ Enrichment!ResultsFollowPublication

-----------------------------------------------------------------------------
\* The larger and the smaller of two numbers.
LEMMA LargerOfTwo ==
    ASSUME NEW a \in Int, NEW b \in Int
    PROVE  /\ Enrichment!Max({a, b}) \in {a, b} /\ Enrichment!Max({a, b}) >= a
           /\ Enrichment!Max({a, b}) >= b
  <1>1. \E c \in {a, b} : \A d \in {a, b} : c >= d
    <2>1. CASE a >= b
      BY <2>1
    <2>2. CASE b >= a
      BY <2>2
    <2> QED BY <2>1, <2>2
  <1> QED BY <1>1 DEF Enrichment!Max
\* The smaller of two numbers is one of them.
LEMMA SmallerOfTwo ==
    ASSUME NEW a \in Int, NEW b \in Int
    PROVE  Enrichment!Min({a, b}) \in {a, b}
  <1>1. \E c \in {a, b} : \A d \in {a, b} : c =< d
    <2>1. CASE a <= b
      BY <2>1
    <2>2. CASE b <= a
      BY <2>2
    <2> QED BY <2>1, <2>2
  <1> QED BY <1>1 DEF Enrichment!Min

\* A job that is derived from another: of the same recording, with no fewer attempts,
\* and closed the same way if the other was closed.
Derived(a, b) ==
    /\ b \in PostJobs /\ b.media = a.media /\ b.attempts >= a.attempts
    /\ a.terminal # "no" => b.terminal = a.terminal

\* What a job accounts for, one that is derived from it accounts for too.
LEMMA DerivedIsTracked ==
    ASSUME NEW counts \in [Media -> Nat], NEW file, NEW a \in PostJobs, NEW b,
           Tracked(a, counts, file), Derived(a, b)
    PROVE  Tracked(b, counts, file)
  <1>1. /\ a.attempts \in Nat /\ b.attempts \in Nat /\ counts[b.media] \in Nat
        /\ b.media = a.media /\ b.attempts >= a.attempts
    BY DEF Derived, PostJobs
  <1>2. counts[b.media] <= b.attempts
    BY <1>1 DEF Tracked
  <1>3. ASSUME NEW k \in 1 .. Len(file), file[k].media = b.media,
               file[k].terminal # "no"
        PROVE  b.terminal = file[k].terminal
    BY <1>1, <1>3 DEF Tracked, Derived
  <1> QED BY <1>2, <1>3 DEF Tracked

\* A change of every job on its own.
Maps(s, t) == /\ t = [i \in 1 .. Len(s) |-> t[i]]
              /\ \A i \in 1 .. Len(s) : Derived(s[i], t[i])
\* The book survives a change of every job on its own.
LEMMA MapKeeps ==
    ASSUME NEW counts \in [Media -> Nat], NEW file, NEW s, NEW t, Book(s, counts, file), Maps(s, t)
    PROVE  Book(t, counts, file) /\ Len(t) = Len(s) /\ MediaOf(t) = MediaOf(s)
  <1>1. Len(s) \in Nat /\ \A i \in 1 .. Len(s) : s[i] \in PostJobs
    BY LenProperties, ElementOfSeq DEF Book
  <1>2. \A i \in 1 .. Len(s) : t[i] \in PostJobs /\ t[i].media = s[i].media
    BY DEF Maps, Derived
  <1>3. t \in Seq(PostJobs) /\ Len(t) = Len(s)
    <2> DEFINE T(i) == t[i]
    <2>1. t = [i \in 1 .. Len(s) |-> T(i)]
      BY DEF Maps
    <2>2. \A i \in 1 .. Len(s) : T(i) \in PostJobs
      BY <1>2
    <2> HIDE DEF T
    <2> QED BY <1>1, <2>1, <2>2
  <1>4. \A i \in 1 .. Len(t) : Tracked(t[i], counts, file)
    BY <1>1, <1>3, DerivedIsTracked DEF Book, Maps
  <1> QED BY <1>2, <1>3, <1>4 DEF Book, MediaOf

-----------------------------------------------------------------------------
\* Closing a job.
LEMMA CloseDerives ==
    ASSUME NEW j \in PostJobs, NEW r \in Endings
    PROVE  Derived(j, j) /\ Derived(j, Enrichment!Close(j, r))
  <1>1. Derived(j, j)
    BY DEF Derived, PostJobs
  <1>2. CASE j.terminal = "no"
    <2> DEFINE b == [j EXCEPT !.terminal = r]
    <2>1. b \in PostJobs /\ b.media = j.media /\ b.attempts = j.attempts
      BY DEF PostJobs
    <2>2. b.attempts \in Nat
      BY <2>1 DEF PostJobs
    <2> HIDE DEF b
    <2>3. Derived(j, b)
      BY <1>2, <2>1, <2>2 DEF Derived
    <2> QED BY <1>1, <1>2, <2>3 DEF Enrichment!Close, Enrichment!Active, b
  <1> QED BY <1>1, <1>2 DEF Enrichment!Close, Enrichment!Active

\* The place of the job that makes room is one of the places.
LEMMA VictimExists ==
    ASSUME NEW s \in Seq(PostJobs), Len(s) > 0
    PROVE  Enrichment!Victim(s) \in 1 .. Len(s)
  <1> DEFINE D == DOMAIN s \ Enrichment!ActiveIn(s)
  <1>1. Len(s) \in Nat /\ DOMAIN s = 1 .. Len(s)
    BY LenProperties
  <1>2. D \subseteq 1 .. Len(s) /\ D \subseteq Nat
    BY <1>1
  <1>3. Enrichment!Victim(s) = IF D = {} THEN 1 ELSE Enrichment!Min(D)
    BY DEF Enrichment!Victim
  <1> HIDE DEF D
  <1>4. D # {} => Enrichment!Min(D) \in 1 .. Len(s)
    <2>1. Enrichment!Min(D) = History!Min(D)
      BY DEF Enrichment!Min, History!Min
    <2> QED BY <1>2, <2>1, Smallest
  <1> QED BY <1>1, <1>3, <1>4

\* A job that is appended.
LEMMA AppendKeeps ==
    ASSUME NEW counts, NEW file, NEW s, Book(s, counts, file), NEW j \in PostJobs,
           Tracked(j, counts, file)
    PROVE  Book(Append(s, j), counts, file) /\ MediaOf(Append(s, j)) = MediaOf(s) \cup {j.media}
  <1> DEFINE t == Append(s, j)
  <1>1. /\ t \in Seq(PostJobs) /\ Len(t) = Len(s) + 1 /\ Len(s) \in Nat
        /\ \A i \in 1 .. Len(s) : t[i] = s[i]
        /\ t[Len(s) + 1] = j
    BY AppendProperties, LenProperties DEF Book
  <1> HIDE DEF t
  <1>2. ASSUME NEW i \in 1 .. Len(t) PROVE Tracked(t[i], counts, file)
    <2>1. CASE i \in 1 .. Len(s)
      <3>1. t[i] = s[i] /\ Tracked(s[i], counts, file)
        BY <1>1, <2>1 DEF Book
      <3> QED BY <3>1
    <2>2. CASE i = Len(s) + 1
      <3>1. t[i] = j
        BY <1>1, <2>2
      <3> QED BY <3>1
    <2> QED BY <1>1, <2>1, <2>2
  <1>3. MediaOf(t) = MediaOf(s) \cup {j.media}
    <2>1. \A i \in 1 .. Len(t) : t[i].media \in MediaOf(s) \cup {j.media}
      BY <1>1 DEF MediaOf
    <2>2. \A i \in 1 .. Len(s) : s[i].media \in MediaOf(t)
      BY <1>1 DEF MediaOf
    <2>3. j.media \in MediaOf(t)
      BY <1>1 DEF MediaOf
    <2>4. MediaOf(t) \subseteq MediaOf(s) \cup {j.media}
      BY <2>1 DEF MediaOf
    <2>5. MediaOf(s) \subseteq MediaOf(t)
      BY <2>2 DEF MediaOf
    <2> QED BY <2>3, <2>4, <2>5
  <1>4. Book(t, counts, file)
    BY <1>1, <1>2 DEF Book
  <1> QED BY <1>3, <1>4 DEF t

\* A job that makes room.
LEMMA RemoveKeeps ==
    ASSUME NEW counts, NEW file, NEW s, Book(s, counts, file), NEW e \in 1 .. Len(s)
    PROVE  /\ Book(Enrichment!Without(s, e), counts, file)
           /\ MediaOf(Enrichment!Without(s, e)) \subseteq MediaOf(s)
  <1> DEFINE u == Enrichment!Without(s, e)
  <1>1. u = History!Without(s, e)
    BY DEF Enrichment!Without, History!Without
  <1> HIDE DEF u
  <1>2. /\ u \in Seq(PostJobs) /\ Len(u) = Len(s) - 1 /\ Len(s) \in Nat
        /\ \A k \in 1 .. Len(u) : u[k] = IF k < e THEN s[k] ELSE s[k + 1]
    BY <1>1, WithoutOne, LenProperties DEF Book
  <1>3. \A k \in 1 .. Len(u) : \E i \in 1 .. Len(s) : u[k] = s[i]
    BY <1>2
  <1>4. \A k \in 1 .. Len(u) : Tracked(u[k], counts, file) /\ u[k].media \in MediaOf(s)
    BY <1>3 DEF Book, MediaOf
  <1>5. Book(u, counts, file) /\ MediaOf(u) \subseteq MediaOf(s)
    BY <1>2, <1>4 DEF Book, MediaOf
  <1> QED BY <1>5 DEF u

\* A command: a job that is submitted is one that nobody knows of.
LEMMA CommandKeeps ==
    ASSUME Enrichment!PostGameAssumption, PostGameTypes, NEW s, Book(s, asked, ledger.jobs),
           NEW c \in Commands,
           c.op = "submit" => asked[c.media] = 0 /\ c.media \notin MediaOf(ledger.jobs)
    PROVE  /\ Book(Enrichment!Commanded(s, c), asked, ledger.jobs)
           /\ MediaOf(Enrichment!Commanded(s, c))
                 \subseteq MediaOf(s) \cup (IF c.op = "submit" THEN {c.media} ELSE {})
  <1>0. /\ s \in Seq(PostJobs) /\ Len(s) \in Nat /\ DOMAIN s = 1 .. Len(s)
        /\ \A i \in 1 .. Len(s) : s[i] \in PostJobs
        /\ asked \in [Media -> Nat]
    BY LenProperties, ElementOfSeq DEF Book, PostGameTypes
  <1>1. CASE c.op = "submit" /\ c.media \in Enrichment!MediaIn(s)
    BY <1>1 DEF Enrichment!Commanded
  <1>2. CASE c.op = "submit" /\ c.media \notin Enrichment!MediaIn(s)
    <2> DEFINE j == Enrichment!NewJob(c.media, c.time, c.wall)
               r == IF Len(s) = MaxPending THEN Enrichment!Without(s, Enrichment!Victim(s)) ELSE s
    <2>1. Enrichment!Commanded(s, c) = Append(r, j)
      BY <1>2 DEF Enrichment!Commanded
    <2>2. j \in PostJobs /\ j.media = c.media /\ j.attempts = 0 /\ j.terminal = "no"
      BY DEF Enrichment!NewJob, PostJobs, Commands, Endings, Enrichment!PostGameAssumption,
             PostGameTypes
    <2>3. Tracked(j, asked, ledger.jobs)
      <3>1. asked[j.media] <= j.attempts
        BY <1>2, <2>2
      <3>2. \A k \in 1 .. Len(ledger.jobs) : ledger.jobs[k].media # j.media
        BY <1>2, <2>2 DEF MediaOf
      <3> HIDE DEF j
      <3> QED BY <3>1, <3>2 DEF Tracked
    <2>4. Book(r, asked, ledger.jobs) /\ MediaOf(r) \subseteq MediaOf(s)
      <3>1. CASE Len(s) # MaxPending
        BY <3>1
      <3>2. CASE Len(s) = MaxPending
        <4>1. Enrichment!Victim(s) \in 1 .. Len(s)
          BY <1>0, <3>2, VictimExists DEF Enrichment!PostGameAssumption
        <4> QED BY <3>2, <4>1, RemoveKeeps
      <3> QED BY <3>1, <3>2
    <2> HIDE DEF j, r
    <2>5. Book(Append(r, j), asked, ledger.jobs) /\ MediaOf(Append(r, j)) = MediaOf(r) \cup {j.media}
      BY <2>2, <2>3, <2>4, AppendKeeps
    <2> QED BY <1>2, <2>1, <2>2, <2>4, <2>5
  <1>3. CASE c.op = "published"
    <2> DEFINE p(j) == IF j.media = c.media /\ Enrichment!Active(j)
                       THEN [j EXCEPT !.published = TRUE] ELSE j
               t == [i \in 1 .. Len(s) |-> p(s[i])]
    <2>1. Enrichment!Commanded(s, c) = t
      BY <1>0, <1>3 DEF Enrichment!Commanded, Enrichment!Each
    <2>2. ASSUME NEW a \in PostJobs PROVE Derived(a, p(a))
      <3> DEFINE b == [a EXCEPT !.published = TRUE]
      <3>1. b \in PostJobs /\ b.media = a.media /\ b.attempts = a.attempts /\ b.terminal = a.terminal
        BY DEF PostJobs
      <3>2. a.attempts \in Nat
        BY DEF PostJobs
      <3>3. p(a) = b \/ p(a) = a
        OBVIOUS
      <3> HIDE DEF b, p
      <3> QED BY <3>1, <3>2, <3>3 DEF Derived
    <2>3. Maps(s, t)
      <3> HIDE DEF p
      <3> QED BY <1>0, <2>2 DEF Maps
    <2> HIDE DEF t
    <2> QED BY <1>0, <1>3, <2>1, <2>3, MapKeeps
  <1>4. CASE c.op = "cancel"
    <2> DEFINE p(j) == IF j.media = c.media THEN Enrichment!Close(j, "cancelled") ELSE j
               t == [i \in 1 .. Len(s) |-> p(s[i])]
    <2>1. Enrichment!Commanded(s, c) = t
      BY <1>0, <1>4 DEF Enrichment!Commanded, Enrichment!Each
    <2>2. ASSUME NEW a \in PostJobs PROVE Derived(a, p(a))
      <3>1. "cancelled" \in Endings
        BY DEF Endings
      <3> QED BY <3>1, CloseDerives
    <2>3. Maps(s, t)
      <3> HIDE DEF p
      <3> QED BY <1>0, <2>2 DEF Maps
    <2> HIDE DEF t
    <2> QED BY <1>0, <1>4, <2>1, <2>3, MapKeeps
  <1> QED BY <1>1, <1>2, <1>3, <1>4 DEF Commands

-----------------------------------------------------------------------------
\* The commands that are drained, one after the other.
LEMMA DrainedKeeps ==
    ASSUME Enrichment!PostGameAssumption, PostGameTypes, NewRule, Book(jobs, asked, ledger.jobs)
    PROVE  /\ Book(Enrichment!Drained(jobs), asked, ledger.jobs)
           /\ MediaOf(Enrichment!Drained(jobs)) \subseteq
                 MediaOf(jobs) \cup {channel[k].media : k \in {l \in 1 .. Len(channel) : Submits(l)}}
  <1> DEFINE After(s, k) == Enrichment!Commanded(s, channel[k])
             Runs(n, g) == g = [k \in 0 .. n |-> IF k = 0 THEN jobs ELSE After(g[k - 1], k)]
             after == CHOOSE g : Runs(Len(channel), g)
             New == {channel[k].media : k \in {l \in 1 .. Len(channel) : Submits(l)}}
             Good(s) == Book(s, asked, ledger.jobs) /\ MediaOf(s) \subseteq MediaOf(jobs) \cup New
  <1>0. Len(channel) \in Nat /\ \A k \in 1 .. Len(channel) : channel[k] \in Commands
    BY LenProperties, ElementOfSeq DEF PostGameTypes
  <1>1. Enrichment!Drained(jobs) = after[Len(channel)]
    BY DEF Enrichment!Drained
  <1>2. ASSUME NEW s, NEW k \in 1 .. Len(channel), Good(s) PROVE Good(After(s, k))
    <2>1. channel[k].op = "submit" => /\ asked[channel[k].media] = 0 /\ channel[k].media \in New
                                      /\ channel[k].media \notin MediaOf(ledger.jobs)
      BY DEF NewRule, Fresh, Submits
    <2> HIDE DEF New
    <2>2. /\ Book(Enrichment!Commanded(s, channel[k]), asked, ledger.jobs)
          /\ MediaOf(Enrichment!Commanded(s, channel[k]))
                \subseteq MediaOf(s) \cup (IF channel[k].op = "submit" THEN {channel[k].media} ELSE {})
      BY <1>0, <1>2, <2>1, CommandKeeps
    <2> QED BY <1>2, <2>1, <2>2
  <1> HIDE DEF After
  <1>3. \A n \in 0 .. Len(channel) : \E g : Runs(n, g)
    <2> DEFINE Bad == {n \in 0 .. Len(channel) : ~\E g : Runs(n, g)}
    <2> SUFFICES ASSUME Bad # {} PROVE FALSE
      OBVIOUS
    <2> DEFINE m == History!Min(Bad)
    <2>1. m \in Bad /\ \A c \in Bad : m <= c
      <3>1. Bad \subseteq Nat
        BY <1>0
      <3> HIDE DEF Bad
      <3> QED BY <3>1, Smallest
    <2> HIDE DEF m
    <2>2. m \in 0 .. Len(channel)
      BY <2>1
    <2>3. CASE m = 0
      <3>1. Runs(0, [k \in 0 .. 0 |-> jobs])
        OBVIOUS
      <3> QED BY <2>1, <2>3, <3>1
    <2>4. CASE m # 0
      <3>1. m - 1 \in 0 .. Len(channel) /\ ~(m <= m - 1)
        BY <1>0, <2>2, <2>4
      <3>2. PICK h : Runs(m - 1, h)
        BY <2>1, <3>1
      <3> DEFINE g == [k \in 0 .. m |-> IF k = m THEN After(h[m - 1], m) ELSE h[k]]
      <3>3. \A k \in 0 .. m - 1 : h[k] = IF k = 0 THEN jobs ELSE After(h[k - 1], k)
        BY <3>2
      <3>4. ASSUME NEW k \in 0 .. m
            PROVE  g[k] = IF k = 0 THEN jobs ELSE After(g[k - 1], k)
        <4>1. CASE k = m
          BY <1>0, <2>2, <2>4, <4>1
        <4>2. CASE k # m
          <5>1. k \in 0 .. m - 1 /\ (k # 0 => k - 1 \in 0 .. m - 1)
            BY <1>0, <2>2, <4>2
          <5>2. g[k] = h[k] /\ (k # 0 => g[k - 1] = h[k - 1])
            BY <1>0, <2>2, <4>2, <5>1
          <5> QED BY <3>3, <5>1, <5>2
        <4> QED BY <4>1, <4>2
      <3>5. g = [k \in 0 .. m |-> g[k]]
        OBVIOUS
      <3> HIDE DEF g
      <3>6. Runs(m, g)
        BY <3>4, <3>5
      <3> QED BY <2>1, <3>6
    <2> QED BY <2>3, <2>4
  <1>4. Runs(Len(channel), after)
    <2>1. \E g : Runs(Len(channel), g)
      BY <1>0, <1>3
    <2> HIDE DEF Runs
    <2>2. Runs(Len(channel), CHOOSE g : Runs(Len(channel), g))
      BY <2>1
    <2> QED BY <2>2 DEF After
  <1> HIDE DEF after
  <1>5. \A k \in 0 .. Len(channel) : after[k] = IF k = 0 THEN jobs ELSE After(after[k - 1], k)
    BY <1>4
  <1> HIDE DEF Runs
  <1>6. Good(jobs)
    OBVIOUS
  <1> HIDE DEF Good
  <1>7. \A n \in 0 .. Len(channel) : Good(after[n])
    <2> DEFINE Bad == {n \in 0 .. Len(channel) : ~Good(after[n])}
    <2> SUFFICES ASSUME Bad # {} PROVE FALSE
      OBVIOUS
    <2> DEFINE m == History!Min(Bad)
    <2>1. m \in Bad /\ \A c \in Bad : m <= c
      <3>1. Bad \subseteq Nat
        BY <1>0
      <3> HIDE DEF Bad
      <3> QED BY <3>1, Smallest
    <2> HIDE DEF m
    <2>2. m \in 0 .. Len(channel) /\ ~Good(after[m])
      BY <2>1
    <2>3. CASE m = 0
      BY <1>5, <1>6, <2>2, <2>3
    <2>4. CASE m # 0
      <3>1. m - 1 \in 0 .. Len(channel) /\ ~(m <= m - 1) /\ m \in 1 .. Len(channel)
        BY <1>0, <2>2, <2>4
      <3>2. Good(after[m - 1])
        BY <2>1, <3>1
      <3>3. after[m] = After(after[m - 1], m)
        BY <1>5, <2>2, <2>4
      <3>4. Good(after[m])
        BY <1>2, <3>1, <3>2, <3>3
      <3> QED BY <2>2, <3>4
    <2> QED BY <2>3, <2>4
  <1>8. Good(after[Len(channel)])
    BY <1>0, <1>7
  <1> QED BY <1>1, <1>8 DEF Good

-----------------------------------------------------------------------------
\* What the worker does to all of its jobs: it retires them, takes a response, and
\* reserves attempts.
LEMMA RetainedKeeps ==
    ASSUME PostGameTypes, NEW s, Book(s, asked, ledger.jobs)
    PROVE  /\ Book(Enrichment!Retained(s), asked, ledger.jobs)
           /\ MediaOf(Enrichment!Retained(s)) = MediaOf(s)
  <1> DEFINE p(j) == IF time >= j.expires THEN Enrichment!Close(j, "expired")
                     ELSE IF folder[j.media] = "gone" THEN Enrichment!Close(j, "deleted") ELSE j
             t == [i \in 1 .. Len(s) |-> p(s[i])]
  <1>0. /\ Len(s) \in Nat /\ DOMAIN s = 1 .. Len(s) /\ \A i \in 1 .. Len(s) : s[i] \in PostJobs
        /\ asked \in [Media -> Nat]
    BY LenProperties, ElementOfSeq DEF Book, PostGameTypes
  <1>1. Enrichment!Retained(s) = t
    BY <1>0 DEF Enrichment!Retained, Enrichment!Each
  <1>2. ASSUME NEW a \in PostJobs PROVE Derived(a, p(a))
    <2>1. "expired" \in Endings /\ "deleted" \in Endings
      BY DEF Endings
    <2> QED BY <2>1, CloseDerives
  <1> HIDE DEF p
  <1>3. Maps(s, t)
    BY <1>0, <1>2 DEF Maps
  <1> HIDE DEF t
  <1> QED BY <1>0, <1>1, <1>3, MapKeeps

\* Cancelling every job keeps the book.
LEMMA CancelledKeeps ==
    ASSUME PostGameTypes, NEW s, Book(s, asked, ledger.jobs)
    PROVE  LET shut(j) == Enrichment!Close(j, "cancelled") IN
           /\ Book(Enrichment!Each(s, shut), asked, ledger.jobs)
           /\ MediaOf(Enrichment!Each(s, shut)) = MediaOf(s)
  <1> DEFINE t == [i \in 1 .. Len(s) |-> Enrichment!Close(s[i], "cancelled")]
  <1>0. /\ Len(s) \in Nat /\ DOMAIN s = 1 .. Len(s) /\ \A i \in 1 .. Len(s) : s[i] \in PostJobs
        /\ asked \in [Media -> Nat]
    BY LenProperties, ElementOfSeq DEF Book, PostGameTypes
  <1>1. "cancelled" \in Endings
    BY DEF Endings
  <1>2. Maps(s, t)
    BY <1>0, <1>1, CloseDerives DEF Maps
  <1> HIDE DEF t
  <1>3. Book(t, asked, ledger.jobs) /\ MediaOf(t) = MediaOf(s)
    BY <1>0, <1>2, MapKeeps
  <1> QED BY <1>0, <1>3 DEF Enrichment!Each, t

\* Taking a response keeps the book: jobs that were closed in between stay closed.
LEMMA AnsweredKeeps ==
    ASSUME Enrichment!PostGameAssumption, PostGameTypes, NEW file, Book(jobs, asked, file),
           NEW answer
    PROVE  /\ Book(Enrichment!Answered(answer), asked, file)
           /\ MediaOf(Enrichment!Answered(answer)) = MediaOf(jobs)
  <1> DEFINE p(j) ==
            IF ~Enrichment!Active(j) \/ j.media \notin flight.media THEN j
            ELSE [j EXCEPT !.next = time + Cadence,
                           !.nextMs = Enrichment!Min({Enrichment!Wall, j.closed + Expiry}) + Cadence,
                           !.result = @ \/ answer[j.media] = "confirmed",
                           !.terminal = IF answer[j.media] = "rejected" THEN "rejected" ELSE @]
             t == [i \in 1 .. Len(jobs) |-> p(jobs[i])]
  <1>0. /\ Len(jobs) \in Nat /\ DOMAIN jobs = 1 .. Len(jobs)
        /\ \A i \in 1 .. Len(jobs) : jobs[i] \in PostJobs
        /\ asked \in [Media -> Nat] /\ time \in Int /\ Enrichment!Wall \in Int
        /\ Cadence \in Int /\ Expiry \in Int
    BY LenProperties, ElementOfSeq
       DEF Book, PostGameTypes, Enrichment!PostGameAssumption, Enrichment!Wall
  <1>1. Enrichment!Answered(answer) = t
    BY <1>0 DEF Enrichment!Answered, Enrichment!Each
  <1>2. ASSUME NEW a \in PostJobs PROVE Derived(a, p(a))
    <2>1. CASE ~Enrichment!Active(a) \/ a.media \notin flight.media
      BY <2>1, CloseDerives DEF Endings
    <2>2. CASE ~(~Enrichment!Active(a) \/ a.media \notin flight.media)
      <3> DEFINE n == Enrichment!Min({Enrichment!Wall, a.closed + Expiry}) + Cadence
                 e == IF answer[a.media] = "rejected" THEN "rejected" ELSE a.terminal
                 v == a.result \/ answer[a.media] = "confirmed"
                 b == [a EXCEPT !.next = time + Cadence, !.nextMs = n, !.result = v,
                                !.terminal = e]
      <3>1. n \in Int
        <4>1. a.closed + Expiry \in Int
          BY <1>0 DEF PostJobs
        <4>2. Enrichment!Min({Enrichment!Wall, a.closed + Expiry}) \in
                 {Enrichment!Wall, a.closed + Expiry}
          BY <1>0, <4>1, SmallerOfTwo
        <4> QED BY <1>0, <4>1, <4>2
      <3>2. e \in Endings /\ v \in BOOLEAN /\ time + Cadence \in Int
        BY <1>0 DEF PostJobs, Endings
      <3>3. p(a) = b
        BY <2>2
      <3>4. a.terminal = "no"
        BY <2>2 DEF Enrichment!Active
      <3> HIDE DEF n, e, v
      <3>5. b \in PostJobs /\ b.media = a.media /\ b.attempts = a.attempts /\ a.attempts \in Nat
        BY <3>1, <3>2 DEF PostJobs
      <3> HIDE DEF b, p
      <3> QED BY <3>3, <3>4, <3>5 DEF Derived
    <2> QED BY <2>1, <2>2
  <1> HIDE DEF p
  <1>3. Maps(jobs, t)
    BY <1>0, <1>2 DEF Maps
  <1> HIDE DEF t
  <1> QED BY <1>0, <1>1, <1>3, MapKeeps

\* An attempt that is reserved is one more than was made.
LEMMA ReservedKeeps ==
    ASSUME Enrichment!PostGameAssumption, PostGameTypes, NEW file, Book(jobs, asked, file), NEW t,
           t = [i \in DOMAIN jobs |-> Enrichment!Reserved(i)]
    PROVE  /\ Book(t, asked, file) /\ Len(t) = Len(jobs) /\ MediaOf(t) = MediaOf(jobs)
           /\ \A i \in 1 .. Len(jobs) :
                 i \in Enrichment!Eligible /\ Enrichment!Reservable(jobs[i]) =>
                     t[i].media = jobs[i].media /\ asked[t[i].media] < t[i].attempts
  <1>0. /\ Len(jobs) \in Nat /\ DOMAIN jobs = 1 .. Len(jobs)
        /\ \A i \in 1 .. Len(jobs) : jobs[i] \in PostJobs /\ Tracked(jobs[i], asked, file)
        /\ asked \in [Media -> Nat] /\ time \in Int /\ Enrichment!Wall \in Int
        /\ Cadence \in Int
    BY LenProperties, ElementOfSeq
       DEF Book, PostGameTypes, Enrichment!PostGameAssumption, Enrichment!Wall
  <1>1. ASSUME NEW i \in 1 .. Len(jobs)
        PROVE  /\ Derived(jobs[i], Enrichment!Reserved(i))
               /\ i \in Enrichment!Eligible /\ Enrichment!Reservable(jobs[i]) =>
                     Enrichment!Reserved(i).attempts = jobs[i].attempts + 1
    <2> DEFINE j == jobs[i]
    <2>0. j \in PostJobs /\ j.attempts \in Nat /\ j.nextMs \in Int
      BY <1>0 DEF PostJobs
    <2>1. CASE i \notin Enrichment!Eligible
      BY <2>0, <2>1, CloseDerives DEF Enrichment!Reserved, Endings
    <2>2. CASE i \in Enrichment!Eligible /\ Enrichment!Reservable(j)
      <3> DEFINE n == Enrichment!Wall + Cadence
                 d == time + Cadence
                 b == [j EXCEPT !.attempts = @ + 1, !.nextMs = n, !.next = d]
      <3>1. Enrichment!Reserved(i) = b
        BY <2>2 DEF Enrichment!Reserved
      <3> HIDE DEF j
      <3>a. n \in Int /\ d \in Int /\ j.attempts + 1 \in Nat
        BY <1>0, <2>0
      <3> HIDE DEF n, d
      <3>2. /\ b \in PostJobs /\ b.media = j.media /\ b.attempts = j.attempts + 1
            /\ b.terminal = j.terminal
        BY <2>0, <3>a DEF PostJobs
      <3> HIDE DEF b
      <3>3. Derived(j, b)
        BY <2>0, <3>2 DEF Derived
      <3> QED BY <3>1, <3>2, <3>3 DEF j
    <2>3. CASE i \in Enrichment!Eligible /\ ~Enrichment!Reservable(j)
      <3> DEFINE n == time + Enrichment!Max({j.nextMs - Enrichment!Wall, 1})
                 b == [j EXCEPT !.next = n]
      <3>1. Enrichment!Reserved(i) = b
        BY <2>3 DEF Enrichment!Reserved
      <3> HIDE DEF j
      <3>2. n \in Int
        <4> DEFINE a == j.nextMs - Enrichment!Wall
        <4>1. a \in Int
          BY <1>0, <2>0
        <4> HIDE DEF a
        <4>2. \A c \in Int : Enrichment!Max({a, c}) \in {a, c}
          BY <4>1, LargerOfTwo
        <4> QED BY <1>0, <4>1, <4>2 DEF a
      <3> HIDE DEF n
      <3>3. /\ b \in PostJobs /\ b.media = j.media /\ b.attempts = j.attempts
            /\ b.terminal = j.terminal
        BY <2>0, <3>2 DEF PostJobs
      <3> HIDE DEF b
      <3>4. Derived(j, b)
        BY <2>0, <3>3 DEF Derived
      <3> QED BY <2>3, <3>1, <3>4 DEF j
    <2> QED BY <2>1, <2>2, <2>3
  <1>2. Maps(jobs, t)
    BY <1>0, <1>1 DEF Maps
  <1>3. Book(t, asked, file) /\ Len(t) = Len(jobs) /\ MediaOf(t) = MediaOf(jobs)
    BY <1>0, <1>2, MapKeeps
  <1>4. ASSUME NEW i \in 1 .. Len(jobs), i \in Enrichment!Eligible, Enrichment!Reservable(jobs[i])
        PROVE  t[i].media = jobs[i].media /\ asked[t[i].media] < t[i].attempts
    <2>1. t[i] = Enrichment!Reserved(i) /\ t[i].attempts = jobs[i].attempts + 1
      BY <1>0, <1>1, <1>4
    <2>2. t[i].media = jobs[i].media /\ jobs[i].media \in Media /\ jobs[i].attempts \in Nat
      BY <1>0, <1>1, <2>1 DEF Derived, PostJobs
    <2>3. asked[jobs[i].media] <= jobs[i].attempts /\ asked[jobs[i].media] \in Nat
      BY <1>0, <2>2 DEF Tracked
    <2> QED BY <2>1, <2>2, <2>3
  <1> QED BY <1>3, <1>4

-----------------------------------------------------------------------------
\* What the file keeps of a job.
LEMMA SavedJob ==
    ASSUME NEW j \in PostJobs
    PROVE  /\ Enrichment!Saved(j) \in SavedPostJobs
           /\ Enrichment!Saved(j).media = j.media /\ Enrichment!Saved(j).attempts = j.attempts
           /\ Enrichment!Saved(j).terminal = j.terminal
           /\ Enrichment!Saved(j).published = j.published /\ Enrichment!Saved(j).result = j.result
  BY DEF Enrichment!Saved, PostJobs, SavedPostJobs

\* What the clock does to a saved job.
Expired(q, over) == IF over THEN Enrichment!Close(q, "expired") ELSE q
\* Expiry changes nothing of a saved job but its ending, and that only while it is open.
LEMMA ExpiredJob ==
    ASSUME NEW q \in SavedPostJobs, NEW over
    PROVE  /\ Expired(q, over) = [q EXCEPT !.terminal = Expired(q, over).terminal]
           /\ Expired(q, over) \in SavedPostJobs /\ Expired(q, over).terminal \in Endings
           /\ q.terminal # "no" => Expired(q, over).terminal = q.terminal
  <1>1. CASE over /\ q.terminal = "no"
    <2>1. Expired(q, over) = [q EXCEPT !.terminal = "expired"]
      BY <1>1 DEF Expired, Enrichment!Close, Enrichment!Active
    <2>2. "expired" \in Endings
      BY DEF Endings
    <2> QED BY <1>1, <2>1, <2>2 DEF SavedPostJobs
  <1>2. CASE ~(over /\ q.terminal = "no")
    <2>1. Expired(q, over) = q
      BY <1>2 DEF Expired, Enrichment!Close, Enrichment!Active
    <2> QED BY <2>1 DEF SavedPostJobs
  <1> QED BY <1>1, <1>2

\* A job and its copy in the file expire together.
LEMMA ReconciledJob ==
    ASSUME NEW j \in PostJobs, NEW over
    PROVE  LET q == Expired(Enrichment!Saved(j), over)
               b == [j EXCEPT !.terminal = q.terminal]
           IN Derived(j, b) /\ Enrichment!Saved(b) = q
  <1> DEFINE q == Expired(Enrichment!Saved(j), over)
             e == q.terminal
             b == [j EXCEPT !.terminal = e]
  <1>1. /\ q = [Enrichment!Saved(j) EXCEPT !.terminal = e] /\ e \in Endings
        /\ j.terminal # "no" => e = j.terminal
    BY SavedJob, ExpiredJob
  <1> HIDE DEF q, e
  <1>2. b \in PostJobs /\ b.media = j.media /\ b.attempts = j.attempts /\ b.terminal = e
    BY <1>1 DEF PostJobs
  <1>3. j.attempts \in Nat
    BY DEF PostJobs
  <1>4. Enrichment!Saved(b) = [Enrichment!Saved(j) EXCEPT !.terminal = e]
    BY <1>1 DEF PostJobs, Enrichment!Saved
  <1>5. Derived(j, b)
    <2> HIDE DEF b
    <2> QED BY <1>1, <1>2, <1>3 DEF Derived
  <1> QED BY <1>1, <1>4, <1>5 DEF q, e

\* The beginning of a save: the jobs are kept, and the file will say what they are.
LEMMA PersistKeeps ==
    ASSUME PostGameTypes, NEW file, NEW s, Book(s, asked, file), NEW next,
           Enrichment!Persist(s, next)
    PROVE  /\ Book(jobs', asked, file) /\ Len(jobs') = Len(s) /\ MediaOf(jobs') = MediaOf(s)
           /\ Maps(s, jobs')
           /\ last' \in Int /\ place' = "saving" /\ writing'.then = next
           /\ writing'.ledger = [last |-> last', jobs |-> SavedOf(jobs')]
  <1> DEFINE w == Enrichment!Wall
             over(q) == w < last \/ w >= q.closed + Expiry
             copy == [i \in 1 .. Len(s) |-> Expired(Enrichment!Saved(s[i]),
                                                    over(Enrichment!Saved(s[i])))]
             new == Enrichment!Max({last, w})
  <1>0. /\ Len(s) \in Nat /\ DOMAIN s = 1 .. Len(s) /\ \A i \in 1 .. Len(s) : s[i] \in PostJobs
        /\ asked \in [Media -> Nat] /\ last \in Int /\ w \in Int
    BY LenProperties, ElementOfSeq DEF Book, PostGameTypes, Enrichment!Wall
  <1>1. Enrichment!Reconciled([last |-> last, jobs |-> Enrichment!Each(s, Enrichment!Saved)], w)
          = [last |-> new, jobs |-> copy]
    BY <1>0 DEF Enrichment!Reconciled, Enrichment!Each, Expired
  <1>2. /\ last' = new /\ place' = "saving" /\ writing'.then = next
        /\ writing'.ledger = [last |-> new, jobs |-> copy]
        /\ jobs' = [i \in 1 .. Len(s) |-> [s[i] EXCEPT !.terminal = copy[i].terminal]]
    <2> HIDE DEF w, copy, new
    <2> QED BY <1>0, <1>1 DEF Enrichment!Persist, w
  <1>3. new \in Int
    <2> HIDE DEF w
    <2>1. new \in {last, w}
      BY <1>0, LargerOfTwo
    <2> QED BY <1>0, <2>1
  <1> HIDE DEF new, over
  <1>4. \A i \in 1 .. Len(s) : /\ Derived(s[i], jobs'[i])
                               /\ Enrichment!Saved(jobs'[i]) = copy[i]
    BY <1>0, <1>2, ReconciledJob
  <1>5. Maps(s, jobs')
    BY <1>0, <1>2, <1>4 DEF Maps
  <1>6. Book(jobs', asked, file) /\ Len(jobs') = Len(s) /\ MediaOf(jobs') = MediaOf(s)
    BY <1>0, <1>5, MapKeeps
  <1>7. SavedOf(jobs') = copy
    BY <1>4, <1>6 DEF SavedOf
  <1> QED BY <1>2, <1>3, <1>5, <1>6, <1>7

-----------------------------------------------------------------------------
\* What keeps the rule of the submissions: commands leave the channel in their order,
\* and only what was known, or was submitted by them, is known afterwards.
Taken(n) == /\ n \in 0 .. Len(channel) /\ channel' \in Seq(Commands)
            /\ Len(channel') = Len(channel) - n
            /\ \A k \in 1 .. Len(channel) - n : channel'[k] = channel[k + n]
SubmittedBy(n) == {channel[k].media : k \in {l \in 1 .. n : Submits(l)}}
\* The rule of the submissions survives when commands are taken in their order.
LEMMA NewRuleKept ==
    ASSUME PostGameTypes, NewRule, recording' = recording, NEW n, Taken(n),
           MediaOf(ledger'.jobs) \subseteq MediaOf(jobs) \cup MediaOf(ledger.jobs),
           MediaOf(jobs') \subseteq MediaOf(jobs) \cup MediaOf(ledger.jobs) \cup SubmittedBy(n),
           \A m \in Media : asked'[m] = asked[m] \/ m \in MediaOf(jobs)
    PROVE  NewRule'
  <1>0. Len(channel) \in Nat /\ n \in Nat /\ \A k \in 1 .. Len(channel) : channel[k] \in Commands
    BY LenProperties, ElementOfSeq DEF PostGameTypes, Taken
  <1>1. ASSUME NEW m \in Media, Fresh(m), m \notin SubmittedBy(n) PROVE Fresh(m)'
    BY <1>1 DEF Fresh
  <1>2. \A k \in 1 .. Len(channel') :
            /\ k + n \in 1 .. Len(channel) /\ channel'[k] = channel[k + n]
            /\ Submits(k)' = Submits(k + n) /\ channel[k + n].media \in Media
    BY <1>0 DEF Taken, Submits, Commands
  <1>3. ASSUME NEW m \in Media, recording'[m] = "capturing"
        PROVE  Fresh(m)' /\ \A k \in 1 .. Len(channel') : Submits(k)' => channel'[k].media # m
    <2>1. Fresh(m) /\ \A k \in 1 .. Len(channel) : Submits(k) => channel[k].media # m
      BY <1>3 DEF NewRule
    <2>2. m \notin SubmittedBy(n)
      BY <1>0, <2>1 DEF SubmittedBy, Taken
    <2> QED BY <1>1, <1>2, <2>1, <2>2
  <1>4. ASSUME NEW k \in 1 .. Len(channel'), Submits(k)'
        PROVE  Fresh(channel[k].media)'
    <2>0. PICK m \in Media : m = channel[k + n].media
      BY <1>2
    <2>1. Submits(k + n) /\ m \in Media /\ k + n \in 1 .. Len(channel) /\ channel'[k].media = m
      BY <1>2, <1>4, <2>0
    <2>2. Fresh(m)
      BY <2>0, <2>1 DEF NewRule
    <2>3. ASSUME NEW l \in 1 .. n, Submits(l) PROVE channel[l].media # m
      <3>1. l \in 1 .. Len(channel) /\ l # k + n
        BY <1>0, <1>4 DEF Taken
      <3> QED BY <2>0, <2>1, <2>3, <3>1 DEF NewRule
    <2>4. Fresh(m)'
      BY <1>1, <2>1, <2>2, <2>3 DEF SubmittedBy
    <2> QED BY <2>1, <2>4 DEF Fresh
  <1>5. ASSUME NEW k \in 1 .. Len(channel'), NEW l \in 1 .. Len(channel'), Submits(k)',
               Submits(l)', channel'[k].media = channel'[l].media
        PROVE  k = l
    <2>1. k + n = l + n
      BY <1>2, <1>5 DEF NewRule
    <2> QED BY <1>0, <2>1
  <1> QED BY <1>3, <1>4, <1>5 DEF NewRule

\* Nothing, one command or all of them leave the channel.
LEMMA TakesFromChannel ==
    ASSUME channel \in Seq(Commands)
    PROVE  /\ channel' = channel => Taken(0)
           /\ channel # <<>> /\ channel' = Tail(channel) => Taken(1) /\ Head(channel) = channel[1]
           /\ channel' = <<>> => Taken(Len(channel))
  <1>0. Len(channel) \in Nat
    BY LenProperties
  <1>1. ASSUME channel' = channel PROVE Taken(0)
    BY <1>0, <1>1 DEF Taken
  <1>2. ASSUME channel # <<>>, channel' = Tail(channel)
        PROVE  Taken(1) /\ Head(channel) = channel[1]
    <2>1. /\ Tail(channel) \in Seq(Commands) /\ Len(Tail(channel)) = Len(channel) - 1
          /\ \A i \in 1 .. Len(Tail(channel)) : Tail(channel)[i] = channel[i + 1]
          /\ Head(channel) = channel[1] /\ Len(channel) > 0
      BY <1>2, <1>0, HeadTailProperties, EmptySeq
    <2> QED BY <1>0, <1>2, <2>1 DEF Taken
  <1>3. ASSUME channel' = <<>> PROVE Taken(Len(channel))
    BY <1>0, <1>3 DEF Taken
  <1> QED BY <1>1, <1>2, <1>3

\* A step that leaves the jobs, the file and the requests alone.
LEMMA OutsideKeeps ==
    ASSUME PostGameInvariant, UNCHANGED <<asked, ledger, place, jobs, last, flight, writing>>,
           PostGameTypes', NewRule', Enrichment!ResultsFollowPublication'
    PROVE  PostGameInvariant'
  <1>1. Book(jobs, asked, ledger.jobs)' /\ FileRule'
    BY DEF PostGameInvariant, FileRule
  <1>2. SaveRule'
    BY DEF PostGameInvariant, SaveRule
  <1>3. Enrichment!Installable' = Enrichment!Installable
    BY DEF Enrichment!Installable, Enrichment!ActiveIn
  <1>4. ActRule'
    BY <1>3 DEF PostGameInvariant, ActRule
  <1> QED BY <1>1, <1>2, <1>4 DEF PostGameInvariant

\* A step of the worker that leaves the file and the requests alone.
LEMMA WorkerKeeps ==
    ASSUME PostGameInvariant, UNCHANGED <<asked, ledger, time, skew, recording, folder>>,
           NEW n, Taken(n), last' \in Int, sidecar' \subseteq Media,
           Book(jobs', asked, ledger.jobs),
           MediaOf(jobs') \subseteq MediaOf(jobs) \cup MediaOf(ledger.jobs) \cup SubmittedBy(n),
           SaveRule', ActRule', Enrichment!ResultsFollowPublication'
    PROVE  PostGameInvariant'
  <1>1. PostGameTypes'
    BY DEF PostGameInvariant, PostGameTypes, Taken
  <1>2. NewRule'
    BY NewRuleKept DEF PostGameInvariant
  <1>3. FileRule' /\ Book(jobs, asked, ledger.jobs)'
    BY DEF PostGameInvariant, FileRule
  <1> QED BY <1>1, <1>2, <1>3 DEF PostGameInvariant

-----------------------------------------------------------------------------
\* The service sends a command.
LEMMA SendKeeps ==
    ASSUME PostGameTypes, NewRule, NEW m \in Media, NEW op \in {"submit", "published", "cancel"},
           Enrichment!SendTo(op, m), NEW v \in {"submitted", "done"},
           recording' = [recording EXCEPT ![m] = v],
           op = "submit" => recording[m] = "capturing",
           UNCHANGED <<asked, ledger, jobs>>
    PROVE  channel' \in Seq(Commands) /\ NewRule'
  <1>0. /\ Len(channel) \in Nat /\ channel \in Seq(Commands)
        /\ recording \in [Media -> {"capturing", "submitted", "done"}]
        /\ \A k \in 1 .. Len(channel) : channel[k] \in Commands
    BY LenProperties, ElementOfSeq DEF PostGameTypes
  <1>1. \A x \in Media : Fresh(x)' = Fresh(x)
    BY DEF Fresh
  <1>2. \A x \in Media : recording'[x] = "capturing" => x # m /\ recording[x] = "capturing"
    BY <1>0
  <1>3. CASE channel' = channel
    <2>1. \A k \in 1 .. Len(channel) : Submits(k)' = Submits(k)
      BY <1>3 DEF Submits
    <2>2. \A k \in 1 .. Len(channel) : channel[k].media \in Media
      BY <1>0 DEF Commands
    <2> QED BY <1>0, <1>1, <1>2, <1>3, <2>1, <2>2 DEF NewRule
  <1>4. CASE channel' # channel
    <2>1. PICK c : /\ channel' = Append(channel, c) /\ c \in Commands
                   /\ c.op = op /\ c.media = m
      <3> DEFINE c == [op |-> op, media |-> m, time |-> IF op = "submit" THEN time ELSE 0,
                       wall |-> IF op = "submit" THEN Enrichment!Wall ELSE 0]
      <3>1. channel' = Append(channel, c)
        BY <1>4 DEF Enrichment!SendTo
      <3>2. time \in Int /\ Enrichment!Wall \in Int
        BY DEF PostGameTypes, Enrichment!Wall
      <3>3. c \in Commands /\ c.op = op /\ c.media = m
        BY <3>2 DEF Commands
      <3> HIDE DEF c
      <3> QED BY <3>1, <3>3
    <2>2. /\ channel' \in Seq(Commands) /\ Len(channel') = Len(channel) + 1
          /\ \A k \in 1 .. Len(channel) : channel'[k] = channel[k] /\ Submits(k)' = Submits(k)
          /\ channel'[Len(channel) + 1] = c
      <3>1. /\ Append(channel, c) \in Seq(Commands) /\ Len(Append(channel, c)) = Len(channel) + 1
            /\ \A k \in 1 .. Len(channel) : Append(channel, c)[k] = channel[k]
            /\ Append(channel, c)[Len(channel) + 1] = c
        BY <1>0, <2>1, AppendProperties
      <3> QED BY <2>1, <3>1 DEF Submits
    <2>3. \A k : k = Len(channel) + 1 => (Submits(k)' <=> op = "submit")
      BY <2>1, <2>2 DEF Submits
    <2>4. \A k \in 1 .. Len(channel) : channel[k].media \in Media
      BY <1>0 DEF Commands
    <2>5. ASSUME NEW x \in Media, recording'[x] = "capturing"
          PROVE  Fresh(x)' /\ \A k \in 1 .. Len(channel') : Submits(k)' => channel'[k].media # x
      <3>1. x # m /\ Fresh(x) /\ \A k \in 1 .. Len(channel) : Submits(k) => channel[k].media # x
        BY <1>2, <2>5 DEF NewRule
      <3>2. ASSUME NEW k \in 1 .. Len(channel'), Submits(k)' PROVE channel'[k].media # x
        BY <1>0, <2>1, <2>2, <3>1, <3>2
      <3> QED BY <1>1, <3>1, <3>2
    <2>6. ASSUME NEW k \in 1 .. Len(channel'), Submits(k)' PROVE Fresh(channel[k].media)'
      <3>1. CASE k \in 1 .. Len(channel)
        <4>1. PICK x \in Media : x = channel[k].media
          BY <2>4, <3>1
        <4>2. Fresh(x)
          BY <2>2, <2>6, <3>1, <4>1 DEF NewRule
        <4> QED BY <1>1, <2>2, <3>1, <4>1, <4>2 DEF Fresh
      <3>2. CASE k = Len(channel) + 1
        <4>1. Fresh(m)'
          BY <1>1, <2>3, <2>6, <3>2 DEF NewRule
        <4> QED BY <2>1, <2>2, <3>2, <4>1 DEF Fresh
      <3> QED BY <1>0, <2>2, <3>1, <3>2
    <2>7. ASSUME NEW k \in 1 .. Len(channel'), NEW l \in 1 .. Len(channel'), Submits(k)',
                 Submits(l)', channel'[k].media = channel'[l].media
          PROVE  k = l
      <3>1. CASE k \in 1 .. Len(channel) /\ l \in 1 .. Len(channel)
        BY <2>2, <2>7, <3>1 DEF NewRule
      <3>2. ASSUME NEW x \in 1 .. Len(channel), Submits(x)', op = "submit"
            PROVE  channel'[x].media # m
        BY <2>2, <3>2 DEF NewRule
      <3> QED BY <1>0, <2>1, <2>2, <2>3, <2>7, <3>1, <3>2
    <2> QED BY <2>2, <2>5, <2>6, <2>7 DEF NewRule
  <1> QED BY <1>3, <1>4

\* What the service and the user do to a recording.
LEMMA SurroundingsKeepJobs ==
    ASSUME PostGameInvariant, NEW m \in Media,
           \/ Enrichment!Submit(m) \/ Enrichment!Publish(m) \/ Enrichment!Cancel(m)
           \/ Enrichment!DeleteFolder(m) \/ Enrichment!RecoverFolder(m)
    PROVE  PostGameInvariant'
  <1>0. PostGameTypes /\ NewRule /\ Enrichment!ResultsFollowPublication
    BY DEF PostGameInvariant
  <1>1. CASE Enrichment!Submit(m) \/ Enrichment!Publish(m) \/ Enrichment!Cancel(m)
    <2>1. /\ UNCHANGED <<time, skew, asked, ledger, place, jobs, last, flight, writing, sidecar>>
          /\ \E op \in {"submit", "published", "cancel"} : \E v \in {"submitted", "done"} :
                /\ Enrichment!SendTo(op, m) /\ recording' = [recording EXCEPT ![m] = v]
                /\ op = "submit" => recording[m] = "capturing"
      BY <1>1 DEF Enrichment!Submit, Enrichment!Publish, Enrichment!Cancel, Enrichment!clocks,
                  Enrichment!worker
    <2>2. channel' \in Seq(Commands) /\ NewRule'
      BY <1>0, <2>1, SendKeeps
    <2>3. recording' \in [Media -> {"capturing", "submitted", "done"}]
      BY <1>0, <2>1 DEF PostGameTypes
    <2>4. /\ folder' \in [Media -> {"private", "published", "gone"}]
          /\ \A x \in Media : folder[x] = "published" => folder'[x] = "published"
      BY <1>0, <1>1 DEF PostGameTypes, Enrichment!Submit, Enrichment!Publish, Enrichment!Cancel
    <2>5. Enrichment!ResultsFollowPublication' /\ PostGameTypes'
      <3>1. PostGameTypes'
        BY <1>0, <2>1, <2>2, <2>3, <2>4 DEF PostGameTypes
      <3>2. sidecar \subseteq Media
        BY <1>0 DEF PostGameTypes
      <3> QED BY <1>0, <2>1, <2>4, <3>1, <3>2 DEF Enrichment!ResultsFollowPublication
    <2> QED BY <2>1, <2>2, <2>5, OutsideKeeps
  <1>2. CASE Enrichment!DeleteFolder(m) \/ Enrichment!RecoverFolder(m)
    <2>1. /\ UNCHANGED <<time, skew, asked, ledger, place, jobs, last, flight, writing, channel>>
          /\ recording' \in {recording, [recording EXCEPT ![m] = "done"]}
          /\ \E v \in {"published", "gone"} :
                /\ folder' = [folder EXCEPT ![m] = v]
                /\ sidecar' = IF v = "gone" THEN sidecar \ {m} ELSE sidecar
      BY <1>2 DEF Enrichment!DeleteFolder, Enrichment!RecoverFolder, Enrichment!clocks,
                  Enrichment!worker, Enrichment!handle
    <2>2. /\ recording' \in [Media -> {"capturing", "submitted", "done"}]
          /\ \A x \in Media : recording'[x] = "capturing" => recording[x] = "capturing"
      BY <1>0, <2>1 DEF PostGameTypes
    <2>3. NewRule'
      <3>1. Len(channel) \in Nat
        BY <1>0, LenProperties DEF PostGameTypes
      <3>2. \A x : Fresh(x)' = Fresh(x)
        BY <2>1 DEF Fresh
      <3> QED BY <1>0, <2>1, <2>2, <3>2 DEF NewRule, Submits, Fresh
    <2>4. PostGameTypes'
      <3>1. folder' \in [Media -> {"private", "published", "gone"}] /\ sidecar' \subseteq Media
        BY <1>0, <2>1 DEF PostGameTypes
      <3>2. /\ time' \in Nat /\ skew' \in Nat /\ last' \in Int /\ asked' \in [Media -> Nat]
            /\ ledger' \in [last : Int, jobs : Seq(SavedPostJobs)] /\ channel' \in Seq(Commands)
        BY <1>0, <2>1 DEF PostGameTypes
      <3> QED BY <2>2, <3>1, <3>2 DEF PostGameTypes
    <2>5. Enrichment!ResultsFollowPublication'
      <3>1. folder \in [Media -> {"private", "published", "gone"}] /\ sidecar \subseteq Media
            /\ \A x \in sidecar : folder[x] = "published"
        BY <1>0 DEF PostGameTypes, Enrichment!ResultsFollowPublication
      <3>2. PICK v \in {"published", "gone"} :
                /\ folder' = [folder EXCEPT ![m] = v]
                /\ sidecar' = IF v = "gone" THEN sidecar \ {m} ELSE sidecar
        BY <2>1
      <3>3. ASSUME NEW x \in sidecar' PROVE folder'[x] = "published"
        <4>1. x \in sidecar /\ x \in Media
          BY <3>1, <3>2
        <4>2. CASE x = m
          BY <3>1, <3>2, <4>1, <4>2
        <4>3. CASE x # m
          BY <3>1, <3>2, <4>1, <4>3
        <4> QED BY <4>2, <4>3
      <3> QED BY <3>3 DEF Enrichment!ResultsFollowPublication
    <2> QED BY <2>1, <2>3, <2>4, <2>5, OutsideKeeps
  <1> QED BY <1>1, <1>2

\* What the clocks and the end of the service do.
LEMMA OthersKeepJobs ==
    ASSUME PostGameInvariant,
           Enrichment!StopCoordinator \/ Enrichment!Tick \/ Enrichment!ClockStepsBack
    PROVE  PostGameInvariant'
  <1>0. PostGameTypes /\ NewRule /\ Enrichment!ResultsFollowPublication
    BY DEF PostGameInvariant
  <1>1. UNCHANGED <<recording, folder, sidecar, asked, ledger, place, jobs, last, flight,
                    writing, channel>>
    BY DEF Enrichment!StopCoordinator, Enrichment!Tick, Enrichment!ClockStepsBack,
                Enrichment!files, Enrichment!worker, Enrichment!handle
  <1>2. time' \in Nat /\ skew' \in Nat
    BY <1>0 DEF PostGameTypes, Enrichment!StopCoordinator, Enrichment!Tick,
                      Enrichment!ClockStepsBack, Enrichment!clocks
  <1>3. PostGameTypes' /\ Enrichment!ResultsFollowPublication'
    BY <1>0, <1>1, <1>2 DEF PostGameTypes, Enrichment!ResultsFollowPublication
  <1>4. NewRule'
    BY <1>0, <1>1 DEF NewRule, Submits, Fresh
  <1> QED BY <1>1, <1>3, <1>4, OutsideKeeps

-----------------------------------------------------------------------------
\* A valid ledger has one job for a recording.
LEMMA OneJobEach ==
    ASSUME NEW l, l.jobs \in Seq(SavedPostJobs), Enrichment!Valid(l),
           NEW i \in 1 .. Len(l.jobs), NEW k \in 1 .. Len(l.jobs),
           l.jobs[i].media = l.jobs[k].media
    PROVE  i = k
  <1> DEFINE f == [x \in DOMAIN l.jobs |-> l.jobs[x].media]
  <1>1. DOMAIN f = 1 .. Len(l.jobs) /\ Enrichment!IsInjective(f)
    BY LenProperties DEF Enrichment!Valid
  <1>2. f[i] = f[k]
    BY <1>1
  <1> HIDE DEF f
  <1> QED BY <1>1, <1>2 DEF Enrichment!IsInjective

\* The clock closes what is due in the file and leaves it valid.
LEMMA ReconciledFile ==
    ASSUME PostGameTypes, Enrichment!Valid(ledger), NEW wall \in Int, NEW r,
           r = Enrichment!Reconciled(ledger, wall)
    PROVE  /\ r \in [last : Int, jobs : Seq(SavedPostJobs)] /\ Enrichment!Valid(r)
           /\ Len(r.jobs) = Len(ledger.jobs) /\ MediaOf(r.jobs) = MediaOf(ledger.jobs)
           /\ \A i \in 1 .. Len(ledger.jobs) :
                 /\ r.jobs[i].media = ledger.jobs[i].media
                 /\ r.jobs[i].attempts = ledger.jobs[i].attempts
                 /\ ledger.jobs[i].terminal # "no" =>
                       r.jobs[i].terminal = ledger.jobs[i].terminal
  <1> DEFINE s == ledger.jobs
             over(q) == wall < ledger.last \/ wall >= q.closed + Expiry
             T(i) == Expired(s[i], over(s[i]))
             t == [i \in 1 .. Len(s) |-> T(i)]
             new == Enrichment!Max({ledger.last, wall})
  <1>0. /\ s \in Seq(SavedPostJobs) /\ Len(s) \in Nat /\ DOMAIN s = 1 .. Len(s)
        /\ \A i \in 1 .. Len(s) : s[i] \in SavedPostJobs
        /\ ledger.last \in Int
    BY LenProperties, ElementOfSeq DEF PostGameTypes
  <1>1. r = [last |-> new, jobs |-> t]
    BY <1>0 DEF Enrichment!Reconciled, Enrichment!Each, Expired
  <1>2. new \in Int /\ new >= ledger.last
    <2>1. new \in {ledger.last, wall} /\ new >= ledger.last
      BY <1>0, LargerOfTwo
    <2> QED BY <1>0, <2>1
  <1> HIDE DEF over, new
  <1>3. \A i \in 1 .. Len(s) :
            /\ t[i] \in SavedPostJobs /\ t[i] = [s[i] EXCEPT !.terminal = t[i].terminal]
            /\ s[i].terminal # "no" => t[i].terminal = s[i].terminal
    BY <1>0, ExpiredJob
  <1> HIDE DEF T
  <1>4. t \in Seq(SavedPostJobs) /\ Len(t) = Len(s) /\ DOMAIN t = 1 .. Len(s)
    <2>1. Len(s) \in Nat /\ \A i \in 1 .. Len(s) : T(i) \in SavedPostJobs
      BY <1>0, <1>3
    <2> HIDE DEF s
    <2> QED BY <2>1
  <1> HIDE DEF t
  <1>5. \A i \in 1 .. Len(s) : /\ t[i].media = s[i].media /\ t[i].attempts = s[i].attempts
                               /\ t[i].closed = s[i].closed /\ t[i].nextMs = s[i].nextMs
    <2> SUFFICES ASSUME NEW i \in 1 .. Len(s)
                 PROVE  /\ t[i].media = s[i].media /\ t[i].attempts = s[i].attempts
                        /\ t[i].closed = s[i].closed /\ t[i].nextMs = s[i].nextMs
      OBVIOUS
    <2>1. s[i] \in SavedPostJobs /\ t[i] = [s[i] EXCEPT !.terminal = t[i].terminal]
      BY <1>0, <1>3
    <2> QED BY <2>1 DEF SavedPostJobs
  <1>6. MediaOf(t) = MediaOf(s)
    BY <1>4, <1>5 DEF MediaOf
  <1>7. Enrichment!Valid(r)
    <2>1. r.jobs = t /\ r.last = new
      BY <1>1
    <2>2. Len(t) <= MaxPending
      BY <1>4 DEF Enrichment!Valid
    <2>3. [i \in DOMAIN t |-> t[i].media] = [i \in DOMAIN s |-> s[i].media]
      BY <1>0, <1>4, <1>5
    <2>4. \A i \in DOMAIN t : /\ t[i].closed <= new
                              /\ t[i].nextMs \in t[i].closed .. t[i].closed + Expiry + Cadence
                              /\ t[i].attempts <= MaxAsked
      <3> SUFFICES ASSUME NEW i \in 1 .. Len(s)
                   PROVE  /\ t[i].closed <= new
                          /\ t[i].nextMs \in t[i].closed .. t[i].closed + Expiry + Cadence
                          /\ t[i].attempts <= MaxAsked
        BY <1>4
      <3>1. /\ s[i].closed <= ledger.last
            /\ s[i].nextMs \in s[i].closed .. s[i].closed + Expiry + Cadence
            /\ s[i].attempts <= MaxAsked
        BY <1>0 DEF Enrichment!Valid
      <3>2. s[i].closed \in Int
        BY <1>0 DEF SavedPostJobs
      <3> HIDE DEF s
      <3> QED BY <1>0, <1>2, <1>5, <3>1, <3>2
    <2> QED BY <2>1, <2>2, <2>3, <2>4 DEF Enrichment!Valid
  <1>8. r \in [last : Int, jobs : Seq(SavedPostJobs)] /\ r.jobs = t
    BY <1>1, <1>2, <1>4
  <1> QED BY <1>3, <1>4, <1>5, <1>6, <1>7, <1>8

\* The coordinator starts from the file.
LEMMA StartKeeps ==
    ASSUME Enrichment!PostGameAssumption, PostGameInvariant, Enrichment!Start
    PROVE  PostGameInvariant'
  <1> DEFINE wall == Enrichment!Wall
             t == ledger'.jobs
             p(j) == [media |-> j.media, closed |-> j.closed, nextMs |-> j.nextMs,
                      attempts |-> j.attempts, result |-> j.result,
                      published |-> j.published \/ (Enrichment!Active(j) /\ folder[j.media] = "published"),
                      terminal |-> IF Enrichment!Active(j) /\ folder[j.media] = "gone"
                                   THEN "deleted" ELSE j.terminal,
                      expires |-> time + Enrichment!Max({j.closed + Expiry - wall, 0}),
                      next |-> time + Enrichment!Max({j.nextMs - wall, 0})]
  <1>0. /\ PostGameTypes /\ Enrichment!Valid(ledger) /\ NewRule
        /\ \A k \in 1 .. Len(ledger.jobs) : asked[ledger.jobs[k].media] <= ledger.jobs[k].attempts
        /\ wall \in Int /\ time \in Int /\ Expiry \in Int
    BY DEF PostGameInvariant, FileRule, PostGameTypes, Enrichment!Wall,
           Enrichment!PostGameAssumption
  <1>1. /\ ledger' = Enrichment!Reconciled(ledger, wall) /\ last' = ledger'.last
        /\ jobs' = Enrichment!Restored(t) /\ place' = "top"
        /\ UNCHANGED <<time, skew, recording, folder, sidecar, asked, channel>>
    BY DEF Enrichment!Start, Enrichment!clocks, Enrichment!files, Enrichment!handle
  <1> HIDE DEF wall
  <1>2. /\ ledger' \in [last : Int, jobs : Seq(SavedPostJobs)] /\ Enrichment!Valid(ledger')
        /\ Len(t) = Len(ledger.jobs) /\ MediaOf(t) = MediaOf(ledger.jobs)
        /\ \A i \in 1 .. Len(ledger.jobs) : /\ t[i].media = ledger.jobs[i].media
                                            /\ t[i].attempts = ledger.jobs[i].attempts
    BY <1>0, <1>1, ReconciledFile
  <1>3. /\ t \in Seq(SavedPostJobs) /\ Len(t) \in Nat /\ DOMAIN t = 1 .. Len(t)
        /\ \A i \in 1 .. Len(t) : t[i] \in SavedPostJobs
    BY <1>2, LenProperties, ElementOfSeq
  <1>4. jobs' = [i \in 1 .. Len(t) |-> p(t[i])]
    <2> HIDE DEF t
    <2> QED BY <1>1, <1>3 DEF Enrichment!Restored, Enrichment!Each, wall
  <1> HIDE DEF t
  <1>5. ASSUME NEW q \in SavedPostJobs
        PROVE  /\ p(q) \in PostJobs /\ p(q).media = q.media /\ p(q).attempts = q.attempts
               /\ q.terminal # "no" => p(q).terminal = q.terminal
    <2> DEFINE d == time + Enrichment!Max({q.closed + Expiry - wall, 0})
               n == time + Enrichment!Max({q.nextMs - wall, 0})
    <2>1. d \in Int /\ n \in Int
      <3> DEFINE a == q.closed + Expiry - wall
                 b == q.nextMs - wall
      <3>1. a \in Int /\ b \in Int
        BY <1>0 DEF SavedPostJobs
      <3> HIDE DEF a, b
      <3>2. \A c \in Int : Enrichment!Max({a, c}) \in {a, c} /\ Enrichment!Max({b, c}) \in {b, c}
        BY <3>1, LargerOfTwo
      <3>3. Enrichment!Max({a, 0}) \in Int /\ Enrichment!Max({b, 0}) \in Int
        BY <3>1, <3>2
      <3> QED BY <1>0, <3>3 DEF a, b
    <2> HIDE DEF d, n
    <2>2. (IF Enrichment!Active(q) /\ folder[q.media] = "gone" THEN "deleted" ELSE q.terminal)
            \in Endings
      BY DEF SavedPostJobs, Endings
    <2>3. q.terminal # "no" => ~Enrichment!Active(q)
      BY DEF Enrichment!Active
    <2> QED BY <2>1, <2>2, <2>3 DEF PostJobs, SavedPostJobs, d, n
  <1> HIDE DEF p
  <1>6. jobs' \in Seq(PostJobs) /\ Len(jobs') = Len(t) /\ MediaOf(jobs') = MediaOf(t)
    <2>1. \A i \in 1 .. Len(t) : p(t[i]) \in PostJobs /\ p(t[i]).media = t[i].media
      BY <1>3, <1>5
    <2>2. jobs' \in Seq(PostJobs) /\ Len(jobs') = Len(t)
      BY <1>3, <1>4, <2>1
    <2> QED BY <1>4, <2>1, <2>2 DEF MediaOf
  <1>7. ASSUME NEW i \in 1 .. Len(t) PROVE Tracked(jobs'[i], asked, t)
    <2>1. /\ jobs'[i].media = t[i].media /\ jobs'[i].attempts = t[i].attempts
          /\ t[i].terminal # "no" => jobs'[i].terminal = t[i].terminal
      BY <1>3, <1>4, <1>5
    <2>2. asked[t[i].media] <= t[i].attempts
      BY <1>0, <1>2
    <2>3. \A k \in 1 .. Len(t) : t[k].media = t[i].media => k = i
      BY <1>2, <1>3, OneJobEach DEF t
    <2> QED BY <2>1, <2>2, <2>3 DEF Tracked
  <1>8. Book(jobs, asked, ledger.jobs)'
    BY <1>1, <1>6, <1>7 DEF Book, t
  <1>9. FileRule'
    <2>1. \A m \in Media : asked[m] <= MaxAsked
      BY DEF PostGameInvariant, FileRule
    <2>2. \A k \in 1 .. Len(t) : asked[t[k].media] <= t[k].attempts
      BY <1>0, <1>2
    <2> QED BY <1>1, <1>2, <2>1, <2>2 DEF FileRule, t
  <1>10. NewRule'
    <2>1. Taken(0)
      BY <1>0, <1>1, TakesFromChannel DEF PostGameTypes
    <2> QED BY <1>0, <1>1, <1>2, <1>6, <2>1, NewRuleKept DEF t
  <1>11. PostGameTypes'
    BY <1>0, <1>1, <1>2 DEF PostGameTypes
  <1>12. SaveRule' /\ ActRule' /\ Enrichment!ResultsFollowPublication'
    BY <1>1 DEF SaveRule, ActRule, PostGameInvariant, Enrichment!ResultsFollowPublication
  <1> QED BY <1>8, <1>9, <1>10, <1>11, <1>12 DEF PostGameInvariant

\* The process dies.
LEMMA CrashKeeps ==
    ASSUME PostGameInvariant, Enrichment!Crash
    PROVE  PostGameInvariant'
  <1>1. /\ place' = "down" /\ jobs' = <<>> /\ last' = 0 /\ channel' = <<>>
        /\ UNCHANGED <<time, skew, recording, folder, sidecar, asked, ledger>>
    BY DEF Enrichment!Crash, Enrichment!files
  <1>2. Taken(Len(channel)) /\ sidecar' \subseteq Media
    BY <1>1, TakesFromChannel DEF PostGameInvariant, PostGameTypes
  <1>3. Book(jobs', asked, ledger.jobs) /\ MediaOf(jobs') = {}
    BY <1>1 DEF Book, MediaOf
  <1>4. SaveRule' /\ ActRule' /\ Enrichment!ResultsFollowPublication'
    BY <1>1 DEF SaveRule, ActRule, PostGameInvariant, Enrichment!ResultsFollowPublication
  <1> QED BY <1>1, <1>2, <1>3, <1>4, WorkerKeeps

-----------------------------------------------------------------------------
\* A save that begins for another reason than a reservation.
LEMMA SaveBegins ==
    ASSUME PostGameTypes, NEW s, Book(s, asked, ledger.jobs), NEW next,
           Enrichment!Persist(s, next), next # "dispatch"
    PROVE  /\ Book(jobs', asked, ledger.jobs) /\ MediaOf(jobs') = MediaOf(s) /\ last' \in Int
           /\ SaveRule' /\ ActRule'
  <1>1. /\ Book(jobs', asked, ledger.jobs) /\ MediaOf(jobs') = MediaOf(s)
        /\ last' \in Int /\ place' = "saving" /\ writing'.then = next
        /\ writing'.ledger = [last |-> last', jobs |-> SavedOf(jobs')]
    BY PersistKeeps
  <1>2. SaveRule' /\ ActRule'
    BY <1>1 DEF SaveRule, ActRule
  <1> QED BY <1>1, <1>2

\* The head of the loop, with the commands that were waiting.
LEMMA TurnKeeps ==
    ASSUME Enrichment!PostGameAssumption, PostGameInvariant, Enrichment!Turn
    PROVE  PostGameInvariant'
  <1> DEFINE d == Enrichment!Drained(jobs)
             shut(j) == Enrichment!Close(j, "cancelled")
             all == IF failed THEN Enrichment!Each(d, shut) ELSE d
             kept == Enrichment!Retained(all)
  <1>0. PostGameTypes /\ NewRule /\ Book(jobs, asked, ledger.jobs)
    BY DEF PostGameInvariant
  <1>1. /\ Book(d, asked, ledger.jobs)
        /\ MediaOf(d) \subseteq MediaOf(jobs) \cup SubmittedBy(Len(channel))
    BY <1>0, DrainedKeeps DEF SubmittedBy
  <1> HIDE DEF d
  <1>2. Book(all, asked, ledger.jobs) /\ MediaOf(all) = MediaOf(d)
    BY <1>0, <1>1, CancelledKeeps
  <1> HIDE DEF all
  <1>3. Book(kept, asked, ledger.jobs) /\ MediaOf(kept) = MediaOf(all)
    BY <1>0, <1>2, RetainedKeeps
  <1>4. /\ channel' = <<>>
        /\ UNCHANGED <<time, skew, recording, folder, sidecar, asked, ledger>>
        /\ IF broken THEN place' = "ended" /\ jobs' = kept /\ last' = last
           ELSE Enrichment!Persist(kept, "turn")
    BY DEF Enrichment!Turn, Enrichment!clocks, Enrichment!files, d, all
  <1> HIDE DEF kept
  <1>5. Taken(Len(channel)) /\ sidecar' \subseteq Media
    BY <1>0, <1>4, TakesFromChannel DEF PostGameTypes
  <1>6. /\ Book(jobs', asked, ledger.jobs) /\ MediaOf(jobs') = MediaOf(kept) /\ last' \in Int
        /\ SaveRule' /\ ActRule'
    <2>1. CASE broken
      BY <1>0, <1>3, <1>4, <2>1 DEF SaveRule, ActRule, PostGameTypes
    <2>2. CASE ~broken
      BY <1>0, <1>3, <1>4, <2>2, SaveBegins
    <2> QED BY <2>1, <2>2
  <1>7. Enrichment!ResultsFollowPublication'
    BY <1>4 DEF PostGameInvariant, Enrichment!ResultsFollowPublication
  <1> QED BY <1>1, <1>2, <1>3, <1>4, <1>5, <1>6, <1>7, WorkerKeeps

\* One command of the channel.
LEMMA OneCommandKeeps ==
    ASSUME Enrichment!PostGameAssumption, PostGameTypes, NewRule, Book(jobs, asked, ledger.jobs),
           channel # <<>>, channel' = Tail(channel)
    PROVE  LET s == Enrichment!Commanded(jobs, Head(channel)) IN
           /\ Taken(1) /\ Book(s, asked, ledger.jobs)
           /\ MediaOf(s) \subseteq MediaOf(jobs) \cup SubmittedBy(1)
  <1>1. Taken(1) /\ Head(channel) = channel[1]
    BY TakesFromChannel DEF PostGameTypes
  <1>2. 1 \in 1 .. Len(channel) /\ channel[1] \in Commands
    <2>1. Len(channel) \in Nat /\ 1 \in 0 .. Len(channel)
      BY <1>1, LenProperties DEF PostGameTypes, Taken
    <2> QED BY <2>1, ElementOfSeq DEF PostGameTypes
  <1>3. channel[1].op = "submit" => /\ asked[channel[1].media] = 0
                                    /\ channel[1].media \notin MediaOf(ledger.jobs)
                                    /\ channel[1].media \in SubmittedBy(1)
    BY <1>2 DEF NewRule, Fresh, Submits, SubmittedBy
  <1> QED BY <1>1, <1>2, <1>3, CommandKeeps

\* The steps while a request is in flight, short of the ends of the saves.
LEMMA FlightKeeps ==
    ASSUME Enrichment!PostGameAssumption, PostGameInvariant,
           \/ Enrichment!FlightCommand \/ Enrichment!FlightTick \/ Enrichment!FlightStopped
           \/ \E answer \in [Media -> Enrichment!Outcomes] : Enrichment!Response(answer)
    PROVE  PostGameInvariant'
  <1>0. PostGameTypes /\ NewRule /\ Book(jobs, asked, ledger.jobs)
    BY DEF PostGameInvariant
  <1>1. UNCHANGED <<time, skew, recording, folder, sidecar, asked, ledger>>
    BY DEF Enrichment!FlightCommand, Enrichment!FlightTick, Enrichment!FlightStopped,
           Enrichment!Response, Enrichment!clocks, Enrichment!files
  <1>2. Enrichment!ResultsFollowPublication' /\ sidecar' \subseteq Media
    BY <1>0, <1>1 DEF PostGameInvariant, Enrichment!ResultsFollowPublication, PostGameTypes
  <1>3. CASE Enrichment!FlightCommand
    <2>1. /\ channel # <<>> /\ channel' = Tail(channel)
          /\ Enrichment!Persist(Enrichment!Commanded(jobs, Head(channel)), "command")
      BY <1>3 DEF Enrichment!FlightCommand
    <2> DEFINE s == Enrichment!Commanded(jobs, Head(channel))
    <2>2. /\ Taken(1) /\ Book(s, asked, ledger.jobs)
          /\ MediaOf(s) \subseteq MediaOf(jobs) \cup SubmittedBy(1)
      BY <1>0, <2>1, OneCommandKeeps
    <2> HIDE DEF s
    <2>3. /\ Book(jobs', asked, ledger.jobs) /\ MediaOf(jobs') = MediaOf(s) /\ last' \in Int
          /\ SaveRule' /\ ActRule'
      BY <1>0, <2>1, <2>2, SaveBegins DEF s
    <2> QED BY <1>1, <1>2, <2>2, <2>3, WorkerKeeps
  <1>4. CASE Enrichment!FlightTick
    <2>1. channel' = channel /\ Enrichment!Persist(Enrichment!Retained(jobs), "tick")
      BY <1>4 DEF Enrichment!FlightTick, Enrichment!handle
    <2> DEFINE s == Enrichment!Retained(jobs)
    <2>2. Book(s, asked, ledger.jobs) /\ MediaOf(s) = MediaOf(jobs) /\ Taken(0)
      BY <1>0, <2>1, RetainedKeeps, TakesFromChannel DEF PostGameTypes
    <2> HIDE DEF s
    <2>3. /\ Book(jobs', asked, ledger.jobs) /\ MediaOf(jobs') = MediaOf(s) /\ last' \in Int
          /\ SaveRule' /\ ActRule'
      BY <1>0, <2>1, <2>2, SaveBegins DEF s
    <2> QED BY <1>1, <1>2, <2>2, <2>3, WorkerKeeps
  <1>5. CASE \/ Enrichment!FlightStopped
             \/ \E answer \in [Media -> Enrichment!Outcomes] : Enrichment!Response(answer)
    <2>1. /\ channel' = channel /\ last' = last /\ place' = "top"
          /\ \E answer : jobs' = Enrichment!Answered(answer)
      BY <1>5 DEF Enrichment!FlightStopped, Enrichment!Response, Enrichment!handle
    <2>2. Book(jobs', asked, ledger.jobs) /\ MediaOf(jobs') = MediaOf(jobs) /\ Taken(0)
      BY <1>0, <2>1, AnsweredKeeps, TakesFromChannel DEF PostGameTypes
    <2>3. SaveRule' /\ ActRule' /\ last' \in Int
      BY <1>0, <2>1 DEF SaveRule, ActRule, PostGameTypes
    <2> QED BY <1>1, <1>2, <2>2, <2>3, WorkerKeeps
  <1> QED BY <1>3, <1>4, <1>5

\* The installation of a result, and what wakes the loop.
LEMMA InstallResultKeeps ==
    ASSUME Enrichment!PostGameAssumption, PostGameInvariant, NEW ok \in BOOLEAN,
           Enrichment!Install(ok)
    PROVE  PostGameInvariant'
  <1> DEFINE i == Enrichment!Min(Enrichment!Installable)
             m == jobs[i].media
             done == ok /\ folder[m] = "published"
             e == IF done THEN "completed" ELSE "publication_failed"
  <1>0. /\ PostGameTypes /\ Book(jobs, asked, ledger.jobs)
        /\ Len(jobs) \in Nat /\ DOMAIN jobs = 1 .. Len(jobs)
        /\ \A k \in 1 .. Len(jobs) : jobs[k] \in PostJobs
    BY LenProperties, ElementOfSeq DEF PostGameInvariant, Book
  <1>1. i \in Enrichment!Installable /\ i \in 1 .. Len(jobs)
    <2>1. Enrichment!Installable # {} /\ Enrichment!Installable \subseteq 1 .. Len(jobs)
      BY <1>0 DEF PostGameInvariant, ActRule, Enrichment!Install, Enrichment!Installable,
                  Enrichment!ActiveIn
    <2> DEFINE I == Enrichment!Installable
    <2> HIDE DEF I
    <2>2. I # {} /\ I \subseteq Nat
      BY <1>0, <2>1 DEF I
    <2>3. History!Min(I) \in I
      BY <2>2, Smallest
    <2>4. Enrichment!Min(I) = History!Min(I)
      BY DEF Enrichment!Min, History!Min
    <2> QED BY <2>1, <2>3, <2>4 DEF I
  <1>2. /\ jobs' = [jobs EXCEPT ![i].terminal = e] /\ place' = "top"
        /\ sidecar' = IF done THEN sidecar \cup {m} ELSE sidecar
        /\ UNCHANGED <<time, skew, recording, folder, asked, ledger, channel, last>>
    BY DEF Enrichment!Install, Enrichment!clocks, Enrichment!handle
  <1>3. jobs[i].terminal = "no" /\ e \in Endings
    BY <1>1 DEF Enrichment!Installable, Enrichment!ActiveIn, Enrichment!Active, Endings
  <1> HIDE DEF i, e
  <1>4. Maps(jobs, jobs')
    <2>1. jobs' = [k \in 1 .. Len(jobs) |-> jobs'[k]]
      BY <1>0, <1>2
    <2>2. ASSUME NEW k \in 1 .. Len(jobs) PROVE Derived(jobs[k], jobs'[k])
      <3>1. CASE k # i
        BY <1>0, <1>2, <3>1, CloseDerives DEF Endings
      <3>2. CASE k = i
        <4> DEFINE b == [jobs[i] EXCEPT !.terminal = e]
        <4>1. jobs'[k] = b
          BY <1>0, <1>2, <3>2
        <4>2. b = Enrichment!Close(jobs[i], e)
          BY <1>3 DEF Enrichment!Close, Enrichment!Active
        <4> HIDE DEF b
        <4> QED BY <1>0, <1>1, <1>3, <3>2, <4>1, <4>2, CloseDerives
      <3> QED BY <3>1, <3>2
    <2> QED BY <2>1, <2>2 DEF Maps
  <1>5. Book(jobs', asked, ledger.jobs) /\ MediaOf(jobs') = MediaOf(jobs)
    <2> HIDE DEF m, done
    <2>1. asked \in [Media -> Nat]
      BY <1>0 DEF PostGameTypes
    <2>2. Book(jobs, asked, ledger.jobs)
      BY <1>0
    <2> DEFINE file == ledger.jobs
    <2> HIDE DEF file
    <2>3. Book(jobs, asked, file) => Book(jobs', asked, file) /\ MediaOf(jobs') = MediaOf(jobs)
      BY <1>4, <2>1, MapKeeps
    <2> QED BY <2>2, <2>3 DEF file
  <1>6. m \in Media
    BY <1>0, <1>1 DEF PostJobs
  <1>7. sidecar' \subseteq Media /\ Enrichment!ResultsFollowPublication'
    <2> HIDE DEF m
    <2> QED BY <1>0, <1>2, <1>6
            DEF PostGameInvariant, PostGameTypes, Enrichment!ResultsFollowPublication
  <1>8. Taken(0) /\ last' \in Int
    BY <1>0, <1>2, TakesFromChannel DEF PostGameTypes
  <1>9. SaveRule' /\ ActRule'
    BY <1>2 DEF SaveRule, ActRule
  <1> QED BY <1>2, <1>5, <1>7, <1>8, <1>9, WorkerKeeps

\* The select at the end of the loop, which may take one command.
LEMMA WakeKeeps ==
    ASSUME Enrichment!PostGameAssumption, PostGameInvariant, Enrichment!Wake
    PROVE  PostGameInvariant'
  <1>0. PostGameTypes /\ NewRule /\ Book(jobs, asked, ledger.jobs)
    BY DEF PostGameInvariant
  <1>1. /\ place' = "top"
        /\ UNCHANGED <<time, skew, recording, folder, sidecar, asked, ledger, last>>
    BY DEF Enrichment!Wake, Enrichment!clocks, Enrichment!files
  <1>2. /\ SaveRule' /\ ActRule' /\ last' \in Int /\ sidecar' \subseteq Media
        /\ Enrichment!ResultsFollowPublication'
    BY <1>0, <1>1 DEF SaveRule, ActRule, PostGameTypes, PostGameInvariant,
                      Enrichment!ResultsFollowPublication
  <1>3. CASE ~stop /\ channel # <<>>
    <2>1. jobs' = Enrichment!Commanded(jobs, Head(channel)) /\ channel' = Tail(channel)
      BY <1>3 DEF Enrichment!Wake
    <2>2. /\ Taken(1) /\ Book(jobs', asked, ledger.jobs)
          /\ MediaOf(jobs') \subseteq MediaOf(jobs) \cup SubmittedBy(1)
      BY <1>0, <1>3, <2>1, OneCommandKeeps
    <2> QED BY <1>1, <1>2, <2>2, WorkerKeeps
  <1>4. CASE ~(~stop /\ channel # <<>>)
    <2>1. jobs' = jobs /\ channel' = channel
      BY <1>4 DEF Enrichment!Wake
    <2>2. Taken(0)
      BY <1>0, <2>1, TakesFromChannel DEF PostGameTypes
    <2> QED BY <1>0, <1>1, <1>2, <2>1, <2>2, WorkerKeeps
  <1> QED BY <1>3, <1>4

-----------------------------------------------------------------------------
\* A save that lands: the file says what the worker holds.
LEMMA SaveLands ==
    ASSUME PostGameInvariant, place = "saving", Enrichment!Valid(writing.ledger),
           ledger' = writing.ledger, NEW counts \in [Media -> Nat],
           \A i \in 1 .. Len(jobs) : counts[jobs[i].media] <= jobs[i].attempts
    PROVE  /\ ledger' \in [last : Int, jobs : Seq(SavedPostJobs)] /\ Enrichment!Valid(ledger')
           /\ ledger'.jobs = SavedOf(jobs) /\ MediaOf(ledger'.jobs) = MediaOf(jobs)
           /\ Book(jobs, counts, ledger'.jobs)
           /\ \A k \in 1 .. Len(ledger'.jobs) :
                 counts[ledger'.jobs[k].media] <= ledger'.jobs[k].attempts
           /\ \A i, k \in 1 .. Len(jobs) : jobs[i].media = jobs[k].media => i = k
           /\ \A i \in 1 .. Len(jobs) : jobs[i].attempts <= MaxAsked
  <1> DEFINE t == SavedOf(jobs)
  <1>0. /\ jobs \in Seq(PostJobs) /\ Len(jobs) \in Nat /\ last \in Int
        /\ \A i \in 1 .. Len(jobs) : jobs[i] \in PostJobs
    BY LenProperties, ElementOfSeq DEF PostGameInvariant, Book, PostGameTypes
  <1>1. /\ \A i \in 1 .. Len(jobs) :
              /\ Enrichment!Saved(jobs[i]) \in SavedPostJobs
              /\ Enrichment!Saved(jobs[i]).media = jobs[i].media
              /\ Enrichment!Saved(jobs[i]).attempts = jobs[i].attempts
              /\ Enrichment!Saved(jobs[i]).terminal = jobs[i].terminal
    BY <1>0, SavedJob
  <1>2. /\ t \in Seq(SavedPostJobs) /\ Len(t) = Len(jobs) /\ DOMAIN t = 1 .. Len(jobs)
        /\ \A i \in 1 .. Len(jobs) : /\ t[i].media = jobs[i].media
                                     /\ t[i].attempts = jobs[i].attempts
                                     /\ t[i].terminal = jobs[i].terminal
    <2> DEFINE T(i) == Enrichment!Saved(jobs[i])
    <2>1. t = [i \in 1 .. Len(jobs) |-> T(i)] /\ \A i \in 1 .. Len(jobs) : T(i) \in SavedPostJobs
      BY <1>1 DEF SavedOf
    <2>2. \A i \in 1 .. Len(jobs) : /\ T(i).media = jobs[i].media
                                    /\ T(i).attempts = jobs[i].attempts
                                    /\ T(i).terminal = jobs[i].terminal
      BY <1>1
    <2> HIDE DEF t, T
    <2> QED BY <1>0, <2>1, <2>2
  <1>3. ledger' = [last |-> last, jobs |-> t]
    BY DEF PostGameInvariant, SaveRule
  <1> HIDE DEF t
  <1>4. ledger' \in [last : Int, jobs : Seq(SavedPostJobs)] /\ ledger'.jobs = t
    BY <1>0, <1>2, <1>3
  <1>5. MediaOf(t) = MediaOf(jobs)
    BY <1>2 DEF MediaOf
  <1>6. \A i, k \in 1 .. Len(jobs) : jobs[i].media = jobs[k].media => i = k
    BY <1>2, <1>4, OneJobEach
  <1>7. Book(jobs, counts, t)
    BY <1>0, <1>2, <1>6 DEF Book, Tracked
  <1>8. \A i \in 1 .. Len(jobs) : jobs[i].attempts <= MaxAsked
    BY <1>2, <1>4 DEF Enrichment!Valid
  <1> QED BY <1>2, <1>4, <1>5, <1>6, <1>7, <1>8 DEF t

\* The end of a save that made no request: it lands, or leaves the file.
LEMMA SaveStepKeeps ==
    ASSUME PostGameInvariant, place = "saving",
           ledger' = ledger \/ (ledger' = writing.ledger /\ Enrichment!Valid(writing.ledger)),
           UNCHANGED <<time, skew, recording, folder, sidecar, asked, channel>>,
           \A file : Book(jobs, asked, file) => Book(jobs', asked, file),
           MediaOf(jobs') = MediaOf(jobs), last' \in Int, SaveRule', ActRule'
    PROVE  PostGameInvariant'
  <1>0. /\ PostGameTypes /\ NewRule /\ Book(jobs, asked, ledger.jobs) /\ FileRule
        /\ asked \in [Media -> Nat]
    BY DEF PostGameInvariant, PostGameTypes
  <1>1. Taken(0)
    BY <1>0, TakesFromChannel DEF PostGameTypes
  <1>2. /\ ledger' \in [last : Int, jobs : Seq(SavedPostJobs)] /\ Enrichment!Valid(ledger')
        /\ MediaOf(ledger'.jobs) \subseteq MediaOf(jobs) \cup MediaOf(ledger.jobs)
        /\ Book(jobs, asked, ledger'.jobs)
        /\ \A k \in 1 .. Len(ledger'.jobs) :
              asked[ledger'.jobs[k].media] <= ledger'.jobs[k].attempts
    <2>1. CASE ledger' = ledger
      BY <1>0, <2>1 DEF PostGameTypes, FileRule
    <2>2. CASE ledger' = writing.ledger /\ Enrichment!Valid(writing.ledger)
      <3>1. \A i \in 1 .. Len(jobs) : asked[jobs[i].media] <= jobs[i].attempts
        BY <1>0 DEF Book, Tracked
      <3> QED BY <1>0, <2>2, <3>1, SaveLands
    <2> QED BY <2>1, <2>2
  <1>3. Book(jobs, asked, ledger.jobs)' /\ FileRule'
    BY <1>0, <1>2 DEF FileRule
  <1>4. NewRule'
    BY <1>0, <1>1, <1>2, NewRuleKept
  <1>5. PostGameTypes' /\ Enrichment!ResultsFollowPublication'
    BY <1>0, <1>2 DEF PostGameTypes, PostGameInvariant, Enrichment!ResultsFollowPublication
  <1> QED BY <1>3, <1>4, <1>5 DEF PostGameInvariant

\* The save of a turn.
LEMMA AfterTurnKeeps ==
    ASSUME Enrichment!PostGameAssumption, PostGameInvariant, Enrichment!AfterTurn
    PROVE  PostGameInvariant'
  <1> DEFINE taken == {i \in Enrichment!Eligible : Enrichment!Reservable(jobs[i])}
             reserved == [i \in DOMAIN jobs |-> Enrichment!Reserved(i)]
             ok == Enrichment!Valid(writing.ledger)
  <1>0. /\ PostGameTypes /\ Book(jobs, asked, ledger.jobs) /\ last \in Int
        /\ Len(jobs) \in Nat /\ DOMAIN jobs = 1 .. Len(jobs)
    BY LenProperties DEF PostGameInvariant, PostGameTypes, Book
  <1>1. /\ place = "saving" /\ ledger' = IF ok THEN writing.ledger ELSE ledger
        /\ UNCHANGED <<time, skew, recording, folder, sidecar, asked, channel>>
        /\ \/ place' = "ended" /\ UNCHANGED <<jobs, last>>
           \/ ok /\ Enrichment!Installable # {} /\ place' = "install" /\ UNCHANGED <<jobs, last>>
           \/ place' = "idle" /\ jobs' = reserved /\ last' = last
           \/ /\ Enrichment!Persist(reserved, "dispatch")
              /\ flight'.media = {jobs[i].media : i \in taken}
    BY DEF Enrichment!AfterTurn, Enrichment!SaveEnds, Enrichment!clocks, Enrichment!files,
           Enrichment!handle
  <1> HIDE DEF reserved
  <1>2. ledger' = ledger \/ (ledger' = writing.ledger /\ Enrichment!Valid(writing.ledger))
    BY <1>1
  <1>3. ASSUME NEW file, Book(jobs, asked, file) PROVE Book(reserved, asked, file)
    BY <1>0, <1>3, ReservedKeeps DEF reserved
  <1>4. /\ MediaOf(reserved) = MediaOf(jobs) /\ Len(reserved) = Len(jobs)
        /\ \A i \in taken : /\ i \in 1 .. Len(jobs) /\ reserved[i].media = jobs[i].media
                            /\ asked[reserved[i].media] < reserved[i].attempts
    <2>1. taken \subseteq 1 .. Len(jobs)
      BY <1>0 DEF Enrichment!Eligible, Enrichment!ActiveIn
    <2> QED BY <1>0, <2>1, ReservedKeeps DEF reserved
  <1>5. CASE place' = "ended" /\ UNCHANGED <<jobs, last>>
    <2>1. SaveRule' /\ ActRule'
      BY <1>5 DEF SaveRule, ActRule
    <2> QED BY <1>0, <1>1, <1>2, <1>5, <2>1, SaveStepKeeps
  <1>6. CASE ok /\ Enrichment!Installable # {} /\ place' = "install" /\ UNCHANGED <<jobs, last>>
    <2>1. Enrichment!Installable' = Enrichment!Installable
      BY <1>6 DEF Enrichment!Installable, Enrichment!ActiveIn
    <2>2. ledger'.jobs = SavedOf(jobs)
      BY <1>1, <1>6 DEF PostGameInvariant, SaveRule
    <2>3. SaveRule' /\ ActRule'
      BY <1>6, <2>1, <2>2 DEF SaveRule, ActRule
    <2> QED BY <1>0, <1>1, <1>2, <1>6, <2>3, SaveStepKeeps
  <1>7. CASE place' = "idle" /\ jobs' = reserved /\ last' = last
    <2>1. SaveRule' /\ ActRule'
      BY <1>7 DEF SaveRule, ActRule
    <2>2. \A file : Book(jobs, asked, file) => Book(jobs', asked, file)
      BY <1>3, <1>7
    <2> QED BY <1>0, <1>1, <1>2, <1>4, <1>7, <2>1, <2>2, SaveStepKeeps
  <1>8. CASE /\ Enrichment!Persist(reserved, "dispatch")
             /\ flight'.media = {jobs[i].media : i \in taken}
    <2>1. ASSUME NEW file, Book(jobs, asked, file) PROVE Book(jobs', asked, file)
      BY <1>0, <1>3, <1>8, <2>1, PersistKeeps
    <2>2. /\ Len(jobs') = Len(reserved) /\ MediaOf(jobs') = MediaOf(reserved)
          /\ Maps(reserved, jobs') /\ last' \in Int /\ place' = "saving"
          /\ writing'.then = "dispatch"
          /\ writing'.ledger = [last |-> last', jobs |-> SavedOf(jobs')]
      BY <1>0, <1>3, <1>8, PersistKeeps
    <2>3. ASSUME NEW m \in flight'.media
          PROVE  \E i \in 1 .. Len(jobs') : jobs'[i].media = m /\ asked[m] < jobs'[i].attempts
      <3>1. PICK i \in taken : m = jobs[i].media
        BY <1>8, <2>3
      <3>2. /\ i \in 1 .. Len(jobs') /\ reserved[i].media = m /\ asked[m] < reserved[i].attempts
            /\ jobs'[i].media = reserved[i].media /\ jobs'[i].attempts >= reserved[i].attempts
        BY <1>4, <2>2, <3>1 DEF Maps, Derived
      <3>3. reserved[i] \in PostJobs /\ jobs'[i] \in PostJobs
        <4>1. Book(reserved, asked, ledger.jobs) /\ Book(jobs', asked, ledger.jobs)
          BY <1>0, <1>3, <2>1
        <4> QED BY <1>4, <2>2, <3>2, <4>1, ElementOfSeq DEF Book
      <3>4. asked[m] \in Nat /\ reserved[i].attempts \in Nat /\ jobs'[i].attempts \in Nat
        BY <1>0, <3>2, <3>3 DEF PostGameTypes, PostJobs
      <3> QED BY <3>2, <3>4
    <2>4. SaveRule' /\ ActRule'
      BY <1>1, <2>2, <2>3 DEF SaveRule, ActRule
    <2> QED BY <1>1, <1>2, <1>4, <2>1, <2>2, <2>4, SaveStepKeeps
  <1> QED BY <1>1, <1>5, <1>6, <1>7, <1>8

-----------------------------------------------------------------------------
\* The end of a save while a request is in flight: the file is as the worker's jobs
\* before it waits on, and everything that was reserved is given up otherwise.
LEMMA AfterFlightSaveKeeps ==
    ASSUME Enrichment!PostGameAssumption, PostGameInvariant, Enrichment!AfterFlightSave
    PROVE  PostGameInvariant'
  <1> DEFINE ok == Enrichment!Valid(writing.ledger)
             refused == Enrichment!Answered(Enrichment!Unavailable)
             over == \/ \A i \in Enrichment!ActiveIn(jobs) : jobs[i].media # flight.first
                     \/ writing.then = "tick" /\ time >= flight.expires
  <1>0. /\ PostGameTypes /\ last \in Int /\ DOMAIN jobs = 1 .. Len(jobs)
    BY LenProperties DEF PostGameInvariant, PostGameTypes, Book
  <1>1. /\ place = "saving" /\ ledger' = IF ok THEN writing.ledger ELSE ledger
        /\ UNCHANGED <<time, skew, recording, folder, sidecar, asked, channel, last>>
        /\ \/ place' = "top" /\ jobs' = refused
           \/ ok /\ ~over /\ place' = "acquire" /\ UNCHANGED <<jobs, flight>>
    BY DEF Enrichment!AfterFlightSave, Enrichment!SaveEnds, Enrichment!clocks, Enrichment!files,
           Enrichment!handle
  <1>2. ledger' = ledger \/ (ledger' = writing.ledger /\ Enrichment!Valid(writing.ledger))
    BY <1>1
  <1>3. CASE place' = "top" /\ jobs' = refused
    <2>1. \A file : Book(jobs, asked, file) => Book(refused, asked, file)
      BY <1>0, AnsweredKeeps
    <2>2. MediaOf(refused) = MediaOf(jobs)
      BY <1>0, AnsweredKeeps DEF PostGameInvariant
    <2> HIDE DEF refused
    <2>3. SaveRule' /\ ActRule'
      BY <1>3 DEF SaveRule, ActRule
    <2> QED BY <1>0, <1>1, <1>2, <1>3, <2>1, <2>2, <2>3, SaveStepKeeps
  <1>4. CASE ok /\ ~over /\ place' = "acquire" /\ UNCHANGED <<jobs, flight>>
    <2>1. ledger'.jobs = SavedOf(jobs)
      BY <1>1, <1>4 DEF PostGameInvariant, SaveRule
    <2>2. \E i \in 1 .. Len(jobs) : jobs[i].media = flight.first /\ jobs[i].terminal = "no"
      BY <1>0, <1>4 DEF Enrichment!ActiveIn, Enrichment!Active
    <2>3. SaveRule' /\ ActRule'
      BY <1>4, <2>1, <2>2 DEF SaveRule, ActRule
    <2> QED BY <1>0, <1>1, <1>2, <1>4, <2>3, SaveStepKeeps
  <1> QED BY <1>1, <1>3, <1>4

\* A save that the file system refuses.
LEMMA SaveFailsKeeps ==
    ASSUME Enrichment!PostGameAssumption, PostGameInvariant, Enrichment!SaveFails
    PROVE  PostGameInvariant'
  <1> DEFINE refused == Enrichment!Answered(Enrichment!Unavailable)
  <1>0. PostGameTypes /\ last \in Int /\ Book(jobs, asked, ledger.jobs)
    BY DEF PostGameInvariant, PostGameTypes
  <1>1. /\ place = "saving" /\ ledger' = ledger
        /\ UNCHANGED <<time, skew, recording, folder, sidecar, asked, channel, last>>
        /\ place' \in {"top", "ended"} /\ jobs' \in {refused, jobs}
    BY DEF Enrichment!SaveFails, Enrichment!SaveEnds, Enrichment!clocks, Enrichment!files,
           Enrichment!handle
  <1>2. \A file : Book(jobs, asked, file) => Book(refused, asked, file)
    BY <1>0, AnsweredKeeps
  <1>3. MediaOf(refused) = MediaOf(jobs)
    BY <1>0, AnsweredKeeps
  <1> HIDE DEF refused
  <1>4. /\ SaveRule' /\ ActRule' /\ MediaOf(jobs') = MediaOf(jobs)
        /\ \A file : Book(jobs, asked, file) => Book(jobs', asked, file)
    BY <1>1, <1>2, <1>3 DEF SaveRule, ActRule
  <1> QED BY <1>0, <1>1, <1>4, SaveStepKeeps

\* The end of the save of a reservation: what is asked for was reserved in the file.
LEMMA AfterReservationKeeps ==
    ASSUME Enrichment!PostGameAssumption, PostGameInvariant, Enrichment!AfterReservation
    PROVE  PostGameInvariant'
  <1> DEFINE ok == Enrichment!Valid(writing.ledger)
             due == {i \in Enrichment!ActiveIn(jobs) :
                         /\ jobs[i].media \in flight.media
                         /\ time < jobs[i].expires
                         /\ Enrichment!Wall < jobs[i].closed + Expiry}
  <1>0. /\ PostGameTypes /\ NewRule /\ last \in Int /\ Book(jobs, asked, ledger.jobs)
        /\ Len(jobs) \in Nat /\ DOMAIN jobs = 1 .. Len(jobs)
        /\ \A i \in 1 .. Len(jobs) : jobs[i] \in PostJobs /\ asked[jobs[i].media] <= jobs[i].attempts
    BY LenProperties, ElementOfSeq DEF PostGameInvariant, PostGameTypes, Book, Tracked
  <1>1. /\ place = "saving" /\ writing.then = "dispatch"
        /\ ledger' = IF ok THEN writing.ledger ELSE ledger
        /\ UNCHANGED <<time, skew, recording, folder, sidecar, channel, jobs, last>>
        /\ \/ place' \in {"ended", "top"} /\ asked' = asked
           \/ /\ ok /\ due # {} /\ place' = "acquire"
              /\ flight'.media = {jobs[i].media : i \in due}
              /\ flight'.first = jobs[Enrichment!Min(due)].media
              /\ asked' = [m \in Media |-> asked[m] + (IF m \in flight'.media THEN 1 ELSE 0)]
    BY DEF Enrichment!AfterReservation, Enrichment!SaveEnds, Enrichment!clocks,
           Enrichment!files, Enrichment!handle
  <1>2. /\ due \subseteq 1 .. Len(jobs)
        /\ \A i \in due : jobs[i].media \in flight.media /\ jobs[i].terminal = "no"
    BY <1>0 DEF Enrichment!ActiveIn, Enrichment!Active
  <1> HIDE DEF due
  <1>3. CASE place' \in {"ended", "top"} /\ asked' = asked
    <2>1. SaveRule' /\ ActRule'
      BY <1>3 DEF SaveRule, ActRule
    <2> QED BY <1>0, <1>1, <1>3, <2>1, SaveStepKeeps
  <1>4. CASE /\ ok /\ due # {} /\ place' = "acquire"
             /\ flight'.media = {jobs[i].media : i \in due}
             /\ flight'.first = jobs[Enrichment!Min(due)].media
             /\ asked' = [m \in Media |-> asked[m] + (IF m \in flight'.media THEN 1 ELSE 0)]
    <2>0. asked \in [Media -> Nat] /\ Enrichment!Valid(writing.ledger) /\ ledger' = writing.ledger
      BY <1>0, <1>1, <1>4 DEF PostGameTypes
    <2>1. /\ \A i, k \in 1 .. Len(jobs) : jobs[i].media = jobs[k].media => i = k
          /\ \A i \in 1 .. Len(jobs) : jobs[i].attempts <= MaxAsked
      BY <1>0, <1>1, <2>0, SaveLands
    <2>2. /\ asked' \in [Media -> Nat]
          /\ \A m \in Media : asked'[m] = IF m \in flight'.media THEN asked[m] + 1 ELSE asked[m]
      BY <1>4, <2>0
    <2>3. ASSUME NEW m \in flight'.media
          PROVE  \E i \in due : jobs[i].media = m /\ asked[m] < jobs[i].attempts
      <3>1. PICK i \in due : m = jobs[i].media
        BY <1>4, <2>3
      <3>2. i \in 1 .. Len(jobs) /\ m \in flight.media
        BY <1>2, <3>1
      <3>3. PICK k \in 1 .. Len(jobs) : jobs[k].media = m /\ asked[m] < jobs[k].attempts
        BY <1>1, <3>2 DEF PostGameInvariant, SaveRule
      <3>4. k = i
        BY <2>1, <3>1, <3>2, <3>3
      <3> QED BY <3>1, <3>3, <3>4
    <2>4. ASSUME NEW i \in 1 .. Len(jobs) PROVE asked'[jobs[i].media] <= jobs[i].attempts
      <3> DEFINE m == jobs[i].media
      <3>0. /\ m \in Media /\ asked[m] \in Nat /\ asked[m] <= jobs[i].attempts
            /\ jobs[i].attempts \in Nat
        BY <1>0, <2>0 DEF PostJobs
      <3>1. CASE m \in flight'.media
        <4>1. PICK k \in due : jobs[k].media = m /\ asked[m] < jobs[k].attempts
          BY <2>3, <3>1
        <4>2. k = i
          BY <1>2, <2>1, <4>1
        <4>3. asked[m] < jobs[i].attempts /\ asked'[m] = asked[m] + 1
          BY <2>2, <3>0, <3>1, <4>1, <4>2
        <4> HIDE DEF m
        <4>4. asked'[m] <= jobs[i].attempts
          BY <3>0, <4>3
        <4> QED BY <4>4 DEF m
      <3>2. CASE m \notin flight'.media
        BY <2>2, <3>0, <3>2
      <3> QED BY <3>1, <3>2
    <2>5. PICK counts \in [Media -> Nat] : counts = asked'
      BY <2>2
    <2>6. /\ ledger' \in [last : Int, jobs : Seq(SavedPostJobs)] /\ Enrichment!Valid(ledger')
          /\ ledger'.jobs = SavedOf(jobs) /\ MediaOf(ledger'.jobs) = MediaOf(jobs)
          /\ Book(jobs, counts, ledger'.jobs)
          /\ \A k \in 1 .. Len(ledger'.jobs) :
                counts[ledger'.jobs[k].media] <= ledger'.jobs[k].attempts
      <3>1. \A i \in 1 .. Len(jobs) : counts[jobs[i].media] <= jobs[i].attempts
        BY <2>4, <2>5
      <3> QED BY <1>1, <2>0, <3>1, SaveLands
    <2>7. \A m \in Media : asked'[m] = asked[m] \/ m \in MediaOf(jobs)
      BY <1>2, <2>2, <2>3 DEF MediaOf
    <2>8. ASSUME NEW m \in Media PROVE asked'[m] <= MaxAsked
      <3>1. CASE m \in flight'.media
        <4>1. PICK i \in due : jobs[i].media = m /\ asked[m] < jobs[i].attempts
          BY <2>3, <3>1
        <4>2. i \in 1 .. Len(jobs) /\ asked'[m] = asked[m] + 1 /\ asked[m] \in Nat
          BY <1>2, <2>0, <2>2, <3>1
        <4>3. jobs[i].attempts <= MaxAsked /\ jobs[i].attempts \in Nat /\ MaxAsked \in Nat
          BY <1>0, <2>1, <4>2 DEF PostJobs, Enrichment!PostGameAssumption
        <4> QED BY <4>1, <4>2, <4>3
      <3>2. CASE m \notin flight'.media
        BY <2>2, <3>2 DEF PostGameInvariant, FileRule
      <3> QED BY <3>1, <3>2
    <2>9. FileRule' /\ Book(jobs, asked, ledger.jobs)'
      BY <1>1, <2>5, <2>6, <2>8 DEF FileRule
    <2>10. NewRule'
      <3>1. Taken(0)
        BY <1>0, <1>1, TakesFromChannel DEF PostGameTypes
      <3> QED BY <1>0, <1>1, <2>6, <2>7, <3>1, NewRuleKept
    <2>11. SaveRule' /\ ActRule'
      <3>1. Enrichment!Min(due) \in due
        <4>1. due \subseteq Nat
          BY <1>0, <1>2
        <4>2. Enrichment!Min(due) = History!Min(due)
          BY DEF Enrichment!Min, History!Min
        <4> QED BY <1>4, <4>1, <4>2, Smallest
      <3>2. \E i \in 1 .. Len(jobs) : jobs[i].media = flight'.first /\ jobs[i].terminal = "no"
        BY <1>2, <1>4, <3>1
      <3> QED BY <1>1, <1>4, <2>6, <3>2 DEF SaveRule, ActRule
    <2>12. PostGameTypes' /\ Enrichment!ResultsFollowPublication'
      <3>1. ledger' \in [last : Int, jobs : Seq(SavedPostJobs)]
        BY <2>6
      <3> QED BY <1>0, <1>1, <2>2, <3>1
              DEF PostGameTypes, PostGameInvariant, Enrichment!ResultsFollowPublication
    <2> QED BY <2>9, <2>10, <2>11, <2>12 DEF PostGameInvariant
  <1> QED BY <1>1, <1>3, <1>4

-----------------------------------------------------------------------------
(* What the post-game jobs start with, every step and what follows. *)

\* Nothing was asked for, saved or installed at the start.
LEMMA PostGameStarts == Enrichment!PostGameAssumption /\ Enrichment!Init => PostGameInvariant
  <1> SUFFICES ASSUME Enrichment!PostGameAssumption, Enrichment!Init PROVE PostGameInvariant
    OBVIOUS
  <1>1. /\ time = 1 /\ skew = 1 /\ recording = [m \in Media |-> "capturing"]
        /\ folder = [m \in Media |-> "private"] /\ sidecar = {} /\ asked = [m \in Media |-> 0]
        /\ ledger = [last |-> 1, jobs |-> <<>>] /\ channel = <<>> /\ place = "down"
        /\ jobs = <<>> /\ last = 0
    BY DEF Enrichment!Init
  <1>2. PostGameTypes
    BY <1>1 DEF PostGameTypes
  <1>3. Book(jobs, asked, ledger.jobs)
    BY <1>1 DEF Book
  <1>4. MediaOf(jobs) = {} /\ MediaOf(ledger.jobs) = {}
    BY <1>1 DEF MediaOf
  <1>5. NewRule
    BY <1>1, <1>4 DEF NewRule, Fresh
  <1>6. FileRule
    <2>1. ledger.jobs = <<>> /\ Len(ledger.jobs) = 0 /\ DOMAIN ledger.jobs = {}
      BY <1>1
    <2>2. Enrichment!IsInjective([i \in DOMAIN ledger.jobs |-> ledger.jobs[i].media])
      BY <2>1 DEF Enrichment!IsInjective
    <2>3. MaxPending \in Nat /\ MaxAsked \in Nat
      BY DEF Enrichment!PostGameAssumption
    <2>4. Enrichment!Valid(ledger)
      BY <2>1, <2>2, <2>3 DEF Enrichment!Valid
    <2> QED BY <1>1, <2>1, <2>3, <2>4 DEF FileRule
  <1>7. SaveRule /\ ActRule /\ Enrichment!ResultsFollowPublication
    BY <1>1 DEF SaveRule, ActRule, Enrichment!ResultsFollowPublication
  <1> QED BY <1>2, <1>3, <1>5, <1>6, <1>7 DEF PostGameInvariant

\* Steps of others.
LEMMA PostGameStutters ==
    ASSUME PostGameInvariant, UNCHANGED Enrichment!vars
    PROVE  PostGameInvariant'
  <1>1. UNCHANGED <<time, skew, recording, folder, sidecar, asked, ledger, channel, place, jobs,
                    last, flight, writing>>
    BY DEF Enrichment!vars, Enrichment!clocks, Enrichment!files, Enrichment!handle,
           Enrichment!worker
  <1>2. PostGameTypes' /\ NewRule' /\ Enrichment!ResultsFollowPublication'
    BY <1>1 DEF PostGameInvariant, PostGameTypes, NewRule, Fresh, Submits,
                Enrichment!ResultsFollowPublication
  <1> QED BY <1>1, <1>2, OutsideKeeps

\* Every step of the service, of the user, of the clocks and of the worker.
LEMMA PostGameKept ==
    ASSUME Enrichment!PostGameAssumption, PostGameInvariant, [Enrichment!Next]_Enrichment!vars
    PROVE  PostGameInvariant'
  <1>1. CASE Enrichment!Environment
    <2>1. ASSUME NEW m \in Media,
                 \/ Enrichment!Submit(m) \/ Enrichment!Publish(m) \/ Enrichment!Cancel(m)
                 \/ Enrichment!DeleteFolder(m) \/ Enrichment!RecoverFolder(m)
          PROVE  PostGameInvariant'
      BY <2>1, SurroundingsKeepJobs
    <2>2. CASE Enrichment!StopCoordinator \/ Enrichment!Tick \/ Enrichment!ClockStepsBack
      BY <2>2, OthersKeepJobs
    <2>3. CASE Enrichment!Crash
      BY <2>3, CrashKeeps
    <2> QED BY <1>1, <2>1, <2>2, <2>3 DEF Enrichment!Environment
  <1>2. CASE Enrichment!Task
    <2>1. CASE Enrichment!Start
      BY <2>1, StartKeeps
    <2>2. CASE Enrichment!Turn
      BY <2>2, TurnKeeps
    <2>3. CASE Enrichment!AfterTurn
      BY <2>3, AfterTurnKeeps
    <2>4. CASE Enrichment!AfterReservation
      BY <2>4, AfterReservationKeeps
    <2>5. CASE Enrichment!SaveFails
      BY <2>5, SaveFailsKeeps
    <2>6. CASE \/ Enrichment!FlightCommand \/ Enrichment!FlightTick \/ Enrichment!FlightStopped
               \/ \E answer \in [Media -> Enrichment!Outcomes] : Enrichment!Response(answer)
      BY <2>6, FlightKeeps
    <2>7. CASE Enrichment!AfterFlightSave
      BY <2>7, AfterFlightSaveKeeps
    <2>8. ASSUME NEW ok \in BOOLEAN, Enrichment!Install(ok) PROVE PostGameInvariant'
      BY <2>8, InstallResultKeeps
    <2>9. CASE Enrichment!Wake
      BY <2>9, WakeKeeps
    <2> QED BY <1>2, <2>1, <2>2, <2>3, <2>4, <2>5, <2>6, <2>7, <2>8, <2>9 DEF Enrichment!Task
  <1>3. CASE UNCHANGED Enrichment!vars
    BY <1>3, PostGameStutters
  <1> QED BY <1>1, <1>2, <1>3 DEF Enrichment!Next

\* What follows from the rules.
LEMMA PostGameHolds ==
    ASSUME PostGameInvariant
    PROVE  /\ Enrichment!RequestsWereReserved /\ Enrichment!ActsOnSavedJobs
           /\ Enrichment!ResultsFollowPublication /\ Enrichment!LedgerIsValid
  <1> DEFINE s == ledger.jobs
  <1>0. /\ s \in Seq(SavedPostJobs) /\ DOMAIN s = 1 .. Len(s) /\ Len(s) \in Nat
        /\ jobs \in Seq(PostJobs) /\ Len(jobs) \in Nat /\ DOMAIN jobs = 1 .. Len(jobs)
        /\ \A i \in 1 .. Len(jobs) : jobs[i] \in PostJobs
    BY LenProperties, ElementOfSeq DEF PostGameInvariant, PostGameTypes, Book
  <1>1. \A j : j \in Enrichment!SavedJobs <=> \E i \in 1 .. Len(s) : j = s[i]
    BY <1>0 DEF Enrichment!SavedJobs
  <1>2. Enrichment!RequestsWereReserved
    BY <1>1 DEF PostGameInvariant, FileRule, Enrichment!RequestsWereReserved
  <1>3. ASSUME s = SavedOf(jobs), NEW i \in 1 .. Len(jobs)
        PROVE  \E j \in Enrichment!SavedJobs :
                  /\ j.media = jobs[i].media /\ j.terminal = jobs[i].terminal
                  /\ j.published = jobs[i].published /\ j.result = jobs[i].result
    <2>1. i \in 1 .. Len(s) /\ s[i] = Enrichment!Saved(jobs[i])
      BY <1>0, <1>3 DEF SavedOf
    <2> QED BY <1>0, <1>1, <2>1, SavedJob
  <1>4. Enrichment!ActsOnSavedJobs
    <2>1. ASSUME place = "install"
          PROVE  \E j \in Enrichment!SavedJobs :
                    /\ j.media = jobs[Enrichment!Min(Enrichment!Installable)].media
                    /\ Enrichment!Active(j) /\ j.published /\ j.result
      <3> DEFINE I == Enrichment!Installable
      <3>1. I # {} /\ I \subseteq 1 .. Len(jobs)
        BY <1>0, <2>1 DEF PostGameInvariant, ActRule, Enrichment!Installable, Enrichment!ActiveIn
      <3> HIDE DEF I
      <3>2. Enrichment!Min(I) \in I
        <4>1. I \subseteq Nat /\ Enrichment!Min(I) = History!Min(I)
          BY <1>0, <3>1 DEF Enrichment!Min, History!Min
        <4> QED BY <3>1, <4>1, Smallest
      <3>3. PICK i \in I : i = Enrichment!Min(I)
        BY <3>2
      <3>4. i \in 1 .. Len(jobs) /\ jobs[i].terminal = "no" /\ jobs[i].published /\ jobs[i].result
        BY <3>1, <3>3 DEF I, Enrichment!Installable, Enrichment!ActiveIn, Enrichment!Active
      <3>5. s = SavedOf(jobs)
        BY <2>1 DEF PostGameInvariant, ActRule
      <3> QED BY <1>3, <3>3, <3>4, <3>5 DEF I, Enrichment!Active
    <2>2. ASSUME place = "acquire"
          PROVE  \E j \in Enrichment!SavedJobs : j.media = flight.first /\ Enrichment!Active(j)
      <3>1. s = SavedOf(jobs)
        BY <2>2 DEF PostGameInvariant, ActRule
      <3>2. PICK i \in 1 .. Len(jobs) : jobs[i].media = flight.first /\ jobs[i].terminal = "no"
        BY <2>2 DEF PostGameInvariant, ActRule
      <3> QED BY <1>3, <3>1, <3>2 DEF Enrichment!Active
    <2> QED BY <2>1, <2>2 DEF Enrichment!ActsOnSavedJobs
  <1> QED BY <1>2, <1>4 DEF PostGameInvariant, FileRule, Enrichment!LedgerIsValid

\* A step of the coordinator changes the file only by reading it at a start and by a save
\* that lands, and neither opens a job again.
ClosedKept == \A j \in Enrichment!SavedJobs : ~Enrichment!Active(j) =>
                  \A i \in DOMAIN ledger'.jobs : ledger'.jobs[i].media = j.media =>
                      ledger'.jobs[i].terminal = j.terminal
\* Every step leaves the file, or leaves closed what it had closed.
LEMMA ClosedAreKept ==
    ASSUME Enrichment!PostGameAssumption, PostGameInvariant, [Enrichment!Next]_Enrichment!vars
    PROVE  ledger' = ledger \/ ClosedKept
  <1> DEFINE s == ledger.jobs
  <1>0. /\ PostGameTypes /\ Enrichment!Valid(ledger) /\ Book(jobs, asked, s)
        /\ asked \in [Media -> Nat]
        /\ s \in Seq(SavedPostJobs) /\ DOMAIN s = 1 .. Len(s) /\ Len(s) \in Nat
        /\ \A i \in 1 .. Len(jobs) : asked[jobs[i].media] <= jobs[i].attempts
    BY LenProperties DEF PostGameInvariant, PostGameTypes, FileRule, Book, Tracked
  <1>1. \A j : j \in Enrichment!SavedJobs <=> \E i \in 1 .. Len(s) : j = s[i]
    BY <1>0 DEF Enrichment!SavedJobs
  <1>2. \/ ledger' = ledger
        \/ Enrichment!Start
        \/ place = "saving" /\ Enrichment!Valid(writing.ledger) /\ ledger' = writing.ledger
    <2>1. CASE Enrichment!Environment \/ UNCHANGED Enrichment!vars
      BY <2>1 DEF Enrichment!Environment, Enrichment!Submit, Enrichment!Publish,
                  Enrichment!Cancel, Enrichment!DeleteFolder, Enrichment!RecoverFolder,
                  Enrichment!StopCoordinator, Enrichment!Crash, Enrichment!Tick,
                  Enrichment!ClockStepsBack, Enrichment!vars
    <2>2. CASE Enrichment!Task
      <3>1. CASE \/ Enrichment!Start \/ Enrichment!Turn \/ Enrichment!FlightCommand
                 \/ Enrichment!FlightTick \/ Enrichment!FlightStopped \/ Enrichment!Wake
                 \/ \E answer \in [Media -> Enrichment!Outcomes] : Enrichment!Response(answer)
                 \/ \E ok \in BOOLEAN : Enrichment!Install(ok)
        BY <3>1 DEF Enrichment!Turn, Enrichment!FlightCommand, Enrichment!FlightTick,
                    Enrichment!FlightStopped, Enrichment!Wake, Enrichment!Response,
                    Enrichment!Install
      <3>2. CASE \/ Enrichment!AfterTurn \/ Enrichment!AfterReservation \/ Enrichment!SaveFails
                 \/ Enrichment!AfterFlightSave
        BY <3>2 DEF Enrichment!AfterTurn, Enrichment!AfterReservation, Enrichment!SaveFails,
                    Enrichment!AfterFlightSave, Enrichment!SaveEnds
      <3> QED BY <2>2, <3>1, <3>2 DEF Enrichment!Task
    <2> QED BY <2>1, <2>2 DEF Enrichment!Next
  <1>3. CASE Enrichment!Start
    <2> DEFINE wall == Enrichment!Wall
    <2>1. wall \in Int /\ ledger' = Enrichment!Reconciled(ledger, wall)
      BY <1>0, <1>3 DEF Enrichment!Start, Enrichment!Wall, PostGameTypes
    <2> HIDE DEF wall
    <2>2. /\ ledger' \in [last : Int, jobs : Seq(SavedPostJobs)] /\ Enrichment!Valid(ledger')
          /\ Len(ledger'.jobs) = Len(s)
          /\ \A i \in 1 .. Len(s) : /\ ledger'.jobs[i].media = s[i].media
                                    /\ s[i].terminal # "no" =>
                                          ledger'.jobs[i].terminal = s[i].terminal
      BY <1>0, <2>1, ReconciledFile
    <2>3. DOMAIN ledger'.jobs = 1 .. Len(s)
      BY <2>2, LenProperties
    <2>4. ASSUME NEW k \in 1 .. Len(s), s[k].terminal # "no", NEW i \in 1 .. Len(s),
                 ledger'.jobs[i].media = s[k].media
          PROVE  ledger'.jobs[i].terminal = s[k].terminal
      <3>1. i = k
        BY <1>0, <2>2, <2>4, OneJobEach
      <3> QED BY <2>2, <2>4, <3>1
    <2> QED BY <1>1, <2>3, <2>4 DEF ClosedKept, Enrichment!Active
  <1>4. CASE place = "saving" /\ Enrichment!Valid(writing.ledger) /\ ledger' = writing.ledger
    <2> DEFINE t == ledger'.jobs
    <2>1. t = SavedOf(jobs)
      BY <1>0, <1>4, SaveLands
    <2>2. /\ Len(jobs) \in Nat /\ DOMAIN t = 1 .. Len(jobs)
          /\ \A i \in 1 .. Len(jobs) : /\ t[i].media = jobs[i].media
                                       /\ t[i].terminal = jobs[i].terminal
                                       /\ Tracked(jobs[i], asked, s)
      <3>1. Len(jobs) \in Nat /\ \A i \in 1 .. Len(jobs) : jobs[i] \in PostJobs
        BY <1>0, LenProperties, ElementOfSeq DEF Book
      <3> QED BY <1>0, <2>1, <3>1, SavedJob DEF SavedOf, Book
    <2> HIDE DEF t
    <2>3. \A k \in 1 .. Len(s) : s[k].terminal # "no" =>
              \A i \in DOMAIN t : t[i].media = s[k].media => t[i].terminal = s[k].terminal
      BY <2>2 DEF Tracked
    <2> QED BY <1>1, <2>3 DEF ClosedKept, Enrichment!Active, t
  <1> QED BY <1>2, <1>3, <1>4

-----------------------------------------------------------------------------
(* The provisional context. *)

Evidence == [game : Nat, epoch : Nat, sequence : Int, live : Int, started : Nat, finished : Nat,
            oldest : Int]
Rounds == [epoch : Nat, started : Nat, finished : Nat, player : Nat, game : Nat]

ContextTypes ==
    /\ now \in Nat /\ client \in Nat \ {0} /\ game \in Nat \ {0}
    /\ since \in [client : Nat, game : Nat] /\ since.client <= now /\ since.game <= now
    /\ live \in [sequence : Int, started : Int, finished : Nat, game : Nat]
    /\ step \in {"await", "discover", "slot", "summoner", "gameflow", "recheck", "failed",
                 "observe", "sleep", "ended"}
    /\ round \in Rounds /\ closed \in BOOLEAN
    /\ pending \in Evidence \cup {Context!Nothing}
    /\ candidate \in [game : Nat, first : Evidence, second : Evidence] \cup {Context!Nothing}

\* What an answer says of the client and of the game that runs: it is not from the
\* future, and if one of them is still the same it was there when it was answered, and
\* a client that is gone was there until then.
Answered(answer) ==
    /\ answer.finished <= now /\ answer.epoch <= client /\ answer.game <= game
    /\ answer.epoch # client => answer.finished <= since.client
    /\ answer.game = game => since.game <= answer.finished
Witnessed(answer) ==
    Answered(answer) /\ (answer.epoch = client => since.client <= answer.started)

\* A round that was given its slot, and may still count.
Started == step \in {"summoner", "gameflow", "recheck"} \/ (step = "observe" /\ ~closed)

RoundRule ==
    /\ Answered(round)
    /\ step = "discover" => round = Context!NoRound
    /\ Started => (round.epoch = client => since.client <= round.started)

\* What is paired: two rounds of one client, one after the other.
PairRule ==
    /\ pending # Context!Nothing =>
          /\ ~closed /\ Witnessed(pending)
          /\ Started /\ (step = "observe" => round # Context!NoRound) =>
                pending.finished <= round.started
    /\ candidate # Context!Nothing =>
          /\ Witnessed(candidate.first) /\ Witnessed(candidate.second)
          /\ candidate.first.epoch = candidate.second.epoch
          /\ candidate.game = candidate.first.game
          /\ candidate.first.finished <= candidate.second.started
    /\ closed => snapshot = candidate

ContextInvariant == ContextTypes /\ RoundRule /\ PairRule

-----------------------------------------------------------------------------
\* The smaller and the larger of two numbers are numbers.
LEMMA OneOfTwo ==
    ASSUME NEW a \in Int, NEW b \in Int
    PROVE  Context!Min({a, b}) \in Int /\ Context!Max({a, b}) \in Int
  <1>1. CASE a <= b
    <2>1. \E x \in {a, b} : \A y \in {a, b} : x <= y
      BY <1>1
    <2>2. \E x \in {a, b} : \A y \in {a, b} : x >= y
      BY <1>1
    <2> QED BY <2>1, <2>2 DEF Context!Min, Context!Max
  <1>2. CASE ~(a <= b)
    <2>1. \E x \in {a, b} : \A y \in {a, b} : x <= y
      BY <1>2
    <2>2. \E x \in {a, b} : \A y \in {a, b} : x >= y
      BY <1>2
    <2> QED BY <2>1, <2>2 DEF Context!Min, Context!Max
  <1> QED BY <1>1, <1>2

\* Time passes, the client restarts and games change, and what was answered before
\* remains true of what there was.
LEMMA SurroundingsKeep ==
    ASSUME ContextInvariant,
           Context!Elapse \/ Context!ClientRestarts \/ Context!GameChanges \/ Context!Observes
    PROVE  ContextInvariant'
  <1>1. UNCHANGED <<step, round, pending, candidate, closed, snapshot>>
    BY DEF Context!Elapse, Context!ClientRestarts, Context!GameChanges, Context!Observes,
           Context!collector, Context!association
  <1>2. /\ now' \in Nat /\ client' \in Nat \ {0} /\ game' \in Nat \ {0} /\ now <= now'
        /\ since' \in [client : Nat, game : Nat] /\ since'.client <= now' /\ since'.game <= now'
    BY DEF ContextInvariant, ContextTypes, Context!Elapse, Context!ClientRestarts,
           Context!GameChanges, Context!Observes
  <1>3. /\ client <= client' /\ game <= game'
        /\ client' = client => since'.client = since.client
        /\ client' # client => since'.client = now
        /\ game' = game => since'.game = since.game
    BY DEF ContextInvariant, ContextTypes, Context!Elapse, Context!ClientRestarts,
           Context!GameChanges, Context!Observes
  <1>4. live' \in [sequence : Int, started : Int, finished : Nat, game : Nat]
    <2>1. CASE Context!Observes
      <3> DEFINE low == Context!Max({now - 1, live.started + 1})
      <3>1. low \in Int
        <4>1. now - 1 \in Int /\ live.started + 1 \in Int
          BY DEF ContextInvariant, ContextTypes
        <4> QED BY <4>1, OneOfTwo
      <3>2. \E start \in low .. now, seen \in {0, game} :
                live' = [sequence |-> live.sequence + 1, started |-> start,
                         finished |-> now, game |-> seen]
        BY <2>1 DEF Context!Observes
      <3> HIDE DEF low
      <3> QED BY <3>1, <3>2 DEF ContextInvariant, ContextTypes
    <2>2. CASE ~Context!Observes
      BY <2>2 DEF ContextInvariant, ContextTypes, Context!Elapse, Context!ClientRestarts,
                  Context!GameChanges
    <2> QED BY <2>1, <2>2
  <1>5. ContextTypes'
    BY <1>1, <1>2, <1>4 DEF ContextInvariant, ContextTypes
  <1>6. ASSUME NEW e \in Nat, NEW f \in Nat, NEW g \in Nat,
               f <= now, e <= client, g <= game,
               e # client => f <= since.client, g = game => since.game <= f
        PROVE  /\ f <= now' /\ e <= client' /\ g <= game'
               /\ e # client' => f <= since'.client
               /\ g = game' => since'.game <= f
               /\ e = client' => e = client /\ since'.client = since.client
    BY <1>2, <1>3, <1>6 DEF ContextInvariant, ContextTypes
  <1>7. RoundRule'
    BY <1>1, <1>6 DEF ContextInvariant, ContextTypes, RoundRule, Answered, Started, Rounds
  <1>8. PairRule'
    <2>1. pending # Context!Nothing => Witnessed(pending)'
      BY <1>1, <1>6 DEF ContextInvariant, ContextTypes, PairRule, Witnessed, Answered, Evidence
    <2>2. candidate # Context!Nothing => Witnessed(candidate.first)' /\ Witnessed(candidate.second)'
      BY <1>1, <1>6 DEF ContextInvariant, ContextTypes, PairRule, Witnessed, Answered, Evidence
    <2> QED BY <1>1, <2>1, <2>2 DEF ContextInvariant, PairRule, Started
  <1> QED BY <1>5, <1>7, <1>8 DEF ContextInvariant

\* A step of the collector that pairs nothing.
LEMMA RoundMoves ==
    ASSUME ContextInvariant, UNCHANGED <<Context!surroundings, Context!association>>,
           step' \in {"await", "discover", "slot", "summoner", "gameflow", "recheck", "failed",
                      "observe", "sleep", "ended"},
           round' \in Rounds, RoundRule',
           /\ ~closed /\ pending # Context!Nothing /\ Started'
           /\ step' = "observe" => round' # Context!NoRound
           => pending.finished <= round'.started
    PROVE  ContextInvariant'
  <1>1. ContextTypes'
    BY DEF ContextInvariant, ContextTypes, Context!surroundings, Context!association
  <1>2. PairRule'
    BY DEF ContextInvariant, PairRule, Witnessed, Answered, Context!surroundings,
           Context!association
  <1> QED BY <1>1, <1>2 DEF ContextInvariant

\* The steps of a round before its answers are observed.
LEMMA CollectorRounds ==
    ASSUME ContextInvariant,
           \/ Context!Await \/ Context!Discover \/ Context!RoundSlot \/ Context!Summoner
           \/ Context!Gameflow \/ Context!Failed \/ Context!Recheck \/ Context!Sleep
    PROVE  ContextInvariant'
  <1>0. UNCHANGED <<Context!surroundings, Context!association>>
    BY DEF Context!Await, Context!Discover, Context!RoundSlot, Context!Summoner, Context!Gameflow,
           Context!Request, Context!Failed, Context!Recheck, Context!Sleep
  <1>1. /\ Context!NoRound \in Rounds /\ Answered(Context!NoRound)
        /\ Context!NoRound.epoch = 0 /\ Context!NoRound.game = 0 /\ client # 0 /\ game # 0
    BY DEF Context!NoRound, Rounds, Answered, ContextInvariant, ContextTypes
  <1>2. CASE Context!Await \/ Context!Failed
    <2>1. step' \in {"ended", "discover", "await", "observe"} /\ round' = Context!NoRound
      BY <1>2 DEF Context!Await, Context!Failed, Context!Accepting, ContextInvariant, ContextTypes
    <2>2. RoundRule'
      BY <1>0, <1>1, <2>1 DEF RoundRule, Answered, Context!surroundings
    <2> QED BY <1>0, <1>1, <2>1, <2>2, RoundMoves DEF Started
  <1>3. CASE Context!Discover
    <2>1. \/ step' = "observe" /\ round' = Context!NoRound
          \/ step' = "slot" /\ round' = [Context!NoRound EXCEPT !.epoch = client]
      BY <1>3 DEF Context!Discover, ContextInvariant, RoundRule
    <2>2. /\ round' \in Rounds /\ round'.finished = 0 /\ round'.game = 0
          /\ round'.epoch \in {0, client}
      BY <1>1, <2>1 DEF Context!NoRound, Rounds, ContextInvariant, ContextTypes
    <2>3. RoundRule'
      BY <1>0, <1>1, <2>1, <2>2
         DEF RoundRule, Answered, Started, Context!surroundings, ContextInvariant, ContextTypes
    <2> QED BY <1>0, <2>1, <2>2, <2>3, RoundMoves DEF Started
  <1>4. CASE Context!RoundSlot
    <2>1. \/ closed /\ step' = "observe" /\ round' = round
          \/ ~closed /\ step' = "summoner" /\ round' = [round EXCEPT !.started = now]
      BY <1>4 DEF Context!RoundSlot
    <2>2. /\ round' \in Rounds /\ round'.finished = round.finished /\ round'.game = round.game
          /\ round'.epoch = round.epoch /\ (~closed => round'.started = now)
      BY <2>1 DEF Rounds, ContextInvariant, ContextTypes
    <2>3. RoundRule'
      BY <1>0, <2>1, <2>2
         DEF RoundRule, Answered, Started, Context!surroundings, Context!association,
             ContextInvariant, ContextTypes
    <2>4. ~closed /\ pending # Context!Nothing => pending.finished <= round'.started
      BY <2>2 DEF ContextInvariant, PairRule, Witnessed, Answered
    <2> QED BY <1>0, <2>1, <2>2, <2>3, <2>4, RoundMoves
  <1>5. CASE Context!Summoner \/ Context!Gameflow
    <2>1. /\ step \in {"summoner", "gameflow"} /\ step' \in {"failed", "gameflow", "recheck"}
          /\ \/ step' = "failed" /\ round' = round
             \/ client = round.epoch /\ round' = [round EXCEPT !["player"] = game, !.finished = now]
             \/ client = round.epoch /\ round' = [round EXCEPT !["game"] = game, !.finished = now]
      BY <1>5 DEF Context!Summoner, Context!Gameflow, Context!Request
    <2>2. /\ round' \in Rounds /\ round'.epoch = round.epoch /\ round'.started = round.started
          /\ \/ round' = round
             \/ /\ client = round.epoch /\ round'.finished = now
                /\ round'.game \in {round.game, game}
      BY <2>1 DEF Rounds, ContextInvariant, ContextTypes
    <2>3. RoundRule'
      <3>1. Started' => (round'.epoch = client' => since'.client <= round'.started)
        BY <1>0, <2>1, <2>2 DEF RoundRule, Started, Context!surroundings, ContextInvariant
      <3>2. Answered(round)'
        <4>1. CASE round' = round
          BY <1>0, <4>1 DEF RoundRule, Answered, Context!surroundings, ContextInvariant
        <4>2. CASE round' # round
          BY <1>0, <2>2, <4>2 DEF RoundRule, Answered, Context!surroundings, ContextInvariant,
                                  ContextTypes
        <4> QED BY <4>1, <4>2
      <3> QED BY <2>1, <3>1, <3>2 DEF RoundRule
    <2>4. ~closed /\ pending # Context!Nothing /\ step' # "failed" => pending.finished <= round'.started
      BY <2>1, <2>2 DEF ContextInvariant, ContextTypes, PairRule, Started
    <2> QED BY <1>0, <2>1, <2>2, <2>3, <2>4, RoundMoves DEF Started
  <1>6. CASE Context!Recheck
    <2>1. /\ step = "recheck" /\ round' = round
          /\ step' = "failed" \/ (step' = "observe" /\ ~closed)
      BY <1>6 DEF Context!Recheck
    <2>2. RoundRule'
      BY <1>0, <2>1
         DEF RoundRule, Answered, Started, Context!surroundings, Context!association,
             ContextInvariant, ContextTypes
    <2>3. ~closed /\ pending # Context!Nothing /\ Started' => pending.finished <= round.started
      BY <2>1 DEF ContextInvariant, PairRule, Started
    <2> QED BY <1>0, <2>1, <2>2, <2>3, RoundMoves DEF ContextInvariant, ContextTypes
  <1>7. CASE Context!Sleep
    <2>1. step' \in {"ended", "await"} /\ round' = round
      BY <1>7 DEF Context!Sleep
    <2>2. RoundRule'
      BY <1>0, <2>1
         DEF RoundRule, Answered, Started, Context!surroundings, Context!association,
             ContextInvariant, ContextTypes
    <2> QED BY <1>0, <2>1, <2>2, RoundMoves DEF ContextInvariant, ContextTypes, Started
  <1> QED BY <1>2, <1>3, <1>4, <1>5, <1>6, <1>7

\* What a round that may count says, and the poller at the same time, is evidence.
LEMMA CurrentIsWitnessed ==
    ASSUME ContextInvariant, step = "observe", ~closed
    PROVE  \/ Context!Current = Context!Nothing
           \/ /\ Context!Current \in Evidence /\ Witnessed(Context!Current)
              /\ round # Context!NoRound /\ Context!Current.started = round.started
  <1> SUFFICES ASSUME Context!Current # Context!Nothing
               PROVE  /\ Context!Current \in Evidence /\ Witnessed(Context!Current)
                      /\ round # Context!NoRound /\ Context!Current.started = round.started
    OBVIOUS
  <1> DEFINE old == Context!Min({live.started, round.started})
  <1>1. old \in Int
    <2>1. live.started \in Int /\ round.started \in Int
      BY DEF ContextInvariant, ContextTypes, Rounds
    <2> QED BY <2>1, OneOfTwo
  <1>2. /\ round # Context!NoRound
        /\ Context!Current = [game |-> round.game, epoch |-> round.epoch, sequence |-> live.sequence,
                              live |-> live.started, started |-> round.started,
                              finished |-> round.finished, oldest |-> old]
    BY DEF Context!Current
  <1> HIDE DEF old
  <1> DEFINE e == Context!Current
  <1>3. /\ e \in Evidence /\ e.game = round.game /\ e.epoch = round.epoch
        /\ e.started = round.started /\ e.finished = round.finished
    BY <1>1, <1>2 DEF Evidence, ContextInvariant, ContextTypes, Rounds
  <1> HIDE DEF e
  <1>4. Witnessed(e)
    BY <1>3 DEF Witnessed, Answered, ContextInvariant, RoundRule, Started
  <1> QED BY <1>2, <1>3, <1>4 DEF e

\* A pair of rounds in a row becomes the candidate, any other round waits for the next.
LEMMA ObserveKeeps ==
    ASSUME ContextInvariant, Context!Observe
    PROVE  ContextInvariant'
  <1>0. /\ step = "observe" /\ step' \in {"ended", "sleep"} /\ round' = Context!NoRound
        /\ UNCHANGED <<Context!surroundings, closed, snapshot>>
    BY DEF Context!Observe
  <1>1. Context!NoRound \in Rounds /\ RoundRule'
    BY <1>0 DEF Context!NoRound, Rounds, RoundRule, Answered, Started, ContextInvariant,
                ContextTypes, Context!surroundings
  <1>2. CASE UNCHANGED <<pending, candidate>>
    <2>1. ContextTypes'
      BY <1>0, <1>1, <1>2 DEF ContextInvariant, ContextTypes, Context!surroundings
    <2>2. PairRule'
      BY <1>0, <1>2 DEF ContextInvariant, PairRule, Witnessed, Answered, Started,
                        Context!surroundings
    <2> QED BY <1>1, <2>1, <2>2 DEF ContextInvariant
  <1>3. CASE ~UNCHANGED <<pending, candidate>>
    <2> DEFINE e == Context!Current
    <2>0. Context!Accepting /\ ~closed
      BY <1>3 DEF Context!Observe, Context!Accepting
    <2>1. \/ e = Context!Nothing
          \/ /\ e \in Evidence /\ Witnessed(e) /\ round # Context!NoRound
             /\ e.started = round.started
      BY <1>0, <2>0, CurrentIsWitnessed
    <2>2. \/ /\ Context!Coherent(pending, e) /\ pending' = Context!Nothing
             /\ candidate' = [game |-> e.game, first |-> pending, second |-> e]
          \/ pending' = e /\ candidate' = candidate
      BY <2>0 DEF Context!Observe
    <2> HIDE DEF e
    <2>3. CASE pending' = e /\ candidate' = candidate
      <3>1. ContextTypes'
        BY <1>0, <1>1, <2>1, <2>3 DEF ContextInvariant, ContextTypes, Context!surroundings
      <3>2. e # Context!Nothing => Witnessed(pending)'
        BY <1>0, <2>1, <2>3 DEF Witnessed, Answered, Context!surroundings
      <3>3. PairRule'
        BY <1>0, <2>0, <2>3, <3>2 DEF ContextInvariant, PairRule, Witnessed, Answered, Started,
                                      Context!surroundings
      <3> QED BY <1>1, <3>1, <3>3 DEF ContextInvariant
    <2>4. CASE /\ Context!Coherent(pending, e) /\ pending' = Context!Nothing
               /\ candidate' = [game |-> e.game, first |-> pending, second |-> e]
      <3>1. /\ pending # Context!Nothing /\ e # Context!Nothing
            /\ pending.epoch = e.epoch /\ pending.game = e.game
        BY <2>4 DEF Context!Coherent
      <3>2. pending \in Evidence /\ e \in Evidence /\ Witnessed(pending) /\ Witnessed(e)
        BY <2>1, <3>1 DEF ContextInvariant, ContextTypes, PairRule
      <3>3. pending.finished <= e.started
        BY <1>0, <2>0, <2>1, <3>1 DEF ContextInvariant, PairRule, Started
      <3>4. /\ candidate' \in [game : Nat, first : Evidence, second : Evidence]
            /\ candidate'.first = pending /\ candidate'.second = e /\ candidate'.game = e.game
        BY <2>4, <3>2 DEF Evidence
      <3>5. ContextTypes'
        BY <1>0, <1>1, <2>4, <3>4 DEF ContextInvariant, ContextTypes, Context!surroundings
      <3>6. Witnessed(candidate.first)' /\ Witnessed(candidate.second)'
        BY <1>0, <3>2, <3>4 DEF Witnessed, Answered, Context!surroundings
      <3>7. PairRule'
        BY <1>0, <2>0, <2>4, <3>1, <3>3, <3>4, <3>6 DEF PairRule
      <3> QED BY <1>1, <3>5, <3>7 DEF ContextInvariant
    <2> QED BY <2>2, <2>3, <2>4
  <1> QED BY <1>2, <1>3

\* At the start there is no round and nothing is paired.
LEMMA ContextStarts ==
    ASSUME Context!Init
    PROVE  ContextInvariant
  <1>1. /\ now = 0 /\ client = 1 /\ game = 1 /\ since = [client |-> 0, game |-> 0]
        /\ live = Context!NoLive /\ step = "await" /\ round = Context!NoRound
        /\ pending = Context!Nothing /\ candidate = Context!Nothing /\ closed = FALSE
    BY DEF Context!Init
  <1>2. Context!NoRound \in Rounds /\ Context!NoRound.epoch = 0 /\ Context!NoRound.game = 0
    BY DEF Context!NoRound, Rounds
  <1>3. ContextTypes
    <2>1. live \in [sequence : Int, started : Int, finished : Nat, game : Nat]
      BY <1>1 DEF Context!NoLive
    <2>2. since \in [client : Nat, game : Nat] /\ since.client = 0 /\ since.game = 0
      BY <1>1
    <2>3. now \in Nat /\ client \in Nat \ {0} /\ game \in Nat \ {0}
      BY <1>1
    <2>4. since.client <= now /\ since.game <= now
      BY <1>1, <2>2
    <2>5. /\ pending \in Evidence \cup {Context!Nothing}
          /\ candidate \in [game : Nat, first : Evidence, second : Evidence] \cup {Context!Nothing}
      BY <1>1
    <2>6. round \in Rounds /\ closed \in BOOLEAN
      BY <1>1, <1>2
    <2> QED BY <1>1, <2>1, <2>2, <2>3, <2>4, <2>5, <2>6 DEF ContextTypes
  <1>4. RoundRule /\ PairRule
    BY <1>1, <1>2 DEF RoundRule, PairRule, Answered, Started, Context!NoRound
  <1> QED BY <1>3, <1>4 DEF ContextInvariant

\* Every step of the client, of the game, of the clock and of the collector.
LEMMA ContextKept ==
    ASSUME ContextInvariant, [Context!Next]_Context!vars
    PROVE  ContextInvariant'
  <1>1. CASE Context!CloseContext
    <2>1. /\ UNCHANGED <<Context!surroundings, step, round, candidate>> /\ closed' = TRUE
          /\ pending' = Context!Nothing /\ snapshot' = candidate
      BY <1>1 DEF Context!CloseContext, Context!collector
    <2>2. ContextTypes'
      BY <2>1 DEF ContextInvariant, ContextTypes, Context!surroundings
    <2>3. RoundRule' /\ PairRule'
      BY <2>1 DEF ContextInvariant, RoundRule, PairRule, Witnessed, Answered, Started,
                  Context!surroundings
    <2> QED BY <2>2, <2>3 DEF ContextInvariant
  <1>2. CASE UNCHANGED Context!vars
    BY <1>2 DEF Context!vars, Context!surroundings, Context!collector, Context!association,
                ContextInvariant, ContextTypes, RoundRule, PairRule, Witnessed, Answered, Started
  <1> QED BY <1>1, <1>2, SurroundingsKeep, CollectorRounds, ObserveKeeps DEF Context!Next

\* What a capture keeps was said twice by one client about one game.
LEMMA ContextIsOneGame ==
    ASSUME ContextInvariant
    PROVE  Context!ContextIsSound
  BY DEF ContextInvariant, PairRule, Witnessed, Answered, Context!ContextIsSound,
         Context!CandidateIsOneGame, Context!SnapshotIsFinal

-----------------------------------------------------------------------------
(* The acquisition of telemetry. *)

Attempts == [due : BOOLEAN, flight : Int, gap : Nat, stopped : BOOLEAN]

AcquisitionTypes ==
    /\ scope \in Nat /\ reset \in Nat \cup {-1}
    /\ slot \in [Acquisition!Endpoints -> Attempts]
    /\ rounds \in [stats : BOOLEAN, answer : {"none", "anonymous", "named"},
                   pending : {"none", "anonymous", "named"}]
    /\ given \in [owned : Nat, taken : BOOLEAN, told : [Acquisition!Endpoints -> Int]]
    /\ made \in [Acquisition!Endpoints -> Int]
    /\ shown \in [summary : Int, identity : Int]

\* The journal is in the epoch of the game clock, except behind a reset that is still
\* pending: then no request of the new epoch was made, the game statistics wait, and no
\* name that was heard can be presented.
EpochRule ==
    /\ \A x \in Acquisition!Endpoints : slot[x].flight \in -1 .. scope
    /\ reset = -1 => given.owned = scope
    /\ reset # -1 =>
          /\ scope = reset + 1
          /\ \/ given.owned = reset
             \/ given.owned = scope /\ stage \in {"lastRound", "flights", "ended"}
          /\ rounds.answer # "named" /\ rounds.pending # "named"
          /\ slot[GameStats].flight = -1
          /\ \A x \in Acquisition!Endpoints : slot[x].flight < scope

AcquisitionInvariant ==
    /\ AcquisitionTypes /\ EpochRule
    /\ Acquisition!WriterTakesEverything /\ Acquisition!PresentedIsCurrent
    /\ Acquisition!AttemptsAreAccountedFor

\* The rows of a batch that the writer takes in an epoch, as far as no reset is among them.
Row == [kind : Acquisition!Kinds, epoch : Int]
Plain(rows, e) ==
    /\ rows \in Seq(Row)
    /\ \A i \in 1 .. Len(rows) :
          /\ rows[i].kind \notin {"reset", "round"}
          /\ rows[i].kind \in Acquisition!ScopedKinds => rows[i].epoch = e

\* The rows of a batch with the reset that ends an epoch at a place of it.
Opens(rows, e, k) ==
    /\ rows \in Seq(Row) /\ k \in 1 .. Len(rows) /\ rows[k] = Acquisition!Record("reset", e + 1)
    /\ \A i \in 1 .. k - 1 :
          rows[i].kind \notin {"reset", "round"} /\ rows[i].kind \notin Acquisition!ScopedKinds
    /\ \A i \in k + 1 .. Len(rows) :
          /\ rows[i].kind \notin {"reset", "round"}
          /\ rows[i].kind \in Acquisition!ScopedKinds => rows[i].epoch = e + 1
Opening(rows, e) == \E k \in 1 .. Len(rows) : Opens(rows, e, k)

LEMMA RowsAreShort ==
    ASSUME NEW k \in Acquisition!Kinds, NEW e \in Int
    PROVE  /\ Acquisition!Record(k, e) \in Row
           /\ <<Acquisition!Record(k, e)>> \in Seq(Row)
           /\ Len(<<Acquisition!Record(k, e)>>) = 1
           /\ <<Acquisition!Record(k, e)>>[1] = Acquisition!Record(k, e)
           /\ Acquisition!Record(k, e).kind = k /\ Acquisition!Record(k, e).epoch = e
  <1>1. /\ Acquisition!Record(k, e) \in Row
        /\ Acquisition!Record(k, e).kind = k /\ Acquisition!Record(k, e).epoch = e
    BY DEF Acquisition!Record, Row
  <1> QED BY <1>1

LEMMA PlainOne ==
    ASSUME NEW k \in Acquisition!Kinds, NEW e \in Int, NEW f \in Int,
           k \notin {"reset", "round"}, k \in Acquisition!ScopedKinds => f = e
    PROVE  Plain(<<Acquisition!Record(k, f)>>, e)
  <1> DEFINE r == <<Acquisition!Record(k, f)>>
  <1>1. r \in Seq(Row) /\ Len(r) = 1 /\ r[1].kind = k /\ r[1].epoch = f
    BY RowsAreShort
  <1> HIDE DEF r
  <1>2. Plain(r, e)
    BY <1>1 DEF Plain
  <1> QED BY <1>2 DEF r

LEMMA PlainNone ==
    ASSUME NEW e \in Int
    PROVE  Plain(<<>>, e)
  BY DEF Plain

LEMMA PlainBoth ==
    ASSUME NEW e \in Int, NEW r, NEW s, Plain(r, e), Plain(s, e)
    PROVE  Plain(r \o s, e)
  <1>1. r \in Seq(Row) /\ s \in Seq(Row)
    BY DEF Plain
  <1>2. /\ r \o s \in Seq(Row) /\ Len(r \o s) = Len(r) + Len(s)
        /\ \A i \in 1 .. Len(r) + Len(s) :
              (r \o s)[i] = IF i <= Len(r) THEN r[i] ELSE s[i - Len(r)]
    BY <1>1, ConcatProperties
  <1>3. Len(r) \in Nat /\ Len(s) \in Nat
    BY <1>1
  <1>4. ASSUME NEW i \in 1 .. Len(r \o s)
        PROVE  \/ \E j \in 1 .. Len(r) : (r \o s)[i] = r[j]
               \/ \E j \in 1 .. Len(s) : (r \o s)[i] = s[j]
    <2>1. CASE i <= Len(r)
      BY <1>2, <1>3, <2>1
    <2>2. CASE ~(i <= Len(r))
      <3>1. i - Len(r) \in 1 .. Len(s)
        BY <1>2, <1>3, <2>2
      <3> QED BY <1>2, <1>3, <2>2, <3>1
    <2> QED BY <2>1, <2>2
  <1> QED BY <1>2, <1>4 DEF Plain

\* A reset goes first, behind the interval of what was refused.
LEMMA OpeningBehind ==
    ASSUME NEW e \in Int, NEW s, Plain(s, e + 1)
    PROVE  /\ Opening(<<Acquisition!Record("reset", e + 1)>> \o s, e)
           /\ \A f \in Int : Opening(<<Acquisition!Record("interval", f)>>
                                     \o (<<Acquisition!Record("reset", e + 1)>> \o s), e)
  <1> DEFINE a == <<Acquisition!Record("reset", e + 1)>>
             b == a \o s
  <1>0. "reset" \in Acquisition!Kinds /\ "interval" \in Acquisition!Kinds
        /\ "interval" \notin Acquisition!ScopedKinds
    BY DEF Acquisition!Kinds, Acquisition!ScopedKinds
  <1>1. a \in Seq(Row) /\ Len(a) = 1 /\ a[1] = Acquisition!Record("reset", e + 1)
    BY <1>0, RowsAreShort
  <1>2. s \in Seq(Row) /\ Len(s) \in Nat
    BY DEF Plain
  <1> HIDE DEF a
  <1>3. /\ b \in Seq(Row) /\ Len(b) = 1 + Len(s) /\ b[1] = a[1]
        /\ \A i \in 2 .. 1 + Len(s) : i - 1 \in 1 .. Len(s) /\ b[i] = s[i - 1]
    <2>1. /\ b \in Seq(Row) /\ Len(b) = Len(a) + Len(s)
          /\ \A i \in 1 .. Len(a) + Len(s) : b[i] = IF i <= Len(a) THEN a[i] ELSE s[i - Len(a)]
      BY <1>1, <1>2, ConcatProperties
    <2> HIDE DEF b
    <2> QED BY <1>1, <1>2, <2>1
  <1> HIDE DEF b
  <1>4. Opens(b, e, 1)
    BY <1>1, <1>2, <1>3 DEF Opens, Plain
  <1>5. ASSUME NEW f \in Int
        PROVE  Opening(<<Acquisition!Record("interval", f)>> \o b, e)
    <2> DEFINE c == <<Acquisition!Record("interval", f)>>
               d == c \o b
    <2>1. c \in Seq(Row) /\ Len(c) = 1 /\ c[1].kind = "interval"
      BY <1>0, RowsAreShort
    <2> HIDE DEF c
    <2>2. /\ d \in Seq(Row) /\ Len(d) = 1 + Len(b) /\ d[1] = c[1]
          /\ \A i \in 2 .. 1 + Len(b) : i - 1 \in 1 .. Len(b) /\ d[i] = b[i - 1]
      <3>1. /\ d \in Seq(Row) /\ Len(d) = Len(c) + Len(b)
            /\ \A i \in 1 .. Len(c) + Len(b) : d[i] = IF i <= Len(c) THEN c[i] ELSE b[i - Len(c)]
        <4>1. c \in Seq(Row) /\ b \in Seq(Row)
          BY <1>3, <2>1
        <4> HIDE DEF d
        <4>2. d = c \o b
          BY DEF d
        <4> QED BY <4>1, <4>2, ConcatProperties
      <3> HIDE DEF d
      <3> QED BY <1>2, <1>3, <2>1, <3>1
    <2> HIDE DEF d
    <2>3. d[2] = b[1] /\ 2 \in 1 .. Len(d)
      BY <1>2, <1>3, <2>2
    <2>4. \A i \in 3 .. Len(d) : i - 2 \in 1 .. Len(s) /\ d[i] = s[i - 2]
      <3> SUFFICES ASSUME NEW i \in 3 .. Len(d) PROVE i - 2 \in 1 .. Len(s) /\ d[i] = s[i - 2]
        OBVIOUS
      <3>1. i \in 2 .. 1 + Len(b) /\ i - 1 \in 2 .. 1 + Len(s) /\ (i - 1) - 1 = i - 2
        BY <1>2, <1>3, <2>2
      <3> QED BY <1>3, <2>2, <3>1
    <2>5. Opens(d, e, 2)
      BY <1>0, <1>1, <1>2, <1>3, <2>1, <2>2, <2>3, <2>4 DEF Opens, Plain
    <2> QED BY <2>3, <2>5 DEF Opening, d, c
  <1>6. Opening(b, e)
    <2>1. 1 \in 1 .. Len(b)
      BY <1>2, <1>3
    <2> QED BY <1>4, <2>1 DEF Opening
  <1> QED BY <1>5, <1>6 DEF a, b

Told(x, n) == [given.told EXCEPT ![x] = @ + n]

\* What the queue has taken of an epoch leaves the journal and what is presented in it.
LEMMA PlainAdmitted ==
    ASSUME AcquisitionTypes, given.taken, Acquisition!PresentedIsCurrent,
           NEW rows, Plain(rows, given.owned), NEW x, NEW n, NEW named \in BOOLEAN,
           Acquisition!Admit(rows, x, n, named)
    PROVE  /\ given' = [owned |-> given.owned, taken |-> TRUE, told |-> Told(x, n)]
           /\ shown' \in [summary : Int, identity : Int] /\ Acquisition!PresentedIsCurrent'
  <1> DEFINE owned == given.owned
  <1>0. /\ owned \in Nat /\ rows \in Seq(Row) /\ Len(rows) \in Nat /\ DOMAIN rows = 1 .. Len(rows)
        /\ shown \in [summary : Int, identity : Int] /\ Acquisition!NoOne = -2
    BY DEF AcquisitionTypes, Plain, Acquisition!NoOne
  <1>1. ASSUME NEW m \in Int, m <= Len(rows)
        PROVE  Acquisition!EpochAfter(owned, rows, m) = owned
    <2>1. {i \in 1 .. m : rows[i].kind = "reset"} = {}
      BY <1>0, <1>1 DEF Plain
    <2> QED BY <2>1 DEF Acquisition!EpochAfter
  <1>2. Acquisition!Follows(owned, rows)
    <2> SUFFICES ASSUME NEW i \in 1 .. Len(rows)
                 PROVE  /\ rows[i].kind # "reset"
                        /\ rows[i].kind \in Acquisition!ScopedKinds =>
                              rows[i].epoch = Acquisition!EpochAfter(owned, rows, i - 1)
      BY DEF Acquisition!Follows
    <2>1. Acquisition!EpochAfter(owned, rows, i - 1) = owned
      BY <1>0, <1>1
    <2> QED BY <2>1 DEF Plain
  <1>3. given' = [owned |-> owned, taken |-> TRUE, told |-> Told(x, n)]
    <2>1. Acquisition!EpochAfter(owned, rows, Len(rows)) = owned
      BY <1>0, <1>1
    <2> QED BY <1>2, <2>1 DEF Acquisition!Admit, Told
  <1>4. shown' \in [summary : Int, identity : Int]
        /\ shown'.summary \in {-2, owned} /\ shown'.identity \in {-2, owned}
    <2> DEFINE epochs(k) == {rows[i].epoch : i \in {j \in DOMAIN rows : rows[j].kind = k}}
               cleared == IF epochs("reset") # {}
                          THEN [summary |-> Acquisition!NoOne, identity |-> Acquisition!NoOne]
                          ELSE shown
    <2>1. epochs("reset") = {} /\ epochs("round") = {}
      BY <1>0 DEF Plain
    <2>2. \A e \in epochs("success") : e = owned
      BY <1>0 DEF Plain, Acquisition!ScopedKinds
    <2>3. shown' = [summary |-> IF x = GameStats /\ epochs("success") # {}
                                THEN CHOOSE e \in epochs("success") : TRUE ELSE cleared.summary,
                    identity |-> IF epochs("round") = {} THEN cleared.identity
                                 ELSE IF named THEN CHOOSE e \in epochs("round") : TRUE
                                 ELSE Acquisition!NoOne]
      BY DEF Acquisition!Admit, Acquisition!Presented
    <2>4. cleared = shown
      BY <2>1
    <2>5. epochs("success") # {} => (CHOOSE e \in epochs("success") : TRUE) = owned
      BY <2>2
    <2> HIDE DEF epochs, cleared
    <2>6. shown.summary \in {-2, owned} /\ shown.identity \in {-2, owned}
      BY <1>0 DEF Acquisition!PresentedIsCurrent
    <2>7. shown'.summary = (IF x = GameStats /\ epochs("success") # {} THEN owned
                            ELSE shown.summary)
          /\ shown'.identity = shown.identity
          /\ shown' = [summary |-> shown'.summary, identity |-> shown'.identity]
      BY <2>1, <2>3, <2>4, <2>5
    <2> QED BY <1>0, <2>6, <2>7
  <1>5. given'.owned = owned
    BY <1>3
  <1> HIDE DEF owned
  <1> QED BY <1>0, <1>3, <1>4, <1>5 DEF owned, Acquisition!PresentedIsCurrent, Acquisition!NoOne

\* A batch with a reset leads to the epoch after it, and nothing of the one before is presented.
LEMMA OpeningAdmitted ==
    ASSUME AcquisitionTypes, given.taken,
           NEW rows, Opening(rows, given.owned), NEW x, NEW n, NEW named \in BOOLEAN,
           Acquisition!Admit(rows, x, n, named)
    PROVE  /\ given' = [owned |-> given.owned + 1, taken |-> TRUE, told |-> Told(x, n)]
           /\ shown' \in [summary : Int, identity : Int] /\ Acquisition!PresentedIsCurrent'
  <1> DEFINE owned == given.owned
  <1>p. PICK k \in 1 .. Len(rows) : Opens(rows, owned, k)
    BY DEF Opening
  <1>0. /\ owned \in Nat /\ rows \in Seq(Row) /\ Len(rows) \in Nat /\ DOMAIN rows = 1 .. Len(rows)
        /\ k \in 1 .. Len(rows) /\ Acquisition!NoOne = -2
        /\ rows[k].kind = "reset" /\ rows[k].epoch = owned + 1
    BY <1>p DEF AcquisitionTypes, Opens, Acquisition!NoOne, Acquisition!Record
  <1>1. ASSUME NEW m \in 0 .. Len(rows)
        PROVE  Acquisition!EpochAfter(owned, rows, m) = IF m < k THEN owned ELSE owned + 1
    <2> DEFINE resets == {i \in 1 .. m : rows[i].kind = "reset"}
    <2>1. Acquisition!EpochAfter(owned, rows, m) =
             IF resets = {} THEN owned
             ELSE rows[CHOOSE i \in resets : \A j \in resets : j <= i].epoch
      BY DEF Acquisition!EpochAfter
    <2>2. CASE m < k
      <3>1. resets = {}
        BY <1>p, <1>0, <2>2 DEF Opens
      <3> QED BY <2>1, <2>2, <3>1
    <2>3. CASE ~(m < k)
      <3>1. resets = {k}
        <4>1. k \in resets
          BY <1>0, <2>3
        <4>2. \A i \in resets : i = k
          BY <1>p, <1>0 DEF Opens
        <4> QED BY <4>1, <4>2
      <3>2. (CHOOSE i \in resets : \A j \in resets : j <= i) = k
        BY <1>0, <3>1
      <3> HIDE DEF resets
      <3> QED BY <1>0, <2>1, <2>3, <3>1, <3>2
    <2> QED BY <2>2, <2>3
  <1>2. Acquisition!Follows(owned, rows)
    <2> SUFFICES ASSUME NEW i \in 1 .. Len(rows)
                 PROVE  LET epoch == Acquisition!EpochAfter(owned, rows, i - 1) IN
                        /\ rows[i].kind = "reset" => rows[i].epoch = epoch + 1
                        /\ rows[i].kind \in Acquisition!ScopedKinds => rows[i].epoch = epoch
      BY DEF Acquisition!Follows
    <2>1. Acquisition!EpochAfter(owned, rows, i - 1) = IF i - 1 < k THEN owned ELSE owned + 1
      <3>1. i - 1 \in 0 .. Len(rows)
        BY <1>0
      <3> QED BY <1>1, <3>1
    <2>2. "reset" \notin Acquisition!ScopedKinds
      BY DEF Acquisition!ScopedKinds
    <2>3. CASE i < k
      <3>1. i \in 1 .. k - 1
        BY <1>0, <2>3
      <3> QED BY <1>p, <3>1 DEF Opens
    <2>4. CASE i = k
      BY <1>0, <2>1, <2>2, <2>4
    <2>5. CASE i > k
      <3>1. i \in k + 1 .. Len(rows)
        BY <1>0, <2>5
      <3> QED BY <1>p, <1>0, <2>1, <2>5, <3>1 DEF Opens
    <2> QED BY <1>0, <2>3, <2>4, <2>5
  <1>3. given' = [owned |-> owned + 1, taken |-> TRUE, told |-> Told(x, n)]
    <2>1. Acquisition!EpochAfter(owned, rows, Len(rows)) = owned + 1
      <3>1. Len(rows) \in 0 .. Len(rows) /\ ~(Len(rows) < k)
        BY <1>0
      <3> QED BY <1>1, <3>1
    <2> QED BY <1>2, <2>1 DEF Acquisition!Admit, Told
  <1>4. shown' \in [summary : Int, identity : Int]
        /\ shown'.summary \in {-2, owned + 1} /\ shown'.identity \in {-2, owned + 1}
    <2> DEFINE epochs(j) == {rows[i].epoch : i \in {l \in DOMAIN rows : rows[l].kind = j}}
               cleared == IF epochs("reset") # {}
                          THEN [summary |-> Acquisition!NoOne, identity |-> Acquisition!NoOne]
                          ELSE shown
    <2>1. epochs("reset") # {} /\ epochs("round") = {}
      <3>1. \A i \in 1 .. Len(rows) : rows[i].kind # "round"
        BY <1>p, <1>0 DEF Opens
      <3> QED BY <1>0, <3>1
    <2>2. \A e \in epochs("success") : e = owned + 1
      <3> SUFFICES ASSUME NEW i \in 1 .. Len(rows), rows[i].kind = "success"
                   PROVE  rows[i].epoch = owned + 1
        BY <1>0
      <3>1. ~(i < k) /\ i # k
        BY <1>p, <1>0 DEF Opens, Acquisition!ScopedKinds
      <3>2. i \in k + 1 .. Len(rows)
        BY <1>0, <3>1
      <3> QED BY <1>p, <3>2 DEF Opens, Acquisition!ScopedKinds
    <2>3. shown' = [summary |-> IF x = GameStats /\ epochs("success") # {}
                                THEN CHOOSE e \in epochs("success") : TRUE ELSE cleared.summary,
                    identity |-> IF epochs("round") = {} THEN cleared.identity
                                 ELSE IF named THEN CHOOSE e \in epochs("round") : TRUE
                                 ELSE Acquisition!NoOne]
      BY DEF Acquisition!Admit, Acquisition!Presented
    <2>4. cleared.summary = -2 /\ cleared.identity = -2
      BY <1>0, <2>1
    <2>5. epochs("success") # {} => (CHOOSE e \in epochs("success") : TRUE) = owned + 1
      BY <2>2
    <2> HIDE DEF epochs, cleared
    <2>7. shown' = [summary |-> IF x = GameStats /\ epochs("success") # {} THEN owned + 1 ELSE -2,
                    identity |-> -2]
      BY <2>1, <2>3, <2>4, <2>5
    <2> QED BY <1>0, <2>7
  <1>5. given'.owned = owned + 1
    BY <1>3
  <1> HIDE DEF owned
  <1> QED BY <1>0, <1>3, <1>4, <1>5 DEF owned, Acquisition!PresentedIsCurrent, Acquisition!NoOne

\* A round of answers is presented in the epoch that it names, and changes none.
LEMMA RoundAdmitted ==
    ASSUME AcquisitionTypes, given.taken, Acquisition!PresentedIsCurrent,
           NEW e \in Int, NEW x, NEW n, NEW named \in BOOLEAN, named => e = given.owned,
           Acquisition!Admit(<<Acquisition!Record("round", e)>>, x, n, named)
    PROVE  /\ given' = [owned |-> given.owned, taken |-> TRUE, told |-> Told(x, n)]
           /\ shown' \in [summary : Int, identity : Int] /\ Acquisition!PresentedIsCurrent'
  <1> DEFINE owned == given.owned
             rows == <<Acquisition!Record("round", e)>>
  <1>0. /\ owned \in Nat /\ Len(rows) = 1 /\ DOMAIN rows = 1 .. 1
        /\ rows[1].kind = "round" /\ rows[1].epoch = e
        /\ shown \in [summary : Int, identity : Int] /\ Acquisition!NoOne = -2
    BY DEF AcquisitionTypes, Acquisition!Record, Acquisition!NoOne
  <1>a. Acquisition!Admit(rows, x, n, named)
    OBVIOUS
  <1> HIDE DEF rows
  <1>1. ASSUME NEW m \in 0 .. 1
        PROVE  Acquisition!EpochAfter(owned, rows, m) = owned
    <2>1. {i \in 1 .. m : rows[i].kind = "reset"} = {}
      BY <1>0
    <2> QED BY <2>1 DEF Acquisition!EpochAfter
  <1>2. Acquisition!Follows(owned, rows)
    BY <1>0 DEF Acquisition!Follows, Acquisition!ScopedKinds
  <1>3. given' = [owned |-> owned, taken |-> TRUE, told |-> Told(x, n)]
    <2>1. Acquisition!EpochAfter(owned, rows, Len(rows)) = owned
      BY <1>0, <1>1
    <2> QED BY <1>a, <1>2, <2>1 DEF Acquisition!Admit, Told
  <1>4. shown' \in [summary : Int, identity : Int]
        /\ shown'.summary \in {-2, owned} /\ shown'.identity \in {-2, owned}
    <2> DEFINE epochs(k) == {rows[i].epoch : i \in {j \in DOMAIN rows : rows[j].kind = k}}
               cleared == IF epochs("reset") # {}
                          THEN [summary |-> Acquisition!NoOne, identity |-> Acquisition!NoOne]
                          ELSE shown
    <2>1. epochs("reset") = {} /\ epochs("success") = {} /\ epochs("round") = {e}
      BY <1>0
    <2>3. shown' = [summary |-> IF x = GameStats /\ epochs("success") # {}
                                THEN CHOOSE f \in epochs("success") : TRUE ELSE cleared.summary,
                    identity |-> IF epochs("round") = {} THEN cleared.identity
                                 ELSE IF named THEN CHOOSE f \in epochs("round") : TRUE
                                 ELSE Acquisition!NoOne]
      BY <1>a DEF Acquisition!Admit, Acquisition!Presented
    <2>4. cleared = shown
      BY <2>1
    <2>5. (CHOOSE f \in epochs("round") : TRUE) = e
      BY <2>1
    <2> HIDE DEF epochs, cleared
    <2>6. shown.summary \in {-2, owned} /\ shown.identity \in {-2, owned}
      BY <1>0 DEF Acquisition!PresentedIsCurrent
    <2>7. shown' = [summary |-> shown.summary, identity |-> IF named THEN e ELSE -2]
      BY <1>0, <2>1, <2>3, <2>4, <2>5
    <2> QED BY <1>0, <2>6, <2>7
  <1>5. given'.owned = owned
    BY <1>3
  <1> HIDE DEF owned
  <1> QED BY <1>0, <1>3, <1>4, <1>5 DEF owned, Acquisition!PresentedIsCurrent, Acquisition!NoOne

\* The rows of an attempt: they stay in the epoch of the journal or begin with the reset
\* that ends it.
Leads(rows, e) ==
    \/ Plain(rows, given.owned) /\ e = given.owned
    \/ /\ e = given.owned + 1
       /\ \E t : Plain(t, e) /\ rows = <<Acquisition!Record("reset", e)>> \o t

Interval == <<Acquisition!Record("interval", scope)>>

LEMMA IntervalIsPlain ==
    ASSUME AcquisitionTypes
    PROVE  Plain(Interval, given.owned)
  <1>1. "interval" \in Acquisition!Kinds /\ "interval" \notin Acquisition!ScopedKinds
    BY DEF Acquisition!Kinds, Acquisition!ScopedKinds
  <1>2. scope \in Int /\ given.owned \in Int
    BY DEF AcquisitionTypes
  <1> QED BY <1>1, <1>2, PlainOne DEF Interval

LEMMA LeadsAdmitted ==
    ASSUME AcquisitionTypes, given.taken, Acquisition!PresentedIsCurrent,
           NEW rows, NEW e, Leads(rows, e), NEW x, NEW n, NEW all, all \in {rows, Interval \o rows},
           Acquisition!Admit(all, x, n, FALSE)
    PROVE  /\ given' = [owned |-> e, taken |-> TRUE, told |-> Told(x, n)]
           /\ shown' \in [summary : Int, identity : Int] /\ Acquisition!PresentedIsCurrent'
  <1>0. given.owned \in Int /\ given.owned + 1 \in Int /\ scope \in Int
    BY DEF AcquisitionTypes
  <1>1. CASE Plain(rows, given.owned) /\ e = given.owned
    <2>1. Plain(all, given.owned)
      <3>1. Plain(Interval \o rows, given.owned)
        BY <1>0, <1>1, IntervalIsPlain, PlainBoth
      <3> QED BY <1>1, <3>1
    <2> QED BY <1>1, <2>1, PlainAdmitted
  <1>2. CASE /\ e = given.owned + 1
             /\ \E t : Plain(t, e) /\ rows = <<Acquisition!Record("reset", e)>> \o t
    <2>1. PICK t : Plain(t, e) /\ rows = <<Acquisition!Record("reset", e)>> \o t
      BY <1>2
    <2>2. Opening(<<Acquisition!Record("reset", given.owned + 1)>> \o t, given.owned)
          /\ Opening(Interval \o (<<Acquisition!Record("reset", given.owned + 1)>> \o t), given.owned)
      BY <1>0, <1>2, <2>1, OpeningBehind DEF Interval
    <2>3. Opening(all, given.owned)
      BY <1>2, <2>1, <2>2
    <2> QED BY <1>2, <2>3, OpeningAdmitted
  <1> QED BY <1>1, <1>2 DEF Leads

\* Attempts of an endpoint are told, or counted with those that are told later.
BatchIsTold(x, s, e, n) ==
    \E g \in Nat : /\ slot' = [slot EXCEPT ![x] = [s EXCEPT !.gap = g]]
                   /\ given' = [owned |-> e, taken |-> TRUE, told |-> Told(x, s.gap + n - g)]

LEMMA RecordBatchTells ==
    ASSUME AcquisitionTypes, given.taken, Acquisition!PresentedIsCurrent,
           NEW rows, NEW e, Leads(rows, e), NEW x \in Acquisition!Endpoints, NEW s \in Attempts,
           NEW accepted \in BOOLEAN, Acquisition!RecordBatch(x, rows, s, accepted)
    PROVE  /\ BatchIsTold(x, s, IF accepted THEN e ELSE given.owned, 1)
           /\ shown' \in [summary : Int, identity : Int] /\ Acquisition!PresentedIsCurrent'
  <1>0. /\ s.gap \in Nat
        /\ given \in [owned : Nat, taken : BOOLEAN, told : [Acquisition!Endpoints -> Int]]
        /\ shown \in [summary : Int, identity : Int]
    BY DEF Attempts, AcquisitionTypes
  <1>1. CASE /\ accepted
             /\ IF s.gap > 0 THEN Acquisition!Admit(Interval \o rows, x, s.gap + 1, FALSE)
                ELSE Acquisition!Admit(rows, x, 1, FALSE)
             /\ slot' = [slot EXCEPT ![x] = [s EXCEPT !.gap = 0]]
    <2> DEFINE n == IF s.gap > 0 THEN s.gap + 1 ELSE 1
    <2>1. n = s.gap + 1 - 0
      BY <1>0
    <2>2. /\ given' = [owned |-> e, taken |-> TRUE, told |-> Told(x, n)]
          /\ shown' \in [summary : Int, identity : Int] /\ Acquisition!PresentedIsCurrent'
      <3>1. CASE s.gap > 0
        BY <1>1, <3>1, LeadsAdmitted
      <3>2. CASE ~(s.gap > 0)
        BY <1>1, <3>2, LeadsAdmitted
      <3> QED BY <3>1, <3>2
    <2> QED BY <1>1, <2>1, <2>2 DEF BatchIsTold
  <1>2. CASE /\ ~accepted /\ UNCHANGED <<given, shown>>
             /\ slot' = [slot EXCEPT ![x] = [s EXCEPT !.gap = s.gap + 1]]
    <2>1. s.gap + 1 \in Nat /\ s.gap + 1 - (s.gap + 1) = 0
      BY <1>0
    <2>2. Told(x, 0) = given.told
      BY <1>0 DEF Told
    <2>3. given' = [owned |-> given.owned, taken |-> TRUE, told |-> Told(x, 0)]
      BY <1>0, <1>2, <2>2
    <2>4. BatchIsTold(x, s, given.owned, 1)
      BY <1>2, <2>1, <2>3 DEF BatchIsTold
    <2>5. shown' \in [summary : Int, identity : Int] /\ Acquisition!PresentedIsCurrent'
      BY <1>0, <1>2 DEF Acquisition!PresentedIsCurrent
    <2> QED BY <1>2, <2>4, <2>5
  <1>3. CASE /\ ~accepted /\ Acquisition!Admit(Interval, x, s.gap, FALSE)
             /\ slot' = [slot EXCEPT ![x] = [s EXCEPT !.gap = 1]]
    <2>1. 1 \in Nat /\ s.gap + 1 - 1 = s.gap
      BY <1>0
    <2>2. /\ given' = [owned |-> given.owned, taken |-> TRUE, told |-> Told(x, s.gap)]
          /\ shown' \in [summary : Int, identity : Int] /\ Acquisition!PresentedIsCurrent'
      BY <1>3, IntervalIsPlain, PlainAdmitted
    <2>3. BatchIsTold(x, s, given.owned, 1)
      BY <1>3, <2>1, <2>2 DEF BatchIsTold
    <2> QED BY <1>3, <2>2, <2>3
  <1> QED BY <1>1, <1>2, <1>3 DEF Acquisition!RecordBatch, Acquisition!Refuse, Interval

InFlight(s) == IF s.flight = -1 THEN 0 ELSE 1

\* What is told of an endpoint keeps the account of its attempts.
LEMMA TellingKeeps ==
    ASSUME AcquisitionTypes, Acquisition!AttemptsAreAccountedFor,
           NEW x \in Acquisition!Endpoints, NEW s \in Attempts, s.gap = slot[x].gap,
           NEW e \in Nat, NEW n \in Int, BatchIsTold(x, s, e, n),
           made' \in [Acquisition!Endpoints -> Int],
           \A y \in Acquisition!Endpoints \ {x} : made'[y] = made[y],
           made'[x] + InFlight(slot[x]) = made[x] + n + InFlight(s)
    PROVE  /\ given' \in [owned : Nat, taken : BOOLEAN, told : [Acquisition!Endpoints -> Int]]
           /\ given'.owned = e /\ given'.taken
           /\ slot' \in [Acquisition!Endpoints -> Attempts] /\ slot'[x].flight = s.flight
           /\ \A y \in Acquisition!Endpoints \ {x} : slot'[y] = slot[y]
           /\ Acquisition!AttemptsAreAccountedFor'
  <1>1. PICK g \in Nat : /\ slot' = [slot EXCEPT ![x] = [s EXCEPT !.gap = g]]
                         /\ given' = [owned |-> e, taken |-> TRUE, told |-> Told(x, s.gap + n - g)]
    BY DEF BatchIsTold
  <1>0. /\ slot \in [Acquisition!Endpoints -> Attempts] /\ made \in [Acquisition!Endpoints -> Int]
        /\ given.told \in [Acquisition!Endpoints -> Int]
        /\ s.gap \in Nat /\ slot[x].gap \in Nat
    BY DEF AcquisitionTypes, Attempts
  <1> DEFINE t == [s EXCEPT !.gap = g]
  <1>2. t \in Attempts /\ t.gap = g /\ t.flight = s.flight
    BY DEF Attempts
  <1> HIDE DEF t
  <1>3. slot' = [slot EXCEPT ![x] = t]
    BY <1>1 DEF t
  <1>4. /\ slot' \in [Acquisition!Endpoints -> Attempts] /\ slot'[x] = t
        /\ \A y \in Acquisition!Endpoints \ {x} : slot'[y] = slot[y]
    BY <1>0, <1>2, <1>3
  <1>5. /\ Told(x, s.gap + n - g) \in [Acquisition!Endpoints -> Int]
        /\ Told(x, s.gap + n - g)[x] = given.told[x] + (s.gap + n - g)
        /\ \A y \in Acquisition!Endpoints \ {x} : Told(x, s.gap + n - g)[y] = given.told[y]
    BY <1>0, <1>1 DEF Told
  <1>6. /\ given' \in [owned : Nat, taken : BOOLEAN, told : [Acquisition!Endpoints -> Int]]
        /\ given'.owned = e /\ given'.taken /\ given'.told = Told(x, s.gap + n - g)
    BY <1>1, <1>5
  <1>7. ASSUME NEW y \in Acquisition!Endpoints
        PROVE  made'[y] = given'.told[y] + slot'[y].gap
                          + (IF slot'[y].flight = -1 THEN 0 ELSE 1)
    <2>1. made[y] = given.told[y] + slot[y].gap + InFlight(slot[y])
      BY DEF Acquisition!AttemptsAreAccountedFor, Acquisition!None, InFlight
    <2>2. CASE y = x
      <3>1. InFlight(s) = (IF slot'[y].flight = -1 THEN 0 ELSE 1)
        BY <1>2, <1>4, <2>2 DEF InFlight
      <3>2. InFlight(s) \in Int /\ InFlight(slot[x]) \in Int
        BY DEF InFlight
      <3>3. /\ made[x] \in Int /\ made'[x] \in Int /\ given.told[x] \in Int /\ g \in Int
            /\ slot'[x].gap = g /\ given'.told[x] = given.told[x] + (slot[x].gap + n - g)
        BY <1>0, <1>1, <1>2, <1>4, <1>5, <1>6
      <3> QED BY <1>0, <2>1, <2>2, <3>1, <3>2, <3>3
    <2>3. CASE y # x
      <3>1. slot'[y] = slot[y] /\ given'.told[y] = given.told[y] /\ made'[y] = made[y]
        BY <1>4, <1>5, <1>6, <2>3
      <3> QED BY <2>1, <3>1 DEF InFlight
    <2> QED BY <2>2, <2>3
  <1>8. Acquisition!AttemptsAreAccountedFor'
    BY <1>7 DEF Acquisition!AttemptsAreAccountedFor, Acquisition!None
  <1> QED BY <1>2, <1>4, <1>6, <1>8

LEMMA AnsweredAttempt ==
    ASSUME NEW s \in Attempts, NEW t, t = [s EXCEPT !.flight = -1, !.due = FALSE]
    PROVE  t \in Attempts /\ t.gap = s.gap /\ t.flight = -1
  <1> DEFINE u == [s EXCEPT !.flight = -1]
             v == [u EXCEPT !.due = FALSE]
  <1>1. u \in Attempts /\ u.gap = s.gap /\ u.flight = -1
    BY DEF Attempts
  <1>2. t = v
    OBVIOUS
  <1> HIDE DEF u
  <1>3. v \in Attempts /\ v.gap = u.gap /\ v.flight = u.flight
    BY <1>1 DEF Attempts
  <1> HIDE DEF v
  <1> QED BY <1>1, <1>2, <1>3

Heard(r) == r.answer # "named" /\ r.pending # "named"

\* An answer is taken behind the reset that is pending or that it asks for itself.
LEMMA TellKeeps ==
    ASSUME AcquisitionInvariant, NEW x \in Acquisition!Endpoints, Acquisition!Answered(x),
           NEW r, NEW rows, NEW accepted \in BOOLEAN, Acquisition!Tell(x, r, rows, accepted),
           Plain(rows, scope'), UNCHANGED made,
           \/ r = reset /\ scope' = scope
           \/ r = scope /\ reset = -1 /\ scope' = scope + 1 /\ x = GameStats,
           rounds' \in [stats : BOOLEAN, answer : {"none", "anonymous", "named"},
                        pending : {"none", "anonymous", "named"}],
           r # -1 => Heard(rounds')
    PROVE  AcquisitionInvariant'
  <1>0. /\ AcquisitionTypes /\ EpochRule /\ given.taken /\ Acquisition!PresentedIsCurrent
        /\ Acquisition!AttemptsAreAccountedFor
    BY DEF AcquisitionInvariant, Acquisition!WriterTakesEverything
  <1>1. /\ scope \in Nat /\ reset \in Nat \cup {-1} /\ given.owned \in Nat
        /\ slot \in [Acquisition!Endpoints -> Attempts] /\ slot[x] \in Attempts
        /\ made \in [Acquisition!Endpoints -> Int]
        /\ stage = "select" /\ slot[x].flight # -1
    BY <1>0 DEF AcquisitionTypes, Acquisition!Answered, Acquisition!None
  <1>2. /\ reset = -1 => given.owned = scope
        /\ reset # -1 => scope = reset + 1 /\ given.owned = reset
    BY <1>0, <1>1 DEF EpochRule
  <1>3. /\ scope' \in Nat
        /\ r = -1 => given.owned = scope'
        /\ r # -1 => r = given.owned /\ scope' = r + 1
    BY <1>1, <1>2
  <1> DEFINE leading == IF r = -1 THEN <<>> ELSE <<Acquisition!Record("reset", r + 1)>>
             s == [slot[x] EXCEPT !.flight = -1, !.due = FALSE]
  <1>4. Acquisition!RecordBatch(x, leading \o rows, s, accepted)
        /\ reset' = (IF accepted THEN -1 ELSE r) /\ stage' = "reset"
    BY DEF Acquisition!Tell, Acquisition!None
  <1>5. Leads(leading \o rows, scope')
    <2>1. CASE r = -1
      <3>1. leading \o rows = rows
        BY <2>1 DEF Plain
      <3> QED BY <1>3, <2>1, <3>1 DEF Leads
    <2>2. CASE r # -1
      BY <1>3, <2>2 DEF Leads
    <2> QED BY <2>1, <2>2
  <1>6. s \in Attempts /\ s.gap = slot[x].gap /\ s.flight = -1
    <2> DEFINE q == slot[x]
    <2>1. q \in Attempts /\ s = [q EXCEPT !.flight = -1, !.due = FALSE]
      BY <1>1
    <2> HIDE DEF q, s
    <2>2. s \in Attempts /\ s.gap = q.gap /\ s.flight = -1
      BY <2>1, AnsweredAttempt, Zenon
    <2> QED BY <2>2 DEF q
  <1> HIDE DEF leading, s
  <1> DEFINE e == IF accepted THEN scope' ELSE given.owned
  <1>7. /\ BatchIsTold(x, s, e, 1)
        /\ shown' \in [summary : Int, identity : Int] /\ Acquisition!PresentedIsCurrent'
    BY <1>0, <1>4, <1>5, <1>6, RecordBatchTells
  <1>8. e \in Nat
    BY <1>1, <1>3
  <1>9. made'[x] + InFlight(slot[x]) = made[x] + 1 + InFlight(s)
    BY <1>1, <1>6 DEF InFlight
  <1> HIDE DEF e
  <1>10. /\ given' \in [owned : Nat, taken : BOOLEAN, told : [Acquisition!Endpoints -> Int]]
         /\ given'.owned = e /\ given'.taken
         /\ slot' \in [Acquisition!Endpoints -> Attempts] /\ slot'[x].flight = -1
         /\ \A y \in Acquisition!Endpoints \ {x} : slot'[y] = slot[y]
         /\ Acquisition!AttemptsAreAccountedFor'
    BY <1>0, <1>1, <1>6, <1>7, <1>8, <1>9, TellingKeeps
  <1>11. AcquisitionTypes'
    BY <1>1, <1>3, <1>4, <1>7, <1>10 DEF AcquisitionTypes
  <1>12. ASSUME NEW y \in Acquisition!Endpoints
         PROVE  /\ slot'[y].flight \in -1 .. scope'
                /\ reset' # -1 => slot'[y].flight < scope'
    <2>1. slot[y].flight \in -1 .. scope /\ (reset # -1 => slot[y].flight < scope)
      BY <1>0 DEF EpochRule
    <2>2. slot'[y].flight = -1 \/ slot'[y] = slot[y]
      BY <1>10
    <2> QED BY <1>1, <1>3, <1>4, <2>1, <2>2
  <1>13. reset' = -1 => given'.owned = scope'
    BY <1>3, <1>4, <1>10 DEF e
  <1>14. ASSUME reset' # -1
         PROVE  /\ scope' = reset' + 1 /\ given'.owned = reset'
                /\ rounds'.answer # "named" /\ rounds'.pending # "named"
                /\ slot'[GameStats].flight = -1
    <2>1. ~accepted /\ reset' = r /\ r # -1
      BY <1>4, <1>14
    <2>2. scope' = reset' + 1 /\ given'.owned = reset'
      BY <1>3, <1>10, <2>1 DEF e
    <2>3. slot'[GameStats].flight = -1
      <3>1. CASE x = GameStats
        BY <1>10, <3>1
      <3>2. CASE x # GameStats
        <4>1. r = reset /\ reset # -1
          BY <2>1, <3>2
        <4>2. slot[GameStats].flight = -1
          BY <1>0, <4>1 DEF EpochRule
        <4>3. GameStats \in Acquisition!Endpoints
          BY DEF Acquisition!Endpoints, Acquisition!Range, Order
        <4> QED BY <1>10, <3>2, <4>2, <4>3
      <3> QED BY <3>1, <3>2
    <2> QED BY <2>1, <2>2, <2>3 DEF Heard
  <1>15. EpochRule'
    BY <1>12, <1>13, <1>14 DEF EpochRule
  <1> QED BY <1>7, <1>10, <1>11, <1>15 DEF AcquisitionInvariant, Acquisition!WriterTakesEverything

Rounds3 == [stats : BOOLEAN, answer : {"none", "anonymous", "named"},
            pending : {"none", "anonymous", "named"}]

\* A request of the epoch of the game clock was made after the reset that began it.
LEMMA NoResetPends ==
    ASSUME AcquisitionInvariant, NEW x \in Acquisition!Endpoints, slot[x].flight # -1,
           x = GameStats \/ slot[x].flight = scope
    PROVE  reset = -1
  BY DEF AcquisitionInvariant, AcquisitionTypes, EpochRule

LEMMA StatsAnswerKeeps ==
    ASSUME AcquisitionInvariant, NEW tick, NEW agrees, NEW accepted \in BOOLEAN,
           Acquisition!StatsAnswer(tick, agrees, accepted)
    PROVE  AcquisitionInvariant'
  <1> DEFINE backwards == clock.tick # Acquisition!None /\ tick < clock.tick
             epoch == IF backwards THEN scope + 1 ELSE scope
             next == Acquisition!Sampled(clock, tick, agrees)
             invalidated == clock.calibrated /\ tick = clock.tick
             calibrates == next.calibrated /\ ~clock.calibrated
             lost == IF invalidated THEN <<Acquisition!Record("invalidated", epoch)>> ELSE <<>>
             new == IF calibrates THEN <<Acquisition!Record("calibration", epoch)>> ELSE <<>>
             rows == <<Acquisition!Record("success", epoch)>> \o lost \o new
             known == IF backwards THEN [stats |-> FALSE, answer |-> "none", pending |-> "none"]
                      ELSE rounds
             r == IF backwards THEN scope ELSE reset
  <1>1. /\ Acquisition!Answered(GameStats) /\ scope' = epoch
        /\ Acquisition!Tell(GameStats, r, rows, accepted)
        /\ rounds' = [known EXCEPT !.stats = known.stats \/ accepted]
        /\ UNCHANGED made
    BY DEF Acquisition!StatsAnswer
  <1> HIDE DEF backwards, next, invalidated, calibrates
  <1>2. GameStats \in Acquisition!Endpoints
    BY DEF Acquisition!Endpoints, Acquisition!Range, Order
  <1>3. slot[GameStats].flight # -1
    BY <1>1 DEF Acquisition!Answered, Acquisition!None
  <1>4. reset = -1
    BY <1>2, <1>3, NoResetPends
  <1>5. scope \in Nat /\ rounds \in Rounds3
    BY DEF AcquisitionInvariant, AcquisitionTypes, Rounds3
  <1>6. epoch \in Int
    BY <1>5
  <1>7. Plain(rows, epoch)
    <2>1. {"success", "invalidated", "calibration"} \subseteq Acquisition!Kinds
      BY DEF Acquisition!Kinds
    <2> HIDE DEF epoch
    <2>2. Plain(<<Acquisition!Record("success", epoch)>>, epoch) /\ Plain(lost, epoch) /\ Plain(new, epoch)
      <3>1. /\ Plain(<<Acquisition!Record("success", epoch)>>, epoch)
            /\ Plain(<<Acquisition!Record("invalidated", epoch)>>, epoch)
            /\ Plain(<<Acquisition!Record("calibration", epoch)>>, epoch)
        BY <1>6, <2>1, PlainOne
      <3>2. Plain(<<>>, epoch)
        BY <1>6, PlainNone
      <3> QED BY <3>1, <3>2
    <2> HIDE DEF lost, new
    <2> QED BY <1>6, <2>2, PlainBoth
  <1>8. known \in Rounds3 /\ (backwards => Heard(known))
    BY <1>5 DEF Rounds3, Heard
  <1> HIDE DEF known, rows
  <1>9. rounds' \in Rounds3 /\ (backwards => Heard(rounds'))
    BY <1>1, <1>8 DEF Rounds3, Heard
  <1>10. \/ r = reset /\ scope' = scope
         \/ r = scope /\ reset = -1 /\ scope' = scope + 1
    BY <1>1, <1>4
  <1>11. r # -1 => Heard(rounds')
    BY <1>4, <1>9
  <1>12. Plain(rows, scope')
    BY <1>1, <1>7
  <1> HIDE DEF r, epoch
  <1> QED BY <1>1, <1>2, <1>9, <1>10, <1>11, <1>12, TellKeeps DEF Rounds3

LEMMA AnswerKeeps ==
    ASSUME AcquisitionInvariant, Acquisition!Answer
    PROVE  AcquisitionInvariant'
  <1>0. /\ scope \in Nat /\ rounds \in Rounds3 /\ GameStats \in Acquisition!Endpoints
        /\ slot \in [Acquisition!Endpoints -> Attempts]
        /\ reset # -1 => Heard(rounds)
        /\ {"success", "gap", "local"} \subseteq Acquisition!Kinds
    BY DEF AcquisitionInvariant, AcquisitionTypes, EpochRule, Rounds3, Heard,
           Acquisition!Endpoints, Acquisition!Range, Order, Acquisition!Kinds
  <1>1. PICK accepted \in BOOLEAN :
            \/ \E tick \in 0 .. MaxTick, agrees \in BOOLEAN :
                  Acquisition!StatsAnswer(tick, agrees, accepted)
            \/ Acquisition!UntimedAnswer(accepted)
            \/ \E answer \in {"anonymous", "named"} : Acquisition!PlayerAnswer(answer, accepted)
            \/ \E x \in Acquisition!Endpoints, same \in BOOLEAN :
                  Acquisition!OtherAnswer(x, same, accepted)
            \/ \E x \in Acquisition!Endpoints : Acquisition!FailedAnswer(x, accepted)
    BY DEF Acquisition!Answer
  <1>2. Plain(<<Acquisition!Record("success", scope)>>, scope)
    BY <1>0, PlainOne
  <1>3. ASSUME NEW x \in Acquisition!Endpoints, Acquisition!Answered(x)
        PROVE  slot[x].flight # -1
    BY <1>3 DEF Acquisition!Answered, Acquisition!None
  <1>4. CASE \E tick \in 0 .. MaxTick, agrees \in BOOLEAN :
                Acquisition!StatsAnswer(tick, agrees, accepted)
    BY <1>4, StatsAnswerKeeps
  <1>5. CASE Acquisition!UntimedAnswer(accepted)
    <2>1. /\ Acquisition!Answered(GameStats)
          /\ Acquisition!Tell(GameStats, reset, <<Acquisition!Record("success", scope)>>, accepted)
          /\ rounds' = [rounds EXCEPT !.stats = rounds.stats \/ accepted]
          /\ UNCHANGED <<scope, made>>
      BY <1>5 DEF Acquisition!UntimedAnswer
    <2>2. reset = -1
      BY <1>0, <1>3, <2>1, NoResetPends
    <2>3. rounds' \in Rounds3
      BY <1>0, <2>1 DEF Rounds3
    <2> QED BY <1>0, <1>2, <2>1, <2>2, <2>3, TellKeeps DEF Rounds3
  <1>6. CASE \E answer \in {"anonymous", "named"} : Acquisition!PlayerAnswer(answer, accepted)
    <2>0. ActivePlayer \in Acquisition!Endpoints
      BY DEF Acquisition!Endpoints, Acquisition!Range, Order
    <2>1. PICK answer \in {"anonymous", "named"} : Acquisition!PlayerAnswer(answer, accepted)
      BY <1>6
    <2>2. /\ Acquisition!Answered(ActivePlayer) /\ slot[ActivePlayer].flight = scope
          /\ Acquisition!Tell(ActivePlayer, reset, <<Acquisition!Record("success", scope)>>, accepted)
          /\ rounds' = [rounds EXCEPT !.answer = IF accepted THEN answer ELSE "none"]
          /\ UNCHANGED <<scope, made>>
      BY <2>1 DEF Acquisition!PlayerAnswer, Acquisition!Heard
    <2>3. reset = -1
      BY <1>3, <2>0, <2>2, NoResetPends
    <2>4. rounds' \in Rounds3
      BY <1>0, <2>2 DEF Rounds3
    <2> QED BY <1>0, <1>2, <2>0, <2>2, <2>3, <2>4, TellKeeps DEF Rounds3
  <1>7. CASE \E x \in Acquisition!Endpoints, same \in BOOLEAN :
                Acquisition!OtherAnswer(x, same, accepted)
    <2>1. PICK x \in Acquisition!Endpoints, same \in BOOLEAN :
              Acquisition!OtherAnswer(x, same, accepted)
      BY <1>7
    <2> DEFINE found == x = PlayerList /\ same /\ local.named /\ ~local.known
               more == IF found THEN <<Acquisition!Record("local", scope)>> ELSE <<>>
               rows == <<Acquisition!Record("success", scope)>> \o more
    <2>2. /\ Acquisition!Answered(x) /\ slot[x].flight = scope
          /\ Acquisition!Tell(x, reset, rows, accepted)
          /\ UNCHANGED <<scope, rounds, made>>
      BY <2>1 DEF Acquisition!OtherAnswer
    <2>3. Plain(rows, scope)
      <3>1. Plain(<<Acquisition!Record("local", scope)>>, scope) /\ Plain(<<>>, scope)
        BY <1>0, PlainOne, PlainNone
      <3>2. Plain(more, scope)
        BY <3>1
      <3> HIDE DEF more
      <3> QED BY <1>0, <1>2, <3>2, PlainBoth
    <2> HIDE DEF rows
    <2>4. reset = -1
      BY <1>3, <2>2, NoResetPends
    <2> QED BY <1>0, <2>2, <2>3, <2>4, TellKeeps DEF Rounds3
  <1>8. CASE \E x \in Acquisition!Endpoints : Acquisition!FailedAnswer(x, accepted)
    <2>1. PICK x \in Acquisition!Endpoints : Acquisition!FailedAnswer(x, accepted)
      BY <1>8
    <2> DEFINE rows == <<Acquisition!Record("gap", slot[x].flight)>>
    <2>2. /\ Acquisition!Answered(x) /\ Acquisition!Tell(x, reset, rows, accepted)
          /\ rounds' = (IF x = ActivePlayer
                        THEN [rounds EXCEPT !.answer = IF accepted THEN "anonymous" ELSE "none"]
                        ELSE rounds)
          /\ UNCHANGED <<scope, made>>
      BY <2>1 DEF Acquisition!FailedAnswer, Acquisition!Heard
    <2>3. Plain(rows, scope)
      <3>1. slot[x].flight \in Int /\ "gap" \notin Acquisition!ScopedKinds
        BY <1>0 DEF Attempts, Acquisition!ScopedKinds
      <3> QED BY <1>0, <3>1, PlainOne
    <2>4. rounds' \in Rounds3 /\ (reset # -1 => Heard(rounds'))
      BY <1>0, <2>2 DEF Rounds3, Heard
    <2> HIDE DEF rows
    <2> QED BY <1>0, <2>2, <2>3, <2>4, TellKeeps DEF Rounds3
  <1> QED BY <1>1, <1>4, <1>5, <1>6, <1>7, <1>8

\* An attempt that ends no epoch.
LEMMA AttemptKeeps ==
    ASSUME AcquisitionInvariant, NEW x \in Acquisition!Endpoints, NEW s \in Attempts,
           s.gap = slot[x].gap,
           s.flight \in {slot[x].flight, -1} \/ (s.flight = scope /\ reset = -1),
           NEW n \in Int, BatchIsTold(x, s, given.owned, n),
           shown' \in [summary : Int, identity : Int], Acquisition!PresentedIsCurrent',
           UNCHANGED <<scope, reset>>, rounds' \in Rounds3, reset # -1 => Heard(rounds'),
           stage \in {"lastRound", "flights", "ended"} => stage' \in {"lastRound", "flights", "ended"},
           made' \in [Acquisition!Endpoints -> Int],
           \A y \in Acquisition!Endpoints \ {x} : made'[y] = made[y],
           made'[x] + InFlight(slot[x]) = made[x] + n + InFlight(s)
    PROVE  AcquisitionInvariant'
  <1>0. /\ AcquisitionTypes /\ EpochRule /\ Acquisition!AttemptsAreAccountedFor
        /\ given.owned \in Nat /\ scope \in Nat
    BY DEF AcquisitionInvariant, AcquisitionTypes
  <1>1. /\ given' \in [owned : Nat, taken : BOOLEAN, told : [Acquisition!Endpoints -> Int]]
        /\ given'.owned = given.owned /\ given'.taken
        /\ slot' \in [Acquisition!Endpoints -> Attempts] /\ slot'[x].flight = s.flight
        /\ \A y \in Acquisition!Endpoints \ {x} : slot'[y] = slot[y]
        /\ Acquisition!AttemptsAreAccountedFor'
    BY <1>0, TellingKeeps
  <1>2. AcquisitionTypes'
    BY <1>0, <1>1 DEF AcquisitionTypes, Rounds3
  <1>3. \A y \in Acquisition!Endpoints :
            slot'[y].flight \in {slot[y].flight, -1} \/ (slot'[y].flight = scope /\ reset = -1)
    BY <1>1
  <1>4. GameStats \in Acquisition!Endpoints
    BY DEF Acquisition!Endpoints, Acquisition!Range, Order
  <1>5. EpochRule'
    BY <1>0, <1>1, <1>3, <1>4 DEF EpochRule, Heard
  <1> QED BY <1>1, <1>2, <1>5 DEF AcquisitionInvariant, Acquisition!WriterTakesEverything

LEMMA BatchKeeps ==
    ASSUME AcquisitionInvariant, NEW x \in Acquisition!Endpoints, NEW s \in Attempts,
           s.gap = slot[x].gap, s.flight \in {slot[x].flight, -1},
           NEW kind \in {"boundary", "gap"}, NEW f \in Int, NEW accepted \in BOOLEAN,
           Acquisition!RecordBatch(x, <<Acquisition!Record(kind, f)>>, s, accepted),
           UNCHANGED <<scope, reset, rounds>>,
           stage \in {"lastRound", "flights", "ended"} => stage' \in {"lastRound", "flights", "ended"},
           made' \in [Acquisition!Endpoints -> Int],
           \A y \in Acquisition!Endpoints \ {x} : made'[y] = made[y],
           made'[x] + InFlight(slot[x]) = made[x] + 1 + InFlight(s)
    PROVE  AcquisitionInvariant'
  <1>0. /\ AcquisitionTypes /\ given.taken /\ Acquisition!PresentedIsCurrent
        /\ given.owned \in Nat /\ rounds' \in Rounds3 /\ (reset # -1 => Heard(rounds'))
    BY DEF AcquisitionInvariant, AcquisitionTypes, EpochRule, Acquisition!WriterTakesEverything,
           Rounds3, Heard
  <1>1. Plain(<<Acquisition!Record(kind, f)>>, given.owned)
    <2>1. kind \in Acquisition!Kinds /\ kind \notin Acquisition!ScopedKinds
      BY DEF Acquisition!Kinds, Acquisition!ScopedKinds
    <2> QED BY <1>0, <2>1, PlainOne
  <1>2. Leads(<<Acquisition!Record(kind, f)>>, given.owned)
    BY <1>1 DEF Leads
  <1>3. /\ BatchIsTold(x, s, given.owned, 1)
        /\ shown' \in [summary : Int, identity : Int] /\ Acquisition!PresentedIsCurrent'
    BY <1>0, <1>2, RecordBatchTells
  <1> QED BY <1>0, <1>3, AttemptKeeps

\* A step that tells nothing.
LEMMA QuietKeeps ==
    ASSUME AcquisitionInvariant, UNCHANGED <<scope, reset, given, shown, made>>,
           slot' \in [Acquisition!Endpoints -> Attempts],
           \A x \in Acquisition!Endpoints :
               slot'[x].flight = slot[x].flight /\ slot'[x].gap = slot[x].gap,
           rounds' \in Rounds3, reset # -1 => Heard(rounds'),
           stage \in {"lastRound", "flights", "ended"} => stage' \in {"lastRound", "flights", "ended"}
    PROVE  AcquisitionInvariant'
  <1>0. AcquisitionTypes /\ EpochRule /\ GameStats \in Acquisition!Endpoints
    BY DEF AcquisitionInvariant, Acquisition!Endpoints, Acquisition!Range, Order
  <1>1. AcquisitionTypes'
    BY <1>0 DEF AcquisitionTypes, Rounds3
  <1>2. EpochRule'
    BY <1>0 DEF EpochRule, Heard
  <1>3. /\ Acquisition!WriterTakesEverything' /\ Acquisition!PresentedIsCurrent'
        /\ Acquisition!AttemptsAreAccountedFor'
    BY DEF AcquisitionInvariant, Acquisition!WriterTakesEverything, Acquisition!PresentedIsCurrent,
           Acquisition!AttemptsAreAccountedFor
  <1> QED BY <1>1, <1>2, <1>3 DEF AcquisitionInvariant

\* The queue takes a row that tells no attempt: the pending reset, or a round.
LEMMA RowKeeps ==
    ASSUME AcquisitionInvariant, UNCHANGED <<scope, slot, made>>,
           NEW x, x \in Acquisition!Endpoints, NEW e, e = given.owned \/ e = scope,
           given' = [owned |-> e, taken |-> TRUE, told |-> Told(x, 0)],
           shown' \in [summary : Int, identity : Int], Acquisition!PresentedIsCurrent',
           rounds' \in Rounds3, reset' # -1 => Heard(rounds'),
           \/ reset' = reset /\ e = given.owned
           \/ reset' = reset /\ stage' \in {"lastRound", "flights", "ended"}
           \/ reset' = -1 /\ e = scope,
           stage \in {"lastRound", "flights", "ended"} => stage' \in {"lastRound", "flights", "ended"}
    PROVE  AcquisitionInvariant'
  <1>0. /\ AcquisitionTypes /\ EpochRule /\ scope \in Nat /\ given.owned \in Nat
        /\ given.told \in [Acquisition!Endpoints -> Int] /\ reset \in Nat \cup {-1}
    BY DEF AcquisitionInvariant, AcquisitionTypes
  <1>1. Told(x, 0) = given.told
    BY <1>0 DEF Told
  <1>2. /\ given' \in [owned : Nat, taken : BOOLEAN, told : [Acquisition!Endpoints -> Int]]
        /\ given'.owned = e /\ given'.taken /\ given'.told = given.told
    BY <1>0, <1>1
  <1>3. AcquisitionTypes'
    BY <1>0, <1>2 DEF AcquisitionTypes, Rounds3
  <1>4. EpochRule'
    BY <1>0, <1>2 DEF EpochRule, Heard
  <1>5. Acquisition!AttemptsAreAccountedFor'
    BY <1>2 DEF AcquisitionInvariant, Acquisition!AttemptsAreAccountedFor
  <1> QED BY <1>2, <1>3, <1>4, <1>5 DEF AcquisitionInvariant, Acquisition!WriterTakesEverything

\* The parts of the invariant, as the steps use them.
LEMMA AcquisitionFacts ==
    ASSUME AcquisitionInvariant
    PROVE  /\ AcquisitionTypes /\ given.taken /\ Acquisition!PresentedIsCurrent
           /\ scope \in Nat /\ given.owned \in Nat /\ reset \in Nat \cup {-1}
           /\ given \in [owned : Nat, taken : BOOLEAN, told : [Acquisition!Endpoints -> Int]]
           /\ made \in [Acquisition!Endpoints -> Int] /\ rounds \in Rounds3
           /\ shown \in [summary : Int, identity : Int]
           /\ slot \in [Acquisition!Endpoints -> Attempts]
           /\ \A x \in Acquisition!Endpoints : slot[x] \in Attempts /\ slot[x].flight \in Int
           /\ (reset # -1 => Heard(rounds)) /\ (reset = -1 => given.owned = scope)
           /\ reset # -1 => /\ scope = reset + 1
                            /\ stage \notin {"lastRound", "flights", "ended"} => given.owned = reset
           /\ GameStats \in Acquisition!Endpoints /\ ActivePlayer \in Acquisition!Endpoints
  BY DEF AcquisitionInvariant, AcquisitionTypes, EpochRule, Acquisition!WriterTakesEverything,
         Rounds3, Heard, Attempts, Acquisition!Endpoints, Acquisition!Range, Order

LEMMA Counted ==
    ASSUME NEW x \in Acquisition!Endpoints, made \in [Acquisition!Endpoints -> Int],
           Acquisition!Attempt(x)
    PROVE  /\ made' \in [Acquisition!Endpoints -> Int] /\ made'[x] = made[x] + 1
           /\ \A y \in Acquisition!Endpoints \ {x} : made'[y] = made[y]
  BY DEF Acquisition!Attempt

LEMMA ResetTells ==
    ASSUME AcquisitionInvariant, reset # -1, stage \notin {"lastRound", "flights", "ended"},
           Acquisition!Admit(<<Acquisition!Record("reset", reset + 1)>>, GameStats, 0, FALSE)
    PROVE  /\ given' = [owned |-> scope, taken |-> TRUE, told |-> Told(GameStats, 0)]
           /\ shown' \in [summary : Int, identity : Int] /\ Acquisition!PresentedIsCurrent'
  <1> DEFINE rows == <<Acquisition!Record("reset", scope)>>
  <1>1. scope = given.owned + 1 /\ scope = reset + 1 /\ scope \in Int
    BY AcquisitionFacts
  <1>2. rows = rows \o <<>>
    <2>1. "reset" \in Acquisition!Kinds
      BY DEF Acquisition!Kinds
    <2>2. rows \in Seq(Row)
      BY <1>1, <2>1, RowsAreShort
    <2> HIDE DEF rows
    <2> QED BY <2>2
  <1>3. Leads(rows, scope)
    <2>1. Plain(<<>>, scope)
      BY <1>1, PlainNone
    <2> QED BY <1>1, <1>2, <2>1 DEF Leads
  <1>4. Acquisition!Admit(rows, GameStats, 0, FALSE)
    BY <1>1
  <1> HIDE DEF rows
  <1> QED BY <1>3, <1>4, AcquisitionFacts, LeadsAdmitted

LEMMA RoundTells ==
    ASSUME AcquisitionInvariant,
           Acquisition!Admit(<<Acquisition!Record("round", scope)>>, ActivePlayer, 0,
                             rounds.pending = "named")
    PROVE  /\ given' = [owned |-> given.owned, taken |-> TRUE, told |-> Told(ActivePlayer, 0)]
           /\ shown' \in [summary : Int, identity : Int] /\ Acquisition!PresentedIsCurrent'
  <1>1. scope \in Int /\ (rounds.pending = "named") \in BOOLEAN
    BY AcquisitionFacts
  <1>2. rounds.pending = "named" => scope = given.owned
    BY AcquisitionFacts DEF Heard
  <1> QED BY <1>1, <1>2, AcquisitionFacts, RoundAdmitted

LEMMA DispatchKeeps ==
    ASSUME AcquisitionInvariant, NEW x \in Acquisition!Endpoints, Acquisition!Dispatch(x)
    PROVE  AcquisitionInvariant'
  <1> DEFINE s == slot[x]
             skipped == [s EXCEPT !.gap = s.gap + 1, !.due = FALSE]
             requested == [s EXCEPT !.gap = 0, !.flight = scope]
  <1>0. /\ s \in Attempts /\ s.gap \in Nat /\ s.flight \in Int
        /\ stage = "dispatch" /\ stage' = stage /\ UNCHANGED <<scope, reset>>
        /\ given = [owned |-> given.owned, taken |-> TRUE, told |-> given.told]
        /\ Told(x, 0) = given.told
    <2>1. s \in Attempts /\ s.gap \in Nat /\ s.flight \in Int
      BY AcquisitionFacts DEF Attempts
    <2>2. stage = "dispatch" /\ stage' = stage /\ UNCHANGED <<scope, reset>>
      BY DEF Acquisition!Dispatch
    <2>3. given = [owned |-> given.owned, taken |-> TRUE, told |-> given.told]
      BY AcquisitionFacts
    <2>4. Told(x, 0) = given.told
      <3>1. given.told \in [Acquisition!Endpoints -> Int]
        BY AcquisitionFacts
      <3> QED BY <3>1 DEF Told
    <2> QED BY <2>1, <2>2, <2>3, <2>4
  <1>1. CASE UNCHANGED <<slot, rounds, made, given, shown>>
    BY <1>0, <1>1, AcquisitionFacts, QuietKeeps
  <1>2. CASE /\ s.flight = -1 /\ Acquisition!Attempt(x)
             /\ slot' = [slot EXCEPT ![x] = skipped]
             /\ rounds' = Acquisition!Missed(x, rounds) /\ UNCHANGED <<given, shown>>
    <2> DEFINE t == [s EXCEPT !.due = FALSE]
    <2>1. t \in Attempts /\ t.gap = s.gap /\ t.flight = s.flight
      BY <1>0 DEF Attempts
    <2>2. skipped = [t EXCEPT !.gap = s.gap + 1]
      BY <1>0 DEF Attempts
    <2>3. BatchIsTold(x, t, given.owned, 1)
      <3>1. s.gap + 1 \in Nat /\ t.gap + 1 - (s.gap + 1) = 0
        BY <1>0, <2>1
      <3>2. given' = [owned |-> given.owned, taken |-> TRUE, told |-> Told(x, 0)]
        BY <1>0, <1>2
      <3>3. slot' = [slot EXCEPT ![x] = [t EXCEPT !.gap = s.gap + 1]]
        BY <1>2, <2>2
      <3> HIDE DEF t, skipped
      <3> QED BY <3>1, <3>2, <3>3 DEF BatchIsTold
    <2>4. rounds' \in Rounds3 /\ (reset # -1 => Heard(rounds'))
      BY <1>2, AcquisitionFacts DEF Acquisition!Missed, Rounds3, Heard
    <2>5. /\ shown' \in [summary : Int, identity : Int] /\ Acquisition!PresentedIsCurrent'
      BY <1>2, AcquisitionFacts DEF Acquisition!PresentedIsCurrent
    <2> HIDE DEF t, skipped
    <2>6. /\ made' \in [Acquisition!Endpoints -> Int]
          /\ \A y \in Acquisition!Endpoints \ {x} : made'[y] = made[y]
          /\ made'[x] + InFlight(slot[x]) = made[x] + 1 + InFlight(t)
      BY <1>2, <2>1, AcquisitionFacts, Counted DEF InFlight
    <2> QED BY <1>0, <2>1, <2>3, <2>4, <2>5, <2>6, AttemptKeeps
  <1>3. CASE /\ s.flight = -1 /\ reset = -1 /\ Acquisition!Attempt(x)
             /\ slot' = [slot EXCEPT ![x] = requested]
             /\ IF s.gap > 0 THEN Acquisition!Admit(Interval, x, s.gap, FALSE)
                ELSE UNCHANGED <<given, shown>>
             /\ UNCHANGED rounds
    <2> DEFINE t == [s EXCEPT !.flight = scope]
    <2>0. scope \in Nat
      BY AcquisitionFacts
    <2>1. t \in Attempts /\ t.gap = s.gap /\ t.flight = scope
      BY <1>0, <2>0 DEF Attempts
    <2>2. requested = [t EXCEPT !.gap = 0]
      BY <1>0 DEF Attempts
    <2>3. /\ given' = [owned |-> given.owned, taken |-> TRUE, told |-> Told(x, s.gap)]
          /\ shown' \in [summary : Int, identity : Int] /\ Acquisition!PresentedIsCurrent'
      <3>1. CASE s.gap > 0
        BY <1>3, <3>1, AcquisitionFacts, IntervalIsPlain, PlainAdmitted
      <3>2. CASE ~(s.gap > 0)
        <4>1. s.gap = 0
          BY <1>0, <3>2
        <4> QED BY <1>0, <1>3, <3>2, <4>1, AcquisitionFacts DEF Acquisition!PresentedIsCurrent
      <3> QED BY <3>1, <3>2
    <2>4. BatchIsTold(x, t, given.owned, 0)
      <3>1. t.gap + 0 - 0 = s.gap /\ 0 \in Nat
        BY <1>0, <2>1
      <3>2. slot' = [slot EXCEPT ![x] = [t EXCEPT !.gap = 0]]
        BY <1>3, <2>2
      <3> HIDE DEF t, requested
      <3> QED BY <2>3, <3>1, <3>2 DEF BatchIsTold
    <2> HIDE DEF t, requested
    <2>5. scope # -1
      BY <2>0
    <2>6. /\ made' \in [Acquisition!Endpoints -> Int]
          /\ \A y \in Acquisition!Endpoints \ {x} : made'[y] = made[y]
          /\ made'[x] + InFlight(slot[x]) = made[x] + 0 + InFlight(t)
      <3>1. made' \in [Acquisition!Endpoints -> Int] /\ made'[x] = made[x] + 1
            /\ \A y \in Acquisition!Endpoints \ {x} : made'[y] = made[y]
        BY <1>3, AcquisitionFacts, Counted
      <3>2. InFlight(slot[x]) = 0 /\ InFlight(t) = 1 /\ made[x] \in Int
        BY <1>3, <2>1, <2>5, AcquisitionFacts DEF InFlight
      <3> QED BY <3>1, <3>2
    <2> QED BY <1>0, <1>3, <2>1, <2>3, <2>4, <2>6, AcquisitionFacts, AttemptKeeps
  <1> HIDE DEF skipped, requested
  <1> QED BY <1>1, <1>2, <1>3
          DEF Acquisition!Dispatch, Acquisition!Refuse, Acquisition!None, Interval, skipped, requested

LEMMA AcquisitionLoopKeeps ==
    ASSUME AcquisitionInvariant, Acquisition!Loop
    PROVE  AcquisitionInvariant'
  <1>0. /\ \A x \in Acquisition!Endpoints : slot[x] \in Attempts
        /\ slot \in [Acquisition!Endpoints -> Attempts] /\ rounds \in Rounds3
        /\ (reset # -1 => Heard(rounds))
    BY AcquisitionFacts
  <1>1. CASE Acquisition!RetryReset
    <2>1. CASE /\ reset # -1 /\ reset' = -1
               /\ Acquisition!Admit(<<Acquisition!Record("reset", reset + 1)>>, GameStats, 0, FALSE)
      BY <1>1, <2>1, AcquisitionFacts, ResetTells, RowKeeps DEF Acquisition!RetryReset
    <2>2. CASE UNCHANGED <<given, shown, reset>>
      BY <1>0, <1>1, <2>2, QuietKeeps DEF Acquisition!RetryReset
    <2> QED BY <1>1, <2>1, <2>2
            DEF Acquisition!RetryReset, Acquisition!Refuse, Acquisition!None
  <1>2. CASE Acquisition!CloseIdentity
    <2>1. CASE UNCHANGED <<slot, given, shown, made>>
      BY <1>0, <1>2, <2>1, QuietKeeps DEF Acquisition!CloseIdentity
    <2>2. CASE /\ Acquisition!Attempt(ActivePlayer)
               /\ \E accepted \in BOOLEAN :
                     Acquisition!RecordBatch(ActivePlayer, <<Acquisition!Record("boundary", scope)>>,
                                             [slot[ActivePlayer] EXCEPT !.stopped = TRUE], accepted)
      <3> DEFINE q == slot[ActivePlayer]
                 s == [q EXCEPT !.stopped = TRUE]
      <3>1. q \in Attempts /\ ActivePlayer \in Acquisition!Endpoints /\ scope \in Int
        BY AcquisitionFacts
      <3>2. s \in Attempts /\ s.gap = q.gap /\ s.flight = q.flight
        BY <3>1 DEF Attempts
      <3>3. PICK accepted \in BOOLEAN :
                Acquisition!RecordBatch(ActivePlayer, <<Acquisition!Record("boundary", scope)>>,
                                        s, accepted)
        BY <2>2
      <3> HIDE DEF s
      <3>4. /\ made' \in [Acquisition!Endpoints -> Int]
            /\ \A y \in Acquisition!Endpoints \ {ActivePlayer} : made'[y] = made[y]
            /\ made'[ActivePlayer] + InFlight(q) = made[ActivePlayer] + 1 + InFlight(s)
        BY <2>2, <3>1, <3>2, AcquisitionFacts, Counted DEF InFlight
      <3>5. /\ UNCHANGED <<scope, reset, rounds>>
            /\ stage' \in {"lastRound", "flights", "ended"} => stage \in {"lastRound", "flights", "ended"}
            /\ stage \notin {"lastRound", "flights", "ended"}
        BY <1>2 DEF Acquisition!CloseIdentity
      <3> QED BY <3>1, <3>2, <3>3, <3>4, <3>5, BatchKeeps
    <2> QED BY <1>2, <2>1, <2>2 DEF Acquisition!CloseIdentity
  <1>3. CASE Acquisition!TakeRound
    <2>0. UNCHANGED <<slot, scope, reset, given, shown, made>> /\ stage = "round"
      BY <1>3 DEF Acquisition!TakeRound
    <2>1. \/ UNCHANGED rounds
          \/ \E p \in {"anonymous", "named"} :
                /\ p = "named" => rounds.answer = "named"
                /\ rounds' = [rounds EXCEPT !.answer = "none", !.pending = p]
      BY <1>3 DEF Acquisition!TakeRound
    <2>2. rounds' \in Rounds3 /\ (reset # -1 => Heard(rounds'))
      <3>1. CASE UNCHANGED rounds
        BY <1>0, <3>1
      <3>2. ASSUME NEW p \in {"anonymous", "named"}, p = "named" => rounds.answer = "named",
                   rounds' = [rounds EXCEPT !.answer = "none", !.pending = p]
            PROVE  rounds' \in Rounds3 /\ (reset # -1 => Heard(rounds'))
        BY <1>0, <3>2 DEF Rounds3, Heard
      <3> QED BY <2>1, <3>1, <3>2
    <2> QED BY <1>0, <2>0, <2>2, QuietKeeps
  <1>4. CASE Acquisition!PublishRound
    <2>1. CASE /\ Acquisition!Admit(<<Acquisition!Record("round", scope)>>, ActivePlayer, 0,
                                    rounds.pending = "named")
               /\ rounds' = [rounds EXCEPT !.pending = "none"]
      <3>1. rounds' \in Rounds3 /\ (reset # -1 => Heard(rounds'))
        BY <1>0, <2>1 DEF Rounds3, Heard
      <3> QED BY <1>4, <2>1, <3>1, AcquisitionFacts, RoundTells, RowKeeps
              DEF Acquisition!PublishRound
    <2>2. CASE UNCHANGED <<given, shown, rounds>>
      BY <1>0, <1>4, <2>2, QuietKeeps DEF Acquisition!PublishRound
    <2> QED BY <1>4, <2>1, <2>2 DEF Acquisition!PublishRound, Acquisition!Refuse
  <1>5. CASE Acquisition!Select
    BY <1>0, <1>5, QuietKeeps DEF Acquisition!Select
  <1>6. ASSUME NEW x \in Acquisition!Endpoints, Acquisition!Wake(x)
        PROVE  AcquisitionInvariant'
    <2>1. /\ slot' = [slot EXCEPT ![x].due = TRUE] /\ stage \notin {"lastRound", "flights", "ended"}
          /\ UNCHANGED <<scope, reset, rounds, given, shown, made>>
      BY <1>6 DEF Acquisition!Wake
    <2> DEFINE q == slot[x]
               s == [q EXCEPT !.due = TRUE]
    <2>2. s \in Attempts /\ s.gap = q.gap /\ s.flight = q.flight
      BY <1>0 DEF Attempts
    <2>3. slot' = [slot EXCEPT ![x] = s]
      BY <2>1
    <2> HIDE DEF s
    <2>4. /\ slot' \in [Acquisition!Endpoints -> Attempts]
          /\ \A y \in Acquisition!Endpoints :
                slot'[y].flight = slot[y].flight /\ slot'[y].gap = slot[y].gap
      BY <1>0, <2>2, <2>3
    <2> QED BY <1>0, <2>1, <2>4, QuietKeeps
  <1> QED BY <1>1, <1>2, <1>3, <1>4, <1>5, <1>6, DispatchKeeps DEF Acquisition!Loop

LEMMA BoundaryKeeps ==
    ASSUME AcquisitionInvariant, NEW x \in Acquisition!Endpoints, Acquisition!Attempt(x),
           NEW accepted \in BOOLEAN,
           Acquisition!RecordBatch(x, <<Acquisition!Record("boundary", scope)>>, slot[x], accepted),
           UNCHANGED <<scope, reset, rounds>>,
           stage \in {"lastRound", "flights", "ended"} => stage' \in {"lastRound", "flights", "ended"}
    PROVE  AcquisitionInvariant'
  <1>1. slot[x] \in Attempts /\ scope \in Int
    BY AcquisitionFacts
  <1>2. /\ made' \in [Acquisition!Endpoints -> Int]
        /\ \A y \in Acquisition!Endpoints \ {x} : made'[y] = made[y]
        /\ made'[x] + InFlight(slot[x]) = made[x] + 1 + InFlight(slot[x])
    BY AcquisitionFacts, Counted DEF InFlight
  <1> QED BY <1>1, <1>2, BatchKeeps

LEMMA AcquisitionEndingKeeps ==
    ASSUME AcquisitionInvariant, Acquisition!Ending
    PROVE  AcquisitionInvariant'
  <1>0. /\ \A x \in Acquisition!Endpoints : slot[x] \in Attempts /\ slot[x].flight \in Int
        /\ slot \in [Acquisition!Endpoints -> Attempts] /\ rounds \in Rounds3
        /\ (reset # -1 => Heard(rounds))
    BY AcquisitionFacts
  <1>1. CASE Acquisition!Leave
    BY <1>0, <1>1, QuietKeeps DEF Acquisition!Leave
  <1>2. CASE Acquisition!LastReset
    <2>1. CASE /\ reset # -1
               /\ Acquisition!Admit(<<Acquisition!Record("reset", reset + 1)>>, GameStats, 0, FALSE)
      BY <1>0, <1>2, <2>1, AcquisitionFacts, ResetTells, RowKeeps DEF Acquisition!LastReset
    <2>2. CASE UNCHANGED <<given, shown>>
      BY <1>0, <1>2, <2>2, QuietKeeps DEF Acquisition!LastReset
    <2> QED BY <1>2, <2>1, <2>2
            DEF Acquisition!LastReset, Acquisition!Refuse, Acquisition!None
  <1>3. CASE Acquisition!LastRound
    <2>1. CASE Acquisition!Admit(<<Acquisition!Record("round", scope)>>, ActivePlayer, 0,
                                 rounds.pending = "named")
      BY <1>0, <1>3, <2>1, AcquisitionFacts, RoundTells, RowKeeps DEF Acquisition!LastRound
    <2>2. CASE UNCHANGED <<given, shown>>
      BY <1>0, <1>3, <2>2, QuietKeeps DEF Acquisition!LastRound
    <2> QED BY <1>3, <2>1, <2>2 DEF Acquisition!LastRound, Acquisition!Refuse
  <1>4. ASSUME NEW x \in Acquisition!Endpoints, Acquisition!CancelFlight(x)
        PROVE  AcquisitionInvariant'
    <2> DEFINE q == slot[x]
               s == [q EXCEPT !.flight = -1]
    <2>1. PICK accepted \in BOOLEAN :
              Acquisition!RecordBatch(x, <<Acquisition!Record("gap", q.flight)>>, s, accepted)
      BY <1>4 DEF Acquisition!CancelFlight, Acquisition!None
    <2>2. s \in Attempts /\ s.gap = q.gap /\ s.flight = -1 /\ q.flight \in Int
      BY <1>0 DEF Attempts
    <2>3. q.flight # -1 /\ UNCHANGED <<stage, scope, reset, rounds, made>>
      BY <1>4 DEF Acquisition!CancelFlight, Acquisition!None
    <2> HIDE DEF s
    <2>4. /\ made' \in [Acquisition!Endpoints -> Int]
          /\ \A y \in Acquisition!Endpoints \ {x} : made'[y] = made[y]
          /\ made'[x] + InFlight(q) = made[x] + 1 + InFlight(s)
      BY <2>2, <2>3, AcquisitionFacts DEF InFlight
    <2> QED BY <2>1, <2>2, <2>3, <2>4, BatchKeeps
  <1>5. ASSUME NEW x \in Acquisition!Endpoints, Acquisition!LastBoundary(x)
        PROVE  AcquisitionInvariant'
    <2>0. UNCHANGED <<scope, reset, rounds>> /\ stage = "flights" /\ stage' \in {"ended", stage}
      BY <1>5 DEF Acquisition!LastBoundary
    <2>1. CASE UNCHANGED <<slot, given, shown, made>>
      BY <1>0, <2>0, <2>1, QuietKeeps
    <2>2. CASE /\ Acquisition!Attempt(x)
               /\ \E accepted \in BOOLEAN :
                     Acquisition!RecordBatch(x, <<Acquisition!Record("boundary", scope)>>,
                                             slot[x], accepted)
      BY <2>0, <2>2, BoundaryKeeps
    <2> QED BY <1>5, <2>1, <2>2 DEF Acquisition!LastBoundary
  <1> QED BY <1>1, <1>2, <1>3, <1>4, <1>5 DEF Acquisition!Ending

LEMMA AcquisitionStarts == Acquisition!Init => AcquisitionInvariant
  <1> SUFFICES ASSUME Acquisition!Init PROVE AcquisitionInvariant
    OBVIOUS
  <1> DEFINE q == [due |-> TRUE, flight |-> -1, gap |-> 0, stopped |-> FALSE]
  <1>1. q \in Attempts /\ q.flight = -1 /\ q.gap = 0
    BY DEF Attempts
  <1>2. slot = [x \in Acquisition!Endpoints |-> q]
    BY DEF Acquisition!Init, Acquisition!None
  <1> HIDE DEF q
  <1>3. GameStats \in Acquisition!Endpoints
    BY DEF Acquisition!Endpoints, Acquisition!Range, Order
  <1>4. AcquisitionTypes /\ EpochRule
    <2>1. /\ scope = 0 /\ reset = -1 /\ made = [x \in Acquisition!Endpoints |-> 0]
          /\ rounds = [stats |-> FALSE, answer |-> "none", pending |-> "none"]
          /\ shown = [summary |-> -2, identity |-> -2]
          /\ given = [owned |-> 0, taken |-> TRUE, told |-> [x \in Acquisition!Endpoints |-> 0]]
      BY DEF Acquisition!Init, Acquisition!None, Acquisition!NoOne
    <2>2. slot \in [Acquisition!Endpoints -> Attempts]
      BY <1>1, <1>2
    <2>3. given \in [owned : Nat, taken : BOOLEAN, told : [Acquisition!Endpoints -> Int]]
          /\ shown \in [summary : Int, identity : Int]
      BY <2>1
    <2>4. AcquisitionTypes
      BY <2>1, <2>2, <2>3 DEF AcquisitionTypes
    <2>5. EpochRule
      BY <1>1, <1>2, <2>1 DEF EpochRule
    <2> QED BY <2>4, <2>5
  <1>5. /\ Acquisition!WriterTakesEverything /\ Acquisition!PresentedIsCurrent
        /\ Acquisition!AttemptsAreAccountedFor
    BY <1>1, <1>2 DEF Acquisition!Init, Acquisition!None, Acquisition!NoOne,
                      Acquisition!WriterTakesEverything, Acquisition!PresentedIsCurrent,
                      Acquisition!AttemptsAreAccountedFor
  <1> QED BY <1>4, <1>5 DEF AcquisitionInvariant

LEMMA AcquisitionKept ==
    ASSUME AcquisitionInvariant, [Acquisition!Next]_(Acquisition!vars)
    PROVE  AcquisitionInvariant'
  <1>0. /\ slot \in [Acquisition!Endpoints -> Attempts] /\ rounds \in Rounds3
        /\ (reset # -1 => Heard(rounds))
    BY AcquisitionFacts
  <1>1. CASE Acquisition!StopRecording
    BY <1>0, <1>1, QuietKeeps DEF Acquisition!StopRecording
  <1>2. CASE Acquisition!DecideIdentity
    BY <1>0, <1>2, QuietKeeps DEF Acquisition!DecideIdentity
  <1>3. ASSUME NEW x \in Acquisition!Endpoints, Acquisition!StartBoundary(x)
        PROVE  AcquisitionInvariant'
    <2>1. /\ UNCHANGED <<scope, reset, rounds>> /\ stage = "start" /\ Acquisition!Attempt(x)
          /\ \E accepted \in BOOLEAN :
                Acquisition!RecordBatch(x, <<Acquisition!Record("boundary", scope)>>,
                                        slot[x], accepted)
      BY <1>3 DEF Acquisition!StartBoundary
    <2> QED BY <2>1, BoundaryKeeps
  <1>4. CASE UNCHANGED Acquisition!vars
    BY <1>0, <1>4, QuietKeeps DEF Acquisition!vars
  <1> QED BY <1>1, <1>2, <1>3, <1>4, AcquisitionLoopKeeps, AnswerKeeps, AcquisitionEndingKeeps
          DEF Acquisition!Next

-----------------------------------------------------------------------------
(* The writer of telemetry and its readers. *)

Packet == [id : Nat, control : BOOLEAN]
Line == [frame : {"header"}] \cup [frame : {"entry"}, packet : Packet]
        \cup [frame : {"commit"}, last : Int]

\* The entries among the first n lines.
Rank(lines, n) == Cardinality({i \in 1 .. n : lines[i].frame = "entry"})

\* The elements of a sequence that are in a set.
Count(s, M) == Cardinality({i \in 1 .. Len(s) : s[i] \in M})
Data == {p \in Packet : ~p.control}

WriterTypes ==
    /\ disk \in [lines : Seq(Line), synced : Nat, checkpoint : Int, manifest : Int]
    /\ worker \in [at : Writer!Places, batch : Seq(Packet), deferred : Seq(Packet),
                   failed : BOOLEAN, acknowledged : Nat]
    /\ producer \in [step : {"free", "checked", "locked"}, packet : Packet, tried : Int]
    /\ flags \in [closing : BOOLEAN, abandoned : BOOLEAN, failed : BOOLEAN]
    /\ reader \in [offset : Nat, packets : Seq(Packet), live : BOOLEAN]
    /\ queue \in Seq(Packet) /\ admitted \in Seq(Packet)

\* The entries of the journal are what was admitted, in that order.
LinesRule ==
    /\ disk.synced <= Len(disk.lines)
    /\ worker.at = "create" => disk.lines = <<>>
    /\ worker.at \notin {"create", "ended", "dead"} => disk.lines # <<>>
    /\ disk.lines # <<>> => disk.lines[1].frame = "header"
    /\ Rank(disk.lines, Len(disk.lines)) <= Len(admitted)
    /\ \A i \in 1 .. Len(disk.lines) :
          disk.lines[i].frame = "entry" =>
              disk.lines[i].packet = admitted[Rank(disk.lines, i)]

\* Until the worker ends, what was admitted is what it acknowledged, its batch, the
\* deferred packet and the queue, one after the other; the batch is in the journal
\* between its entries and its acknowledgement.
Holding == {"gather", "append", "commit", "sync"}
Booked(n, batch, deferred, waiting, all) ==
    /\ Len(all) = n + Len(batch) + Len(deferred) + Len(waiting)
    /\ \A k \in 1 .. Len(batch) : batch[k] = all[n + k]
    /\ \A k \in 1 .. Len(deferred) : deferred[k] = all[n + Len(batch) + k]
    /\ \A k \in 1 .. Len(waiting) : waiting[k] = all[n + Len(batch) + Len(deferred) + k]
BookRule ==
    worker.at \notin {"ended", "dead"} =>
        /\ Booked(worker.acknowledged, worker.batch, worker.deferred, queue, admitted)
        /\ worker.at \notin Holding => worker.batch = <<>>
        /\ worker.at = "gather" => worker.deferred = <<>>
        /\ Rank(disk.lines, Len(disk.lines)) =
              worker.acknowledged
                  + (IF worker.at \in {"commit", "sync"} THEN Len(worker.batch) ELSE 0)
        /\ worker.at = "sync" =>
              disk.lines # <<>> /\ disk.lines[Len(disk.lines)].frame = "commit"

\* What was acknowledged lies before a commit line that was synced.
DurableRule ==
    /\ worker.acknowledged = 0
       \/ \E c \in 1 .. disk.synced : /\ disk.lines[c].frame = "commit"
                                      /\ worker.acknowledged <= Rank(disk.lines, c)
    /\ disk.checkpoint <= worker.acknowledged /\ disk.manifest <= worker.acknowledged

\* A position of the reader that the journal still has is that of what it imported.
ReaderRule ==
    /\ Len(reader.packets) <= Len(admitted) /\ Writer!InOrder(reader.packets)
    /\ worker.at # "dead" => reader.live
    /\ reader.live => reader.offset <= Len(disk.lines)
    /\ reader.offset <= Len(disk.lines) =>
          Len(reader.packets) = Rank(disk.lines, reader.offset)

\* Data holds no more slots than are left to it.
RoomRule ==
    Count(queue, Data) + Count(worker.batch, Data) + Count(worker.deferred, Data)
        <= Slots - ControlSlots

WriterInvariant ==
    WriterTypes /\ LinesRule /\ BookRule /\ DurableRule /\ ReaderRule /\ RoomRule

LEMMA DisjointCount ==
    ASSUME NEW S, NEW T, IsFiniteSet(S), IsFiniteSet(T), S \cap T = {}
    PROVE  IsFiniteSet(S \cup T) /\ Cardinality(S \cup T) = Cardinality(S) + Cardinality(T)
  <1>1. Cardinality(S) \in Nat /\ Cardinality(T) \in Nat /\ Cardinality(S \cap T) = 0
    BY FS_CardinalityType, FS_EmptySet
  <1>2. /\ IsFiniteSet(S \cup T)
        /\ Cardinality(S \cup T) = Cardinality(S) + Cardinality(T) - Cardinality(S \cap T)
    BY FS_Union, Zenon
  <1> QED BY <1>1, <1>2

LEMMA ShiftedCount ==
    ASSUME NEW S \in SUBSET Int, IsFiniteSet(S), NEW d \in Int, NEW T, T = {i + d : i \in S}
    PROVE  IsFiniteSet(T) /\ Cardinality(T) = Cardinality(S)
  <1> DEFINE f == [i \in S |-> i + d]
  <1>1. f \in [S -> T] /\ (\A a, b \in S : f[a] = f[b] => a = b)
        /\ (\A t \in T : \E s \in S : f[s] = t)
    <2>1. \A a \in S : a + d \in T
      OBVIOUS
    <2>2. \A t \in T : \E s \in S : t = s + d
      OBVIOUS
    <2>3. \A a, b \in S : a + d = b + d => a = b
      OBVIOUS
    <2> QED BY <2>1, <2>2, <2>3
  <1> HIDE DEF f
  <1>2. f \in Bijection(S, T)
    BY <1>1 DEF Bijection, Injection, Surjection, IsInjective, Range
  <1>3. ExistsBijection(S, T)
    BY <1>2 DEF ExistsBijection
  <1> QED BY <1>3, FS_Bijection

\* Some of the first n places.
LEMMA PlacesCount ==
    ASSUME NEW n \in Nat, NEW S \in SUBSET (1 .. n)
    PROVE  IsFiniteSet(S) /\ Cardinality(S) \in 0 .. n
  <1>1. IsFiniteSet(1 .. n) /\ Cardinality(1 .. n) = n
    BY FS_Interval
  <1>2. IsFiniteSet(S) /\ Cardinality(S) <= n
    BY <1>1, FS_Subset
  <1>3. Cardinality(S) \in Nat
    BY <1>2, FS_CardinalityType
  <1> QED BY <1>2, <1>3

LEMMA CountConcat ==
    ASSUME NEW a \in Seq(Packet), NEW b \in Seq(Packet), NEW M
    PROVE  /\ Count(a, M) \in 0 .. Len(a) /\ Count(b, M) \in 0 .. Len(b)
           /\ Count(a \o b, M) = Count(a, M) + Count(b, M)
  <1> DEFINE A == {i \in 1 .. Len(a) : a[i] \in M}
             B == {i \in 1 .. Len(b) : b[i] \in M}
             C == {i + Len(a) : i \in B}
             D == {i \in 1 .. Len(a \o b) : (a \o b)[i] \in M}
  <1>0. Len(a) \in Nat /\ Len(b) \in Nat
    OBVIOUS
  <1>1. /\ Len(a \o b) = Len(a) + Len(b)
        /\ \A i \in 1 .. Len(a) : (a \o b)[i] = a[i]
        /\ \A i \in 1 .. Len(b) : (a \o b)[i + Len(a)] = b[i]
    <2> DEFINE c == a \o b
    <2>1. /\ Len(c) = Len(a) + Len(b)
          /\ \A i \in 1 .. Len(a) + Len(b) : c[i] = IF i <= Len(a) THEN a[i] ELSE b[i - Len(a)]
      BY ConcatProperties
    <2> HIDE DEF c
    <2>2. \A i \in 1 .. Len(a) : c[i] = a[i]
      BY <1>0, <2>1
    <2>3. ASSUME NEW i \in 1 .. Len(b) PROVE c[i + Len(a)] = b[i]
      <3>1. i + Len(a) \in 1 .. Len(a) + Len(b) /\ ~(i + Len(a) <= Len(a))
            /\ (i + Len(a)) - Len(a) = i
        BY <1>0
      <3> QED BY <2>1, <3>1
    <2> QED BY <2>1, <2>2, <2>3 DEF c
  <1>2. IsFiniteSet(A) /\ Cardinality(A) \in 0 .. Len(a) /\ IsFiniteSet(B) /\ Cardinality(B) \in 0 .. Len(b)
    BY <1>0, PlacesCount
  <1>3. IsFiniteSet(C) /\ Cardinality(C) = Cardinality(B)
    <2>1. B \in SUBSET Int /\ IsFiniteSet(B) /\ Len(a) \in Int
      BY <1>0, <1>2
    <2>2. C = {i + Len(a) : i \in B}
      OBVIOUS
    <2> HIDE DEF B, C
    <2> QED BY <2>1, <2>2, ShiftedCount
  <1>4. A \cap C = {}
    BY <1>0
  <1>5. D = A \cup C
    <2>1. ASSUME NEW i \in D PROVE i \in A \cup C
      <3>1. CASE i <= Len(a)
        BY <1>0, <1>1, <3>1
      <3>2. CASE ~(i <= Len(a))
        <4>1. i - Len(a) \in 1 .. Len(b) /\ (i - Len(a)) + Len(a) = i
          BY <1>0, <1>1, <3>2
        <4>2. b[i - Len(a)] \in M
          BY <1>1, <4>1
        <4> QED BY <4>1, <4>2
      <3> QED BY <3>1, <3>2
    <2>2. A \subseteq D
      BY <1>0, <1>1
    <2>3. C \subseteq D
      BY <1>0, <1>1
    <2> QED BY <2>1, <2>2, <2>3
  <1> HIDE DEF A, B, C, D
  <1>6. Cardinality(D) = Cardinality(A) + Cardinality(B)
    BY <1>2, <1>3, <1>4, <1>5, DisjointCount
  <1> QED BY <1>2, <1>6 DEF A, B, D, Count

LEMMA CountOne ==
    ASSUME NEW p, NEW M
    PROVE  /\ Count(<<p>>, M) = (IF p \in M THEN 1 ELSE 0)
           /\ Count(<<>>, M) = 0
  <1>1. {i \in 1 .. Len(<<p>>) : <<p>>[i] \in M} = (IF p \in M THEN {1} ELSE {})
    OBVIOUS
  <1>2. {i \in 1 .. Len(<<>>) : <<>>[i] \in M} = {}
    OBVIOUS
  <1>3. Cardinality({1}) = 1 /\ Cardinality({}) = 0
    BY FS_Singleton, FS_EmptySet
  <1>4. Count(<<p>>, M) = Cardinality(IF p \in M THEN {1} ELSE {})
    BY <1>1 DEF Count
  <1>5. Count(<<>>, M) = Cardinality({})
    BY <1>2 DEF Count
  <1> QED BY <1>3, <1>4, <1>5

LEMMA CountEnds ==
    ASSUME NEW s \in Seq(Packet), NEW M
    PROVE  /\ Count(s, M) \in Nat
           /\ \A p \in Packet : Count(Append(s, p), M) = Count(s, M) + (IF p \in M THEN 1 ELSE 0)
           /\ s # <<>> => Count(s, M) = (IF Head(s) \in M THEN 1 ELSE 0) + Count(Tail(s), M)
  <1>1. Count(s, M) \in Nat
    BY CountConcat
  <1>2. ASSUME NEW p \in Packet
        PROVE  Count(Append(s, p), M) = Count(s, M) + (IF p \in M THEN 1 ELSE 0)
    <2> DEFINE q == <<p>>
    <2>1. Append(s, p) = s \o q /\ q \in Seq(Packet)
      OBVIOUS
    <2>2. Count(q, M) = (IF p \in M THEN 1 ELSE 0)
      BY CountOne
    <2> HIDE DEF q
    <2>3. Count(s \o q, M) = Count(s, M) + Count(q, M)
      BY <2>1, CountConcat
    <2> QED BY <2>1, <2>2, <2>3
  <1>3. ASSUME s # <<>>
        PROVE  Count(s, M) = (IF Head(s) \in M THEN 1 ELSE 0) + Count(Tail(s), M)
    <2> DEFINE a == <<Head(s)>>
               b == Tail(s)
    <2>1. Head(s) \in Packet /\ a \in Seq(Packet) /\ b \in Seq(Packet)
      BY <1>3, HeadTailProperties
    <2>2. s = a \o b
      BY <1>3
    <2>3. Count(a, M) = (IF Head(s) \in M THEN 1 ELSE 0)
      BY CountOne
    <2> HIDE DEF a, b
    <2>4. Count(a \o b, M) = Count(a, M) + Count(b, M)
      BY <2>1, CountConcat
    <2> QED BY <2>2, <2>3, <2>4 DEF b
  <1> QED BY <1>1, <1>2, <1>3

\* The entries after m of the first n lines.
EntriesOf(lines, m, n) == {i \in m + 1 .. n : lines[i].frame = "entry"}

LEMMA RankSplits ==
    ASSUME NEW lines, NEW m \in Nat, NEW n \in Nat, m <= n
    PROVE  /\ Rank(lines, m) \in 0 .. m /\ Rank(lines, n) \in 0 .. n
           /\ IsFiniteSet(EntriesOf(lines, m, n)) /\ Cardinality(EntriesOf(lines, m, n)) \in 0 .. n - m
           /\ Rank(lines, n) = Rank(lines, m) + Cardinality(EntriesOf(lines, m, n))
  <1> DEFINE A == {i \in 1 .. m : lines[i].frame = "entry"}
             B == {i \in 1 .. n : lines[i].frame = "entry"}
             C == {i \in m + 1 .. n : lines[i].frame = "entry"}
  <1>1. IsFiniteSet(A) /\ Cardinality(A) \in 0 .. m /\ IsFiniteSet(B) /\ Cardinality(B) \in 0 .. n
    BY PlacesCount
  <1>2. IsFiniteSet(C) /\ Cardinality(C) \in 0 .. n - m
    <2>1. IsFiniteSet(m + 1 .. n) /\ Cardinality(m + 1 .. n) = n - m
      <3>1. /\ IsFiniteSet(m + 1 .. n)
            /\ Cardinality(m + 1 .. n) = IF m + 1 > n THEN 0 ELSE n - (m + 1) + 1
        <4>1. m + 1 \in Int /\ n \in Int
          OBVIOUS
        <4> QED BY <4>1, FS_Interval
      <3> QED BY <3>1
    <2>2. C \in SUBSET (m + 1 .. n)
      OBVIOUS
    <2> HIDE DEF C
    <2>3. IsFiniteSet(C) /\ Cardinality(C) <= n - m
      BY <2>1, <2>2, FS_Subset
    <2>4. Cardinality(C) \in Nat
      BY <2>3, FS_CardinalityType
    <2> QED BY <2>3, <2>4
  <1>3. B = A \cup C /\ A \cap C = {}
    OBVIOUS
  <1> HIDE DEF A, B, C
  <1>4. Cardinality(B) = Cardinality(A) + Cardinality(C)
    BY <1>1, <1>2, <1>3, DisjointCount
  <1> QED BY <1>1, <1>2, <1>4 DEF Rank, EntriesOf, A, B, C

LEMMA RankCounts ==
    ASSUME NEW lines, NEW n \in Nat
    PROVE  Rank(lines, n) \in 0 .. n
  BY PlacesCount DEF Rank

LEMMA RankStarts ==
    ASSUME NEW lines
    PROVE  Rank(lines, 0) = 0
  <1>1. {i \in 1 .. 0 : lines[i].frame = "entry"} = {}
    OBVIOUS
  <1> QED BY <1>1, FS_EmptySet DEF Rank

LEMMA RankSame ==
    ASSUME NEW lines, NEW other, NEW n \in Nat, \A i \in 1 .. n : lines[i] = other[i]
    PROVE  Rank(lines, n) = Rank(other, n)
  <1>1. {i \in 1 .. n : lines[i].frame = "entry"} = {i \in 1 .. n : other[i].frame = "entry"}
    OBVIOUS
  <1> QED BY <1>1 DEF Rank

LEMMA RankGrows ==
    ASSUME NEW lines, NEW m \in Nat, NEW n \in Nat, m <= n
    PROVE  /\ Rank(lines, m) \in Nat /\ Rank(lines, n) \in Nat
           /\ Rank(lines, m) <= Rank(lines, n) /\ Rank(lines, n) <= Rank(lines, m) + (n - m)
           /\ (\A i \in m + 1 .. n : lines[i].frame = "entry") =>
                  Rank(lines, n) = Rank(lines, m) + (n - m)
           /\ (\A i \in m + 1 .. n : lines[i].frame # "entry") => Rank(lines, n) = Rank(lines, m)
           /\ (\E i \in m + 1 .. n : lines[i].frame = "entry") => Rank(lines, m) < Rank(lines, n)
  <1> DEFINE C == EntriesOf(lines, m, n)
  <1>1. /\ Rank(lines, m) \in 0 .. m /\ Rank(lines, n) \in 0 .. n
        /\ IsFiniteSet(C) /\ Cardinality(C) \in 0 .. n - m
        /\ Rank(lines, n) = Rank(lines, m) + Cardinality(C)
    BY RankSplits
  <1>2. (\A i \in m + 1 .. n : lines[i].frame = "entry") => Cardinality(C) = n - m
    <2> SUFFICES ASSUME \A i \in m + 1 .. n : lines[i].frame = "entry"
                 PROVE  Cardinality(C) = n - m
      OBVIOUS
    <2>1. C = m + 1 .. n
      BY DEF EntriesOf
    <2>2. Cardinality(m + 1 .. n) = IF m + 1 > n THEN 0 ELSE n - (m + 1) + 1
      <3>1. m + 1 \in Int /\ n \in Int
        OBVIOUS
      <3> QED BY <3>1, FS_Interval
    <2> QED BY <2>1, <2>2
  <1>3. (\A i \in m + 1 .. n : lines[i].frame # "entry") => Cardinality(C) = 0
    <2> SUFFICES ASSUME \A i \in m + 1 .. n : lines[i].frame # "entry"
                 PROVE  Cardinality(C) = 0
      OBVIOUS
    <2>1. C = {}
      BY DEF EntriesOf
    <2> QED BY <2>1, FS_EmptySet
  <1>4. (\E i \in m + 1 .. n : lines[i].frame = "entry") => Cardinality(C) # 0
    <2> SUFFICES ASSUME \E i \in m + 1 .. n : lines[i].frame = "entry"
                 PROVE  Cardinality(C) # 0
      OBVIOUS
    <2>1. C # {}
      BY DEF EntriesOf
    <2> HIDE DEF C
    <2> QED BY <1>1, <2>1, FS_EmptySet
  <1> HIDE DEF C
  <1> QED BY <1>1, <1>2, <1>3, <1>4

\* Every number up to the rank of a line is the rank of an entry before it.
LEMMA RankReached ==
    ASSUME NEW lines, NEW n \in Nat, NEW k \in 1 .. Rank(lines, n)
    PROVE  \E i \in 1 .. n : lines[i].frame = "entry" /\ Rank(lines, i) = k
  <1> DEFINE S == {i \in 0 .. n : Rank(lines, i) >= k}
  <1>0. Rank(lines, n) \in Nat /\ k \in Nat
    BY RankGrows
  <1>1. S \subseteq Nat /\ S # {}
    <2>1. n \in S
      BY <1>0
    <2> QED BY <2>1
  <1>2. PICK b \in S : \A c \in S : b <= c
    <2> HIDE DEF S
    <2> QED BY <1>1, Smallest
  <1>3. b \in 0 .. n /\ Rank(lines, b) >= k
    OBVIOUS
  <1>4. b # 0
    BY <1>0, <1>3, RankStarts
  <1>5. b - 1 \in 0 .. n /\ b - 1 \in Nat /\ b \in Nat /\ b - 1 <= b /\ b - (b - 1) = 1
    BY <1>3, <1>4
  <1>6. ~(Rank(lines, b - 1) >= k)
    BY <1>2, <1>5
  <1>7. /\ Rank(lines, b - 1) \in Nat /\ Rank(lines, b) \in Nat
        /\ Rank(lines, b) <= Rank(lines, b - 1) + 1
        /\ (\A i \in (b - 1) + 1 .. b : lines[i].frame # "entry") =>
              Rank(lines, b) = Rank(lines, b - 1)
    <2> DEFINE m == b - 1
    <2>1. m \in Nat /\ b \in Nat /\ m <= b /\ b - m = 1
      BY <1>5
    <2> HIDE DEF m
    <2>2. /\ Rank(lines, m) \in Nat /\ Rank(lines, b) \in Nat
          /\ Rank(lines, b) <= Rank(lines, m) + (b - m)
          /\ (\A i \in m + 1 .. b : lines[i].frame # "entry") => Rank(lines, b) = Rank(lines, m)
      BY <2>1, RankGrows
    <2> QED BY <2>1, <2>2 DEF m
  <1>8. Rank(lines, b) = k
    BY <1>0, <1>3, <1>6, <1>7
  <1>9. lines[b].frame = "entry"
    <2> SUFFICES ASSUME lines[b].frame # "entry" PROVE FALSE
      OBVIOUS
    <2>1. \A i \in (b - 1) + 1 .. b : i = b
      BY <1>5
    <2>2. Rank(lines, b) = Rank(lines, b - 1)
      BY <1>7, <2>1
    <2> QED BY <1>0, <1>3, <1>6, <2>2
  <1> QED BY <1>3, <1>4, <1>8, <1>9

LEMMA WriterCounts ==
    ASSUME NEW S
    PROVE  Writer!Cardinality(S) = Cardinality(S)
  BY DEF Cardinality, Writer!Cardinality

\* What is read of the journal between two of its lines.
LEMMA EntriesAreAdmitted ==
    ASSUME WriterTypes, LinesRule, NEW from \in Nat, NEW to \in Nat, from <= to,
           to <= Len(disk.lines)
    PROVE  LET read == Writer!EntriesIn(from, to) IN
           /\ read \in Seq(Packet)
           /\ Len(read) = Rank(disk.lines, to) - Rank(disk.lines, from)
           /\ \A k \in 1 .. Len(read) : read[k] = admitted[Rank(disk.lines, from) + k]
           /\ Rank(disk.lines, to) <= Len(admitted)
  <1> DEFINE lines == disk.lines
             entries == {i \in from + 1 .. to : disk.lines[i].frame = "entry"}
             nth(k) == CHOOSE i \in entries : Writer!Cardinality({j \in entries : j <= i}) = k
             read == [k \in 1 .. Writer!Cardinality(entries) |-> disk.lines[nth(k)].packet]
             size == Rank(lines, to) - Rank(lines, from)
  <1>0. Len(lines) \in Nat /\ admitted \in Seq(Packet) /\ Len(admitted) \in Nat
    BY DEF WriterTypes
  <1>1. Writer!EntriesIn(from, to) = read
    BY DEF Writer!EntriesIn
  <1>2. /\ Rank(lines, from) \in Nat /\ Rank(lines, to) \in Nat /\ size \in Nat
        /\ Writer!Cardinality(entries) = size
    <2>1. /\ Rank(lines, from) \in 0 .. from /\ Rank(lines, to) \in 0 .. to
          /\ Cardinality(EntriesOf(lines, from, to)) \in 0 .. to - from
          /\ Rank(lines, to) = Rank(lines, from) + Cardinality(EntriesOf(lines, from, to))
      BY RankSplits
    <2>2. Writer!Cardinality(entries) = Cardinality(EntriesOf(lines, from, to))
      BY WriterCounts DEF EntriesOf
    <2> HIDE DEF lines, entries
    <2> QED BY <2>1, <2>2
  <1>3. Rank(lines, to) <= Len(admitted)
    <2>1. /\ Rank(lines, Len(lines)) \in Nat /\ Rank(lines, to) <= Rank(lines, Len(lines))
      BY <1>0, RankGrows
    <2>2. Rank(lines, Len(lines)) <= Len(admitted)
      BY DEF LinesRule
    <2> HIDE DEF lines
    <2> QED BY <1>0, <1>2, <2>1, <2>2
  <1>4. ASSUME NEW i \in entries
        PROVE  Writer!Cardinality({j \in entries : j <= i}) = Rank(lines, i) - Rank(lines, from)
    <2>1. {j \in entries : j <= i} = EntriesOf(lines, from, i)
      BY DEF EntriesOf
    <2>2. i \in Nat /\ from <= i
      OBVIOUS
    <2>3. /\ Rank(lines, from) \in 0 .. from /\ Rank(lines, i) \in 0 .. i
          /\ Cardinality(EntriesOf(lines, from, i)) \in 0 .. i - from
          /\ Rank(lines, i) = Rank(lines, from) + Cardinality(EntriesOf(lines, from, i))
      BY <2>2, RankSplits
    <2>4. Writer!Cardinality({j \in entries : j <= i}) = Cardinality(EntriesOf(lines, from, i))
      BY <2>1, WriterCounts
    <2> HIDE DEF lines, entries
    <2> QED BY <2>2, <2>3, <2>4
  <1>5. ASSUME NEW k \in 1 .. size
        PROVE  /\ nth(k) \in entries /\ Rank(lines, nth(k)) = Rank(lines, from) + k
    <2> DEFINE r == Rank(lines, from) + k
    <2>1. r \in 1 .. Rank(lines, to)
      <3> HIDE DEF lines
      <3> QED BY <1>2
    <2>2. PICK i \in 1 .. to : lines[i].frame = "entry" /\ Rank(lines, i) = r
      <3> HIDE DEF lines, r
      <3> QED BY <2>1, RankReached
    <2>3. i > from
      <3> SUFFICES ASSUME i <= from PROVE FALSE
        OBVIOUS
      <3>1. Rank(lines, i) <= Rank(lines, from)
        <4>1. i \in Nat
          OBVIOUS
        <4> QED BY <4>1, RankGrows
      <3> HIDE DEF lines
      <3> QED BY <1>2, <2>2, <3>1
    <2>4. i \in entries
      BY <2>2, <2>3
    <2>5. Writer!Cardinality({j \in entries : j <= i}) = k
      <3>1. Writer!Cardinality({j \in entries : j <= i}) = Rank(lines, i) - Rank(lines, from)
        BY <1>4, <2>4
      <3>2. Rank(lines, i) = Rank(lines, from) + k
        BY <2>2
      <3> HIDE DEF lines, entries
      <3> QED BY <1>2, <3>1, <3>2
    <2>6. nth(k) \in entries /\ Writer!Cardinality({j \in entries : j <= nth(k)}) = k
      <3> HIDE DEF entries
      <3> QED BY <2>4, <2>5
    <2>7. Writer!Cardinality({j \in entries : j <= nth(k)}) = Rank(lines, nth(k)) - Rank(lines, from)
      <3> HIDE DEF nth
      <3> QED BY <1>4, <2>6
    <2>8. Rank(lines, nth(k)) \in Nat
      <3>1. nth(k) \in Nat
        <4>1. entries \subseteq Nat
          OBVIOUS
        <4> HIDE DEF nth, entries
        <4> QED BY <2>6, <4>1
      <3>2. ASSUME NEW n \in Nat PROVE Rank(lines, n) \in Nat
        <4> HIDE DEF lines
        <4> QED BY RankCounts
      <3> HIDE DEF nth, lines
      <3> QED BY <3>1, <3>2
    <2> HIDE DEF nth, lines, entries
    <2> QED BY <1>2, <2>6, <2>7, <2>8
  <1>6. ASSUME NEW k \in 1 .. size
        PROVE  /\ lines[nth(k)].packet = admitted[Rank(lines, from) + k]
               /\ lines[nth(k)].packet \in Packet
    <2> HIDE DEF nth
    <2>1. nth(k) \in 1 .. Len(lines) /\ lines[nth(k)].frame = "entry"
      BY <1>0, <1>5
    <2>2. lines[nth(k)].packet = admitted[Rank(lines, nth(k))]
      BY <2>1 DEF LinesRule
    <2>3. Rank(lines, from) + k \in 1 .. Len(admitted)
      <3> HIDE DEF lines
      <3> QED BY <1>0, <1>2, <1>3
    <2>4. admitted[Rank(lines, from) + k] \in Packet
      <3> HIDE DEF lines
      <3> QED BY <1>0, <2>3
    <2> HIDE DEF lines, size
    <2> QED BY <1>5, <2>2, <2>4
  <1> HIDE DEF lines, entries, nth, size
  <1>7. read \in Seq(Packet) /\ Len(read) = size /\ \A k \in 1 .. size : read[k] = lines[nth(k)].packet
    <2>1. read = [k \in 1 .. size |-> lines[nth(k)].packet]
      BY <1>2 DEF lines
    <2>2. \A k \in 1 .. size : lines[nth(k)].packet \in Packet
      BY <1>6
    <2> HIDE DEF read
    <2> QED BY <1>2, <2>1, <2>2
  <1> HIDE DEF read
  <1> QED BY <1>1, <1>2, <1>3, <1>6, <1>7 DEF lines, size

LEMMA GreatestLine ==
    ASSUME NEW n \in Nat, NEW S, S \subseteq 1 .. n, S # {}
    PROVE  Writer!Max(S) \in S /\ \A c \in S : c <= Writer!Max(S)
  <1> DEFINE T == {n - x : x \in S}
             low == History!Min(T)
  <1>1. T \subseteq Nat /\ T # {}
    <2>1. \A x \in S : n - x \in Nat
      OBVIOUS
    <2>2. PICK x \in S : TRUE
      OBVIOUS
    <2>3. n - x \in T
      OBVIOUS
    <2> QED BY <2>1, <2>3
  <1>2. low \in T /\ \A c \in T : low <= c
    <2> HIDE DEF T
    <2> QED BY <1>1, Smallest
  <1> HIDE DEF low
  <1>3. PICK b \in S : low = n - b
    BY <1>2
  <1>4. ASSUME NEW c \in S PROVE b >= c
    <2>1. n - c \in T
      OBVIOUS
    <2>2. n - b <= n - c
      BY <1>2, <1>3, <2>1
    <2>3. b \in Int /\ c \in Int
      OBVIOUS
    <2> QED BY <2>2, <2>3
  <1>5. \E x \in S : \A y \in S : x >= y
    BY <1>4
  <1>6. Writer!Max(S) \in S /\ \A c \in S : Writer!Max(S) >= c
    BY <1>5 DEF Writer!Max
  <1>7. ASSUME NEW a \in S, NEW c \in S, a >= c PROVE c <= a
    <2>1. a \in Int /\ c \in Int
      OBVIOUS
    <2> QED BY <1>7, <2>1
  <1> QED BY <1>6, <1>7

LEMMA LastCommit ==
    ASSUME NEW lines \in Seq(Line)
    PROVE  Writer!CommittedIn(lines) \in Int
  <1> DEFINE marks == {i \in DOMAIN lines : lines[i].frame = "commit"}
  <1>1. marks \subseteq 1 .. Len(lines) /\ Len(lines) \in Nat
    OBVIOUS
  <1>2. ASSUME marks # {} PROVE lines[Writer!Max(marks)].last \in Int
    <2>1. Writer!Max(marks) \in marks
      <3> HIDE DEF marks
      <3> QED BY <1>1, <1>2, GreatestLine
    <2>2. PICK i \in DOMAIN lines : i = Writer!Max(marks) /\ lines[i].frame = "commit"
      BY <2>1
    <2>3. lines[i] \in Line
      BY <2>2
    <2>4. lines[i].last \in Int
      BY <2>2, <2>3 DEF Line
    <2> HIDE DEF marks
    <2> QED BY <2>2, <2>4
  <1> QED BY <1>2 DEF Writer!CommittedIn

-----------------------------------------------------------------------------
(* What a step of the writer leaves as it is. *)

LEMMA LinesStay ==
    ASSUME WriterTypes, LinesRule, disk'.lines = disk.lines, disk'.synced <= Len(disk.lines),
           admitted' = admitted,
           worker'.at = "create" => worker.at = "create",
           worker'.at \notin {"create", "ended", "dead"} =>
               worker.at \notin {"create", "ended", "dead"}
    PROVE  LinesRule'
  <1> DEFINE lines == disk.lines
  <1>1. lines' = lines
    OBVIOUS
  <1>2. Rank(lines, Len(lines))' = Rank(lines, Len(lines))
    <2> HIDE DEF lines
    <2> QED BY <1>1
  <1>3. \A i : Rank(lines, i)' = Rank(lines', i)
    <2> HIDE DEF lines
    <2> QED OBVIOUS
  <1> QED BY <1>1, <1>2, <1>3 DEF LinesRule

LEMMA ReaderStays ==
    ASSUME WriterTypes, ReaderRule, disk'.lines = disk.lines, admitted' = admitted,
           reader' = reader, worker'.at # "dead" => worker.at # "dead"
    PROVE  ReaderRule'
  BY DEF ReaderRule, Writer!InOrder

LEMMA DurableStays ==
    ASSUME WriterTypes, DurableRule, disk'.lines = disk.lines, disk'.synced \in Nat,
           disk.synced <= disk'.synced, worker'.acknowledged = worker.acknowledged,
           disk'.checkpoint <= worker.acknowledged, disk'.manifest <= worker.acknowledged
    PROVE  DurableRule'
  <1>1. disk.synced \in Nat
    BY DEF WriterTypes
  <1>2. 1 .. disk.synced \subseteq 1 .. disk'.synced
    BY <1>1
  <1> QED BY <1>2 DEF DurableRule

LEMMA RoomStays ==
    ASSUME WriterTypes, RoomRule, queue' = queue,
           worker'.batch = worker.batch \/ worker'.batch = <<>>,
           worker'.deferred = worker.deferred \/ worker'.deferred = <<>>
    PROVE  RoomRule'
  <1> DEFINE q == Count(queue, Data)
             b == Count(worker.batch, Data)
             d == Count(worker.deferred, Data)
             nb == Count(worker'.batch, Data)
             nd == Count(worker'.deferred, Data)
  <1>1. q \in Nat /\ b \in Nat /\ d \in Nat
    <2>1. queue \in Seq(Packet) /\ worker.batch \in Seq(Packet) /\ worker.deferred \in Seq(Packet)
      BY DEF WriterTypes
    <2> QED BY <2>1, CountEnds
  <1>2. nb \in {b, 0} /\ nd \in {d, 0}
    BY CountOne
  <1>3. q + b + d <= Slots - ControlSlots
    BY DEF RoomRule
  <1>4. Writer!WriterAssumption
    BY RecorderAssumption
  <1>5. Slots \in Int /\ ControlSlots \in Int
    BY <1>4 DEF Writer!WriterAssumption
  <1>6. RoomRule' = (q + nb + nd <= Slots - ControlSlots)
    BY DEF RoomRule, Data
  <1> HIDE DEF q, b, d, nb, nd
  <1>7. q + nb + nd <= Slots - ControlSlots
    BY <1>1, <1>2, <1>3, <1>5
  <1> QED BY <1>6, <1>7

-----------------------------------------------------------------------------
(* Where a packet stands between its admission and its acknowledgement. *)

LEMMA BookedSend ==
    ASSUME NEW n \in Nat, NEW b \in Seq(Packet), NEW d \in Seq(Packet), NEW q \in Seq(Packet),
           NEW a \in Seq(Packet), Booked(n, b, d, q, a), NEW p \in Packet
    PROVE  Booked(n, b, d, Append(q, p), Append(a, p))
  <1> DEFINE s == Append(q, p)
             t == Append(a, p)
             known == n + Len(b) + Len(d)
  <1>1. /\ Len(s) = Len(q) + 1 /\ Len(t) = Len(a) + 1 /\ s[Len(q) + 1] = p /\ t[Len(a) + 1] = p
        /\ \A k \in 1 .. Len(q) : s[k] = q[k]
        /\ \A k \in 1 .. Len(a) : t[k] = a[k]
    OBVIOUS
  <1>2. Len(q) \in Nat /\ Len(a) \in Nat /\ Len(b) \in Nat /\ Len(d) \in Nat /\ known \in Nat
    OBVIOUS
  <1>3. /\ Len(a) = known + Len(q)
        /\ \A k \in 1 .. Len(b) : b[k] = a[n + k]
        /\ \A k \in 1 .. Len(d) : d[k] = a[n + Len(b) + k]
        /\ \A k \in 1 .. Len(q) : q[k] = a[known + k]
    BY DEF Booked
  <1> HIDE DEF s, t
  <1>4. ASSUME NEW k \in 1 .. Len(b) PROVE b[k] = t[n + k]
    <2>1. n + k \in 1 .. Len(a)
      BY <1>2, <1>3
    <2> QED BY <1>1, <1>3, <2>1
  <1>5. ASSUME NEW k \in 1 .. Len(d) PROVE d[k] = t[n + Len(b) + k]
    <2>1. n + Len(b) + k \in 1 .. Len(a)
      BY <1>2, <1>3
    <2> QED BY <1>1, <1>3, <2>1
  <1> HIDE DEF known
  <1>6. ASSUME NEW k \in 1 .. Len(s) PROVE s[k] = t[known + k]
    <2>1. CASE k \in 1 .. Len(q)
      <3>1. known + k \in 1 .. Len(a)
        BY <1>2, <1>3, <2>1
      <3> QED BY <1>1, <1>3, <2>1, <3>1
    <2>2. CASE k = Len(q) + 1
      <3>1. known + k = Len(a) + 1
        BY <1>2, <1>3, <2>2
      <3> QED BY <1>1, <2>2, <3>1
    <2>3. k \in 1 .. Len(q) \/ k = Len(q) + 1
      BY <1>1, <1>2
    <2> QED BY <2>1, <2>2, <2>3
  <1>7. Len(t) = known + Len(s)
    BY <1>1, <1>2, <1>3
  <1> QED BY <1>4, <1>5, <1>6, <1>7 DEF Booked, s, t, known

LEMMA BookedTake ==
    ASSUME NEW n \in Nat, NEW b \in Seq(Packet), NEW q \in Seq(Packet), NEW a \in Seq(Packet),
           q # <<>>, Booked(n, b, <<>>, q, a)
    PROVE  /\ Head(q) \in Packet /\ Tail(q) \in Seq(Packet)
           /\ Booked(n, Append(b, Head(q)), <<>>, Tail(q), a)
           /\ Booked(n, b, <<Head(q)>>, Tail(q), a)
  <1> DEFINE h == Head(q)
             t == Tail(q)
             s == Append(b, h)
             known == n + Len(b)
  <1>1. /\ h \in Packet /\ t \in Seq(Packet) /\ Len(q) \in Nat /\ Len(q) = Len(t) + 1
        /\ h = q[1] /\ \A k \in 1 .. Len(t) : t[k] = q[k + 1]
    BY HeadTailProperties
  <1>2. Len(b) \in Nat /\ known \in Nat /\ Len(t) \in Nat
    BY <1>1
  <1> HIDE DEF h, t
  <1>3. /\ Len(a) = known + Len(q)
        /\ \A k \in 1 .. Len(b) : b[k] = a[n + k]
        /\ \A k \in 1 .. Len(q) : q[k] = a[known + k]
    BY <1>2 DEF Booked
  <1> HIDE DEF known
  <1>4. h = a[known + 1]
    <2>1. 1 \in 1 .. Len(q)
      BY <1>1, <1>2
    <2> QED BY <1>1, <1>3, <2>1
  <1>5. ASSUME NEW k \in 1 .. Len(t) PROVE t[k] = a[(known + 1) + k]
    <2>1. k + 1 \in 1 .. Len(q) /\ known + (k + 1) = (known + 1) + k
      BY <1>1, <1>2
    <2> QED BY <1>1, <1>3, <2>1
  <1>6. Booked(n, s, <<>>, t, a)
    <2>1. Len(s) = Len(b) + 1 /\ s[Len(b) + 1] = h /\ \A k \in 1 .. Len(b) : s[k] = b[k]
      BY <1>1
    <2> HIDE DEF s
    <2>2. n + Len(s) = known + 1
      BY <1>2, <2>1 DEF known
    <2>3. ASSUME NEW k \in 1 .. Len(s) PROVE s[k] = a[n + k]
      <3>1. CASE k \in 1 .. Len(b)
        BY <1>3, <2>1, <3>1
      <3>2. CASE k = Len(b) + 1
        <4>1. n + k = known + 1
          BY <1>2, <3>2 DEF known
        <4> QED BY <1>4, <2>1, <3>2, <4>1
      <3> QED BY <1>2, <2>1, <3>1, <3>2
    <2> DEFINE none == <<>>
    <2>0. Len(none) = 0
      OBVIOUS
    <2> HIDE DEF none
    <2>7. Len(s) \in Nat
      BY <1>2, <2>1
    <2>8. n + Len(s) + Len(none) = known + 1
      <3> DEFINE size == Len(s)
      <3> HIDE DEF size
      <3>1. size \in Nat /\ n + size = known + 1
        BY <2>2, <2>7 DEF size
      <3>2. n + size + 0 = known + 1
        BY <3>1
      <3> QED BY <2>0, <3>2 DEF size
    <2>4. Len(a) = n + Len(s) + Len(none) + Len(t)
      <3>1. Len(a) = known + (Len(t) + 1)
        BY <1>1, <1>3
      <3>2. Len(a) = (known + 1) + Len(t)
        BY <1>2, <3>1
      <3> QED BY <2>8, <3>2
    <2>5. ASSUME NEW k \in 1 .. Len(t) PROVE t[k] = a[n + Len(s) + Len(none) + k]
      BY <1>5, <2>8
    <2>6. ASSUME NEW k \in 1 .. Len(none) PROVE none[k] = a[n + Len(s) + k]
      BY <2>0
    <2> QED BY <2>3, <2>4, <2>5, <2>6 DEF Booked, none
  <1>7. Booked(n, b, <<h>>, t, a)
    <2> DEFINE one == <<h>>
    <2>1. Len(one) = 1 /\ one[1] = h
      OBVIOUS
    <2> HIDE DEF one
    <2>2. Len(a) = n + Len(b) + Len(one) + Len(t)
      BY <1>1, <1>2, <1>3, <2>1 DEF known
    <2>3. ASSUME NEW k \in 1 .. Len(one) PROVE one[k] = a[n + Len(b) + k]
      BY <1>4, <2>1 DEF known
    <2>4. ASSUME NEW k \in 1 .. Len(t) PROVE t[k] = a[n + Len(b) + Len(one) + k]
      BY <1>5, <2>1 DEF known
    <2> QED BY <1>3, <2>2, <2>3, <2>4 DEF Booked, one
  <1> QED BY <1>1, <1>6, <1>7 DEF h, t

LEMMA BookedShift ==
    ASSUME NEW n \in Nat, NEW b \in Seq(Packet), NEW d \in Seq(Packet), NEW q \in Seq(Packet),
           NEW a \in Seq(Packet), Booked(n, b, d, q, a)
    PROVE  /\ b = <<>> => Booked(n, d, <<>>, q, a)
           /\ Booked(n + Len(b), <<>>, d, q, a)
  <1> DEFINE none == <<>>
  <1>0. Len(none) = 0 /\ Len(b) \in Nat /\ Len(d) \in Nat /\ Len(q) \in Nat
    OBVIOUS
  <1> HIDE DEF none
  <1>1. ASSUME NEW k \in 1 .. Len(none) PROVE FALSE
    BY <1>0
  <1>2. /\ Len(a) = n + Len(b) + Len(d) + Len(q)
        /\ \A k \in 1 .. Len(d) : d[k] = a[n + Len(b) + k]
        /\ \A k \in 1 .. Len(q) : q[k] = a[n + Len(b) + Len(d) + k]
    BY DEF Booked
  <1>3. ASSUME b = none PROVE Booked(n, d, none, q, a)
    <2>1. Len(b) = 0
      BY <1>0, <1>3
    <2>2. Len(a) = n + Len(d) + Len(none) + Len(q)
      BY <1>0, <1>2, <2>1
    <2>3. ASSUME NEW k \in 1 .. Len(d) PROVE d[k] = a[n + k]
      <3>1. n + Len(b) + k = n + k
        BY <1>0, <2>1
      <3> QED BY <1>2, <3>1
    <2>4. ASSUME NEW k \in 1 .. Len(q) PROVE q[k] = a[n + Len(d) + Len(none) + k]
      <3>1. n + Len(b) + Len(d) + k = n + Len(d) + Len(none) + k
        BY <1>0, <2>1
      <3> QED BY <1>2, <3>1
    <2> QED BY <1>1, <2>2, <2>3, <2>4 DEF Booked
  <1>4. Booked(n + Len(b), none, d, q, a)
    <2> DEFINE m == n + Len(b)
    <2>1. m \in Nat
      BY <1>0
    <2> HIDE DEF m
    <2>2. Len(a) = m + Len(none) + Len(d) + Len(q)
      BY <1>0, <1>2, <2>1 DEF m
    <2>3. ASSUME NEW k \in 1 .. Len(d) PROVE d[k] = a[m + Len(none) + k]
      <3>1. m + Len(none) + k = m + k
        BY <1>0, <2>1
      <3> QED BY <1>2, <3>1 DEF m
    <2>4. ASSUME NEW k \in 1 .. Len(q) PROVE q[k] = a[m + Len(none) + Len(d) + k]
      <3>1. m + Len(none) + Len(d) + k = m + Len(d) + k
        BY <1>0, <2>1
      <3> QED BY <1>2, <3>1 DEF m
    <2> QED BY <1>1, <2>2, <2>3, <2>4 DEF Booked, m
  <1> QED BY <1>3, <1>4 DEF none

LEMMA BesideTheWriter ==
    ASSUME WriterInvariant, UNCHANGED <<queue, worker, disk, reader, admitted>>, WriterTypes'
    PROVE  WriterInvariant'
  <1>1. LinesRule'
    BY DEF WriterInvariant, LinesRule
  <1>2. BookRule'
    BY DEF WriterInvariant, BookRule
  <1>3. DurableRule'
    BY DEF WriterInvariant, DurableRule
  <1>4. ReaderRule'
    BY DEF WriterInvariant, ReaderRule, Writer!InOrder
  <1>5. RoomRule'
    BY DEF WriterInvariant, RoomRule, Data
  <1> QED BY <1>1, <1>2, <1>3, <1>4, <1>5 DEF WriterInvariant

LEMMA AdmissionBegins ==
    ASSUME WriterInvariant,
           (\E control \in BOOLEAN : Writer!CheckFlags(control)) \/ Writer!TryGate
    PROVE  WriterInvariant'
  <1>0. WriterTypes
    BY DEF WriterInvariant
  <1>1. UNCHANGED <<queue, worker, disk, reader, admitted, flags>>
    <2>1. ASSUME NEW control \in BOOLEAN, Writer!CheckFlags(control)
          PROVE  UNCHANGED <<queue, worker, disk, reader, admitted, flags>>
      BY <2>1, Zenon DEF Writer!CheckFlags
    <2>2. ASSUME Writer!TryGate
          PROVE  UNCHANGED <<queue, worker, disk, reader, admitted, flags>>
      BY <2>2 DEF Writer!TryGate
    <2> QED BY <2>1, <2>2
  <1>2. producer' \in [step : {"free", "checked", "locked"}, packet : Packet, tried : Int]
    <2>1. CASE \E control \in BOOLEAN : Writer!CheckFlags(control)
      <3>1. PICK control \in BOOLEAN : Writer!CheckFlags(control)
        BY <2>1
      <3> DEFINE p == [id |-> Len(admitted) + 1, control |-> control]
      <3>2. p \in Packet
        BY <1>0 DEF WriterTypes, Packet
      <3>3. producer' = IF flags.closing \/ flags.failed THEN [producer EXCEPT !.tried = @ + 1]
                        ELSE [producer EXCEPT !.step = "checked", !.packet = p]
        BY <3>1, Zenon DEF Writer!CheckFlags
      <3> HIDE DEF p
      <3>4. producer \in [step : {"free", "checked", "locked"}, packet : Packet, tried : Int]
        BY <1>0 DEF WriterTypes
      <3>5. CASE producer' = [producer EXCEPT !.tried = @ + 1]
        BY <3>4, <3>5
      <3>6. CASE producer' = [producer EXCEPT !.step = "checked", !.packet = p]
        BY <3>2, <3>4, <3>6
      <3> QED BY <3>3, <3>5, <3>6
    <2>2. CASE Writer!TryGate
      BY <1>0, <2>2 DEF WriterTypes, Writer!TryGate, Writer!Tried
    <2> QED BY <2>1, <2>2
  <1>3. WriterTypes'
    BY <1>0, <1>1, <1>2 DEF WriterTypes
  <1> QED BY <1>1, <1>3, BesideTheWriter

LEMMA SessionKeeps ==
    ASSUME WriterInvariant, Writer!Session
    PROVE  WriterInvariant'
  <1>0. WriterTypes
    BY DEF WriterInvariant
  <1>1. UNCHANGED <<queue, worker, disk, reader, admitted, producer>>
    BY DEF Writer!Session, Writer!Close, Writer!Join, Writer!Abandon
  <1>2. flags' \in [closing : BOOLEAN, abandoned : BOOLEAN, failed : BOOLEAN]
    <2>1. CASE Writer!Close
      BY <1>0, <2>1 DEF WriterTypes, Writer!Close
    <2>2. CASE Writer!Join
      BY <1>0, <2>2 DEF WriterTypes, Writer!Join
    <2>3. CASE Writer!Abandon
      BY <1>0, <2>3 DEF WriterTypes, Writer!Abandon
    <2> QED BY <2>1, <2>2, <2>3 DEF Writer!Session
  <1>3. WriterTypes'
    BY <1>0, <1>1, <1>2 DEF WriterTypes
  <1> QED BY <1>1, <1>3, BesideTheWriter

LEMMA RoomForOne ==
    ASSUME WriterTypes, RoomRule, NEW p \in Packet, Writer!Reserves(p)
    PROVE  Count(queue, Data) + (IF p \in Data THEN 1 ELSE 0) + Count(worker.batch, Data)
               + Count(worker.deferred, Data) <= Slots - ControlSlots
  <1> DEFINE q == Count(queue, Data)
             b == Count(worker.batch, Data)
             d == Count(worker.deferred, Data)
             lq == Len(queue)
             lb == Len(worker.batch)
             ld == Len(worker.deferred)
             s == Slots - ControlSlots
  <1>1. q \in 0 .. lq /\ b \in 0 .. lb /\ d \in 0 .. ld /\ lq \in Nat /\ lb \in Nat /\ ld \in Nat
    <2>1. queue \in Seq(Packet) /\ worker.batch \in Seq(Packet) /\ worker.deferred \in Seq(Packet)
      BY DEF WriterTypes
    <2> QED BY <2>1, CountConcat
  <1>2. p \in Data <=> ~p.control
    BY DEF Data
  <1>3. lq + lb + ld < (IF p.control THEN Slots ELSE s)
    BY DEF Writer!Reserves, Writer!InUse
  <1>4. q + b + d <= s
    BY DEF RoomRule
  <1>5. s \in Int
    <2>1. Writer!WriterAssumption
      BY RecorderAssumption
    <2> QED BY <2>1 DEF Writer!WriterAssumption
  <1> HIDE DEF q, b, d, lq, lb, ld, s
  <1>6. CASE p.control
    <2>1. ~(p \in Data)
      BY <1>2, <1>6
    <2> QED BY <1>1, <1>4, <2>1 DEF q, b, d, s
  <1>7. CASE ~p.control
    <2>1. p \in Data /\ lq + lb + ld < s
      BY <1>2, <1>3, <1>7
    <2>2. q + 1 + b + d <= s
      BY <1>1, <1>5, <2>1
    <2> QED BY <2>1, <2>2 DEF q, b, d, s
  <1> QED BY <1>6, <1>7

\* A packet that is admitted comes after those that were.
LEMMA SendTakes ==
    ASSUME WriterInvariant, ~Writer!At("dead"), NEW p \in Packet,
           Writer!Reserves(p), ~Writer!At("ended"),
           queue' = Append(queue, p), admitted' = Append(admitted, p),
           UNCHANGED <<worker, disk, reader, flags>>,
           producer' \in [step : {"free", "checked", "locked"}, packet : Packet, tried : Int]
    PROVE  WriterInvariant'
  <1>0. /\ WriterTypes /\ LinesRule /\ BookRule /\ DurableRule /\ ReaderRule /\ RoomRule
        /\ worker.at \notin {"ended", "dead"}
    BY DEF WriterInvariant, Writer!At
  <1>1. WriterTypes'
    BY <1>0 DEF WriterTypes
  <1>2. /\ admitted \in Seq(Packet) /\ queue \in Seq(Packet)
        /\ Len(admitted) \in Nat /\ Len(queue) \in Nat
        /\ Len(admitted') = Len(admitted) + 1 /\ Len(queue') = Len(queue) + 1
        /\ \A k \in 1 .. Len(admitted) : admitted'[k] = admitted[k]
        /\ \A k \in 1 .. Len(queue) : queue'[k] = queue[k]
        /\ admitted'[Len(admitted) + 1] = p /\ queue'[Len(queue) + 1] = p
    BY <1>0 DEF WriterTypes
  <1>3. LinesRule'
    <2> DEFINE lines == disk.lines
               total == Rank(disk.lines, Len(disk.lines))
    <2>1. lines' = lines /\ Len(lines) \in Nat
      BY <1>0 DEF WriterTypes
    <2>2. \A i \in 1 .. Len(lines) :
             Rank(lines, i) \in 0 .. total /\ (lines[i].frame = "entry" => Rank(lines, i) # 0)
      <3> SUFFICES ASSUME NEW i \in 1 .. Len(lines)
                   PROVE  Rank(lines, i) \in 0 .. total
                          /\ (lines[i].frame = "entry" => Rank(lines, i) # 0)
        OBVIOUS
      <3>1. i \in Nat /\ i <= Len(lines) /\ 0 <= i /\ i \in 0 + 1 .. i
        BY <2>1
      <3> HIDE DEF lines
      <3>2. Rank(lines, i) \in Nat /\ Rank(lines, Len(lines)) \in Nat
            /\ Rank(lines, i) <= Rank(lines, Len(lines))
        BY <2>1, <3>1, RankGrows
      <3>3. Rank(lines, 0) \in Nat
            /\ ((\E j \in 0 + 1 .. i : lines[j].frame = "entry") => Rank(lines, 0) < Rank(lines, i))
        BY <3>1, RankGrows
      <3> QED BY <3>1, <3>2, <3>3 DEF lines
    <2>3. total' = total /\ total <= Len(admitted)
      BY <1>0 DEF LinesRule
    <2>4. total \in Nat
      <3> HIDE DEF lines
      <3>1. Rank(lines, Len(lines)) \in Nat
        BY <2>1, RankCounts
      <3> QED BY <3>1 DEF lines
    <2>5. total' <= Len(admitted')
      <3> HIDE DEF total
      <3> QED BY <1>2, <2>3, <2>4
    <2>6. ASSUME NEW i \in 1 .. Len(lines), lines[i].frame = "entry"
          PROVE  lines[i].packet = admitted'[Rank(lines, i)]
      <3>1. lines[i].packet = admitted[Rank(lines, i)]
        BY <1>0, <2>6 DEF LinesRule
      <3>2. Rank(lines, i) \in 1 .. Len(admitted)
        <4>1. Rank(lines, i) \in 0 .. total /\ Rank(lines, i) # 0
          BY <2>2, <2>6
        <4> HIDE DEF total, lines
        <4> QED BY <1>2, <2>3, <2>4, <4>1
      <3> HIDE DEF lines
      <3> QED BY <1>2, <3>1, <3>2
    <2> QED BY <1>0, <2>1, <2>5, <2>6 DEF LinesRule
  <1>4. BookRule'
    <2>1. /\ worker.acknowledged \in Nat /\ worker.batch \in Seq(Packet)
          /\ worker.deferred \in Seq(Packet) /\ queue \in Seq(Packet) /\ admitted \in Seq(Packet)
      BY <1>0 DEF WriterTypes
    <2>2. Booked(worker.acknowledged, worker.batch, worker.deferred, queue, admitted)
      BY <1>0 DEF BookRule
    <2>3. Booked(worker.acknowledged, worker.batch, worker.deferred, queue', admitted')
      BY <2>1, <2>2, BookedSend
    <2> QED BY <1>0, <2>3 DEF BookRule
  <1>5. DurableRule'
    BY <1>0 DEF DurableRule
  <1>6. ReaderRule'
    <2>1. Len(reader.packets) \in Nat /\ DOMAIN reader.packets = 1 .. Len(reader.packets)
      BY <1>0 DEF WriterTypes
    <2>2. /\ Len(reader.packets) <= Len(admitted)
          /\ \A i \in DOMAIN reader.packets : reader.packets[i] = admitted[i]
      BY <1>0 DEF ReaderRule, Writer!InOrder
    <2>3. /\ Len(reader.packets) <= Len(admitted')
          /\ \A i \in DOMAIN reader.packets : reader.packets[i] = admitted'[i]
      BY <1>2, <2>1, <2>2
    <2> QED BY <1>0, <2>3 DEF ReaderRule, Writer!InOrder
  <1>7. RoomRule'
    <2> DEFINE q == Count(queue, Data)
               b == Count(worker.batch, Data)
               d == Count(worker.deferred, Data)
               n == Count(Append(queue, p), Data)
    <2>1. /\ q \in 0 .. Len(queue) /\ b \in 0 .. Len(worker.batch) /\ d \in 0 .. Len(worker.deferred)
          /\ n = q + (IF p \in Data THEN 1 ELSE 0)
      <3>1. /\ queue \in Seq(Packet) /\ worker.batch \in Seq(Packet)
            /\ worker.deferred \in Seq(Packet)
        BY <1>0 DEF WriterTypes
      <3> QED BY <3>1, CountConcat, CountEnds
    <2>7. RoomRule' = (n + b + d <= Slots - ControlSlots)
      BY DEF RoomRule, Data
    <2>8. n + b + d <= Slots - ControlSlots
      BY <1>0, <2>1, RoomForOne
    <2> QED BY <2>7, <2>8
  <1> QED BY <1>1, <1>3, <1>4, <1>5, <1>6, <1>7 DEF WriterInvariant

LEMMA SendKeepsOrder ==
    ASSUME WriterInvariant, ~Writer!At("dead"), Writer!Send
    PROVE  WriterInvariant'
  <1> DEFINE p == producer.packet
  <1>0. WriterTypes
    BY DEF WriterInvariant
  <1>1. /\ UNCHANGED <<worker, disk, reader, flags>>
        /\ producer' = [step |-> "free", packet |-> p, tried |-> producer.tried + 1]
    BY DEF Writer!Send, Writer!Tried
  <1>2. p \in Packet
        /\ producer' \in [step : {"free", "checked", "locked"}, packet : Packet, tried : Int]
    BY <1>0, <1>1 DEF WriterTypes
  <1>3. \/ /\ Writer!Reserves(p) /\ ~Writer!At("ended")
           /\ queue' = Append(queue, p) /\ admitted' = Append(admitted, p)
        \/ UNCHANGED <<queue, admitted>>
    BY DEF Writer!Send
  <1>4. CASE UNCHANGED <<queue, admitted>>
    <2>1. WriterTypes'
      BY <1>0, <1>1, <1>2, <1>4 DEF WriterTypes
    <2> QED BY <1>1, <1>4, <2>1, BesideTheWriter
  <1> HIDE DEF p
  <1> QED BY <1>1, <1>2, <1>3, <1>4, SendTakes

LEMMA WorkerEnds ==
    ASSUME WriterInvariant, Writer!Fail, UNCHANGED <<queue, disk, reader, admitted, producer>>,
           flags' \in [closing : BOOLEAN, abandoned : BOOLEAN, failed : BOOLEAN],
           ~Writer!At("dead")
    PROVE  WriterInvariant'
  <1>0. /\ WriterTypes /\ LinesRule /\ BookRule /\ DurableRule /\ ReaderRule /\ RoomRule
        /\ worker.at # "dead"
    BY DEF WriterInvariant, Writer!At
  <1>1. /\ worker' \in [at : Writer!Places, batch : Seq(Packet), deferred : Seq(Packet),
                        failed : BOOLEAN, acknowledged : Nat]
        /\ worker'.at = "ended" /\ worker'.batch = <<>> /\ worker'.deferred = <<>>
        /\ worker'.acknowledged = worker.acknowledged
    <2> DEFINE none == <<>>
    <2>1. none \in Seq(Packet)
      OBVIOUS
    <2>2. worker' = [worker EXCEPT !.at = "ended", !.failed = TRUE, !.batch = none, !.deferred = none]
      BY DEF Writer!Fail
    <2> HIDE DEF none
    <2>3. /\ worker' \in [at : Writer!Places, batch : Seq(Packet), deferred : Seq(Packet),
                          failed : BOOLEAN, acknowledged : Nat]
          /\ worker'.at = "ended" /\ worker'.batch = none /\ worker'.deferred = none
          /\ worker'.acknowledged = worker.acknowledged
      BY <1>0, <2>1, <2>2 DEF WriterTypes, Writer!Places
    <2> QED BY <2>3 DEF none
  <1>2. WriterTypes'
    BY <1>0, <1>1 DEF WriterTypes
  <1>3. LinesRule'
    <2>1. disk.synced <= Len(disk.lines)
      BY <1>0 DEF LinesRule
    <2> QED BY <1>0, <1>1, <2>1, LinesStay
  <1>4. BookRule'
    BY <1>1 DEF BookRule
  <1>5. DurableRule'
    BY <1>0, <1>1 DEF DurableRule
  <1>6. ReaderRule'
    BY <1>0, <1>1, ReaderStays
  <1>7. RoomRule'
    BY <1>0, <1>1, RoomStays
  <1> QED BY <1>2, <1>3, <1>4, <1>5, <1>6, <1>7 DEF WriterInvariant

LEMMA WorkerMoves ==
    ASSUME WriterInvariant, NEW x \in Writer!Places, worker' = [worker EXCEPT !.at = x],
           worker.at \notin {"create", "ended", "dead"}, x \notin {"create", "dead", "sync"},
           x \in {"commit"} \/ worker.at \in {"commit", "sync"} => FALSE,
           x \notin Holding => worker.batch = <<>>, x = "gather" => worker.deferred = <<>>,
           UNCHANGED <<queue, reader, admitted, producer, flags>>,
           disk' \in [lines : Seq(Line), synced : Nat, checkpoint : Int, manifest : Int],
           disk'.lines = disk.lines, disk'.synced = disk.synced,
           disk'.checkpoint \in {disk.checkpoint, worker.acknowledged, 0},
           disk'.manifest \in {disk.manifest, worker.acknowledged, 0}
    PROVE  WriterInvariant'
  <1>0. /\ WriterTypes /\ LinesRule /\ BookRule /\ DurableRule /\ ReaderRule /\ RoomRule
    BY DEF WriterInvariant
  <1>1. /\ worker' \in [at : Writer!Places, batch : Seq(Packet), deferred : Seq(Packet),
                        failed : BOOLEAN, acknowledged : Nat]
        /\ worker'.at = x /\ worker'.batch = worker.batch /\ worker'.deferred = worker.deferred
        /\ worker'.acknowledged = worker.acknowledged
    BY <1>0 DEF WriterTypes
  <1>2. WriterTypes'
    BY <1>0, <1>1 DEF WriterTypes
  <1>3. LinesRule'
    <2>1. disk.synced <= Len(disk.lines)
      BY <1>0 DEF LinesRule
    <2> QED BY <1>0, <1>1, <2>1, LinesStay
  <1>4. BookRule'
    BY <1>0, <1>1 DEF BookRule
  <1>5. DurableRule'
    <2>1. /\ disk.checkpoint <= worker.acknowledged /\ disk.manifest <= worker.acknowledged
          /\ worker.acknowledged \in Nat /\ disk.synced \in Nat /\ 0 <= worker.acknowledged
      BY <1>0 DEF DurableRule, WriterTypes
    <2>2. worker.acknowledged <= worker.acknowledged /\ disk.synced <= disk'.synced
      BY <2>1
    <2>3. disk'.checkpoint <= worker.acknowledged /\ disk'.manifest <= worker.acknowledged
      BY <2>1, <2>2
    <2> QED BY <1>0, <1>1, <2>1, <2>2, <2>3, DurableStays
  <1>6. ReaderRule'
    BY <1>0, <1>1, ReaderStays
  <1>7. RoomRule'
    BY <1>0, <1>1, RoomStays
  <1> QED BY <1>2, <1>3, <1>4, <1>5, <1>6, <1>7 DEF WriterInvariant

\* The worker takes packets of the queue or of the place of the deferred one.
LEMMA WorkerTakes ==
    ASSUME WriterInvariant, UNCHANGED <<disk, reader, admitted, producer, flags>>,
           queue' \in Seq(Packet),
           worker' \in [at : Writer!Places, batch : Seq(Packet), deferred : Seq(Packet),
                        failed : BOOLEAN, acknowledged : Nat],
           worker'.acknowledged = worker.acknowledged,
           worker.at \in {"receive", "gather"}, worker'.at \in {"gather", "append"},
           worker'.at = "gather" => worker'.deferred = <<>>,
           Booked(worker.acknowledged, worker'.batch, worker'.deferred, queue', admitted),
           Count(queue', Data) + Count(worker'.batch, Data) + Count(worker'.deferred, Data)
               <= Count(queue, Data) + Count(worker.batch, Data) + Count(worker.deferred, Data)
    PROVE  WriterInvariant'
  <1>0. /\ WriterTypes /\ LinesRule /\ BookRule /\ DurableRule /\ ReaderRule /\ RoomRule
    BY DEF WriterInvariant
  <1>2. WriterTypes'
    BY <1>0 DEF WriterTypes
  <1>3. LinesRule'
    <2>1. disk.synced <= Len(disk.lines)
      BY <1>0 DEF LinesRule
    <2> QED BY <1>0, <2>1, LinesStay
  <1>4. BookRule'
    BY <1>0 DEF BookRule, Holding
  <1>5. DurableRule'
    BY <1>0 DEF DurableRule
  <1>6. ReaderRule'
    BY <1>0, ReaderStays
  <1>7. RoomRule'
    <2> DEFINE old == Count(queue, Data) + Count(worker.batch, Data) + Count(worker.deferred, Data)
               new == Count(queue', Data) + Count(worker'.batch, Data)
                          + Count(worker'.deferred, Data)
               s == Slots - ControlSlots
    <2>1. old \in Int /\ new \in Int /\ s \in Int
      <3>1. /\ Count(queue, Data) \in Nat /\ Count(worker.batch, Data) \in Nat
            /\ Count(worker.deferred, Data) \in Nat /\ Count(queue', Data) \in Nat
            /\ Count(worker'.batch, Data) \in Nat /\ Count(worker'.deferred, Data) \in Nat
        <4>1. /\ queue \in Seq(Packet) /\ worker.batch \in Seq(Packet)
              /\ worker.deferred \in Seq(Packet)
              /\ worker'.batch \in Seq(Packet) /\ worker'.deferred \in Seq(Packet)
          BY <1>0 DEF WriterTypes
        <4> QED BY <4>1, CountEnds
      <3>2. Writer!WriterAssumption
        BY RecorderAssumption
      <3> QED BY <3>1, <3>2 DEF Writer!WriterAssumption
    <2>2. new <= old /\ old <= s
      BY <1>0 DEF RoomRule
    <2>3. new <= s => RoomRule'
      BY DEF RoomRule, Data
    <2> HIDE DEF old, new, s
    <2>4. new <= s
      BY <2>1, <2>2
    <2> QED BY <2>3, <2>4
  <1> QED BY <1>2, <1>3, <1>4, <1>5, <1>6, <1>7 DEF WriterInvariant

LEMMA ReceiveKeeps ==
    ASSUME WriterInvariant, Writer!Receive
    PROVE  WriterInvariant'
  <1>0. /\ WriterTypes /\ BookRule /\ worker.at = "receive"
        /\ UNCHANGED <<producer, flags, disk, reader, admitted>>
    BY DEF WriterInvariant, Writer!Receive, Writer!At
  <1>1. /\ Booked(worker.acknowledged, worker.batch, worker.deferred, queue, admitted)
        /\ worker.batch = <<>>
        /\ worker.acknowledged \in Nat /\ worker.batch \in Seq(Packet)
        /\ worker.deferred \in Seq(Packet) /\ queue \in Seq(Packet) /\ admitted \in Seq(Packet)
        /\ worker \in [at : Writer!Places, batch : Seq(Packet), deferred : Seq(Packet),
                       failed : BOOLEAN, acknowledged : Nat]
    BY <1>0 DEF BookRule, Holding, WriterTypes
  <1>2. CASE Writer!Fail /\ UNCHANGED queue
    <2>1. /\ flags' \in [closing : BOOLEAN, abandoned : BOOLEAN, failed : BOOLEAN]
          /\ ~Writer!At("dead")
      BY <1>0 DEF WriterTypes, Writer!At
    <2> QED BY <1>0, <1>2, <2>1, WorkerEnds
  <1>3. CASE /\ worker' = [worker EXCEPT !.at = "gather", !.batch = worker.deferred, !.deferred = <<>>]
             /\ UNCHANGED queue
    <2> DEFINE none == <<>>
    <2>1. none \in Seq(Packet) /\ Count(none, Data) = 0 /\ worker.batch = none
      BY <1>1, CountOne
    <2>2. worker' = [worker EXCEPT !.at = "gather", !.batch = worker.deferred, !.deferred = none]
      BY <1>3
    <2>3. Booked(worker.acknowledged, worker.deferred, none, queue, admitted)
      BY <1>1, BookedShift
    <2> HIDE DEF none
    <2>4. /\ worker' \in [at : Writer!Places, batch : Seq(Packet), deferred : Seq(Packet),
                          failed : BOOLEAN, acknowledged : Nat]
          /\ worker'.acknowledged = worker.acknowledged /\ worker'.at = "gather"
          /\ worker'.batch = worker.deferred /\ worker'.deferred = none
      BY <1>1, <2>1, <2>2 DEF Writer!Places
    <2>5. Count(queue', Data) + Count(worker'.batch, Data) + Count(worker'.deferred, Data)
             <= Count(queue, Data) + Count(worker.batch, Data) + Count(worker.deferred, Data)
      <3>1. Count(queue, Data) \in Nat /\ Count(worker.deferred, Data) \in Nat
        BY <1>1, CountEnds
      <3>2. Count(worker.batch, Data) = 0 /\ Count(worker'.deferred, Data) = 0
        BY <2>1, <2>4
      <3>3. Count(queue', Data) = Count(queue, Data)
        BY <1>3
      <3> QED BY <2>4, <3>1, <3>2, <3>3
    <2> QED BY <1>0, <1>1, <1>3, <2>3, <2>4, <2>5, WorkerTakes DEF none
  <1>4. CASE /\ worker.deferred = <<>> /\ queue # <<>>
             /\ worker' = [worker EXCEPT !.at = "gather", !.batch = <<Head(queue)>>]
             /\ queue' = Tail(queue)
    <2> DEFINE none == <<>>
               h == Head(queue)
               one == <<h>>
    <2>0. worker.deferred = none /\ worker.batch = none
      BY <1>1, <1>4
    <2>1. h \in Packet /\ Tail(queue) \in Seq(Packet)
          /\ Booked(worker.acknowledged, Append(none, h), none, Tail(queue), admitted)
      BY <1>1, <1>4, BookedTake
    <2>2. one \in Seq(Packet) /\ Append(none, h) = one
      BY <2>1
    <2>3. Count(none, Data) = 0 /\ Count(one, Data) = (IF h \in Data THEN 1 ELSE 0)
          /\ Count(queue, Data) = (IF h \in Data THEN 1 ELSE 0) + Count(Tail(queue), Data)
      BY <1>1, <1>4, CountOne, CountEnds
    <2>4. worker' = [worker EXCEPT !.at = "gather", !.batch = one]
      BY <1>4
    <2> HIDE DEF none, one, h
    <2>5. /\ worker' \in [at : Writer!Places, batch : Seq(Packet), deferred : Seq(Packet),
                          failed : BOOLEAN, acknowledged : Nat]
          /\ worker'.acknowledged = worker.acknowledged /\ worker'.at = "gather"
          /\ worker'.batch = one /\ worker'.deferred = none
      BY <1>1, <2>0, <2>2, <2>4 DEF Writer!Places
    <2>6. Booked(worker.acknowledged, worker'.batch, worker'.deferred, queue', admitted)
      BY <1>4, <2>1, <2>2, <2>5
    <2>7. Count(queue', Data) + Count(worker'.batch, Data) + Count(worker'.deferred, Data)
             <= Count(queue, Data) + Count(worker.batch, Data) + Count(worker.deferred, Data)
      <3>1. Count(queue', Data) \in Nat
        BY <1>4, <2>1, CountEnds
      <3>2. Count(worker.batch, Data) = 0 /\ Count(worker.deferred, Data) = 0
            /\ Count(worker'.deferred, Data) = 0 /\ Count(worker'.batch, Data) = Count(one, Data)
        BY <2>0, <2>3, <2>5
      <3>3. Count(queue', Data) = Count(Tail(queue), Data)
        BY <1>4
      <3>4. Count(queue, Data) = Count(one, Data) + Count(queue', Data)
            /\ Count(one, Data) \in Nat
        BY <2>3, <3>3
      <3> QED BY <3>1, <3>2, <3>4
    <2> QED BY <1>0, <1>4, <2>1, <2>5, <2>6, <2>7, WorkerTakes DEF none
  <1>5. CASE worker' = [worker EXCEPT !.at = "timedOut"] /\ UNCHANGED queue
    <2>1. disk' \in [lines : Seq(Line), synced : Nat, checkpoint : Int, manifest : Int]
      BY <1>0 DEF WriterTypes
    <2>2. "timedOut" \in Writer!Places /\ "timedOut" \notin Holding
      BY DEF Writer!Places, Holding
    <2> QED BY <1>0, <1>1, <1>5, <2>1, <2>2, WorkerMoves
  <1>6. \/ Writer!Fail /\ UNCHANGED queue
        \/ /\ worker' = [worker EXCEPT !.at = "gather", !.batch = worker.deferred, !.deferred = <<>>]
           /\ UNCHANGED queue
        \/ /\ worker.deferred = <<>> /\ queue # <<>>
           /\ worker' = [worker EXCEPT !.at = "gather", !.batch = <<Head(queue)>>]
           /\ queue' = Tail(queue)
        \/ worker' = [worker EXCEPT !.at = "timedOut"] /\ UNCHANGED queue
    BY Zenon DEF Writer!Receive, Writer!Goto
  <1> QED BY <1>2, <1>3, <1>4, <1>5, <1>6, Zenon

LEMMA GatherKeeps ==
    ASSUME WriterInvariant, Writer!Gather
    PROVE  WriterInvariant'
  <1>0. /\ WriterTypes /\ BookRule /\ worker.at = "gather"
        /\ UNCHANGED <<producer, flags, disk, reader, admitted>>
    BY DEF WriterInvariant, Writer!Gather, Writer!At
  <1>1. /\ Booked(worker.acknowledged, worker.batch, worker.deferred, queue, admitted)
        /\ worker.deferred = <<>>
        /\ worker.acknowledged \in Nat /\ worker.batch \in Seq(Packet)
        /\ worker.deferred \in Seq(Packet) /\ queue \in Seq(Packet) /\ admitted \in Seq(Packet)
        /\ worker \in [at : Writer!Places, batch : Seq(Packet), deferred : Seq(Packet),
                       failed : BOOLEAN, acknowledged : Nat]
    BY <1>0 DEF BookRule, Holding, WriterTypes
  <1> DEFINE h == Head(queue)
             one == <<h>>
             more == Append(worker.batch, h)
  <1>2. ASSUME queue # <<>>, queue' = Tail(queue)
        PROVE  /\ h \in Packet /\ queue' \in Seq(Packet) /\ one \in Seq(Packet) /\ more \in Seq(Packet)
               /\ Booked(worker.acknowledged, more, worker.deferred, queue', admitted)
               /\ Booked(worker.acknowledged, worker.batch, one, queue', admitted)
               /\ Count(one, Data) \in Nat /\ Count(queue', Data) \in Nat
               /\ Count(worker.batch, Data) \in Nat /\ Count(worker.deferred, Data) = 0
               /\ Count(more, Data) = Count(worker.batch, Data) + Count(one, Data)
               /\ Count(queue, Data) = Count(one, Data) + Count(queue', Data)
    <2>1. /\ h \in Packet /\ Tail(queue) \in Seq(Packet)
          /\ Booked(worker.acknowledged, Append(worker.batch, h), <<>>, Tail(queue), admitted)
          /\ Booked(worker.acknowledged, worker.batch, <<h>>, Tail(queue), admitted)
      BY <1>1, <1>2, BookedTake
    <2>2. one \in Seq(Packet) /\ more \in Seq(Packet)
      BY <1>1, <2>1
    <2>3. /\ Count(one, Data) = (IF h \in Data THEN 1 ELSE 0)
          /\ Count(worker.deferred, Data) = 0
      BY <1>1, CountOne
    <2>4. /\ Count(worker.batch, Data) \in Nat /\ Count(Tail(queue), Data) \in Nat
          /\ Count(more, Data) = Count(worker.batch, Data) + (IF h \in Data THEN 1 ELSE 0)
          /\ Count(queue, Data) = (IF h \in Data THEN 1 ELSE 0) + Count(Tail(queue), Data)
      <3>1. Count(worker.batch, Data) \in Nat /\ Count(Tail(queue), Data) \in Nat
        BY <1>1, <2>1, CountEnds
      <3>2. Count(queue, Data) = (IF h \in Data THEN 1 ELSE 0) + Count(Tail(queue), Data)
        BY <1>1, <1>2, CountEnds
      <3>3. Count(more, Data) = Count(worker.batch, Data) + (IF h \in Data THEN 1 ELSE 0)
        <4>1. worker.batch \in Seq(Packet) /\ h \in Packet
          BY <1>1, <2>1
        <4> HIDE DEF h
        <4> QED BY <4>1, CountEnds
      <3> QED BY <3>1, <3>2, <3>3
    <2> HIDE DEF h, more, one
    <2>5. Count(one, Data) \in Nat
      BY <2>3
    <2> QED BY <1>1, <1>2, <2>1, <2>2, <2>3, <2>4, <2>5 DEF one, more
  <1>3. CASE /\ queue # <<>> /\ queue' = Tail(queue)
             /\ worker' = [worker EXCEPT !.batch = more]
    <2> HIDE DEF more, one, h
    <2>1. /\ worker' \in [at : Writer!Places, batch : Seq(Packet), deferred : Seq(Packet),
                          failed : BOOLEAN, acknowledged : Nat]
          /\ worker'.acknowledged = worker.acknowledged /\ worker'.at = "gather"
          /\ worker'.batch = more /\ worker'.deferred = worker.deferred
      BY <1>0, <1>1, <1>2, <1>3
    <2>2. Count(queue', Data) + Count(worker'.batch, Data) + Count(worker'.deferred, Data)
             <= Count(queue, Data) + Count(worker.batch, Data) + Count(worker.deferred, Data)
      <3>1. Count(worker'.batch, Data) = Count(more, Data)
            /\ Count(worker'.deferred, Data) = Count(worker.deferred, Data)
        BY <2>1
      <3> QED BY <1>2, <1>3, <3>1
    <2> QED BY <1>0, <1>1, <1>2, <1>3, <2>1, <2>2, WorkerTakes
  <1>4. CASE /\ queue # <<>> /\ queue' = Tail(queue)
             /\ worker' = [worker EXCEPT !.at = "append", !.deferred = one]
    <2> HIDE DEF more, one, h
    <2>1. /\ worker' \in [at : Writer!Places, batch : Seq(Packet), deferred : Seq(Packet),
                          failed : BOOLEAN, acknowledged : Nat]
          /\ worker'.acknowledged = worker.acknowledged /\ worker'.at = "append"
          /\ worker'.batch = worker.batch /\ worker'.deferred = one
      BY <1>0, <1>1, <1>2, <1>4 DEF Writer!Places
    <2>2. Count(queue', Data) + Count(worker'.batch, Data) + Count(worker'.deferred, Data)
             <= Count(queue, Data) + Count(worker.batch, Data) + Count(worker.deferred, Data)
      <3>1. Count(worker'.batch, Data) = Count(worker.batch, Data)
            /\ Count(worker'.deferred, Data) = Count(one, Data)
        BY <2>1
      <3> QED BY <1>2, <1>4, <3>1
    <2> QED BY <1>0, <1>1, <1>2, <1>4, <2>1, <2>2, WorkerTakes
  <1>5. CASE worker' = [worker EXCEPT !.at = "append"] /\ UNCHANGED queue
    <2>1. disk' \in [lines : Seq(Line), synced : Nat, checkpoint : Int, manifest : Int]
      BY <1>0 DEF WriterTypes
    <2>2. "append" \in Writer!Places /\ "append" \in Holding
      BY DEF Writer!Places, Holding
    <2> QED BY <1>0, <1>1, <1>5, <2>1, <2>2, WorkerMoves
  <1>6. \/ /\ queue # <<>> /\ queue' = Tail(queue)
           /\ worker' = [worker EXCEPT !.batch = Append(@, Head(queue))]
        \/ /\ queue # <<>> /\ queue' = Tail(queue)
           /\ worker' = [worker EXCEPT !.at = "append", !.deferred = <<Head(queue)>>]
        \/ worker' = [worker EXCEPT !.at = "append"] /\ UNCHANGED queue
    BY Zenon DEF Writer!Gather, Writer!Goto
  <1> QED BY <1>3, <1>4, <1>5, <1>6, Zenon

LEMMA SyncKeeps ==
    ASSUME WriterInvariant, Writer!Sync
    PROVE  WriterInvariant'
  <1>0. /\ WriterTypes /\ LinesRule /\ BookRule /\ DurableRule /\ ReaderRule /\ RoomRule
        /\ worker.at = "sync" /\ UNCHANGED <<producer, queue, reader, admitted>>
    BY DEF WriterInvariant, Writer!Sync, Writer!At
  <1>1. CASE Writer!Broken /\ UNCHANGED disk
    <2>1. /\ flags' \in [closing : BOOLEAN, abandoned : BOOLEAN, failed : BOOLEAN]
          /\ ~Writer!At("dead") /\ Writer!Fail
      BY <1>0, <1>1 DEF WriterTypes, Writer!At, Writer!Broken
    <2> QED BY <1>0, <1>1, <2>1, WorkerEnds
  <1>2. CASE /\ disk' = [disk EXCEPT !.synced = Len(disk.lines)]
             /\ worker' = [worker EXCEPT !.at = "committed", !.batch = <<>>,
                              !.acknowledged = @ + Len(worker.batch)]
             /\ UNCHANGED flags
    <2> DEFINE none == <<>>
               total == worker.acknowledged + Len(worker.batch)
               size == Len(disk.lines)
    <2>1. none \in Seq(Packet) /\ total \in Nat /\ size \in Nat /\ Len(worker.batch) \in Nat
      BY <1>0 DEF WriterTypes
    <2>2. /\ worker' = [worker EXCEPT !.at = "committed", !.batch = none, !.acknowledged = total]
          /\ disk' = [disk EXCEPT !.synced = size]
      <3>1. worker' = [worker EXCEPT !.at = "committed", !.batch = <<>>,
                          !.acknowledged = worker.acknowledged + Len(worker.batch)]
        BY <1>2, Zenon
      <3> QED BY <1>2, <3>1
    <2>3. Booked(total, none, worker.deferred, queue, admitted)
      <3>1. /\ Booked(worker.acknowledged, worker.batch, worker.deferred, queue, admitted)
            /\ worker.acknowledged \in Nat /\ worker.batch \in Seq(Packet)
            /\ worker.deferred \in Seq(Packet) /\ queue \in Seq(Packet) /\ admitted \in Seq(Packet)
        BY <1>0 DEF BookRule, WriterTypes
      <3> QED BY <3>1, BookedShift
    <2>4. /\ Rank(disk.lines, size) = total
          /\ disk.lines # <<>> /\ disk.lines[size].frame = "commit"
      BY <1>0 DEF BookRule
    <2>5. size # 0
      BY <1>0, <2>4 DEF WriterTypes
    <2> HIDE DEF none, total, size
    <2>6. /\ worker' \in [at : Writer!Places, batch : Seq(Packet), deferred : Seq(Packet),
                          failed : BOOLEAN, acknowledged : Nat]
          /\ worker'.acknowledged = total /\ worker'.at = "committed"
          /\ worker'.batch = none /\ worker'.deferred = worker.deferred
      BY <1>0, <2>1, <2>2 DEF WriterTypes, Writer!Places
    <2>7. /\ disk' \in [lines : Seq(Line), synced : Nat, checkpoint : Int, manifest : Int]
          /\ disk'.lines = disk.lines /\ disk'.synced = size
          /\ disk'.checkpoint = disk.checkpoint /\ disk'.manifest = disk.manifest
      BY <1>0, <2>1, <2>2 DEF WriterTypes
    <2>8. WriterTypes'
      BY <1>0, <1>2, <2>6, <2>7 DEF WriterTypes
    <2>9. LinesRule'
      <3>1. disk'.synced <= Len(disk.lines)
        BY <2>1, <2>7 DEF size
      <3> QED BY <1>0, <2>6, <2>7, <3>1, LinesStay
    <2>10. BookRule'
      <3>1. Rank(disk'.lines, Len(disk'.lines)) = total + 0
        BY <2>1, <2>4, <2>7 DEF size
      <3>2. Booked(worker'.acknowledged, worker'.batch, worker'.deferred, queue', admitted')
        BY <1>0, <2>3, <2>6
      <3> QED BY <2>6, <3>1, <3>2 DEF BookRule, none
    <2>11. DurableRule'
      <3>1. size \in 1 .. size
        BY <2>1, <2>5
      <3>2. total <= Rank(disk.lines, size)
        BY <2>1, <2>4
      <3>3. disk'.checkpoint <= total /\ disk'.manifest <= total
        <4>1. /\ disk.checkpoint \in Int /\ disk.manifest \in Int
              /\ disk.checkpoint <= worker.acknowledged /\ disk.manifest <= worker.acknowledged
              /\ worker.acknowledged \in Nat
          BY <1>0 DEF WriterTypes, DurableRule
        <4>2. worker.acknowledged <= total
          BY <2>1, <4>1 DEF total
        <4> QED BY <2>1, <2>7, <4>1, <4>2
      <3> QED BY <2>4, <2>6, <2>7, <3>1, <3>2, <3>3 DEF DurableRule
    <2>12. ReaderRule'
      BY <1>0, <2>6, <2>7, ReaderStays
    <2>13. RoomRule'
      BY <1>0, <2>6, RoomStays DEF none
    <2> QED BY <2>8, <2>9, <2>10, <2>11, <2>12, <2>13 DEF WriterInvariant
  <1> QED BY <1>1, <1>2 DEF Writer!Sync

LEMMA CommittedKeeps ==
    ASSUME WriterInvariant, Writer!Committed \/ Writer!TimedOut
    PROVE  WriterInvariant'
  <1>0. /\ WriterTypes /\ BookRule /\ worker.at \in {"committed", "timedOut"}
        /\ UNCHANGED <<producer, flags, queue, disk, reader, admitted>>
    BY DEF WriterInvariant, Writer!Committed, Writer!TimedOut, Writer!At
  <1>1. worker.batch = <<>>
    BY <1>0 DEF BookRule, Holding
  <1>2. PICK x \in {"receive", "checkpoint", "finalCheckpoint", "ended"} :
           worker' = [worker EXCEPT !.at = x] \/ (x = "ended" /\ Writer!Fail)
    <2>1. CASE Writer!Committed
      BY <2>1 DEF Writer!Committed, Writer!Goto
    <2>2. CASE Writer!TimedOut
      BY <2>2 DEF Writer!TimedOut, Writer!Goto
    <2> QED BY <2>1, <2>2
  <1>3. CASE Writer!Fail
    <2>1. /\ flags' \in [closing : BOOLEAN, abandoned : BOOLEAN, failed : BOOLEAN]
          /\ ~Writer!At("dead")
      BY <1>0 DEF WriterTypes, Writer!At
    <2> QED BY <1>0, <1>3, <2>1, WorkerEnds
  <1>4. CASE worker' = [worker EXCEPT !.at = x]
    <2>1. disk' \in [lines : Seq(Line), synced : Nat, checkpoint : Int, manifest : Int]
      BY <1>0 DEF WriterTypes
    <2>2. x \in Writer!Places /\ x \notin Holding
      BY DEF Writer!Places, Holding
    <2>3. x \notin {"create", "dead", "sync", "commit", "gather"}
      OBVIOUS
    <2> QED BY <1>0, <1>1, <1>4, <2>1, <2>2, <2>3, WorkerMoves
  <1> QED BY <1>2, <1>3, <1>4

LEMMA PersistHintKeeps ==
    ASSUME WriterInvariant, Writer!Persist
    PROVE  WriterInvariant'
  <1> DEFINE x == Writer!After(worker.at)
             y == worker.acknowledged
  <1>0. /\ WriterTypes /\ BookRule
        /\ worker.at \in {"checkpoint", "checkpointManifest", "finalCheckpoint", "finalManifest"}
        /\ UNCHANGED <<producer, flags, queue, reader, admitted>>
        /\ worker' = [worker EXCEPT !.at = x]
    BY DEF WriterInvariant, Writer!Persist, Writer!Goto
  <1>1. worker.batch = <<>> /\ y \in Nat
        /\ disk \in [lines : Seq(Line), synced : Nat, checkpoint : Int, manifest : Int]
    BY <1>0 DEF BookRule, Holding, WriterTypes
  <1>2. x \in {"checkpointManifest", "receive", "finalManifest", "ended"}
    BY <1>0 DEF Writer!After
  <1> HIDE DEF x, y
  <1>3. \/ disk' = [disk EXCEPT !.checkpoint = y]
        \/ disk' = [disk EXCEPT !.manifest = y]
        \/ disk' = disk
    BY DEF Writer!Persist, y
  <1>4. /\ disk' \in [lines : Seq(Line), synced : Nat, checkpoint : Int, manifest : Int]
        /\ disk'.lines = disk.lines /\ disk'.synced = disk.synced
        /\ disk'.checkpoint \in {disk.checkpoint, y} /\ disk'.manifest \in {disk.manifest, y}
    BY <1>1, <1>3
  <1>5. x \in Writer!Places /\ x \notin Holding
        /\ x \notin {"create", "dead", "sync", "commit", "gather"}
    BY <1>2 DEF Writer!Places, Holding
  <1> QED BY <1>0, <1>1, <1>4, <1>5, WorkerMoves DEF y

-----------------------------------------------------------------------------
(* The journal grows. *)

\* What more lines leave as it is, and where they are.
Grows(lines, more, grown) ==
    /\ grown \in Seq(Line) /\ Len(grown) = Len(lines) + Len(more)
    /\ \A i \in 1 .. Len(lines) : grown[i] = lines[i] /\ Rank(grown, i) = Rank(lines, i)
    /\ \A j \in 1 .. Len(more) : grown[Len(lines) + j] = more[j]
    /\ Rank(grown, Len(lines)) = Rank(lines, Len(lines))
    /\ (\A j \in 1 .. Len(more) : more[j].frame = "entry") =>
          \A j \in 0 .. Len(more) :
             Rank(grown, Len(lines) + j) = Rank(lines, Len(lines)) + j
    /\ (\A j \in 1 .. Len(more) : more[j].frame # "entry") =>
          Rank(grown, Len(grown)) = Rank(lines, Len(lines))

LEMMA GrownLines ==
    ASSUME NEW lines \in Seq(Line), NEW more \in Seq(Line), NEW grown, grown = lines \o more
    PROVE  Grows(lines, more, grown)
  <1> DEFINE n == Len(lines)
             m == Len(more)
  <1>0. n \in Nat /\ m \in Nat
    OBVIOUS
  <1>1. /\ grown \in Seq(Line) /\ Len(grown) = n + m
        /\ \A i \in 1 .. n + m : grown[i] = IF i <= n THEN lines[i] ELSE more[i - n]
    BY ConcatProperties
  <1> HIDE DEF n, m
  <1>2. \A i \in 1 .. n : grown[i] = lines[i]
    BY <1>0, <1>1
  <1>3. ASSUME NEW j \in 1 .. m PROVE grown[n + j] = more[j]
    <2>1. n + j \in 1 .. n + m /\ ~(n + j <= n) /\ (n + j) - n = j
      BY <1>0
    <2> QED BY <1>1, <2>1
  <1>4. ASSUME NEW i \in 0 .. n PROVE Rank(grown, i) = Rank(lines, i)
    <2>1. i \in Nat /\ \A k \in 1 .. i : grown[k] = lines[k]
      <3>1. \A k \in 1 .. i : k \in 1 .. n
        BY <1>0
      <3>2. i \in Nat
        BY <1>0
      <3> QED BY <1>2, <3>1, <3>2
    <2> QED BY <2>1, RankSame
  <1>5. n \in 0 .. n /\ \A i \in 1 .. n : i \in 0 .. n
    BY <1>0
  <1>6. ASSUME NEW k \in n + 1 .. n + m
        PROVE  k - n \in 1 .. m /\ grown[k] = more[k - n]
    <2>1. k - n \in 1 .. m /\ n + (k - n) = k
      BY <1>0
    <2> QED BY <1>3, <2>1
  <1>7. ASSUME \A j \in 1 .. m : more[j].frame = "entry", NEW j \in 0 .. m
        PROVE  Rank(grown, n + j) = Rank(lines, n) + j
    <2>1. n \in Nat /\ n + j \in Nat /\ n <= n + j /\ (n + j) - n = j
      BY <1>0
    <2>2. \A k \in n + 1 .. n + j : grown[k].frame = "entry"
      <3>1. \A k \in n + 1 .. n + j : k \in n + 1 .. n + m
        BY <1>0
      <3> QED BY <1>6, <1>7, <3>1
    <2>3. Rank(grown, n + j) = Rank(grown, n) + ((n + j) - n)
      BY <2>1, <2>2, RankGrows
    <2> QED BY <1>4, <1>5, <2>1, <2>3
  <1>8. ASSUME \A j \in 1 .. m : more[j].frame # "entry"
        PROVE  Rank(grown, n + m) = Rank(lines, n)
    <2>1. n \in Nat /\ n + m \in Nat /\ n <= n + m
      BY <1>0
    <2>2. \A k \in n + 1 .. n + m : grown[k].frame # "entry"
      BY <1>6, <1>8
    <2>3. Rank(grown, n + m) = Rank(grown, n)
      BY <2>1, <2>2, RankGrows
    <2> QED BY <1>4, <1>5, <2>3
  <1> QED BY <1>1, <1>2, <1>3, <1>4, <1>5, <1>7, <1>8 DEF n, m, Grows

LEMMA GrowKeeps ==
    ASSUME WriterTypes, LinesRule, DurableRule, ReaderRule, NEW more \in Seq(Line),
           disk'.lines = disk.lines \o more, disk'.synced = disk.synced,
           disk'.checkpoint = disk.checkpoint, disk'.manifest = disk.manifest,
           worker'.acknowledged = worker.acknowledged, admitted' = admitted, reader' = reader,
           worker.at \notin {"create", "ended", "dead"}, worker'.at \notin {"create", "dead"},
           \/ \A j \in 1 .. Len(more) : more[j].frame # "entry"
           \/ /\ Rank(disk.lines, Len(disk.lines)) + Len(more) <= Len(admitted)
              /\ \A j \in 1 .. Len(more) :
                    /\ more[j].frame = "entry"
                    /\ more[j].packet = admitted[Rank(disk.lines, Len(disk.lines)) + j]
    PROVE  LinesRule' /\ DurableRule' /\ ReaderRule'
  <1> DEFINE lines == disk.lines
             grown == disk.lines \o more
             n == Len(disk.lines)
             m == Len(more)
             r == Rank(disk.lines, n)
  <1>0. lines \in Seq(Line) /\ n \in Nat /\ m \in Nat /\ disk'.lines = grown /\ r \in Nat
        /\ disk.synced \in Nat /\ reader.offset \in Nat /\ Len(admitted) \in Nat
    <2>1. lines \in Seq(Line) /\ disk.synced \in Nat /\ reader.offset \in Nat /\ Len(admitted) \in Nat
      BY DEF WriterTypes
    <2>2. n \in Nat /\ m \in Nat
      BY <2>1
    <2>3. r \in Nat
      <3> HIDE DEF n
      <3> QED BY <2>2, RankCounts
    <2> QED BY <2>1, <2>2, <2>3
  <1>1. /\ grown \in Seq(Line) /\ Len(grown) = n + m
        /\ \A i \in 1 .. n : grown[i] = lines[i] /\ Rank(grown, i) = Rank(lines, i)
        /\ \A j \in 1 .. m : grown[n + j] = more[j]
        /\ (\A j \in 1 .. m : more[j].frame = "entry") =>
              \A j \in 0 .. m : Rank(grown, n + j) = r + j
        /\ (\A j \in 1 .. m : more[j].frame # "entry") => Rank(grown, n + m) = r
    <2>1. grown = lines \o more /\ n = Len(lines) /\ r = Rank(lines, Len(lines))
      OBVIOUS
    <2> HIDE DEF grown, lines, n, r
    <2>2. Grows(lines, more, grown)
      BY <1>0, <2>1, GrownLines
    <2> QED BY <2>1, <2>2 DEF Grows
  <1>2. /\ disk.synced <= n /\ lines # <<>> /\ lines[1].frame = "header" /\ r <= Len(admitted)
        /\ \A i \in 1 .. n : lines[i].frame = "entry" => lines[i].packet = admitted[Rank(lines, i)]
    BY DEF LinesRule
  <1>3. n # 0
    BY <1>0, <1>2
  <1>4. \/ \A j \in 1 .. m : more[j].frame # "entry"
        \/ /\ r + m <= Len(admitted)
           /\ \A j \in 1 .. m : more[j].frame = "entry" /\ more[j].packet = admitted[r + j]
    OBVIOUS
  <1> HIDE DEF lines, grown, n, m, r
  <1>5. ASSUME NEW i \in 1 .. n + m
        PROVE  i \in 1 .. n \/ \E j \in 1 .. m : i = n + j
    <2>1. CASE ~(i <= n)
      <3>1. i - n \in 1 .. m /\ i = n + (i - n)
        BY <1>0, <2>1
      <3> QED BY <3>1
    <2> QED BY <1>0, <2>1
  <1>6. ASSUME NEW i \in 1 .. n + m, grown[i].frame = "entry"
        PROVE  grown[i].packet = admitted[Rank(grown, i)]
    <2>1. CASE i \in 1 .. n
      BY <1>1, <1>2, <1>6, <2>1
    <2>2. ASSUME NEW j \in 1 .. m, i = n + j
          PROVE  grown[i].packet = admitted[Rank(grown, i)]
      <3>1. grown[i] = more[j] /\ more[j].frame = "entry"
        BY <1>1, <1>6, <2>2
      <3>2. /\ \A k \in 1 .. m : more[k].frame = "entry" /\ more[k].packet = admitted[r + k]
        BY <1>4, <3>1
      <3>3. \A k \in 0 .. m : Rank(grown, n + k) = r + k
        BY <1>1, <3>2
      <3>4. j \in 0 .. m
        BY <1>0
      <3> QED BY <2>2, <3>1, <3>2, <3>3, <3>4
    <2> QED BY <1>5, <2>1, <2>2
  <1>7. Rank(grown, n + m) <= Len(admitted)
    <2>1. CASE \A j \in 1 .. m : more[j].frame # "entry"
      BY <1>1, <1>2, <2>1
    <2>2. CASE /\ r + m <= Len(admitted)
               /\ \A j \in 1 .. m : more[j].frame = "entry" /\ more[j].packet = admitted[r + j]
      <3>1. m \in 0 .. m
        BY <1>0
      <3> QED BY <1>1, <2>2, <3>1
    <2> QED BY <1>4, <2>1, <2>2
  <1>8. LinesRule'
    <2>1. disk'.synced <= n + m
      BY <1>0, <1>2
    <2>2. grown[1].frame = "header"
      <3>1. 1 \in 1 .. n
        BY <1>0, <1>3
      <3> QED BY <1>1, <1>2, <3>1
    <2>3. grown # <<>>
      BY <1>0, <1>1, <1>3
    <2>4. Len(disk'.lines) = n + m
      BY <1>0, <1>1
    <2> QED BY <1>0, <1>6, <1>7, <2>1, <2>2, <2>3, <2>4 DEF LinesRule
  <1>9. DurableRule'
    <2>1. ASSUME NEW c \in 1 .. disk.synced
          PROVE  grown[c] = lines[c] /\ Rank(grown, c) = Rank(lines, c)
      <3>1. c \in 1 .. n
        BY <1>0, <1>2
      <3> QED BY <1>1, <3>1
    <2> QED BY <1>0, <2>1 DEF DurableRule, lines
  <1>10. ReaderRule'
    <2>1. /\ Len(reader.packets) <= Len(admitted) /\ Writer!InOrder(reader.packets)
          /\ reader.live /\ reader.offset <= n /\ Len(reader.packets) = Rank(lines, reader.offset)
      BY DEF ReaderRule, n, lines
    <2>2. Rank(grown, reader.offset) = Rank(lines, reader.offset)
      <3>1. CASE reader.offset = 0
        BY <3>1, RankStarts
      <3>2. CASE reader.offset # 0
        <4>1. reader.offset \in 1 .. n
          BY <1>0, <2>1, <3>2
        <4> QED BY <1>1, <4>1
      <3> QED BY <3>1, <3>2
    <2>3. reader.offset <= n + m
      BY <1>0, <2>1
    <2>4. Writer!InOrder(reader.packets)'
      BY <2>1 DEF Writer!InOrder
    <2> QED BY <1>0, <1>1, <2>1, <2>2, <2>3, <2>4 DEF ReaderRule
  <1> QED BY <1>8, <1>9, <1>10

LEMMA ManifestKeeps ==
    ASSUME WriterInvariant, Writer!FirstManifest
    PROVE  WriterInvariant'
  <1>0. /\ WriterTypes /\ BookRule /\ worker.at = "manifest"
        /\ UNCHANGED <<producer, queue, reader, admitted>>
    BY DEF WriterInvariant, Writer!FirstManifest, Writer!At
  <1>1. /\ worker.batch = <<>>
        /\ disk \in [lines : Seq(Line), synced : Nat, checkpoint : Int, manifest : Int]
    BY <1>0 DEF BookRule, Holding, WriterTypes
  <1>2. CASE /\ Writer!Fail /\ flags' = [flags EXCEPT !.failed = TRUE] /\ UNCHANGED disk
    <2>1. /\ flags' \in [closing : BOOLEAN, abandoned : BOOLEAN, failed : BOOLEAN]
          /\ ~Writer!At("dead")
      BY <1>0, <1>2 DEF WriterTypes, Writer!At
    <2> QED BY <1>0, <1>2, <2>1, WorkerEnds
  <1>3. ASSUME disk' = [disk EXCEPT !.manifest = 0], UNCHANGED flags,
               NEW x \in {"receive", "ended"}, worker' = [worker EXCEPT !.at = x]
        PROVE  WriterInvariant'
    <2>1. /\ disk' \in [lines : Seq(Line), synced : Nat, checkpoint : Int, manifest : Int]
          /\ disk'.lines = disk.lines /\ disk'.synced = disk.synced
          /\ disk'.checkpoint = disk.checkpoint /\ disk'.manifest = 0
      BY <1>1, <1>3
    <2>2. x \in Writer!Places /\ x \notin Holding
          /\ x \notin {"create", "dead", "sync", "commit", "gather"}
      BY DEF Writer!Places, Holding
    <2> QED BY <1>0, <1>1, <1>3, <2>1, <2>2, WorkerMoves
  <1>4. \/ /\ Writer!Fail /\ flags' = [flags EXCEPT !.failed = TRUE] /\ UNCHANGED disk
        \/ /\ disk' = [disk EXCEPT !.manifest = 0] /\ UNCHANGED flags
           /\ \E x \in {"receive", "ended"} : worker' = [worker EXCEPT !.at = x]
    BY DEF Writer!FirstManifest, Writer!Goto
  <1> QED BY <1>2, <1>3, <1>4

LEMMA CreateKeeps ==
    ASSUME WriterInvariant, Writer!CreateJournal
    PROVE  WriterInvariant'
  <1>0. /\ WriterTypes /\ LinesRule /\ BookRule /\ DurableRule /\ ReaderRule /\ RoomRule
        /\ worker.at = "create" /\ UNCHANGED <<producer, queue, reader, admitted>>
    BY DEF WriterInvariant, Writer!CreateJournal, Writer!At
  <1>1. CASE Writer!Fail /\ flags' = [flags EXCEPT !.failed = TRUE] /\ UNCHANGED disk
    <2>1. /\ flags' \in [closing : BOOLEAN, abandoned : BOOLEAN, failed : BOOLEAN]
          /\ ~Writer!At("dead")
      BY <1>0, <1>1 DEF WriterTypes, Writer!At
    <2> QED BY <1>0, <1>1, <2>1, WorkerEnds
  <1>2. CASE /\ worker' = [worker EXCEPT !.at = "manifest"] /\ UNCHANGED flags
             /\ disk' = [disk EXCEPT !.lines = <<Writer!Header>>, !.synced = 1]
    <2> DEFINE first == <<Writer!Header>>
    <2>1. Writer!Header \in Line /\ Writer!Header.frame = "header"
      BY DEF Writer!Header, Line
    <2>2. /\ first \in Seq(Line) /\ Len(first) = 1 /\ first[1].frame = "header" /\ first # <<>>
      <3> HIDE DEF Writer!Header
      <3> QED BY <2>1
    <2> HIDE DEF first
    <2>3. Rank(first, 0) = 0 /\ Rank(first, 1) = 0
      <3>1. \A i \in 0 + 1 .. 1 : first[i].frame # "entry"
        <4>1. \A i \in 0 + 1 .. 1 : i = 1
          OBVIOUS
        <4> QED BY <2>2, <4>1
      <3>2. Rank(first, 1) = Rank(first, 0)
        BY <3>1, RankGrows
      <3> QED BY <3>2, RankStarts
    <2>4. /\ disk' \in [lines : Seq(Line), synced : Nat, checkpoint : Int, manifest : Int]
          /\ disk'.lines = first /\ disk'.synced = 1
          /\ disk'.checkpoint = disk.checkpoint /\ disk'.manifest = disk.manifest
      <3>1. disk' = [disk EXCEPT !.lines = first, !.synced = 1]
        BY <1>2 DEF first
      <3> QED BY <1>0, <2>2, <3>1 DEF WriterTypes
    <2>5. /\ worker' \in [at : Writer!Places, batch : Seq(Packet), deferred : Seq(Packet),
                          failed : BOOLEAN, acknowledged : Nat]
          /\ worker'.at = "manifest" /\ worker'.batch = worker.batch
          /\ worker'.deferred = worker.deferred
          /\ worker'.acknowledged = worker.acknowledged
      BY <1>0, <1>2 DEF WriterTypes, Writer!Places
    <2>6. WriterTypes'
      BY <1>0, <1>2, <2>4, <2>5 DEF WriterTypes
    <2>7. disk.lines = <<>> /\ Len(disk.lines) = 0 /\ Rank(disk.lines, 0) = 0
      BY <1>0, RankStarts DEF LinesRule
    <2>8. worker.acknowledged = 0
          /\ Booked(worker.acknowledged, worker.batch, worker.deferred, queue, admitted)
          /\ worker.batch = <<>>
      <3>1. Rank(disk.lines, Len(disk.lines)) = worker.acknowledged + 0
        BY <1>0 DEF BookRule
      <3>2. worker.acknowledged \in Nat
        BY <1>0 DEF WriterTypes
      <3>3. worker.acknowledged = 0
        BY <2>7, <3>1, <3>2
      <3> QED BY <1>0, <3>3 DEF BookRule, Holding
    <2>9. LinesRule'
      <3>1. 1 <= Len(first) /\ Rank(first, Len(first)) <= Len(admitted)
        BY <1>0, <2>2, <2>3 DEF WriterTypes
      <3>2. \A i \in 1 .. Len(first) : first[i].frame # "entry"
        BY <2>2
      <3> QED BY <1>0, <2>2, <2>4, <2>5, <3>1, <3>2 DEF LinesRule
    <2>10. BookRule'
      <3>1. Rank(first, Len(first)) = worker.acknowledged + 0
        BY <2>2, <2>3, <2>8
      <3> QED BY <1>0, <2>4, <2>5, <2>8, <3>1 DEF BookRule, Holding
    <2>11. DurableRule'
      BY <1>0, <2>4, <2>5, <2>8 DEF DurableRule
    <2>12. ReaderRule'
      <3>1. reader.live /\ reader.offset = 0 /\ Len(reader.packets) = 0
            /\ Len(reader.packets) <= Len(admitted) /\ Writer!InOrder(reader.packets)
        <4>1. /\ reader.live /\ reader.offset <= 0 /\ reader.offset \in Nat
              /\ Len(reader.packets) <= Len(admitted) /\ Writer!InOrder(reader.packets)
              /\ (reader.offset <= 0 => Len(reader.packets) = Rank(disk.lines, reader.offset))
          BY <1>0, <2>7 DEF ReaderRule, WriterTypes
        <4>2. reader.offset = 0
          BY <4>1
        <4> QED BY <2>7, <4>1, <4>2
      <3>2. Writer!InOrder(reader.packets)'
        BY <1>0, <3>1 DEF Writer!InOrder
      <3> QED BY <1>0, <2>2, <2>3, <2>4, <3>1, <3>2 DEF ReaderRule
    <2>13. RoomRule'
      BY <1>0, <2>5, RoomStays
    <2> QED BY <2>6, <2>9, <2>10, <2>11, <2>12, <2>13 DEF WriterInvariant
  <1>3. \/ Writer!Fail /\ flags' = [flags EXCEPT !.failed = TRUE] /\ UNCHANGED disk
        \/ /\ worker' = [worker EXCEPT !.at = "manifest"] /\ UNCHANGED flags
           /\ disk' = [disk EXCEPT !.lines = <<Writer!Header>>, !.synced = 1]
    BY Zenon DEF Writer!CreateJournal, Writer!Goto
  <1> QED BY <1>1, <1>2, <1>3

LEMMA EntriesKeep ==
    ASSUME WriterInvariant, Writer!AppendEntries
    PROVE  WriterInvariant'
  <1>0. /\ WriterTypes /\ LinesRule /\ BookRule /\ DurableRule /\ ReaderRule /\ RoomRule
        /\ worker.at = "append" /\ UNCHANGED <<producer, queue, reader, admitted, session>>
    BY DEF WriterInvariant, Writer!AppendEntries, Writer!At
  <1>1. /\ Booked(worker.acknowledged, worker.batch, worker.deferred, queue, admitted)
        /\ Rank(disk.lines, Len(disk.lines)) = worker.acknowledged
        /\ worker.acknowledged \in Nat /\ worker.batch \in Seq(Packet)
        /\ worker.deferred \in Seq(Packet) /\ queue \in Seq(Packet)
        /\ disk.lines \in Seq(Line)
    <2>1. /\ worker.acknowledged \in Nat /\ worker.batch \in Seq(Packet)
          /\ worker.deferred \in Seq(Packet) /\ queue \in Seq(Packet)
          /\ disk.lines \in Seq(Line)
      BY <1>0 DEF WriterTypes
    <2>2. /\ Booked(worker.acknowledged, worker.batch, worker.deferred, queue, admitted)
          /\ Rank(disk.lines, Len(disk.lines)) = worker.acknowledged + 0
      BY <1>0 DEF BookRule
    <2> QED BY <2>1, <2>2
  <1>2. ASSUME NEW n \in 0 .. Len(worker.batch), NEW more,
               more = [i \in 1 .. n |-> Writer!Entry(worker.batch[i])],
               disk' = [disk EXCEPT !.lines = @ \o more],
               worker'.acknowledged = worker.acknowledged, worker'.at \in {"commit", "ended"}
        PROVE  /\ more \in Seq(Line) /\ Len(more) = n
               /\ disk' \in [lines : Seq(Line), synced : Nat, checkpoint : Int, manifest : Int]
               /\ Grows(disk.lines, more, disk'.lines) /\ \A j \in 1 .. n : more[j].frame = "entry"
               /\ LinesRule' /\ DurableRule' /\ ReaderRule'
    <2>1. n \in Nat /\ \A i \in 1 .. n : i \in 1 .. Len(worker.batch)
      BY <1>1
    <2>2. ASSUME NEW i \in 1 .. n
          PROVE  /\ Writer!Entry(worker.batch[i]) \in Line
                 /\ Writer!Entry(worker.batch[i]).frame = "entry"
                 /\ Writer!Entry(worker.batch[i]).packet = worker.batch[i]
      <3>1. worker.batch[i] \in Packet
        BY <1>1, <2>1
      <3> QED BY <3>1 DEF Writer!Entry, Line
    <2>3. more \in Seq(Line) /\ Len(more) = n
          /\ \A j \in 1 .. n : more[j].frame = "entry" /\ more[j].packet = worker.batch[j]
      BY <1>2, <2>1, <2>2
    <2> DEFINE grown == disk.lines \o more
    <2>4. grown \in Seq(Line)
      BY <1>1, <2>3
    <2>5. disk' = [disk EXCEPT !.lines = grown]
      BY <1>2, Zenon
    <2>6. Grows(disk.lines, more, grown)
      BY <1>1, <2>3, GrownLines
    <2> HIDE DEF grown
    <2>7. /\ disk' \in [lines : Seq(Line), synced : Nat, checkpoint : Int, manifest : Int]
          /\ disk'.lines = grown /\ disk'.synced = disk.synced
          /\ disk'.checkpoint = disk.checkpoint /\ disk'.manifest = disk.manifest
      BY <1>0, <2>4, <2>5 DEF WriterTypes
    <2>8. /\ \A k \in 1 .. Len(worker.batch) : worker.batch[k] = admitted[worker.acknowledged + k]
          /\ Len(admitted) = worker.acknowledged + Len(worker.batch) + Len(worker.deferred) + Len(queue)
      BY <1>1 DEF Booked
    <2>9. /\ Rank(disk.lines, Len(disk.lines)) + Len(more) <= Len(admitted)
          /\ \A j \in 1 .. Len(more) :
                /\ more[j].frame = "entry"
                /\ more[j].packet = admitted[Rank(disk.lines, Len(disk.lines)) + j]
      <3>1. worker.acknowledged + n <= Len(admitted)
        <4>1. /\ Len(worker.batch) \in Nat /\ Len(worker.deferred) \in Nat /\ Len(queue) \in Nat
              /\ n <= Len(worker.batch)
          BY <1>1
        <4> QED BY <1>1, <2>1, <2>8, <4>1
      <3> QED BY <1>1, <2>1, <2>3, <2>8, <3>1
    <2>10. LinesRule' /\ DurableRule' /\ ReaderRule'
      <3>1. disk'.lines = disk.lines \o more
        BY <2>7 DEF grown
      <3>2. worker.at \notin {"create", "ended", "dead"} /\ worker'.at \notin {"create", "dead"}
        BY <1>0, <1>2
      <3> QED BY <1>0, <1>2, <2>3, <2>7, <2>9, <3>1, <3>2, GrowKeeps
    <2> QED BY <2>3, <2>6, <2>7, <2>10
  <1>3. CASE Writer!Broken /\ UNCHANGED disk
    <2>1. /\ flags' \in [closing : BOOLEAN, abandoned : BOOLEAN, failed : BOOLEAN]
          /\ ~Writer!At("dead") /\ Writer!Fail
      BY <1>0, <1>3 DEF WriterTypes, Writer!At, Writer!Broken
    <2> QED BY <1>0, <1>3, <2>1, WorkerEnds
  <1>4. CASE /\ worker' = [worker EXCEPT !.at = "commit"] /\ UNCHANGED flags
             /\ disk' = [disk EXCEPT !.lines = @ \o
                            [i \in DOMAIN worker.batch |-> Writer!Entry(worker.batch[i])]]
    <2> DEFINE n == Len(worker.batch)
               more == [i \in 1 .. n |-> Writer!Entry(worker.batch[i])]
    <2>1. n \in 0 .. Len(worker.batch) /\ n \in Nat /\ DOMAIN worker.batch = 1 .. n
      BY <1>1
    <2>2. disk' = [disk EXCEPT !.lines = @ \o more]
      BY <1>4, <2>1, Zenon
    <2>3. /\ worker' \in [at : Writer!Places, batch : Seq(Packet), deferred : Seq(Packet),
                          failed : BOOLEAN, acknowledged : Nat]
          /\ worker'.at = "commit" /\ worker'.batch = worker.batch
          /\ worker'.deferred = worker.deferred
          /\ worker'.acknowledged = worker.acknowledged
      BY <1>0, <1>4 DEF WriterTypes, Writer!Places
    <2>4. more = [i \in 1 .. n |-> Writer!Entry(worker.batch[i])]
      OBVIOUS
    <2> HIDE DEF more
    <2>5. /\ Len(more) = n
          /\ disk' \in [lines : Seq(Line), synced : Nat, checkpoint : Int, manifest : Int]
          /\ Grows(disk.lines, more, disk'.lines) /\ \A j \in 1 .. n : more[j].frame = "entry"
          /\ LinesRule' /\ DurableRule' /\ ReaderRule'
      <3>1. worker'.at \in {"commit", "ended"} /\ worker'.acknowledged = worker.acknowledged
        BY <2>3
      <3> HIDE DEF n
      <3>2. n \in 0 .. Len(worker.batch)
        BY <2>1
      <3> QED BY <1>2, <2>2, <2>4, <3>1, <3>2, Zenon
    <2>6. WriterTypes'
      BY <1>0, <1>4, <2>3, <2>5 DEF WriterTypes
    <2>7. Rank(disk'.lines, Len(disk'.lines)) = worker.acknowledged + n
      <3>1. /\ Len(disk'.lines) = Len(disk.lines) + n
            /\ \A j \in 0 .. n : Rank(disk'.lines, Len(disk.lines) + j) = worker.acknowledged + j
        BY <1>1, <2>5 DEF Grows
      <3>2. n \in 0 .. n
        BY <2>1
      <3> HIDE DEF n
      <3> QED BY <3>1, <3>2
    <2>8. BookRule'
      BY <1>0, <1>1, <2>3, <2>7 DEF BookRule, Holding
    <2>9. RoomRule'
      BY <1>0, <2>3, RoomStays
    <2> QED BY <2>5, <2>6, <2>8, <2>9 DEF WriterInvariant
  <1>5. ASSUME Writer!Broken, NEW n \in 0 .. Len(worker.batch),
               disk' = [disk EXCEPT !.lines = @ \o
                           [i \in 1 .. n |-> Writer!Entry(worker.batch[i])]]
        PROVE  WriterInvariant'
    <2> DEFINE more == [i \in 1 .. n |-> Writer!Entry(worker.batch[i])]
               none == <<>>
    <2>1. none \in Seq(Packet)
      OBVIOUS
    <2>2. /\ worker' = [worker EXCEPT !.at = "ended", !.failed = TRUE, !.batch = none, !.deferred = none]
          /\ flags' = [flags EXCEPT !.failed = TRUE]
      BY <1>5 DEF Writer!Broken, Writer!Fail
    <2> HIDE DEF none
    <2>3. /\ worker' \in [at : Writer!Places, batch : Seq(Packet), deferred : Seq(Packet),
                          failed : BOOLEAN, acknowledged : Nat]
          /\ worker'.at = "ended" /\ worker'.batch = none /\ worker'.deferred = none
          /\ worker'.acknowledged = worker.acknowledged
          /\ flags' \in [closing : BOOLEAN, abandoned : BOOLEAN, failed : BOOLEAN]
      BY <1>0, <2>1, <2>2 DEF WriterTypes, Writer!Places
    <2>4. disk' = [disk EXCEPT !.lines = @ \o more] /\ more = more
      BY <1>5
    <2>5. /\ disk' \in [lines : Seq(Line), synced : Nat, checkpoint : Int, manifest : Int]
          /\ LinesRule' /\ DurableRule' /\ ReaderRule'
      <3>1. more = [i \in 1 .. n |-> Writer!Entry(worker.batch[i])]
        OBVIOUS
      <3> HIDE DEF more
      <3> QED BY <1>2, <2>3, <2>4, <3>1
    <2>6. WriterTypes'
      BY <1>0, <2>3, <2>5 DEF WriterTypes
    <2>7. BookRule'
      BY <2>3 DEF BookRule
    <2>8. RoomRule'
      BY <1>0, <2>3, RoomStays DEF none
    <2> QED BY <2>5, <2>6, <2>7, <2>8 DEF WriterInvariant
  <1>6. \/ Writer!Broken /\ UNCHANGED disk
        \/ /\ worker' = [worker EXCEPT !.at = "commit"] /\ UNCHANGED flags
           /\ disk' = [disk EXCEPT !.lines = @ \o
                          [i \in DOMAIN worker.batch |-> Writer!Entry(worker.batch[i])]]
        \/ /\ Writer!Broken
           /\ \E n \in 0 .. Len(worker.batch) :
                 disk' = [disk EXCEPT !.lines = @ \o
                             [i \in 1 .. n |-> Writer!Entry(worker.batch[i])]]
    BY Zenon DEF Writer!AppendEntries, Writer!Goto
  <1> QED BY <1>3, <1>4, <1>5, <1>6, Zenon

LEMMA CommitKeeps ==
    ASSUME WriterInvariant, Writer!AppendCommit
    PROVE  WriterInvariant'
  <1>0. /\ WriterTypes /\ LinesRule /\ BookRule /\ DurableRule /\ ReaderRule /\ RoomRule
        /\ worker.at = "commit" /\ UNCHANGED <<producer, queue, reader, admitted>>
    BY DEF WriterInvariant, Writer!AppendCommit, Writer!At
  <1>1. CASE Writer!Broken /\ UNCHANGED disk
    <2>1. /\ flags' \in [closing : BOOLEAN, abandoned : BOOLEAN, failed : BOOLEAN]
          /\ ~Writer!At("dead") /\ Writer!Fail
      BY <1>0, <1>1 DEF WriterTypes, Writer!At, Writer!Broken
    <2> QED BY <1>0, <1>1, <2>1, WorkerEnds
  <1> DEFINE line == Writer!Commit(Writer!CommittedIn(disk.lines) + Len(worker.batch))
             more == <<line>>
             grown == disk.lines \o more
  <1>2. CASE /\ disk' = [disk EXCEPT !.lines = Append(@, line)]
             /\ worker' = [worker EXCEPT !.at = "sync"] /\ UNCHANGED flags
    <2>1. disk.lines \in Seq(Line) /\ Len(worker.batch) \in Nat
      BY <1>0 DEF WriterTypes
    <2>2. line \in Line /\ line.frame = "commit"
      <3>1. Writer!CommittedIn(disk.lines) + Len(worker.batch) \in Int
        BY <2>1, LastCommit
      <3> QED BY <3>1 DEF Writer!Commit, Line
    <2>3. disk' = [disk EXCEPT !.lines = Append(disk.lines, line)]
      BY <1>2, Zenon
    <2> HIDE DEF line
    <2>4. /\ more \in Seq(Line) /\ Len(more) = 1 /\ more[1].frame = "commit"
          /\ Append(disk.lines, line) = grown /\ grown \in Seq(Line)
      BY <2>1, <2>2
    <2>5. Grows(disk.lines, more, grown)
      BY <2>1, <2>4, GrownLines
    <2> HIDE DEF more, grown
    <2>6. /\ disk' \in [lines : Seq(Line), synced : Nat, checkpoint : Int, manifest : Int]
          /\ disk'.lines = grown /\ disk'.synced = disk.synced
          /\ disk'.checkpoint = disk.checkpoint /\ disk'.manifest = disk.manifest
      BY <1>0, <2>3, <2>4 DEF WriterTypes
    <2>7. /\ worker' \in [at : Writer!Places, batch : Seq(Packet), deferred : Seq(Packet),
                          failed : BOOLEAN, acknowledged : Nat]
          /\ worker'.at = "sync" /\ worker'.batch = worker.batch
          /\ worker'.deferred = worker.deferred
          /\ worker'.acknowledged = worker.acknowledged
      BY <1>0, <1>2 DEF WriterTypes, Writer!Places
    <2>8. WriterTypes'
      BY <1>0, <1>2, <2>6, <2>7 DEF WriterTypes
    <2>9. \A j \in 1 .. Len(more) : more[j].frame # "entry"
      BY <2>4
    <2>10. LinesRule' /\ DurableRule' /\ ReaderRule'
      <3>1. disk'.lines = disk.lines \o more
        BY <2>6 DEF grown
      <3>2. worker.at \notin {"create", "ended", "dead"} /\ worker'.at \notin {"create", "dead"}
        BY <1>0, <2>7
      <3> QED BY <1>0, <2>4, <2>6, <2>7, <2>9, <3>1, <3>2, GrowKeeps
    <2>11. BookRule'
      <3>1. Rank(grown, Len(grown)) = worker.acknowledged + Len(worker.batch)
        BY <1>0, <2>5, <2>9 DEF Grows, BookRule
      <3>2. grown # <<>> /\ grown[Len(grown)].frame = "commit"
        <4>1. /\ Len(grown) = Len(disk.lines) + 1
              /\ \A j \in 1 .. Len(more) : grown[Len(disk.lines) + j] = more[j]
          BY <2>4, <2>5 DEF Grows
        <4>2. 1 \in 1 .. Len(more) /\ Len(disk.lines) \in Nat
          BY <2>1, <2>4
        <4>3. grown[Len(grown)] = more[1] /\ Len(grown) # 0
          BY <4>1, <4>2
        <4>4. grown # <<>>
          BY <4>3
        <4> QED BY <2>4, <4>3, <4>4
      <3> QED BY <1>0, <2>6, <2>7, <3>1, <3>2 DEF BookRule, Holding
    <2>12. RoomRule'
      BY <1>0, <2>7, RoomStays
    <2> QED BY <2>8, <2>10, <2>11, <2>12 DEF WriterInvariant
  <1>3. \/ Writer!Broken /\ UNCHANGED disk
        \/ /\ disk' = [disk EXCEPT !.lines = Append(@, line)]
           /\ worker' = [worker EXCEPT !.at = "sync"] /\ UNCHANGED flags
    BY Zenon DEF Writer!AppendCommit, Writer!Goto, Writer!Put
  <1> QED BY <1>1, <1>2, <1>3

\* A crash takes lines that no acknowledgement rests on.
LEMMA WriterCrashKeeps ==
    ASSUME WriterInvariant, Writer!Crash
    PROVE  WriterInvariant'
  <1>0. /\ WriterTypes /\ LinesRule /\ DurableRule /\ ReaderRule /\ RoomRule
        /\ UNCHANGED <<producer, queue, flags, admitted>>
        /\ worker' = [worker EXCEPT !.at = "dead"] /\ reader' = [reader EXCEPT !.live = FALSE]
    BY DEF WriterInvariant, Writer!Crash
  <1> DEFINE lines == disk.lines
             size == Len(disk.lines)
  <1>1. PICK n \in disk.synced .. size :
           disk' = [disk EXCEPT !.lines = SubSeq(@, 1, n), !.synced = n]
    BY Zenon DEF Writer!Crash
  <1>2. /\ disk \in [lines : Seq(Line), synced : Nat, checkpoint : Int, manifest : Int]
        /\ lines \in Seq(Line) /\ size \in Nat /\ disk.synced \in Nat /\ Len(admitted) \in Nat
        /\ reader.offset \in Nat
    BY <1>0 DEF WriterTypes
  <1>3. n \in 0 .. size /\ n \in Nat /\ disk.synced <= n /\ n <= size
    BY <1>2
  <1> DEFINE left == SubSeq(lines, 1, n)
  <1>4. /\ left \in Seq(Line) /\ Len(left) = n /\ \A i \in 1 .. n : left[i] = lines[i]
    <2>1. /\ left \in Seq(Line)
          /\ Len(left) = IF 1 <= n THEN n - 1 + 1 ELSE 0
          /\ \A i \in 1 .. n - 1 + 1 : left[i] = lines[1 + i - 1]
      <3>1. \A i \in 1 .. n : lines[i] \in Line
        BY <1>2, <1>3
      <3> QED BY <1>2, <1>3, <3>1, SubSeqProperties
    <2>2. n - 1 + 1 = n /\ \A i \in 1 .. n : 1 + i - 1 = i
      BY <1>3
    <2>3. Len(left) = n
      BY <1>3, <2>1
    <2> HIDE DEF left
    <2> QED BY <2>1, <2>2, <2>3
  <1>5. disk' = [disk EXCEPT !.lines = left, !.synced = n]
    BY <1>1, Zenon
  <1> HIDE DEF left
  <1>6. ASSUME NEW i \in 0 .. n PROVE Rank(left, i) = Rank(lines, i)
    <2>1. i \in Nat /\ \A k \in 1 .. i : k \in 1 .. n
      BY <1>3
    <2>2. \A k \in 1 .. i : left[k] = lines[k]
      BY <1>4, <2>1
    <2> HIDE DEF lines
    <2> QED BY <2>1, <2>2, RankSame
  <1>7. /\ disk' \in [lines : Seq(Line), synced : Nat, checkpoint : Int, manifest : Int]
        /\ disk'.lines = left /\ disk'.synced = n
        /\ disk'.checkpoint = disk.checkpoint /\ disk'.manifest = disk.manifest
    BY <1>2, <1>3, <1>4, <1>5
  <1>8. /\ worker' \in [at : Writer!Places, batch : Seq(Packet), deferred : Seq(Packet),
                        failed : BOOLEAN, acknowledged : Nat]
        /\ worker'.at = "dead" /\ worker'.batch = worker.batch
        /\ worker'.deferred = worker.deferred /\ worker'.acknowledged = worker.acknowledged
    BY <1>0 DEF WriterTypes, Writer!Places
  <1>9. /\ reader' \in [offset : Nat, packets : Seq(Packet), live : BOOLEAN]
        /\ reader'.offset = reader.offset /\ reader'.packets = reader.packets /\ ~reader'.live
    BY <1>0 DEF WriterTypes
  <1>10. WriterTypes'
    BY <1>0, <1>7, <1>8, <1>9 DEF WriterTypes
  <1>11. LinesRule'
    <2>1. /\ lines # <<>> => lines[1].frame = "header"
          /\ Rank(lines, size) <= Len(admitted)
          /\ \A i \in 1 .. size :
                lines[i].frame = "entry" => lines[i].packet = admitted[Rank(lines, i)]
      BY <1>0 DEF LinesRule
    <2> HIDE DEF lines, size
    <2>2. Rank(left, n) <= Len(admitted)
      <3>1. Rank(lines, n) \in Nat /\ Rank(lines, size) \in Nat /\ Rank(lines, n) <= Rank(lines, size)
        BY <1>2, <1>3, RankGrows
      <3>2. Rank(left, n) = Rank(lines, n)
        <4>1. n \in 0 .. n
          BY <1>3
        <4> QED BY <1>6, <4>1
      <3> QED BY <1>2, <2>1, <3>1, <3>2
    <2>3. ASSUME left # <<>> PROVE left[1].frame = "header"
      <3>1. n # 0
        BY <1>4, <2>3
      <3>2. 1 \in 1 .. n /\ size # 0
        BY <1>2, <1>3, <3>1
      <3>3. lines # <<>>
        BY <1>2, <3>2 DEF size, lines
      <3> QED BY <1>4, <2>1, <3>2, <3>3
    <2>4. ASSUME NEW i \in 1 .. n, left[i].frame = "entry"
          PROVE  left[i].packet = admitted[Rank(left, i)]
      <3>1. i \in 0 .. n /\ i \in 1 .. size
        BY <1>2, <1>3
      <3> QED BY <1>4, <1>6, <2>1, <2>4, <3>1
    <2>5. n <= n
      BY <1>3
    <2> QED BY <1>0, <1>4, <1>7, <1>8, <2>2, <2>3, <2>4, <2>5 DEF LinesRule
  <1>12. BookRule'
    BY <1>8 DEF BookRule
  <1>13. DurableRule'
    <2>1. ASSUME NEW c \in 1 .. disk.synced
          PROVE  c \in 1 .. n /\ left[c] = lines[c] /\ Rank(left, c) = Rank(lines, c)
      <3>1. c \in 1 .. n /\ c \in 0 .. n
        BY <1>2, <1>3
      <3> QED BY <1>4, <1>6, <3>1
    <2> QED BY <1>0, <1>7, <1>8, <2>1 DEF DurableRule, lines
  <1>14. ReaderRule'
    <2>1. /\ Len(reader.packets) <= Len(admitted) /\ Writer!InOrder(reader.packets)
          /\ (reader.offset <= size => Len(reader.packets) = Rank(lines, reader.offset))
      BY <1>0 DEF ReaderRule
    <2>2. Writer!InOrder(reader.packets)'
      <3>1. \A i \in DOMAIN reader.packets : reader.packets[i] = admitted[i]
        BY <2>1 DEF Writer!InOrder
      <3> QED BY <1>0, <1>9, <3>1 DEF Writer!InOrder
    <2>3. ASSUME reader.offset <= n PROVE Len(reader.packets) = Rank(left, reader.offset)
      <3>1. reader.offset \in 0 .. n /\ reader.offset <= size
        BY <1>2, <1>3, <2>3
      <3> QED BY <1>6, <2>1, <3>1
    <2> QED BY <1>0, <1>4, <1>7, <1>8, <1>9, <2>1, <2>2, <2>3 DEF ReaderRule
  <1>15. RoomRule'
    BY <1>0, <1>8, RoomStays
  <1> QED BY <1>10, <1>11, <1>12, <1>13, <1>14, <1>15 DEF WriterInvariant

-----------------------------------------------------------------------------
(* The readers, and the writer as a whole. *)

LEMMA PageKeeps ==
    ASSUME WriterInvariant, Writer!ImportPage
    PROVE  WriterInvariant'
  <1> DEFINE lines == disk.lines
             size == Len(disk.lines)
             from == IF reader.offset = 0 THEN 1 ELSE reader.offset
             after == Writer!CommitsAfter(from)
             page == {i \in after : Writer!Cardinality({j \in after : j <= i}) <= PageBatches}
             to == Writer!Max(page)
             more == Writer!EntriesIn(from, to)
  <1>0. /\ WriterTypes /\ LinesRule /\ BookRule /\ DurableRule /\ ReaderRule /\ RoomRule
        /\ UNCHANGED <<producer, queue, flags, worker, disk, admitted>>
        /\ lines # <<>> /\ reader.live /\ page # {}
    BY DEF WriterInvariant, Writer!ImportPage
  <1>1. reader' = [reader EXCEPT !.offset = to, !.packets = reader.packets \o more]
    BY Zenon DEF Writer!ImportPage
  <1>2. /\ reader \in [offset : Nat, packets : Seq(Packet), live : BOOLEAN]
        /\ reader.packets \in Seq(Packet) /\ size \in Nat /\ reader.offset \in Nat
        /\ Len(admitted) \in Nat
    BY <1>0 DEF WriterTypes
  <1>3. /\ Len(reader.packets) <= Len(admitted) /\ Writer!InOrder(reader.packets)
        /\ reader.offset <= size /\ Len(reader.packets) = Rank(lines, reader.offset)
    BY <1>0 DEF ReaderRule
  <1>4. from \in Nat /\ after \subseteq from + 1 .. size /\ page \subseteq 1 .. size
    <2>1. from \in Nat
      BY <1>2
    <2>2. after \subseteq from + 1 .. size
      BY DEF Writer!CommitsAfter
    <2>3. from + 1 .. size \subseteq 1 .. size
      <3> HIDE DEF from, size
      <3> QED BY <1>2, <2>1
    <2>4. page \subseteq after
      OBVIOUS
    <2> HIDE DEF from, after, page, size
    <2> QED BY <2>1, <2>2, <2>3, <2>4
  <1>5. to \in after /\ to \in from + 1 .. size
    <2>1. page \subseteq after
      OBVIOUS
    <2> HIDE DEF page, after
    <2>2. to \in page
      BY <1>0, <1>2, <1>4, GreatestLine
    <2> QED BY <1>4, <2>1, <2>2
  <1> HIDE DEF page, after, to
  <1>6. from <= to /\ to \in Nat /\ to <= size
    BY <1>2, <1>4, <1>5
  <1>7. Rank(lines, from) = Rank(lines, reader.offset)
    <2>1. CASE reader.offset # 0
      BY <2>1
    <2>2. CASE reader.offset = 0
      <3>1. from = 1
        BY <2>2
      <3>2. \A i \in 0 + 1 .. 1 : lines[i].frame # "entry"
        <4>1. \A i \in 0 + 1 .. 1 : i = 1
          OBVIOUS
        <4>2. lines[1].frame = "header"
          BY <1>0 DEF LinesRule
        <4> QED BY <4>1, <4>2
      <3> HIDE DEF lines, from
      <3>3. Rank(lines, 1) = Rank(lines, 0)
        BY <3>2, RankGrows
      <3> QED BY <2>2, <3>1, <3>3
    <2> QED BY <2>1, <2>2
  <1> HIDE DEF from
  <1>8. /\ more \in Seq(Packet) /\ Len(more) = Rank(lines, to) - Rank(lines, from)
        /\ \A k \in 1 .. Len(more) : more[k] = admitted[Rank(lines, from) + k]
        /\ Rank(lines, to) <= Len(admitted)
    BY <1>0, <1>4, <1>6, EntriesAreAdmitted
  <1>9. Rank(lines, from) \in Nat /\ Rank(lines, to) \in Nat
    <2> HIDE DEF lines
    <2> QED BY <1>4, <1>6, RankCounts
  <1> HIDE DEF more
  <1> DEFINE all == reader.packets \o more
             old == Len(reader.packets)
  <1>10. /\ all \in Seq(Packet) /\ Len(all) = Rank(lines, to)
         /\ \A k \in 1 .. Len(all) : all[k] = admitted[k]
    <2>1. /\ all \in Seq(Packet) /\ Len(all) = old + Len(more) /\ old \in Nat /\ Len(more) \in Nat
          /\ \A k \in 1 .. old + Len(more) : all[k] = IF k <= old THEN reader.packets[k]
                                                      ELSE more[k - old]
      <3>1. reader.packets \in Seq(Packet) /\ more \in Seq(Packet)
        BY <1>2, <1>8
      <3>2. old \in Nat /\ Len(more) \in Nat /\ all \in Seq(Packet)
        BY <3>1
      <3>3. /\ Len(all) = old + Len(more)
            /\ \A k \in 1 .. old + Len(more) : all[k] = IF k <= old THEN reader.packets[k]
                                                        ELSE more[k - old]
        BY <3>1, ConcatProperties
      <3> QED BY <3>2, <3>3
    <2>2. \A k \in 1 .. old : reader.packets[k] = admitted[k]
      <3>1. DOMAIN reader.packets = 1 .. old
        BY <1>2
      <3> QED BY <1>3, <3>1 DEF Writer!InOrder
    <2>3. old = Rank(lines, from)
      BY <1>3, <1>7
    <2> HIDE DEF all, old, lines
    <2>4. old + Len(more) = Rank(lines, to)
      BY <1>8, <1>9, <2>1, <2>3
    <2>5. ASSUME NEW k \in 1 .. old + Len(more) PROVE all[k] = admitted[k]
      <3>1. CASE k <= old
        <4>1. k \in 1 .. old
          BY <2>1, <3>1
        <4> QED BY <2>1, <2>2, <3>1, <4>1
      <3>2. CASE ~(k <= old)
        <4>1. k - old \in 1 .. Len(more) /\ old + (k - old) = k
          BY <2>1, <3>2
        <4>2. more[k - old] = admitted[old + (k - old)]
          BY <1>8, <2>3, <4>1
        <4> QED BY <2>1, <3>2, <4>1, <4>2
      <3> QED BY <3>1, <3>2
    <2> QED BY <2>1, <2>4, <2>5
  <1>11. /\ reader' \in [offset : Nat, packets : Seq(Packet), live : BOOLEAN]
         /\ reader'.offset = to /\ reader'.packets = all /\ reader'.live = reader.live
    <2>1. reader' = [reader EXCEPT !.offset = to, !.packets = all]
      BY <1>1 DEF more
    <2> HIDE DEF all
    <2> QED BY <1>2, <1>6, <1>10, <2>1
  <1> HIDE DEF all
  <1>12. WriterTypes'
    BY <1>0, <1>11 DEF WriterTypes
  <1>13. LinesRule'
    BY <1>0 DEF LinesRule
  <1>14. BookRule'
    BY <1>0 DEF BookRule
  <1>15. DurableRule'
    BY <1>0 DEF DurableRule
  <1>16. ReaderRule'
    <2>1. Len(all) <= Len(admitted)
      BY <1>8, <1>10
    <2>2. Writer!InOrder(reader.packets)'
      <3>1. DOMAIN all = 1 .. Len(all)
        BY <1>10
      <3> QED BY <1>0, <1>10, <1>11, <3>1 DEF Writer!InOrder
    <2> QED BY <1>0, <1>6, <1>10, <1>11, <2>1, <2>2 DEF ReaderRule
  <1>17. RoomRule'
    BY <1>0 DEF RoomRule, Data
  <1> QED BY <1>12, <1>13, <1>14, <1>15, <1>16, <1>17 DEF WriterInvariant

LEMMA ReopenKeeps ==
    ASSUME WriterInvariant, Writer!Reopen
    PROVE  WriterInvariant'
  <1> DEFINE none == <<>>
             size == Len(disk.lines)
  <1>0. /\ WriterTypes /\ LinesRule /\ BookRule /\ DurableRule /\ ReaderRule /\ RoomRule
        /\ UNCHANGED <<producer, queue, flags, worker, disk, admitted>>
    BY DEF WriterInvariant, Writer!Reopen
  <1>1. none \in Seq(Packet) /\ Len(none) = 0 /\ DOMAIN none = {}
    OBVIOUS
  <1>2. \/ /\ reader' = [offset |-> 0, packets |-> none, live |-> TRUE]
        \/ /\ reader' = [reader EXCEPT !.live = TRUE] /\ ~(reader.offset > size)
    BY DEF Writer!Reopen
  <1>3. /\ reader \in [offset : Nat, packets : Seq(Packet), live : BOOLEAN]
        /\ size \in Nat /\ Len(admitted) \in Nat
    BY <1>0 DEF WriterTypes
  <1> HIDE DEF none
  <1>4. /\ reader' \in [offset : Nat, packets : Seq(Packet), live : BOOLEAN] /\ reader'.live
        /\ \/ reader'.offset = 0 /\ reader'.packets = none
           \/ /\ reader'.offset = reader.offset /\ reader'.packets = reader.packets
              /\ ~(reader.offset > size)
    <2>1. CASE reader' = [offset |-> 0, packets |-> none, live |-> TRUE]
      BY <1>1, <2>1
    <2>2. CASE reader' = [reader EXCEPT !.live = TRUE] /\ ~(reader.offset > size)
      BY <1>3, <2>2
    <2> QED BY <1>2, <2>1, <2>2
  <1>5. WriterTypes'
    BY <1>0, <1>4 DEF WriterTypes
  <1>6. ReaderRule'
    <2>1. CASE reader'.offset = 0 /\ reader'.packets = none
      <3>1. Writer!InOrder(reader.packets)'
        BY <1>1, <2>1 DEF Writer!InOrder
      <3>2. Rank(disk.lines, 0) = 0 /\ Len(none) <= Len(admitted) /\ 0 <= size
        BY <1>1, <1>3, RankStarts
      <3> QED BY <1>0, <1>1, <1>4, <2>1, <3>1, <3>2 DEF ReaderRule
    <2>2. CASE /\ reader'.offset = reader.offset /\ reader'.packets = reader.packets
               /\ ~(reader.offset > size)
      <3>1. Writer!InOrder(reader.packets)'
        BY <1>0, <2>2 DEF Writer!InOrder, ReaderRule
      <3>2. reader.offset <= size
        BY <1>3, <2>2
      <3> QED BY <1>0, <1>4, <2>2, <3>1, <3>2 DEF ReaderRule
    <2> QED BY <1>4, <2>1, <2>2
  <1>7. LinesRule'
    BY <1>0 DEF LinesRule
  <1>8. BookRule'
    BY <1>0 DEF BookRule
  <1>9. DurableRule'
    BY <1>0 DEF DurableRule
  <1>10. RoomRule'
    BY <1>0 DEF RoomRule, Data
  <1> QED BY <1>5, <1>6, <1>7, <1>8, <1>9, <1>10 DEF WriterInvariant

LEMMA WriterStarts == Writer!Init => WriterInvariant
  <1> SUFFICES ASSUME Writer!Init PROVE WriterInvariant
    OBVIOUS
  <1> DEFINE none == <<>>
  <1>1. /\ none \in Seq(Packet) /\ none \in Seq(Line) /\ Len(none) = 0 /\ DOMAIN none = {}
        /\ Count(none, Data) = 0
    <2>1. none \in Seq(Packet)
      OBVIOUS
    <2>2. none \in Seq(Line)
      OBVIOUS
    <2>3. Len(none) = 0 /\ DOMAIN none = {}
      OBVIOUS
    <2> QED BY <2>1, <2>2, <2>3, CountOne
  <1>2. /\ producer = [step |-> "free", packet |-> [id |-> 1, control |-> FALSE], tried |-> 0]
        /\ queue = none /\ admitted = none
        /\ flags = [closing |-> FALSE, abandoned |-> FALSE, failed |-> FALSE]
        /\ worker = [at |-> "create", batch |-> none, deferred |-> none, failed |-> FALSE,
                     acknowledged |-> 0]
        /\ disk = [lines |-> none, synced |-> 0, checkpoint |-> -1, manifest |-> -1]
        /\ reader = [offset |-> 0, packets |-> none, live |-> TRUE]
    BY DEF Writer!Init
  <1>3. none = <<>>
    OBVIOUS
  <1> HIDE DEF none
  <1>4. WriterTypes
    <2>1. producer.packet \in Packet
      BY <1>2 DEF Packet
    <2>2. producer \in [step : {"free", "checked", "locked"}, packet : Packet, tried : Int]
      BY <1>2, <2>1
    <2>3. worker \in [at : Writer!Places, batch : Seq(Packet), deferred : Seq(Packet),
                      failed : BOOLEAN, acknowledged : Nat]
      BY <1>1, <1>2 DEF Writer!Places
    <2>4. disk \in [lines : Seq(Line), synced : Nat, checkpoint : Int, manifest : Int]
      BY <1>1, <1>2
    <2>5. /\ reader \in [offset : Nat, packets : Seq(Packet), live : BOOLEAN]
          /\ flags \in [closing : BOOLEAN, abandoned : BOOLEAN, failed : BOOLEAN]
      BY <1>1, <1>2
    <2> QED BY <1>1, <1>2, <2>2, <2>3, <2>4, <2>5 DEF WriterTypes
  <1>5. Rank(none, 0) = 0
    BY RankStarts
  <1>6. LinesRule
    BY <1>1, <1>2, <1>3, <1>5 DEF LinesRule
  <1>7. BookRule
    <2>1. Booked(0, none, none, none, none)
      BY <1>1 DEF Booked
    <2> QED BY <1>1, <1>2, <1>3, <1>5, <2>1 DEF BookRule, Holding
  <1>8. DurableRule
    BY <1>1, <1>2 DEF DurableRule
  <1>9. ReaderRule
    BY <1>1, <1>2, <1>5 DEF ReaderRule, Writer!InOrder
  <1>10. RoomRule
    <2>1. Writer!WriterAssumption
      BY RecorderAssumption
    <2>2. 0 + 0 + 0 <= Slots - ControlSlots
      BY <2>1 DEF Writer!WriterAssumption
    <2> QED BY <1>1, <1>2, <2>2 DEF RoomRule
  <1> QED BY <1>4, <1>6, <1>7, <1>8, <1>9, <1>10 DEF WriterInvariant

LEMMA WriterKept == WriterInvariant /\ [Writer!Next]_(Writer!vars) => WriterInvariant'
  <1> SUFFICES ASSUME WriterInvariant, [Writer!Next]_(Writer!vars)
               PROVE  WriterInvariant'
    OBVIOUS
  <1>1. CASE Writer!Import
    BY <1>1, PageKeeps, ReopenKeeps DEF Writer!Import
  <1>2. CASE ~Writer!At("dead") /\ Writer!Producer
    BY <1>2, AdmissionBegins, SendKeepsOrder DEF Writer!Producer
  <1>3. CASE Writer!Worker
    BY <1>3, CreateKeeps, ManifestKeeps, ReceiveKeeps, CommittedKeeps, GatherKeeps, EntriesKeep,
       CommitKeeps, SyncKeeps, PersistHintKeeps DEF Writer!Worker
  <1>4. CASE Writer!Session
    BY <1>4, SessionKeeps
  <1>5. CASE Writer!Crash
    BY <1>5, WriterCrashKeeps
  <1>6. CASE UNCHANGED Writer!vars
    <2>1. UNCHANGED <<queue, worker, disk, reader, admitted, producer, flags>>
      BY <1>6 DEF Writer!vars
    <2>2. WriterTypes'
      BY <2>1 DEF WriterInvariant, WriterTypes
    <2> QED BY <2>1, <2>2, BesideTheWriter
  <1> QED BY <1>1, <1>2, <1>3, <1>4, <1>5, <1>6 DEF Writer!Next

LEMMA WriterIsSound ==
    ASSUME WriterInvariant
    PROVE  /\ Writer!JournalIsDurable /\ Writer!HintsAreCommitted
           /\ Writer!ImportIsPrefix /\ Writer!ControlHasRoom
  <1> DEFINE lines == disk.lines
             size == Len(disk.lines)
             marks == Writer!CommitsAfter(0)
             to == IF marks = {} THEN 0 ELSE Writer!Max(marks)
             read == Writer!EntriesIn(0, to)
  <1>0. /\ WriterTypes /\ LinesRule /\ DurableRule /\ ReaderRule /\ RoomRule
    BY DEF WriterInvariant
  <1>1. Writer!Recovered = read
    BY DEF Writer!Recovered
  <1>2. /\ size \in Nat /\ disk.synced \in Nat /\ disk.synced <= size
        /\ worker.acknowledged \in Nat /\ disk.checkpoint \in Int /\ disk.manifest \in Int
    BY <1>0 DEF WriterTypes, LinesRule
  <1>3. marks = {i \in 1 .. size : lines[i].frame = "commit"}
    BY DEF Writer!CommitsAfter
  <1>4. marks # {} => Writer!Max(marks) \in marks /\ \A c \in marks : c <= Writer!Max(marks)
    <2>1. marks \subseteq 1 .. size
      BY <1>3
    <2> HIDE DEF marks, size
    <2> QED BY <1>2, <2>1, GreatestLine
  <1> HIDE DEF marks
  <1>5. to \in Nat /\ 0 <= to /\ to <= size
    BY <1>2, <1>3, <1>4
  <1>6. \A c \in marks : c <= to
    BY <1>4
  <1> HIDE DEF to
  <1>7. /\ read \in Seq(Packet) /\ Len(read) = Rank(lines, to) - Rank(lines, 0)
        /\ \A k \in 1 .. Len(read) : read[k] = admitted[Rank(lines, 0) + k]
    <2>1. 0 \in Nat
      OBVIOUS
    <2> QED BY <1>0, <1>5, <2>1, EntriesAreAdmitted
  <1>8. Rank(lines, 0) = 0 /\ Rank(lines, to) \in Nat
    <2> HIDE DEF lines
    <2> QED BY <1>5, RankStarts, RankCounts
  <1> HIDE DEF read
  <1>9. Len(read) = Rank(lines, to) /\ Len(read) \in Nat
        /\ \A k \in 1 .. Len(read) : read[k] = admitted[k]
    <2>1. Len(read) = Rank(lines, to)
      BY <1>7, <1>8
    <2>2. \A k \in 1 .. Len(read) : 0 + k = k
      OBVIOUS
    <2> QED BY <1>7, <1>8, <2>1, <2>2
  <1>10. worker.acknowledged <= Len(read)
    <2>1. CASE worker.acknowledged = 0
      BY <1>9, <2>1
    <2>2. ASSUME NEW c \in 1 .. disk.synced, lines[c].frame = "commit",
                 worker.acknowledged <= Rank(lines, c)
          PROVE  worker.acknowledged <= Len(read)
      <3>1. c \in 1 .. size /\ c \in Nat
        BY <1>2
      <3>2. c <= to
        BY <1>3, <1>6, <2>2, <3>1
      <3> HIDE DEF lines
      <3>3. Rank(lines, c) \in Nat /\ Rank(lines, c) <= Rank(lines, to)
        BY <1>5, <3>1, <3>2, RankGrows
      <3> QED BY <1>2, <1>8, <1>9, <2>2, <3>3
    <2> QED BY <1>0, <2>1, <2>2 DEF DurableRule
  <1>11. Writer!JournalIsDurable
    <2>1. DOMAIN read = 1 .. Len(read)
      BY <1>7
    <2>2. Writer!InOrder(read)
      BY <1>9, <2>1 DEF Writer!InOrder
    <2>3. Len(read) >= worker.acknowledged
      BY <1>2, <1>9, <1>10
    <2> QED BY <1>1, <2>2, <2>3 DEF Writer!JournalIsDurable
  <1>12. Writer!HintsAreCommitted
    <2>1. disk.checkpoint <= worker.acknowledged /\ disk.manifest <= worker.acknowledged
      BY <1>0 DEF DurableRule
    <2>2. disk.checkpoint <= Len(read) /\ disk.manifest <= Len(read)
      BY <1>2, <1>9, <1>10, <2>1
    <2> QED BY <1>1, <2>2 DEF Writer!HintsAreCommitted
  <1>13. Writer!ImportIsPrefix
    BY <1>0 DEF ReaderRule, Writer!ImportIsPrefix
  <1>14. Writer!ControlHasRoom
    <2> DEFINE held == queue \o worker.batch \o worker.deferred
               Control == {p \in Packet : p.control}
               q == Len(queue)
               b == Len(worker.batch)
               d == Len(worker.deferred)
               controls == {i \in DOMAIN held : held[i].control}
    <2>1. /\ queue \in Seq(Packet) /\ worker.batch \in Seq(Packet) /\ worker.deferred \in Seq(Packet)
          /\ q \in Nat /\ b \in Nat /\ d \in Nat
      BY <1>0 DEF WriterTypes
    <2>2. ASSUME NEW s \in Seq(Packet)
          PROVE  /\ Count(s, Data) \in Nat /\ Count(s, Control) \in Nat
                 /\ Count(s, Data) + Count(s, Control) = Len(s)
      <3> DEFINE A == {i \in 1 .. Len(s) : s[i] \in Data}
                 B == {i \in 1 .. Len(s) : s[i] \in Control}
      <3>1. Len(s) \in Nat /\ \A i \in 1 .. Len(s) : s[i] \in Packet
        OBVIOUS
      <3>2. IsFiniteSet(A) /\ Cardinality(A) \in Nat /\ IsFiniteSet(B) /\ Cardinality(B) \in Nat
        <4>1. IsFiniteSet(A) /\ Cardinality(A) \in 0 .. Len(s)
          BY <3>1, PlacesCount
        <4>2. IsFiniteSet(B) /\ Cardinality(B) \in 0 .. Len(s)
          BY <3>1, PlacesCount
        <4> HIDE DEF A, B
        <4> QED BY <4>1, <4>2
      <3>3. A \cup B = 1 .. Len(s) /\ A \cap B = {}
        BY <3>1 DEF Data
      <3>4. Cardinality(1 .. Len(s)) = Len(s)
        <4>1. Cardinality(1 .. Len(s)) = IF 1 > Len(s) THEN 0 ELSE Len(s) - 1 + 1
          BY <3>1, FS_Interval
        <4> QED BY <3>1, <4>1
      <3> HIDE DEF A, B
      <3>5. Cardinality(A \cup B) = Cardinality(A) + Cardinality(B)
        BY <3>2, <3>3, DisjointCount
      <3> QED BY <3>2, <3>3, <3>4, <3>5 DEF A, B, Count
    <2> HIDE DEF Control
    <2>3. Count(queue, Data) + Count(worker.batch, Data) + Count(worker.deferred, Data)
             <= Slots - ControlSlots
      BY <1>0 DEF RoomRule
    <2>4. Writer!Cardinality(controls) = Count(queue, Control) + Count(worker.batch, Control)
                                          + Count(worker.deferred, Control)
      <3> DEFINE two == queue \o worker.batch
      <3>1. two \in Seq(Packet) /\ Count(two, Control) = Count(queue, Control)
                                                          + Count(worker.batch, Control)
        BY <2>1, CountConcat
      <3>2. held \in Seq(Packet) /\ held = two \o worker.deferred
        BY <2>1, <3>1
      <3> HIDE DEF two
      <3>3. Count(two \o worker.deferred, Control) = Count(two, Control)
                                                      + Count(worker.deferred, Control)
        BY <2>1, <3>1, CountConcat
      <3> HIDE DEF held
      <3>4. controls = {i \in 1 .. Len(held) : held[i] \in Control}
        <4>1. DOMAIN held = 1 .. Len(held) /\ \A i \in 1 .. Len(held) : held[i] \in Packet
          BY <3>2
        <4> QED BY <4>1 DEF Control
      <3>5. Writer!Cardinality(controls) = Count(held, Control)
        BY <3>4, WriterCounts DEF Count
      <3> QED BY <3>1, <3>2, <3>3, <3>5
    <2>5. Slots \in Int /\ ControlSlots \in Int
      <3>1. Writer!WriterAssumption
        BY RecorderAssumption
      <3> QED BY <3>1 DEF Writer!WriterAssumption
    <2>6. ASSUME Writer!Cardinality(controls) < ControlSlots PROVE q + b + d < Slots
      <3> DEFINE qd == Count(queue, Data)
                 bd == Count(worker.batch, Data)
                 dd == Count(worker.deferred, Data)
                 qc == Count(queue, Control)
                 bc == Count(worker.batch, Control)
                 dc == Count(worker.deferred, Control)
      <3>1. qd \in Nat /\ bd \in Nat /\ dd \in Nat /\ qc \in Nat /\ bc \in Nat /\ dc \in Nat
            /\ qd + qc = q /\ bd + bc = b /\ dd + dc = d
        BY <2>1, <2>2
      <3>2. qd + bd + dd <= Slots - ControlSlots /\ qc + bc + dc < ControlSlots
        BY <2>3, <2>4, <2>6
      <3> HIDE DEF qd, bd, dd, qc, bc, dc, q, b, d
      <3> QED BY <2>5, <3>1, <3>2
    <2> DEFINE one == [id |-> 1, control |-> TRUE]
    <2>7. one.control
      OBVIOUS
    <2>8. ASSUME ~flags.closing, ~flags.failed, q + b + d < Slots PROVE Writer!Reserves(one)
      <3> HIDE DEF one
      <3> QED BY <2>7, <2>8 DEF Writer!Reserves, Writer!InUse
    <2> HIDE DEF controls
    <2> QED BY <2>6, <2>8 DEF Writer!ControlHasRoom, controls
  <1> QED BY <1>11, <1>12, <1>13, <1>14

-----------------------------------------------------------------------------
(* The parts together. *)

recorderVars == <<part, telemetryVars, leagueVars>>
FactsInvariant == HistoryInvariant /\ ContextInvariant /\ FilesInvariant

\* A step of the recorder is a step of each part, or leaves it alone.
LEMMA StepsOfTheParts ==
    ASSUME [Next]_recorderVars
    PROVE  /\ [Enrichment!Next]_Enrichment!vars /\ [History!Next]_History!vars
           /\ [Context!Next]_Context!vars /\ [Sidecars!Next]_Sidecars!vars
  <1>1. /\ UNCHANGED postGameVars => UNCHANGED Enrichment!vars
        /\ UNCHANGED historyVars => UNCHANGED History!vars
        /\ UNCHANGED contextVars => UNCHANGED Context!vars
        /\ UNCHANGED sidecarVars => UNCHANGED Sidecars!vars
    BY DEF postGameVars, historyVars, contextVars, sidecarVars, History!vars,
           History!world, Context!vars,
           Context!surroundings, Context!collector, Context!association, Sidecars!vars,
           Enrichment!vars, Enrichment!clocks, Enrichment!files, Enrichment!handle,
           Enrichment!worker
  <1>2. UNCHANGED leagueVars => UNCHANGED <<postGameVars, historyVars, contextVars, sidecarVars>>
    BY DEF leagueVars
  <1>3. CASE AcquisitionNext \/ WriterNext \/ NormalizationNext \/ UNCHANGED recorderVars
    <2>1. UNCHANGED leagueVars
      BY <1>3 DEF AcquisitionNext, WriterNext, NormalizationNext, recorderVars
    <2> QED BY <1>1, <1>2, <2>1
  <1>4. CASE PostGameNext
    BY <1>1, <1>4 DEF PostGameNext
  <1>5. CASE HistoryNext
    BY <1>1, <1>5 DEF HistoryNext
  <1>6. CASE ContextNext
    BY <1>1, <1>6 DEF ContextNext
  <1>7. CASE SidecarNext
    BY <1>1, <1>7 DEF SidecarNext
  <1> QED BY <1>3, <1>4, <1>5, <1>6, <1>7 DEF Next

\* So it is with the parts of the telemetry.
LEMMA StepsOfTheTelemetry ==
    ASSUME [Next]_recorderVars
    PROVE  [Acquisition!Next]_(Acquisition!vars) /\ [Writer!Next]_(Writer!vars) /\ UNCHANGED part
  <1>1. /\ UNCHANGED acquisitionVars => UNCHANGED Acquisition!vars
        /\ UNCHANGED writerVars => UNCHANGED Writer!vars
    BY DEF acquisitionVars, writerVars, Acquisition!vars, Writer!vars
  <1>2. CASE UNCHANGED <<part, telemetryVars>>
    BY <1>1, <1>2 DEF telemetryVars
  <1>3. CASE AcquisitionNext
    BY <1>1, <1>3 DEF AcquisitionNext
  <1>4. CASE WriterNext
    BY <1>1, <1>4 DEF WriterNext
  <1>5. CASE NormalizationNext
    BY <1>1, <1>5 DEF NormalizationNext
  <1>6. CASE PostGameNext \/ HistoryNext \/ ContextNext \/ SidecarNext
    BY <1>2, <1>6 DEF PostGameNext, HistoryNext, ContextNext, SidecarNext
  <1> QED BY <1>2, <1>3, <1>4, <1>5, <1>6 DEF Next, recorderVars

\* The acquisition and the writer of telemetry are sound, for every number of packets,
\* slots, samples and ticks: the epoch of a source is one for all that use it, no attempt
\* is lost or told twice, and whatever the writer, a crash and the readers of the journal
\* do in between, what was acknowledged can be recovered in order.
THEOREM TelemetryCorrect == Spec => [](part # "normalization" => TelemetryIsSound)
  <1> DEFINE Inv == AcquisitionInvariant /\ WriterInvariant
  <1>1. Init => Inv
    BY AcquisitionStarts, WriterStarts DEF Init
  <1>2. Inv /\ [Next]_recorderVars => Inv'
    BY StepsOfTheTelemetry, AcquisitionKept, WriterKept
  <1>3. Inv => (part # "normalization" => TelemetryIsSound)
    BY WriterIsSound DEF AcquisitionInvariant, TelemetryIsSound
  <1>4. Spec => Init /\ [][Next]_recorderVars
    BY DEF Spec, recorderVars
  <1> QED BY <1>1, <1>2, <1>3, <1>4, PTL

\* Whatever the League client, the files and the process do in between, the history and
\* the context tell of the recording's own game, and what is added to a directory is
\* added whole, to the recording's own and about its own game.
THEOREM LeagueFactsCorrect == Spec => []LeagueFactsAreSound
  <1>0. History!HistoryAssumption /\ Sidecars!SidecarAssumption
    BY RecorderAssumption DEF RecorderAssumption
  <1>1. Init => FactsInvariant
    BY <1>0, HistoryStarts, ContextStarts, FilesStart DEF Init, FactsInvariant
  <1>2. FactsInvariant /\ [Next]_recorderVars => FactsInvariant'
    BY <1>0, StepsOfTheParts, HistoryKept, ContextKept, FilesKept DEF FactsInvariant
  <1>3. FactsInvariant => LeagueFactsAreSound
    BY <1>0, HistoryIsTheirOwn, ContextIsOneGame, FilesAreTheirOwn
       DEF FactsInvariant, LeagueFactsAreSound
  <1>4. Spec => Init /\ [][Next]_recorderVars
    BY DEF Spec, recorderVars
  <1> QED BY <1>1, <1>2, <1>3, <1>4, PTL

\* In every order of commands, saves, responses and crashes, a post-game request is made
\* and a result installed for what the ledger on disk accounts for.
THEOREM PostGameCorrect == Spec => []PostGameIsSound
  <1>0. Enrichment!PostGameAssumption
    BY RecorderAssumption DEF RecorderAssumption
  <1>1. Init => PostGameInvariant
    BY <1>0, PostGameStarts DEF Init
  <1>2. PostGameInvariant /\ [Next]_recorderVars => PostGameInvariant'
    BY <1>0, StepsOfTheParts, PostGameKept
  <1>3. PostGameInvariant => PostGameIsSound
    BY PostGameHolds DEF PostGameIsSound
  <1>4. Spec => Init /\ [][Next]_recorderVars
    BY DEF Spec, recorderVars
  <1> QED BY <1>1, <1>2, <1>3, <1>4, PTL

\* What the ledger has closed is not opened again, by a response that was in flight, by a
\* restart or by a clock that runs backwards.
THEOREM ClosedStays == Spec => ClosedStaysClosed
  <1>0. Enrichment!PostGameAssumption
    BY RecorderAssumption DEF RecorderAssumption
  <1>1. Init => PostGameInvariant
    BY <1>0, PostGameStarts DEF Init
  <1>2. PostGameInvariant /\ [Next]_recorderVars => PostGameInvariant'
    BY <1>0, StepsOfTheParts, PostGameKept
  <1>3. PostGameInvariant /\ [Next]_recorderVars => [ClosedKept]_ledger
    BY <1>0, StepsOfTheParts, ClosedAreKept
  <1>4. Spec => Init /\ [][Next]_recorderVars
    BY DEF Spec, recorderVars
  <1>5. [][ClosedKept]_ledger => ClosedStaysClosed
    BY PTL DEF ClosedKept, ClosedStaysClosed, Enrichment!ClosedStaysClosed
  <1> QED BY <1>1, <1>2, <1>3, <1>4, <1>5, PTL

=============================================================================
