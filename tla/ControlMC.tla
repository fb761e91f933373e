------------------------------- MODULE ControlMC -------------------------------
(***************************************************************************)
(* The processes of one user, part by part: how the apps start a recorder, *)
(* keep it alone and watch it, the configuration and the login entry that  *)
(* all of them share, and the commands that run inside one app.  A         *)
(* behaviour chooses one part and leaves the others where they start.      *)
(***************************************************************************)
EXTENDS Supervision

CONSTANTS Writers, Kinds, MaxOps, MaxTroubles

VARIABLES part,
          file, lock, registry, op, ops, saved, before, torn, troubles,
          disk, archived, moved, recorded, output, revision, rootEpoch, selected, current,
          archivedUsage, activeCancel, durationCancel, durations, closed, tokens, calls

configVars == <<file, lock, registry, op, ops, saved, before, torn, troubles>>
libraryVars == <<disk, archived, moved, recorded, output, revision, rootEpoch, selected,
                 current, archivedUsage, activeCancel, durationCancel, durations, closed,
                 tokens, calls>>

\* Every app is in a session of its own (Control.cfg).
MCSession == [a \in Apps |-> a]

Config == INSTANCE Autostart

\* One library, and two commands of any kind at a time.
Library == INSTANCE LibraryCoordinator WITH
    Roots <- {"r"}, Games <- {"g"}, Clips <- {"k"}, Unmatched <- {"g"},
    Calls <- {1, 2}, NoCall <- 0, MaxTokens <- 1, MaxRevision <- 2,
    Kinds <- {"refresh", "usage", "durations", "replay", "indexRead", "indexWrite",
              "indexAdmin", "mutate", "export", "settings"}

ASSUME ControlAssumption ==
    SupervisionAssumption /\ Config!AutostartAssumption

\* A part that does not run starts in one state; the library has nothing saved in it.
ControlInit ==
    /\ part \in {"together", "faulty", "config", "library"}
    /\ Init /\ Config!Init /\ Library!Init
    /\ part \notin {"together", "faulty"} => installed
    /\ \E first \in {CHOOSE a \in Apps : TRUE} : \A a \in Apps :
          (app[a].at = "setup") = (part = "together" \/ a = first)
    /\ part # "config" => file = Config!Default /\ before = "absent"
    /\ \A i \in Library!Items :
          disk["r"][i] \in (IF part = "library" THEN {"absent", "unsaved"} ELSE {"absent"})

\* Apps that start together do so without captures, retries and faults; an app that
\* starts alone meets a recorder that was there before, and all of these.
Plain ==
    /\ UNCHANGED <<asks, logins, faults>>
    /\ \A r \in Recorders : ~status'[r].problem /\ status'[r].activity = "idle"

ControlNext ==
    /\ \/ /\ part \in {"together", "faulty"} /\ Next
          /\ part = "together" => Plain
          /\ UNCHANGED <<configVars, libraryVars>>
       \/ /\ part = "config" /\ Config!Next
          /\ UNCHANGED <<vars, libraryVars>>
       \/ /\ part = "library" /\ Library!Next
          /\ UNCHANGED <<vars, configVars>>
    /\ UNCHANGED part

\* The fairness of each part, while it is the one that runs.
ControlFairness ==
    /\ \A a \in Apps :
          /\ WF_vars(part \in {"together", "faulty"} /\ Observer(a))
          /\ WF_vars(part \in {"together", "faulty"} /\ HalfAMinute(a))
    /\ \A c \in {1, 2} :
          /\ WF_libraryVars(part = "library" /\ Library!Worker(c))
          /\ WF_libraryVars(part = "library" /\ Library!Caller(c))

ControlSpec ==
    /\ ControlInit /\ ControlFairness
    /\ [][ControlNext]_<<part, vars, configVars, libraryVars>>

\* There is one recorder at a time, its answers are coherent and it is launched only
\* when asked for; and no process loses what another one saved, nor leaves half of
\* a login setting behind without saying so.
ControlIsSound ==
    /\ part \in {"together", "faulty"} => SupervisionIsSound
    /\ part = "config" => Config!AutostartIsSound

\* A user whose recorder is gone is offered a retry, and every command of the library
\* comes to its end.
EverythingIsAnswered ==
    /\ part \in {"together", "faulty"} => RetryIsOffered
    /\ part = "library" => Library!EveryCallEnds
=============================================================================
