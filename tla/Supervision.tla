------------------------------ MODULE Supervision ------------------------------
(***************************************************************************)
(* How the recorder of a user is started, kept alone and watched           *)
(* (recorder-control/src, recorder/src/main.rs, control.rs and tray.rs,    *)
(* and the app's recorder_supervisor.rs).                                  *)
(*                                                                         *)
(* A recorder takes the owner lease, opens the status pipe and runs the    *)
(* service until its tray is quit; a second one finds the lease taken,     *)
(* asks the first one how it is and exits.  Each app asks the pipe again   *)
(* and again.  Once for each start and each retry of its user it probes    *)
(* the lease and, if nobody has it, gives it back and starts a recorder;   *)
(* in between the lease is anyone's.                                       *)
(*                                                                         *)
(* RecordingService models what the service does; here it only reports.    *)
(* A query is one step, its checks of the other process are left out.      *)
(***************************************************************************)
EXTENDS Naturals

CONSTANTS
    Apps,        \* apps of one user, that are open or not
    Session,     \* [Apps -> the Windows session of each]
    Recorders,   \* bound: recorder processes at a time
    Captures,    \* what the service reports of its captures
    MaxAsks,     \* bound: retries of the user of each app
    MaxLogins,   \* bound: recorders started otherwise, at login or by hand
    MaxFaults    \* bound: kills, failures, closed apps and changes of the installation

Activity == {"idle", "starting", "recording", "finalizing"}
Failure == {"initialization", "unexpected exit", "worker panicked", "control unavailable"}

SupervisionAssumption ==
    /\ Apps # {} /\ Recorders # {} /\ Apps \cap Recorders = {}
    /\ "nobody" \notin Apps \cup Recorders
    /\ Captures \subseteq Activity \cup {"capture error"}
    /\ MaxAsks \in Nat /\ MaxLogins \in Nat /\ MaxFaults \in Nat

VARIABLES
    lease,      \* who has recorder-owner.lock: an app, a recorder or "nobody"
    process,    \* [Recorders -> the main thread, its tray and its session]
    service,    \* [Recorders -> the service task and what came of it]
    listener,   \* [Recorders -> the thread that serves the status pipe]
    status,     \* [Recorders -> Status, as its watch channel holds it]
    app,        \* [Apps -> observe: where it is, ensure, the 30 s, the retry channel]
    shown,      \* [Apps -> RecorderStatus, the cache]
    installed,  \* recorder.exe is beside the app
    launches,   \* history: [Apps -> how many recorders it has spawned]
    asks,       \* history: [Apps -> the retries it has accepted]
    logins,     \* recorders started by others
    faults      \* what has gone wrong

vars == <<lease, process, service, listener, status, app, shown, installed, launches, asks,
          logins, faults>>

NoProcess == [at |-> "none", session |-> 0, quit |-> FALSE, shutdown |-> FALSE]
NotShown(state, retry) == [state |-> state, here |-> FALSE, retry |-> retry, owner |-> FALSE]
Starting == [state |-> "starting", activity |-> "idle", problem |-> FALSE, failure |-> "none"]

Init ==
    /\ lease = "nobody"
    /\ process = [r \in Recorders |-> NoProcess]
    /\ service = [r \in Recorders |-> "off"] /\ listener = [r \in Recorders |-> "none"]
    /\ status = [r \in Recorders |-> Starting]
    /\ app \in [Apps -> {[at |-> at, ensure |-> TRUE, late |-> FALSE, request |-> FALSE] :
                            at \in {"setup", "closed"}}]
    /\ shown = [a \in Apps |-> NotShown("starting", FALSE)]
    /\ installed \in BOOLEAN
    /\ launches = [a \in Apps |-> 0] /\ asks = [a \in Apps |-> 0]
    /\ logins = 0 /\ faults = 0

------------------------------------------------------------------------------
(* The status of a recorder.                                               *)

\* Status::apply: an event is a change of the service, an activity of the
\* capture, a capture error, or the reason for which the service failed.
TakesActivity(s, x) ==
    \/ s.state = "available"
    \/ s.state = "stopping" /\ x \in {"finalizing", "idle"}
Apply(s, event) ==
    CASE event = "initialized" ->
           IF s.state = "starting" THEN [s EXCEPT !.state = "available", !.activity = "idle"] ELSE s
      [] event \in Activity ->
           IF TakesActivity(s, event)
           THEN [s EXCEPT !.activity = event,
                          !.problem = @ /\ event \notin {"starting", "recording"}]
           ELSE s
      [] event = "capture error" -> [s EXCEPT !.problem = TRUE, !.activity = "idle"]
      [] event \in {"stopping", "stopped"} ->
           IF s.state = "failed" THEN s ELSE [s EXCEPT !.state = event, !.activity = "idle"]
      [] event \in Failure ->
           [s EXCEPT !.state = "failed", !.activity = "idle", !.failure = event]

\* Status::validate, for what a recorder can get wrong of itself.
Valid(s) ==
    /\ (s.state = "failed") = (s.failure # "none")
    /\ \/ s.state = "available" \/ s.activity = "idle"
       \/ s.state = "stopping" /\ s.activity = "finalizing"

Publish(r, event) == status' = [status EXCEPT ![r] = Apply(@, event)]

------------------------------------------------------------------------------
(* A recorder process.                                                     *)

At(r, here) == process[r].at = here
Go(r, there) == process' = [process EXCEPT ![r].at = there]
appVars == <<app, shown, installed, launches, asks, logins>>

\* A process starts: nothing of an earlier one in its place is left.
Spawned(r, session) ==
    /\ At(r, "none")
    /\ process' = [process EXCEPT ![r] = [NoProcess EXCEPT !.at = "started", !.session = session]]

\* ControlOwner::start: whoever does not get the lease is not the owner.
Claim(r) ==
    /\ At(r, "started")
    /\ IF lease = "nobody"
       THEN /\ lease' = r /\ Go(r, "claiming")
            /\ listener' = [listener EXCEPT ![r] = "opening"]
       ELSE Go(r, "refused") /\ UNCHANGED <<lease, listener>>
    /\ UNCHANGED <<service, status, appVars, faults>>

\* It asks the owner for its status, and exits whatever the answer is.
Gone(r) == process' = [process EXCEPT ![r] = NoProcess] /\ status' = [status EXCEPT ![r] = Starting]
Exit(r) ==
    /\ At(r, "refused") /\ Gone(r)
    /\ UNCHANGED <<lease, service, listener, appVars, faults>>

\* The first instance of the pipe is created while no other exists, and the owner
\* goes on; or it cannot be created.
PipeIsFree(r) == \A q \in Recorders \ {r} : listener[q] # "open"
Listen(r) ==
    /\ listener[r] = "opening" /\ PipeIsFree(r)
    /\ listener' = [listener EXCEPT ![r] = "open"]
    /\ UNCHANGED <<lease, process, service, status, appVars, faults>>
Ready(r) ==
    /\ At(r, "claiming") /\ listener[r] = "open"
    /\ Go(r, "running")
    /\ UNCHANGED <<lease, service, listener, status, appVars, faults>>

\* The listener ends with an error, before it was ready or later: it can tell
\* nobody, for its pipe is gone.
ListenerFails(r) ==
    /\ listener[r] \in {"opening", "open"}
    /\ listener[r] = "open" => faults < MaxFaults
    /\ faults' = IF listener[r] = "open" THEN faults + 1 ELSE faults
    /\ listener[r] = "opening" => ~PipeIsFree(r) \/ faults < MaxFaults
    /\ listener' = [listener EXCEPT ![r] = "closed"]
    /\ Publish(r, "control unavailable")
    /\ UNCHANGED <<lease, process, service, appVars>>

\* The wait for the listener ends with its error, or after two seconds.
NotReady(r) ==
    /\ At(r, "claiming")
    /\ \/ listener[r] = "closed" /\ faults' = faults
       \/ listener[r] # "closed" /\ faults < MaxFaults /\ faults' = faults + 1
    /\ Go(r, "ended")
    /\ UNCHANGED <<lease, service, listener, status, appVars>>

\* run_owned: the logging and the configuration may fail before the service runs.
Begin(r) ==
    /\ At(r, "running") /\ service[r] = "off"
    /\ \/ service' = [service EXCEPT ![r] = "begun"] /\ UNCHANGED <<process, status, faults>>
       \/ /\ faults < MaxFaults /\ faults' = faults + 1
          /\ Go(r, "ended")
          /\ IF status[r].state = "failed" THEN UNCHANGED status
             ELSE Publish(r, "initialization")
          /\ UNCHANGED service
    /\ UNCHANGED <<lease, listener, appVars>>

\* event_sink: what the service says of itself, until it has said that it stopped.
Report(r) ==
    /\ \/ /\ service[r] = "begun"
          /\ service' = [service EXCEPT ![r] = "up"] /\ Publish(r, "initialized")
       \/ /\ service[r] = "up" /\ ~process[r].shutdown
          /\ \E event \in Captures : Publish(r, event)
          /\ UNCHANGED service
       \/ /\ service[r] = "up" /\ process[r].shutdown
          /\ service' = [service EXCEPT ![r] = "stopping"] /\ Publish(r, "stopping")
       \/ /\ service[r] = "stopping"
          /\ \E event \in Captures \ {"starting", "recording"} : Publish(r, event)
          /\ UNCHANGED service
       \/ /\ service[r] = "stopping"
          /\ service' = [service EXCEPT ![r] = "done"] /\ Publish(r, "stopped")
    /\ UNCHANGED <<lease, process, listener, appVars, faults>>

\* service::run returns an error, or panics.
ServiceFails(r) ==
    /\ service[r] \in {"begun", "up", "stopping"} /\ faults < MaxFaults
    /\ faults' = faults + 1
    /\ \E how \in {"error", "panic"} : service' = [service EXCEPT ![r] = how]
    /\ UNCHANGED <<lease, process, listener, status, appVars>>

\* request_shutdown: Quit in the tray, once.  A loop that ends by itself sends the
\* command before anything is said of stopping.
Quit(r) ==
    /\ At(r, "running") /\ ~process[r].quit
    /\ process' = [process EXCEPT ![r].quit = TRUE, ![r].shutdown = TRUE]
    /\ Publish(r, "stopping")
    /\ UNCHANGED <<lease, service, listener, appVars, faults>>
LoopExits(r) ==
    /\ At(r, "running") /\ ~process[r].shutdown /\ faults < MaxFaults
    /\ faults' = faults + 1
    /\ process' = [process EXCEPT ![r].shutdown = TRUE]
    /\ UNCHANGED <<lease, service, listener, status, appVars>>

\* control::run judges the end of the service, then the tray goes: a service that
\* ends without having said that it stopped has failed.
Reason(r) ==
    CASE service[r] = "done" /\ status[r].state = "stopped" -> "none"
      [] service[r] = "panic" -> "worker panicked"
      [] service[r] = "error" /\ status[r].state = "starting" -> "initialization"
      [] OTHER -> "unexpected exit"
Judged(r) == IF Reason(r) = "none" THEN status[r] ELSE Apply(status[r], Reason(r))
ServiceEnded(r) ==
    /\ At(r, "running") /\ service[r] \in {"done", "error", "panic"}
    /\ status' = [status EXCEPT ![r] = IF process[r].quit THEN Judged(r)
                                        ELSE Apply(Judged(r), "stopping")]
    /\ service' = [service EXCEPT ![r] = "off"]
    /\ Go(r, "ended")
    /\ UNCHANGED <<lease, listener, appVars, faults>>

\* ControlOwner::drop: the listener is stopped and joined, then the lease is
\* released, then the process is gone.
Unlisten(r) ==
    /\ At(r, "ended")
    /\ listener' = [listener EXCEPT ![r] = "none"] /\ Go(r, "joined")
    /\ UNCHANGED <<lease, service, status, appVars, faults>>
Release(r) ==
    /\ At(r, "joined") /\ Gone(r)
    /\ lease' = "nobody"
    /\ UNCHANGED <<service, listener, appVars, faults>>

\* The process is killed: the system closes what it held.
Killed(r) ==
    /\ ~At(r, "none") /\ faults < MaxFaults
    /\ faults' = faults + 1 /\ Gone(r)
    /\ service' = [service EXCEPT ![r] = "off"]
    /\ listener' = [listener EXCEPT ![r] = "none"]
    /\ lease' = IF lease = r THEN "nobody" ELSE lease
    /\ UNCHANGED appVars

\* The Run entry starts a recorder at login, or the user does.
Login(r) ==
    /\ installed /\ logins < MaxLogins
    /\ logins' = logins + 1
    /\ \E a \in Apps : Spawned(r, Session[a])
    /\ UNCHANGED <<lease, service, listener, status, app, shown, installed, launches, asks, faults>>

------------------------------------------------------------------------------
(* The observer of an app.                                                 *)

recorderVars == <<service, listener, status, logins, faults>>
InApp(a, here) == app[a].at = here
Show(a, what) == shown' = [shown EXCEPT ![a] = what]

\* The paths are resolved again for every retry until the recorder is there.
Setup(a) ==
    /\ InApp(a, "setup")
    /\ IF installed
       THEN app' = [app EXCEPT ![a].at = "asking"] /\ UNCHANGED shown
       ELSE app' = [app EXCEPT ![a].at = "missing"] /\ Show(a, NotShown("unavailable", TRUE))
    /\ UNCHANGED <<lease, process, recorderVars, installed, launches, asks>>
Again(a) ==
    /\ InApp(a, "missing") /\ app[a].request
    /\ app' = [app EXCEPT ![a].at = "setup", ![a].request = FALSE]
    /\ UNCHANGED <<lease, process, recorderVars, shown, installed, launches, asks>>

\* RecorderStatus::from_owner.
FromOwner(s, session, mine) ==
    [state |-> IF session # mine THEN "other session"
               ELSE IF s.state = "stopped" THEN "unavailable"
               ELSE IF s.state # "available" THEN s.state
               ELSE IF s.problem THEN "capture problem"
               ELSE IF s.activity = "recording" THEN "recording" ELSE "available",
     here |-> session = mine /\ s.state = "available",
     retry |-> session = mine /\ s.state = "stopped",
     owner |-> TRUE]

Waiting(a) == app' = [app EXCEPT ![a].at = "waiting", ![a].ensure = FALSE]

\* query: a listener answers with the status of that moment, if it is valid;
Answered(a) ==
    /\ InApp(a, "asking")
    /\ \E r \in Recorders :
          /\ listener[r] = "open" /\ Valid(status[r])
          /\ Show(a, FromOwner(status[r], process[r].session, Session[a]))
    /\ Waiting(a)
    /\ UNCHANGED <<lease, process, recorderVars, installed, launches, asks>>
\* Mutant: only an owner that was there can be lost.
LostWithOwner(a) ==
    IF shown[a].owner THEN Show(a, NotShown("unavailable", TRUE)) ELSE UNCHANGED shown
\* or there is none, it is busy, or it does not answer in time.  Without a reason
\* to launch, that counts once 30 seconds have passed, or if there was an owner.
Lost(a) ==
    IF app[a].late \/ shown[a].owner THEN Show(a, NotShown("unavailable", TRUE))
                                     ELSE UNCHANGED shown
Unanswered(a) ==
    /\ InApp(a, "asking") /\ ~app[a].ensure
    /\ Lost(a) /\ Waiting(a)
    /\ UNCHANGED <<lease, process, recorderVars, installed, launches, asks>>

\* launch_if_unowned: the lease is probed, and an owner is left alone;
Probe(a) ==
    /\ InApp(a, "asking") /\ app[a].ensure
    /\ IF lease = "nobody"
       THEN lease' = a /\ app' = [app EXCEPT ![a].at = "probing"] /\ UNCHANGED shown
       ELSE Show(a, NotShown("unavailable", TRUE)) /\ Waiting(a) /\ UNCHANGED lease
    /\ UNCHANGED <<process, recorderVars, installed, launches, asks>>
\* the executable is checked under the lease, which is never held while spawning.
CheckExecutable(a) ==
    /\ InApp(a, "probing")
    /\ lease' = "nobody"
    /\ IF installed
       THEN app' = [app EXCEPT ![a].at = "spawning"] /\ UNCHANGED shown
       ELSE Show(a, NotShown("unavailable", TRUE)) /\ Waiting(a)
    /\ UNCHANGED <<process, recorderVars, installed, launches, asks>>
Launch(a) ==
    /\ InApp(a, "spawning")
    /\ \E r \in Recorders : Spawned(r, Session[a])
    /\ launches' = [launches EXCEPT ![a] = @ + 1]
    /\ Show(a, NotShown("starting", FALSE)) /\ Waiting(a)
    /\ UNCHANGED <<lease, recorderVars, installed, asks>>
LaunchFails(a) ==
    /\ InApp(a, "spawning")
    /\ ~installed \/ \A r \in Recorders : ~At(r, "none")
    /\ Show(a, NotShown("unavailable", TRUE)) /\ Waiting(a)
    /\ UNCHANGED <<lease, process, recorderVars, installed, launches, asks>>

\* After five seconds it asks again; a retry gives it a reason to launch.
AskAgain(a) ==
    /\ InApp(a, "waiting")
    /\ app' = [app EXCEPT ![a].at = "asking", ![a].request = FALSE,
                          ![a].ensure = app[a].request, ![a].late = @ /\ ~app[a].request]
    /\ UNCHANGED <<lease, process, recorderVars, shown, installed, launches, asks>>
HalfAMinute(a) ==
    /\ app[a].at \in {"asking", "waiting"} /\ ~app[a].late
    /\ app' = [app EXCEPT ![a].late = TRUE]
    /\ UNCHANGED <<lease, process, recorderVars, shown, installed, launches, asks>>

\* RecorderSupervisor::retry: only when offered, and one at a time.
Retry(a) ==
    /\ ~InApp(a, "closed") /\ shown[a].retry /\ ~app[a].request /\ asks[a] < MaxAsks
    /\ app' = [app EXCEPT ![a].request = TRUE] /\ asks' = [asks EXCEPT ![a] = @ + 1]
    /\ UNCHANGED <<lease, process, recorderVars, shown, installed, launches>>

\* The app is closed, which stops no recorder; the installation is changed.
Close(a) ==
    /\ ~InApp(a, "closed") /\ faults < MaxFaults /\ faults' = faults + 1
    /\ app' = [app EXCEPT ![a].at = "closed"]
    /\ lease' = IF lease = a THEN "nobody" ELSE lease
    /\ UNCHANGED <<process, service, listener, status, shown, installed, launches, asks, logins>>
Reinstall ==
    /\ faults < MaxFaults /\ faults' = faults + 1
    /\ installed' = ~installed
    /\ UNCHANGED <<lease, process, service, listener, status, app, shown, launches, asks, logins>>

------------------------------------------------------------------------------

Observer(a) ==
    \/ Setup(a) \/ Again(a) \/ Answered(a) \/ Unanswered(a) \/ Probe(a)
    \/ CheckExecutable(a) \/ Launch(a) \/ LaunchFails(a) \/ AskAgain(a)

Recorder(r) ==
    \/ Claim(r) \/ Exit(r) \/ Listen(r) \/ ListenerFails(r) \/ Ready(r) \/ NotReady(r)
    \/ Begin(r) \/ Report(r) \/ ServiceFails(r) \/ Quit(r) \/ LoopExits(r)
    \/ ServiceEnded(r) \/ Unlisten(r) \/ Release(r) \/ Killed(r) \/ Login(r)

Next ==
    \/ \E r \in Recorders : Recorder(r)
    \/ \E a \in Apps : Observer(a) \/ HalfAMinute(a) \/ Retry(a) \/ Close(a)
    \/ Reinstall

\* The loop of an app goes on while the app is open, and its clock with it.
Fairness == \A a \in Apps : WF_vars(Observer(a)) /\ WF_vars(HalfAMinute(a))

Spec == Init /\ [][Next]_vars /\ Fairness

------------------------------------------------------------------------------
(* Properties.                                                             *)

\* Whatever starts recorders, and whenever: the service and the pipe of a
\* recorder exist only while it has the lease, so never two of them.
Working(r) == service[r] # "off" \/ listener[r] # "none"
OneOwner == \A r \in Recorders : Working(r) => lease = r

\* What the listener would answer is coherent after any order of events from the
\* service, the tray and the listener itself.
StatusIsCoherent == \A r \in Recorders : listener[r] = "open" => Valid(status[r])

\* An app launches once for itself and once for each retry, never on its own.
LaunchesAreAsked == \A a \in Apps : launches[a] <= 1 + asks[a]

SupervisionIsSound == OneOwner /\ StatusIsCoherent /\ LaunchesAreAsked

\* Liveness: when no recorder can be reached, one comes back or every open app
\* offers a retry; it does not show a recorder that is gone for good.
RetryIsOffered ==
    \A a \in Apps : (\A r \in Recorders : listener[r] # "open")
                    ~> \/ \E r \in Recorders : listener[r] = "open"
                       \/ shown[a].retry \/ InApp(a, "closed")
=============================================================================
