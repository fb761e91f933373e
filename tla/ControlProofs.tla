----------------------------- MODULE ControlProofs -----------------------------
(***************************************************************************)
(* Theorems about the processes of one user (ControlMC), for any apps,     *)
(* sessions, recorders, writers, kinds of commands and bounds: there is at *)
(* most one recorder that works, its status is coherent, an app launches   *)
(* no more recorders than it was asked for; no saved setting is lost, and  *)
(* a login setting is in both of its places or in neither.                 *)
(*                                                                         *)
(* None of these is inductive.  The first needs that the lease is with     *)
(* whoever is at a place from which it was not given back (Leased), and    *)
(* that a service and a listener do not outlive the place of their process *)
(* (Served).  The third needs an account of what an app may still launch:  *)
(* a reason to launch, and a request that waits for it (Accounted).        *)
(*                                                                         *)
(* That nothing is lost follows from what is read under the lock and not   *)
(* changed until it goes (Locked).  That a login setting is in both places *)
(* or in neither has to follow a change through its failure: after it the  *)
(* lock is gone, while others register, fail and undo.  Settlement says    *)
(* who may still account for a registration that is not the saved one.     *)
(***************************************************************************)
EXTENDS ControlMC, TLAPS

Places == {"none", "started", "claiming", "refused", "running", "ended", "joined"}
Statuses == [state : {"starting", "available", "stopping", "stopped", "failed"},
             activity : Activity, problem : BOOLEAN, failure : Failure \cup {"none"}]
AppPlaces == {"setup", "closed", "missing", "asking", "waiting", "probing", "spawning"}

\* Every variable that the proofs look at has its type.
TypeOK ==
    /\ process \in [Recorders -> [at : Places, session : {0} \cup {Session[a] : a \in Apps},
                                  quit : BOOLEAN, shutdown : BOOLEAN]]
    /\ DOMAIN service = Recorders /\ DOMAIN listener = Recorders
    /\ status \in [Recorders -> Statuses]
    /\ app \in [Apps -> [at : AppPlaces, ensure : BOOLEAN, late : BOOLEAN, request : BOOLEAN]]
    /\ launches \in [Apps -> Nat] /\ asks \in [Apps -> Nat]

\* The places of a recorder between the claim and the release of the lease.
Owning == {"claiming", "running", "ended", "joined"}

Leased ==
    /\ \A r \in Recorders : lease = r <=> process[r].at \in Owning
    /\ \A a \in Apps : lease = a <=> app[a].at = "probing"
Served ==
    \A r \in Recorders :
        /\ listener[r] # "none" => process[r].at \in {"claiming", "running", "ended"}
        /\ service[r] # "off" => process[r].at = "running"
Coherent == \A r \in Recorders : Valid(status[r])

One(b) == IF b THEN 1 ELSE 0
Accounted ==
    \A a \in Apps :
        /\ launches[a] + One(app[a].ensure) + One(app[a].request) <= 1 + asks[a]
        /\ app[a].at = "waiting" => ~app[a].ensure
        /\ app[a].at \in {"probing", "spawning"} => app[a].ensure

SupervisionInvariant == TypeOK /\ Leased /\ Served /\ Coherent /\ Accounted
-----------------------------------------------------------------------------
(* The status of a recorder. *)

Events == {"initialized", "capture error", "stopping", "stopped"} \cup Activity \cup Failure

\* Whatever event comes, a coherent status stays coherent.
LEMMA ApplyIsCoherent ==
    ASSUME NEW s \in Statuses, NEW event \in Events, Valid(s)
    PROVE  Apply(s, event) \in Statuses /\ Valid(Apply(s, event))
  <1>1. CASE event = "initialized"
    BY <1>1 DEF Apply, Statuses, Valid, Activity, Failure
  <1>2. CASE event \in Activity
    BY <1>2 DEF Apply, Statuses, Valid, Activity, Failure, TakesActivity
  <1>3. CASE event = "capture error"
    BY <1>3 DEF Apply, Statuses, Valid, Activity, Failure
  <1>4. CASE event \in {"stopping", "stopped"}
    BY <1>4 DEF Apply, Statuses, Valid, Activity, Failure
  <1>5. CASE event \in Failure
    BY <1>5 DEF Apply, Statuses, Valid, Activity, Failure
  <1> QED BY <1>1, <1>2, <1>3, <1>4, <1>5 DEF Events

LEMMA StartingIsCoherent == Starting \in Statuses /\ Valid(Starting)
  BY DEF Starting, Statuses, Valid, Activity, Failure

\* What a step may do to the status of each recorder.
Restated(r) ==
    \/ status' = status
    \/ \E s \in Statuses : Valid(s) /\ status' = [status EXCEPT ![r] = s]

LEMMA RestatedIsCoherent ==
    ASSUME NEW r \in Recorders, TypeOK, Coherent, Restated(r)
    PROVE  status' \in [Recorders -> Statuses] /\ Coherent'
  BY DEF Restated, Coherent, TypeOK

LEMMA PublishRestates ==
    ASSUME NEW r \in Recorders, NEW event \in Events, TypeOK, Coherent, Publish(r, event)
    PROVE  Restated(r)
  <1>1. status[r] \in Statuses /\ Valid(status[r])
    BY DEF TypeOK, Coherent
  <1>2. Apply(status[r], event) \in Statuses /\ Valid(Apply(status[r], event))
    BY <1>1, ApplyIsCoherent
  <1> QED BY <1>2 DEF Publish, Restated

LEMMA GoneRestates ==
    ASSUME NEW r \in Recorders, TypeOK, Gone(r)
    PROVE  Restated(r)
  BY StartingIsCoherent DEF Gone, Restated

\* Every step of a recorder restates its own status, if any.
LEMMA RecorderRestates ==
    ASSUME NEW r \in Recorders, SupervisionAssumption, TypeOK, Coherent, Recorder(r)
    PROVE  Restated(r)
  <1>0. Captures \subseteq Events
    BY DEF SupervisionAssumption, Events
  <1>1. CASE Claim(r) \/ Listen(r) \/ Ready(r) \/ NotReady(r) \/ ServiceFails(r) \/ LoopExits(r)
             \/ Unlisten(r) \/ Login(r)
    BY <1>1 DEF Claim, Listen, Ready, NotReady, ServiceFails, LoopExits, Unlisten, Login, Restated
  <1>2. CASE Exit(r) \/ Release(r) \/ Killed(r)
    BY <1>2, GoneRestates DEF Exit, Release, Killed
  <1>3. CASE ListenerFails(r)
    BY <1>3, PublishRestates DEF ListenerFails, Events, Failure
  <1>4. CASE Begin(r)
    <2>1. CASE status' = status
      BY <2>1 DEF Restated
    <2>2. CASE Publish(r, "initialization")
      BY <2>2, PublishRestates DEF Events, Failure
    <2> QED BY <1>4, <2>1, <2>2 DEF Begin
  <1>5. CASE Report(r)
    <2>1. \E event \in Events : Publish(r, event)
      BY <1>5, <1>0 DEF Report, Events
    <2> QED BY <2>1, PublishRestates
  <1>6. CASE Quit(r)
    BY <1>6, PublishRestates DEF Quit, Events
  <1>7. CASE ServiceEnded(r)
    <2> DEFINE s == Judged(r)
    <2>1. status[r] \in Statuses /\ Valid(status[r])
      BY DEF TypeOK, Coherent
    <2>2. Reason(r) = "none" \/ Reason(r) \in Events
      BY DEF Reason, Events, Failure
    <2>3. s \in Statuses /\ Valid(s)
      BY <2>1, <2>2, ApplyIsCoherent DEF Judged
    <2>4. Apply(s, "stopping") \in Statuses /\ Valid(Apply(s, "stopping"))
      BY <2>3, ApplyIsCoherent DEF Events
    <2>5. CASE process[r].quit
      <3>1. status' = [status EXCEPT ![r] = s]
        BY <1>7, <2>5 DEF ServiceEnded
      <3> QED BY <3>1, <2>3 DEF Restated
    <2>6. CASE ~process[r].quit
      <3>1. status' = [status EXCEPT ![r] = Apply(s, "stopping")]
        BY <1>7, <2>6 DEF ServiceEnded
      <3> QED BY <3>1, <2>4 DEF Restated
    <2> QED BY <2>5, <2>6
  <1> QED BY <1>1, <1>2, <1>3, <1>4, <1>5, <1>6, <1>7 DEF Recorder

-----------------------------------------------------------------------------
(* Types. *)

\* What a step of a recorder may do to the process, the service and the listener.
LEMMA RecorderTypes ==
    ASSUME NEW r \in Recorders, SupervisionAssumption, TypeOK, Coherent, Recorder(r)
    PROVE  TypeOK'
  <1>1. status' \in [Recorders -> Statuses]
    BY RecorderRestates, RestatedIsCoherent
  <1>2. UNCHANGED <<app, launches, asks>>
    BY DEF Recorder, Claim, Exit, Listen, Ready, ListenerFails, NotReady, Begin, Report,
           ServiceFails, Quit, LoopExits, ServiceEnded, Unlisten, Release, Killed, Login, appVars
  <1>3. DOMAIN service' = Recorders /\ DOMAIN listener' = Recorders
    BY DEF TypeOK, Recorder, Claim, Exit, Listen, Ready, ListenerFails, NotReady, Begin, Report,
           ServiceFails, Quit, LoopExits, ServiceEnded, Unlisten, Release, Killed, Login
  <1> DEFINE P == [at : Places, session : {0} \cup {Session[a] : a \in Apps},
                   quit : BOOLEAN, shutdown : BOOLEAN]
  <1>4. process' \in [Recorders -> P]
    <2>0. process \in [Recorders -> P] /\ process[r] \in P
      BY DEF TypeOK
    <2>1. CASE process' = process
      BY <2>0, <2>1
    <2>2. CASE \E there \in Places : Go(r, there)
      <3>1. PICK there \in Places : process' = [process EXCEPT ![r].at = there]
        BY <2>2 DEF Go
      <3>2. [process[r] EXCEPT !.at = there] \in P
        BY <2>0
      <3> QED BY <2>0, <3>1, <3>2
    <2>3. CASE Gone(r)
      <3>1. NoProcess \in P
        BY DEF NoProcess, Places
      <3> QED BY <2>0, <2>3, <3>1 DEF Gone
    <2>4. CASE Login(r)
      <3>1. PICK a \in Apps : process' = [process EXCEPT ![r] =
                  [[NoProcess EXCEPT !.at = "started"] EXCEPT !.session = Session[a]]]
        BY <2>4 DEF Login, Spawned
      <3>2. [[NoProcess EXCEPT !.at = "started"] EXCEPT !.session = Session[a]] \in P
        BY DEF NoProcess, Places
      <3> QED BY <2>0, <3>1, <3>2
    <2>5. CASE Quit(r)
      <3>1. process' = [process EXCEPT ![r] = [[process[r] EXCEPT !.quit = TRUE] EXCEPT !.shutdown = TRUE]]
        BY <2>0, <2>5 DEF Quit
      <3>2. [[process[r] EXCEPT !.quit = TRUE] EXCEPT !.shutdown = TRUE] \in P
        BY <2>0
      <3> QED BY <2>0, <3>1, <3>2
    <2>6. CASE LoopExits(r)
      <3>1. process' = [process EXCEPT ![r].shutdown = TRUE]
        BY <2>6 DEF LoopExits
      <3>2. [process[r] EXCEPT !.shutdown = TRUE] \in P
        BY <2>0
      <3> QED BY <2>0, <3>1, <3>2
    <2> QED
      BY <2>1, <2>2, <2>3, <2>4, <2>5, <2>6
      DEF Recorder, Claim, Exit, Listen, Ready, ListenerFails, NotReady, Begin, Report,
          ServiceFails, ServiceEnded, Unlisten, Release, Killed, Places
  <1> QED BY <1>1, <1>2, <1>3, <1>4 DEF TypeOK

\* What a step of an app may do to itself.
LEMMA AppTypes ==
    ASSUME NEW a \in Apps, SupervisionAssumption, TypeOK,
           Observer(a) \/ HalfAMinute(a) \/ Retry(a) \/ Close(a)
    PROVE  TypeOK'
  <1>1. UNCHANGED <<service, listener, status>>
    BY DEF Observer, Setup, Again, Answered, Unanswered, Probe, CheckExecutable, Launch, LaunchFails,
           AskAgain, HalfAMinute, Retry, Close, recorderVars
  <1> DEFINE A == [at : AppPlaces, ensure : BOOLEAN, late : BOOLEAN, request : BOOLEAN]
             P == [at : Places, session : {0} \cup {Session[b] : b \in Apps},
                   quit : BOOLEAN, shutdown : BOOLEAN]
  <1>0. app \in [Apps -> A] /\ app[a] \in A /\ process \in [Recorders -> P]
    BY DEF TypeOK
  <1>2. process' \in [Recorders -> P]
    <2>1. CASE process' = process
      BY <1>0, <2>1
    <2>2. CASE Launch(a)
      <3>1. PICK r \in Recorders : process' = [process EXCEPT ![r] =
                  [[NoProcess EXCEPT !.at = "started"] EXCEPT !.session = Session[a]]]
        BY <2>2 DEF Launch, Spawned
      <3>2. [[NoProcess EXCEPT !.at = "started"] EXCEPT !.session = Session[a]] \in P
        BY DEF NoProcess, Places
      <3> QED BY <1>0, <3>1, <3>2
    <2> QED
      BY <2>1, <2>2 DEF Observer, Setup, Again, Answered, Unanswered, Probe, CheckExecutable,
                        LaunchFails, AskAgain, HalfAMinute, Retry, Close
  <1>3. \/ app' = app
        \/ \E x \in A : app' = [app EXCEPT ![a] = x]
    <2> DEFINE Of(there, b, c, d) == [at |-> there, ensure |-> b, late |-> c, request |-> d]
    <2>0. \A there \in AppPlaces, b, c, d \in BOOLEAN : Of(there, b, c, d) \in A
      OBVIOUS
    <2>1. CASE \/ Setup(a) \/ Again(a)
               \/ Probe(a) /\ lease = "nobody"
               \/ CheckExecutable(a) /\ installed
      BY <1>0, <2>1 DEF Setup, Again, Probe, CheckExecutable, AppPlaces
    <2>2. CASE Waiting(a)
      BY <1>0, <2>2 DEF Waiting, AppPlaces
    <2>3. CASE AskAgain(a)
      BY <1>0, <2>3 DEF AskAgain, AppPlaces
    <2>4. CASE HalfAMinute(a) \/ Retry(a)
      BY <1>0, <2>4 DEF HalfAMinute, Retry
    <2>5. CASE Close(a)
      BY <1>0, <2>5 DEF Close, AppPlaces
    <2> QED
      BY <2>1, <2>2, <2>3, <2>4, <2>5
      DEF Observer, Answered, Unanswered, Probe, CheckExecutable, Launch, LaunchFails
  <1>4. app' \in [Apps -> A]
    BY <1>0, <1>3
  <1>5. launches' \in [Apps -> Nat]
    <2>1. CASE Launch(a)
      BY <2>1 DEF TypeOK, Launch
    <2>2. CASE launches' = launches
      BY <2>2 DEF TypeOK
    <2> QED BY <2>1, <2>2 DEF Observer, Setup, Again, Answered, Unanswered, Probe, CheckExecutable,
                              LaunchFails, AskAgain, HalfAMinute, Retry, Close
  <1>6. asks' \in [Apps -> Nat]
    <2>1. CASE Retry(a)
      BY <2>1 DEF TypeOK, Retry
    <2>2. CASE asks' = asks
      BY <2>2 DEF TypeOK
    <2> QED BY <2>1, <2>2 DEF Observer, Setup, Again, Answered, Unanswered, Probe, CheckExecutable,
                              Launch, LaunchFails, AskAgain, HalfAMinute, Close
  <1> QED BY <1>1, <1>2, <1>4, <1>5, <1>6 DEF TypeOK

-----------------------------------------------------------------------------
(* The lease. *)

\* What a step of r does to it, to its place and to what it serves.
Own(r) ==
    /\ \A q \in Recorders \ {r} : /\ process'[q] = process[q]
                                  /\ service'[q] = service[q] /\ listener'[q] = listener[q]
    /\ \/ lease' = lease /\ (process'[r].at \in Owning <=> process[r].at \in Owning)
       \/ lease = "nobody" /\ lease' = r /\ process'[r].at \in Owning
       \/ lease = r /\ lease' = "nobody" /\ process'[r].at \notin Owning
    /\ listener'[r] # "none" => process'[r].at \in {"claiming", "running", "ended"}
    /\ service'[r] # "off" => process'[r].at = "running"

LEMMA OwnKeepsTheLease ==
    ASSUME NEW r \in Recorders, SupervisionAssumption, Leased, Served, Own(r), UNCHANGED app
    PROVE  Leased' /\ Served'
  <1>1. ASSUME NEW q \in Recorders PROVE lease' = q <=> process'[q].at \in Owning
    <2>0. lease = q <=> process[q].at \in Owning
      BY DEF Leased
    <2>1. lease = r <=> process[r].at \in Owning
      BY DEF Leased
    <2>2. CASE q = r
      BY <2>1, <2>2 DEF Own, SupervisionAssumption
    <2>3. CASE q # r
      <3>1. process'[q] = process[q] /\ "nobody" # q
        BY <2>3 DEF Own, SupervisionAssumption
      <3> QED BY <2>0, <2>3, <3>1 DEF Own
    <2> QED BY <2>2, <2>3
  <1>2. \A a \in Apps : lease' = a <=> app'[a].at = "probing"
    BY DEF Own, Leased, SupervisionAssumption
  <1>3. Served'
    BY DEF Served, Own
  <1> QED BY <1>1, <1>2, <1>3 DEF Leased

LEMMA RecorderOwns ==
    ASSUME NEW r \in Recorders, SupervisionAssumption, TypeOK, Leased, Served, Recorder(r),
           ~Login(r)
    PROVE  Own(r)
  <1>0. /\ process \in [Recorders -> [at : Places, session : {0} \cup {Session[a] : a \in Apps},
                                      quit : BOOLEAN, shutdown : BOOLEAN]]
        /\ process[r] \in [at : Places, session : {0} \cup {Session[a] : a \in Apps},
                           quit : BOOLEAN, shutdown : BOOLEAN]
        /\ DOMAIN service = Recorders /\ DOMAIN listener = Recorders
        /\ listener[r] # "none" => process[r].at \in {"claiming", "running", "ended"}
        /\ service[r] # "off" => process[r].at = "running"
        /\ lease = r <=> process[r].at \in Owning
    BY DEF TypeOK, Leased, Served
  <1>1. CASE Claim(r)
    BY <1>0, <1>1 DEF Claim, Own, Owning, At, Go
  <1>2. CASE Exit(r)
    BY <1>0, <1>2 DEF Exit, Gone, NoProcess, Own, Owning, At
  <1>3. CASE Listen(r) \/ ListenerFails(r)
    BY <1>0, <1>3 DEF Listen, ListenerFails, Own, Owning, At
  <1>4. CASE Ready(r) \/ NotReady(r)
    BY <1>0, <1>4 DEF Ready, NotReady, Own, Owning, At, Go
  <1>5. CASE Begin(r)
    BY <1>0, <1>5 DEF Begin, Own, Owning, At, Go
  <1>6. CASE Report(r) \/ ServiceFails(r)
    BY <1>0, <1>6 DEF Report, ServiceFails, Own, Owning, At
  <1>7. CASE Quit(r) \/ LoopExits(r)
    BY <1>0, <1>7 DEF Quit, LoopExits, Own, Owning, At
  <1>8. CASE ServiceEnded(r)
    BY <1>0, <1>8 DEF ServiceEnded, Own, Owning, At, Go
  <1>9. CASE Unlisten(r)
    BY <1>0, <1>9 DEF Unlisten, Own, Owning, At, Go
  <1>10. CASE Release(r)
    BY <1>0, <1>10 DEF Release, Gone, NoProcess, Own, Owning, At
  <1>11. CASE Killed(r)
    BY <1>0, <1>11 DEF Killed, Gone, NoProcess, Own, Owning, At
  <1> QED BY <1>1, <1>2, <1>3, <1>4, <1>5, <1>6, <1>7, <1>8, <1>9, <1>10, <1>11 DEF Recorder

\* A process starts where none was, and has nothing.
LEMMA SpawnedKeepsTheLease ==
    ASSUME NEW r \in Recorders, NEW session, TypeOK, Leased, Served, Spawned(r, session),
           UNCHANGED <<lease, service, listener>>
    PROVE  (\A q \in Recorders : lease' = q <=> process'[q].at \in Owning) /\ Served'
  <1>1. process'[r].at = "started" /\ process[r].at = "none"
    BY DEF Spawned, TypeOK, NoProcess, At
  <1>2. \A q \in Recorders \ {r} : process'[q] = process[q]
    BY DEF Spawned, TypeOK
  <1> QED BY <1>1, <1>2 DEF Leased, Served, Owning

LEMMA LoginKeepsTheLease ==
    ASSUME NEW r \in Recorders, TypeOK, Leased, Served, Login(r)
    PROVE  Leased' /\ Served'
  <1>1. PICK a \in Apps : Spawned(r, Session[a])
    BY DEF Login
  <1>2. UNCHANGED <<lease, service, listener, app>>
    BY DEF Login
  <1> QED BY <1>1, <1>2, SpawnedKeepsTheLease DEF Leased

\* What a step of an app does to the lease.
Asks(a) ==
    /\ \A b \in Apps \ {a} : app'[b] = app[b]
    /\ \/ lease' = lease /\ (app'[a].at = "probing" <=> app[a].at = "probing")
       \/ lease = "nobody" /\ lease' = a /\ app'[a].at = "probing"
       \/ lease = a /\ lease' = "nobody" /\ app'[a].at # "probing"

LEMMA AppAsks ==
    ASSUME NEW a \in Apps, TypeOK, Leased, Observer(a) \/ HalfAMinute(a) \/ Retry(a) \/ Close(a)
    PROVE  Asks(a)
  <1> DEFINE A == [at : AppPlaces, ensure : BOOLEAN, late : BOOLEAN, request : BOOLEAN]
  <1>0. app \in [Apps -> A] /\ app[a] \in A /\ (lease = a <=> app[a].at = "probing")
    BY DEF TypeOK, Leased
  <1>1. CASE Setup(a) \/ Again(a)
    BY <1>0, <1>1 DEF Setup, Again, Asks, InApp
  <1>2. CASE Answered(a) \/ Unanswered(a) \/ LaunchFails(a)
    BY <1>0, <1>2 DEF Answered, Unanswered, LaunchFails, Waiting, Asks, InApp
  <1>3. CASE Probe(a)
    <2>1. CASE lease = "nobody"
      BY <1>0, <1>3, <2>1 DEF Probe, Asks, InApp
    <2>2. CASE lease # "nobody"
      <3>1. lease' = lease /\ Waiting(a) /\ app[a].at = "asking"
        BY <1>3, <2>2 DEF Probe, InApp
      <3> QED BY <1>0, <3>1 DEF Waiting, Asks
    <2> QED BY <2>1, <2>2
  <1>4. CASE CheckExecutable(a)
    BY <1>0, <1>4 DEF CheckExecutable, Waiting, Asks, InApp
  <1>5. CASE Launch(a)
    BY <1>0, <1>5 DEF Launch, Waiting, Asks, InApp
  <1>6. CASE AskAgain(a)
    BY <1>0, <1>6 DEF AskAgain, Asks, InApp
  <1>7. CASE HalfAMinute(a) \/ Retry(a)
    BY <1>0, <1>7 DEF HalfAMinute, Retry, Asks, InApp
  <1>8. CASE Close(a)
    BY <1>0, <1>8 DEF Close, Asks, InApp
  <1> QED BY <1>1, <1>2, <1>3, <1>4, <1>5, <1>6, <1>7, <1>8 DEF Observer

LEMMA AppKeepsTheLease ==
    ASSUME NEW a \in Apps, SupervisionAssumption, TypeOK, Leased, Served,
           Observer(a) \/ HalfAMinute(a) \/ Retry(a) \/ Close(a)
    PROVE  Leased' /\ Served'
  <1>1. Asks(a)
    BY AppAsks
  <1>2. \A b \in Apps : lease' = b <=> app'[b].at = "probing"
    BY <1>1 DEF Asks, Leased, SupervisionAssumption
  <1>3. UNCHANGED <<service, listener>>
    BY DEF Observer, Setup, Again, Answered, Unanswered, Probe, CheckExecutable, Launch, LaunchFails,
           AskAgain, HalfAMinute, Retry, Close, recorderVars
  <1>4. CASE process' = process
    <2>1. \A r \in Recorders : lease' = r <=> lease = r
      BY <1>1 DEF Asks, SupervisionAssumption
    <2>2. \A r \in Recorders : lease' = r <=> process'[r].at \in Owning
      BY <1>4, <2>1 DEF Leased
    <2> QED BY <1>2, <1>3, <1>4, <2>2 DEF Leased, Served
  <1>5. CASE Launch(a)
    <2>1. PICK r \in Recorders : Spawned(r, Session[a])
      BY <1>5 DEF Launch
    <2>2. UNCHANGED <<lease, service, listener>>
      BY <1>3, <1>5 DEF Launch
    <2> QED BY <1>2, <2>1, <2>2, SpawnedKeepsTheLease DEF Leased
  <1> QED
    BY <1>4, <1>5 DEF Observer, Setup, Again, Answered, Unanswered, Probe, CheckExecutable, LaunchFails,
                      AskAgain, HalfAMinute, Retry, Close

-----------------------------------------------------------------------------
(* The account of the launches. *)

LEMMA AppAccounts ==
    ASSUME NEW a \in Apps, TypeOK, Accounted, Observer(a) \/ HalfAMinute(a) \/ Retry(a) \/ Close(a)
    PROVE  Accounted'
  <1> DEFINE A == [at : AppPlaces, ensure : BOOLEAN, late : BOOLEAN, request : BOOLEAN]
             Fine(x, n, m) == /\ n + One(x.ensure) + One(x.request) <= 1 + m
                              /\ x.at = "waiting" => ~x.ensure
                              /\ x.at \in {"probing", "spawning"} => x.ensure
  <1>0. /\ app \in [Apps -> A] /\ app[a] \in A
        /\ launches \in [Apps -> Nat] /\ asks \in [Apps -> Nat]
        /\ launches[a] \in Nat /\ asks[a] \in Nat
    BY DEF TypeOK
  <1>1. Fine(app[a], launches[a], asks[a])
    BY DEF Accounted
  <1>2. SUFFICES /\ \A b \in Apps \ {a} : /\ app'[b] = app[b] /\ launches'[b] = launches[b]
                                          /\ asks'[b] = asks[b]
                 /\ Fine(app'[a], launches'[a], asks'[a])
    BY <1>1 DEF Accounted
  <1> DEFINE Goes(there) == app' = [app EXCEPT ![a].at = there] /\ UNCHANGED <<launches, asks>>
             Waits == Waiting(a) /\ UNCHANGED <<launches, asks>>
  <1>4. CASE Waits
    BY <1>0, <1>1, <1>4 DEF Waiting, One
  <1>5. ASSUME NEW there, Goes(there), there # "waiting",
               there \in {"probing", "spawning"} => app[a].ensure
        PROVE  /\ \A b \in Apps \ {a} : /\ app'[b] = app[b] /\ launches'[b] = launches[b]
                                       /\ asks'[b] = asks[b]
               /\ Fine(app'[a], launches'[a], asks'[a])
    BY <1>0, <1>1, <1>5 DEF One
  <1>3. CASE Setup(a)
    <2>1. Goes("asking") \/ Goes("missing")
      BY <1>3 DEF Setup
    <2> QED BY <2>1, <1>5
  <1>6. CASE Again(a)
    BY <1>0, <1>1, <1>6 DEF Again, InApp, One
  <1>11. CASE Answered(a) \/ Unanswered(a) \/ LaunchFails(a)
    BY <1>4, <1>11 DEF Answered, Unanswered, LaunchFails
  <1>12. CASE Probe(a)
    <2>1. app[a].ensure /\ (Goes("probing") \/ Waits)
      BY <1>12 DEF Probe
    <2> QED BY <2>1, <1>4, <1>5
  <1>13. CASE CheckExecutable(a)
    <2>1. app[a].ensure
      BY <1>1, <1>13 DEF CheckExecutable, InApp
    <2>2. Goes("spawning") \/ Waits
      BY <1>13 DEF CheckExecutable
    <2> QED BY <2>1, <2>2, <1>4, <1>5
  <1>7. CASE Launch(a)
    BY <1>0, <1>1, <1>7 DEF Launch, Waiting, InApp, One
  <1>8. CASE AskAgain(a)
    BY <1>0, <1>1, <1>8 DEF AskAgain, InApp, One
  <1>9. CASE HalfAMinute(a) \/ Retry(a)
    BY <1>0, <1>1, <1>9 DEF HalfAMinute, Retry, InApp, One
  <1>10. CASE Close(a)
    BY <1>0, <1>1, <1>10 DEF Close, InApp, One
  <1> QED BY <1>3, <1>6, <1>7, <1>8, <1>9, <1>10, <1>11, <1>12, <1>13 DEF Observer

-----------------------------------------------------------------------------
LEMMA InvariantInitially == SupervisionAssumption /\ Init => SupervisionInvariant
  <1> SUFFICES ASSUME SupervisionAssumption, Init PROVE SupervisionInvariant
    OBVIOUS
  <1>0. \A a \in Apps : \E there \in {"setup", "closed"} :
            app[a] = [at |-> there, ensure |-> TRUE, late |-> FALSE, request |-> FALSE]
    BY DEF Init
  <1>6. \A a \in Apps : app[a].at \in {"setup", "closed"} /\ app[a].ensure = TRUE /\ app[a].request = FALSE
    <2> TAKE a \in Apps
    <2>1. PICK there \in {"setup", "closed"} :
              app[a] = [at |-> there, ensure |-> TRUE, late |-> FALSE, request |-> FALSE]
      BY <1>0
    <2> QED BY <2>1
  <1>7. \A a \in Apps : launches[a] = 0 /\ asks[a] = 0
    BY DEF Init
  <1>1. TypeOK
    <2>1. process \in [Recorders -> [at : Places, session : {0} \cup {Session[a] : a \in Apps},
                                     quit : BOOLEAN, shutdown : BOOLEAN]]
      BY DEF Init, NoProcess, Places
    <2>2. status \in [Recorders -> Statuses]
      BY StartingIsCoherent DEF Init
    <2>3. app \in [Apps -> [at : AppPlaces, ensure : BOOLEAN, late : BOOLEAN, request : BOOLEAN]]
      <3>1. app \in [Apps -> {[at |-> at, ensure |-> TRUE, late |-> FALSE, request |-> FALSE] :
                                 at \in {"setup", "closed"}}]
        BY DEF Init
      <3>2. \A there \in {"setup", "closed"} :
                [at |-> there, ensure |-> TRUE, late |-> FALSE, request |-> FALSE]
                  \in [at : AppPlaces, ensure : BOOLEAN, late : BOOLEAN, request : BOOLEAN]
        BY DEF AppPlaces
      <3> QED BY <1>0, <3>1, <3>2
    <2> QED BY <2>1, <2>2, <2>3 DEF Init, TypeOK
  <1>2. Leased
    <2>1. \A r \in Recorders : process[r].at = "none" /\ lease # r
      BY DEF SupervisionAssumption, Init, NoProcess
    <2>2. \A a \in Apps : app[a].at # "probing" /\ lease # a
      BY <1>6 DEF SupervisionAssumption, Init
    <2> QED BY <2>1, <2>2 DEF Leased, Owning
  <1>3. Served
    BY DEF Init, Served
  <1>4. Coherent
    BY StartingIsCoherent DEF Init, Coherent
  <1>5. Accounted
    <2> SUFFICES ASSUME NEW a \in Apps
                 PROVE  /\ launches[a] + One(app[a].ensure) + One(app[a].request) <= 1 + asks[a]
                        /\ app[a].at = "waiting" => ~app[a].ensure
                        /\ app[a].at \in {"probing", "spawning"} => app[a].ensure
      BY DEF Accounted
    <2>1. One(app[a].ensure) = 1 /\ One(app[a].request) = 0
      BY <1>6, Zenon DEF One
    <2>2. launches[a] + One(app[a].ensure) + One(app[a].request) <= 1 + asks[a]
      BY <1>7, <2>1
    <2> QED BY <1>6, <2>2
  <1> QED BY <1>1, <1>2, <1>3, <1>4, <1>5 DEF SupervisionInvariant

LEMMA InvariantIsKept ==
    SupervisionAssumption /\ SupervisionInvariant /\ [Next]_vars => SupervisionInvariant'
  <1> SUFFICES ASSUME SupervisionAssumption, SupervisionInvariant, [Next]_vars
               PROVE  SupervisionInvariant'
    OBVIOUS
  <1> USE DEF SupervisionInvariant
  <1>1. ASSUME NEW r \in Recorders, Recorder(r) PROVE SupervisionInvariant'
    <2>1. TypeOK'
      BY <1>1, RecorderTypes
    <2>2. Leased' /\ Served'
      <3>1. UNCHANGED app
        BY <1>1 DEF Recorder, Claim, Exit, Listen, Ready, ListenerFails, NotReady, Begin, Report,
                    ServiceFails, Quit, LoopExits, ServiceEnded, Unlisten, Release, Killed, Login,
                    appVars
      <3>2. CASE Login(r)
        BY <3>2, LoginKeepsTheLease
      <3>3. CASE ~Login(r)
        BY <1>1, <3>1, <3>3, RecorderOwns, OwnKeepsTheLease
      <3> QED BY <3>2, <3>3
    <2>3. Coherent'
      BY <1>1, RecorderRestates, RestatedIsCoherent
    <2>4. UNCHANGED <<app, launches, asks>>
      BY <1>1 DEF Recorder, Claim, Exit, Listen, Ready, ListenerFails, NotReady, Begin, Report,
                  ServiceFails, Quit, LoopExits, ServiceEnded, Unlisten, Release, Killed, Login,
                  appVars
    <2>5. Accounted'
      BY <2>4 DEF Accounted
    <2> QED BY <2>1, <2>2, <2>3, <2>5
  <1>2. ASSUME NEW a \in Apps, Observer(a) \/ HalfAMinute(a) \/ Retry(a) \/ Close(a)
        PROVE  SupervisionInvariant'
    <2>1. status' = status
      BY <1>2 DEF Observer, Setup, Again, Answered, Unanswered, Probe, CheckExecutable, Launch,
                  LaunchFails, AskAgain, HalfAMinute, Retry, Close, recorderVars
    <2>2. Coherent'
      BY <2>1 DEF Coherent
    <2> QED BY <1>2, <2>2, AppTypes, AppKeepsTheLease, AppAccounts
  <1>3. CASE Reinstall \/ UNCHANGED vars
    <2>1. UNCHANGED <<lease, process, service, listener, status, app, launches, asks>>
      BY <1>3 DEF Reinstall, vars
    <2> QED BY <2>1 DEF TypeOK, Leased, Served, Coherent, Accounted
  <1> QED BY <1>1, <1>2, <1>3 DEF Next

LEMMA InvariantSuffices == SupervisionAssumption /\ SupervisionInvariant => SupervisionIsSound
  <1> SUFFICES ASSUME SupervisionAssumption, SupervisionInvariant PROVE SupervisionIsSound
    OBVIOUS
  <1>1. OneOwner
    BY DEF SupervisionInvariant, OneOwner, Working, Leased, Served, Owning
  <1>2. StatusIsCoherent
    BY DEF SupervisionInvariant, StatusIsCoherent, Coherent
  <1>3. \A a \in Apps : launches[a] <= 1 + asks[a]
    <2> TAKE a \in Apps
    <2>1. launches[a] \in Nat /\ asks[a] \in Nat
      BY DEF SupervisionInvariant, TypeOK
    <2>2. launches[a] + One(app[a].ensure) + One(app[a].request) <= 1 + asks[a]
      BY DEF SupervisionInvariant, Accounted
    <2> QED BY <2>1, <2>2 DEF One
  <1> QED BY <1>1, <1>2, <1>3 DEF SupervisionIsSound, LaunchesAreAsked

\* However many apps and other starters there are, and whatever fails or is
\* killed: the service and the pipe of a recorder exist only under the lease, what
\* the pipe answers is coherent, and no app launches a recorder on its own.
THEOREM SupervisionCorrect == SupervisionAssumption /\ Spec => []SupervisionIsSound
  <1>1. SupervisionAssumption /\ Init => SupervisionInvariant
    BY InvariantInitially
  <1>2. SupervisionAssumption /\ SupervisionInvariant /\ [Next]_vars => SupervisionInvariant'
    BY InvariantIsKept
  <1>3. SupervisionAssumption /\ SupervisionInvariant => SupervisionIsSound
    BY InvariantSuffices
  <1>4. SupervisionAssumption' <=> SupervisionAssumption
    BY DEF SupervisionAssumption
  <1> QED BY <1>1, <1>2, <1>3, <1>4, PTL DEF Spec

-----------------------------------------------------------------------------
(* The configuration. *)

OpPlaces == {"idle", "locking", "open", "noted", "written", "verified", "failed", "undoing"}
Docs == [storage : Nat, hevc : Nat, autostart : BOOLEAN]
Values == {"absent", "ours", "foreign"}
Commands == [at : OpPlaces, kind : Config!AllKinds, doc : Docs, prior : Values, settled : BOOLEAN]

Holding == {"open", "noted", "written", "verified"}
Registering == {"noted", "written", "verified", "failed", "undoing"}

\* The types, and what is true of the holder of the lock: what it read is what was
\* saved last, or the defaults that stand for a file that is not there.
Locked ==
    /\ op \in [Writers -> Commands] /\ saved \in Docs
    /\ registry.value \in Values /\ torn \in BOOLEAN
    /\ file = saved \/ (file = Config!Nothing /\ saved = Config!Default)
    /\ \A w \in Writers :
          /\ op[w].at \in Holding => lock = w /\ op[w].doc = saved
          /\ op[w].at \in Registering => op[w].kind \in {"on", "off"}

\* Before a difference is answered: a change is registered until it is saved or
\* fails, what it noted is what was saved unless another failed change was about,
\* and a registration that is not the saved one has a writer that will save or
\* undo it, or answer.
Undecided(w) == op[w].at \in {"failed", "undoing"}
Written(w) == op[w].at \in {"written", "verified"}
Settlement ==
    /\ \A w \in Writers : Written(w) => registry.value = Config!Intended(w)
    /\ \A v, w \in Writers : Written(v) /\ Undecided(w) => registry.author # w
    /\ \A w \in Writers : op[w].settled /\ op[w].at \in {"noted", "written", "verified"} =>
          /\ op[w].prior = before
          /\ \A v \in Writers : ~Undecided(v)
    /\ \A w \in Writers : op[w].settled /\ Undecided(w) /\ registry.author = w =>
          op[w].prior = before
    /\ \A v, w \in Writers :
          /\ op[v].settled /\ op[v].at \in Registering
          /\ op[w].settled /\ op[w].at \in Registering
          => v = w
    /\ \/ registry.value = before
       \/ \E w \in Writers : /\ Written(w) \/ Undecided(w)
                             /\ op[w].settled => registry.author = w

ConfigInvariant == Locked /\ (torn \/ Settlement)
-----------------------------------------------------------------------------
LEMMA OneHolder ==
    ASSUME Locked, NEW v \in Writers, NEW w \in Writers, op[v].at \in Holding, op[w].at \in Holding
    PROVE  v = w
  BY DEF Locked

LEMMA Documents == /\ Config!Default \in Docs /\ Config!Nothing # Config!Default
                   /\ \A doc \in Docs : doc # Config!Nothing
  <1>1. Config!Default \in Docs
    BY DEF Config!Default, Docs
  <1>2. \A doc \in Docs : doc # Config!Nothing
    BY DEF Config!Nothing, Docs
  <1> QED BY <1>1, <1>2

\* A field is saved as it is patched.
LEMMA SavedAsPatched ==
    ASSUME NEW w \in Writers, Locked, op[w].doc = saved, Config!Save(w)
    PROVE  file' = saved' /\ saved' \in Docs
  <1> DEFINE doc == op[w].doc
             kind == op[w].kind
  <1>0. /\ doc \in Docs /\ kind \in Config!AllKinds /\ saved = doc
        /\ DOMAIN doc = {"storage", "hevc", "autostart"}
        /\ doc.storage \in Nat /\ doc.hevc \in Nat /\ doc.autostart \in BOOLEAN
    BY DEF Locked, Commands, Docs
  <1>1. file' = Config!Patched(w)
    BY DEF Config!Save
  <1>2. saved' = [f \in DOMAIN saved |->
                    IF f \notin Config!Changed(w) THEN saved[f]
                    ELSE IF f = "autostart" THEN kind = "on" ELSE saved[f] + 1]
    BY DEF Config!Save
  <1> DEFINE Doc(s, h, a) == [storage |-> s, hevc |-> h, autostart |-> a]
  <1>3. doc = Doc(doc.storage, doc.hevc, doc.autostart)
    BY <1>0 DEF Docs
  <1>4. CASE kind = "storage"
    <2>1. Config!Patched(w) = Doc(doc.storage + 1, doc.hevc, doc.autostart)
      BY <1>0, <1>4 DEF Config!Patched, Config!Settings, Docs
    <2>2. saved' = Doc(doc.storage + 1, doc.hevc, doc.autostart)
      BY <1>0, <1>2, <1>4 DEF Config!Changed, Config!Settings
    <2> QED BY <1>0, <1>1, <2>1, <2>2 DEF Docs
  <1>5. CASE kind = "hevc"
    <2>1. Config!Patched(w) = Doc(doc.storage, doc.hevc + 1, doc.autostart)
      BY <1>0, <1>5 DEF Config!Patched, Config!Settings, Docs
    <2>2. saved' = Doc(doc.storage, doc.hevc + 1, doc.autostart)
      BY <1>0, <1>2, <1>5 DEF Config!Changed, Config!Settings
    <2> QED BY <1>0, <1>1, <2>1, <2>2 DEF Docs
  <1>6. CASE kind \in {"on", "off"}
    <2>1. Config!Patched(w) = Doc(doc.storage, doc.hevc, kind = "on")
      BY <1>0, <1>6 DEF Config!Patched, Config!Settings, Docs
    <2>2. saved' = Doc(doc.storage, doc.hevc, kind = "on")
      BY <1>0, <1>2, <1>6 DEF Config!Changed, Config!Settings
    <2> QED BY <1>0, <1>1, <2>1, <2>2 DEF Docs
  <1>7. CASE kind \in {"create", "status"}
    <2>1. Config!Patched(w) = doc
      BY <1>7 DEF Config!Patched, Config!Settings
    <2>2. saved' = Doc(doc.storage, doc.hevc, doc.autostart)
      BY <1>0, <1>2, <1>7 DEF Config!Changed, Config!Settings
    <2> QED BY <1>0, <1>1, <1>3, <2>1, <2>2
  <1> QED BY <1>0, <1>4, <1>5, <1>6, <1>7 DEF Config!AllKinds, Config!Settings

\* A command that begins, ends or goes on, while its process has the lock or nobody
\* has it or keeps it, leaves the holder what it read.
LEMMA OneCommandMoves ==
    ASSUME Config!AutostartAssumption, Locked,
           NEW w \in Writers, NEW c \in Commands, op' = [op EXCEPT ![w] = c],
           registry'.value \in Values, torn' \in BOOLEAN,
           lock' = lock \/ lock = "nobody" \/ lock = w,
           \/ saved' = saved /\ file' = file
           \/ saved' \in Docs /\ file' = saved' /\ op[w].at \in Holding,
           c.at \in Holding => lock' = w /\ c.doc = saved',
           c.at \in Registering => c.kind \in {"on", "off"}
    PROVE  Locked'
  <1>1. op' \in [Writers -> Commands] /\ saved' \in Docs
    BY DEF Locked
  <1>2. file' = saved' \/ (file' = Config!Nothing /\ saved' = Config!Default)
    BY DEF Locked
  <1>3. ASSUME NEW v \in Writers
        PROVE  /\ op'[v].at \in Holding => lock' = v /\ op'[v].doc = saved'
               /\ op'[v].at \in Registering => op'[v].kind \in {"on", "off"}
    <2>1. CASE v = w
      BY <2>1 DEF Locked
    <2>2. CASE v # w
      <3>1. op'[v] = op[v]
        BY <2>2 DEF Locked
      <3>2. op[v].at \in Holding => lock = v /\ op[v].doc = saved
        BY DEF Locked
      <3>3. op[v].at \in Holding => lock' = v /\ op[v].doc = saved'
        BY <2>2, <3>2, OneHolder DEF Config!AutostartAssumption
      <3>4. op[v].at \in Registering => op[v].kind \in {"on", "off"}
        BY DEF Locked
      <3> QED BY <3>1, <3>3, <3>4
    <2> QED BY <2>1, <2>2
  <1> QED BY <1>1, <1>2, <1>3 DEF Locked

\* What a step does to the command of its process.
Moves(w, c) == c \in Commands /\ op' = [op EXCEPT ![w] = c]

LEMMA CommandsMove ==
    ASSUME Locked, NEW w \in Writers
    PROVE  /\ Config!Idle \in Commands
           /\ \A at \in OpPlaces : [op[w] EXCEPT !.at = at] \in Commands
           /\ [Config!Idle EXCEPT !.at = "locking"] \in Commands
           /\ Config!Finish(w) => Moves(w, Config!Idle)
           /\ Config!Reread(w) => Moves(w, [Config!Idle EXCEPT !.at = "locking"])
           /\ \A at \in OpPlaces : Config!Go(w, at) => Moves(w, [op[w] EXCEPT !.at = at])
  <1>1. op[w] \in Commands /\ op \in [Writers -> Commands]
    BY DEF Locked
  <1>2. Config!Idle \in Commands /\ [Config!Idle EXCEPT !.at = "locking"] \in Commands
    BY Documents DEF Config!Idle, Commands, OpPlaces, Values, Config!AllKinds
  <1>3. \A at \in OpPlaces : [op[w] EXCEPT !.at = at] \in Commands
    BY <1>1 DEF Commands
  <1>4. ASSUME NEW at \in OpPlaces, Config!Go(w, at)
        PROVE  op' = [op EXCEPT ![w] = [op[w] EXCEPT !.at = at]]
    BY <1>1, <1>4 DEF Config!Go
  <1> QED BY <1>2, <1>3, <1>4 DEF Config!Finish, Config!Reread, Moves

\* What a command reads when it has the lock, is what was saved last.
LEMMA Opened ==
    ASSUME Locked, NEW w \in Writers, Config!Acquire(w)
    PROVE  \E c \in Commands : /\ op' = [op EXCEPT ![w] = c]
                               /\ c.at = "open" /\ c.doc = saved
  <1> DEFINE doc == IF file = Config!Nothing THEN Config!Default ELSE file
             c == [op[w] EXCEPT !.at = "open", !.doc = doc]
  <1>1. op[w] \in Commands /\ op \in [Writers -> Commands]
    BY DEF Locked
  <1>2. doc = saved /\ doc \in Docs
    BY Documents DEF Locked
  <1>3. c \in Commands /\ c.at = "open" /\ c.doc = saved
    BY <1>1, <1>2 DEF Commands, OpPlaces
  <1>4. op' = [op EXCEPT ![w] = c]
    BY <1>1 DEF Config!Acquire
  <1> QED BY <1>3, <1>4

\* What a change of the login setting notes.
Note(w) == [op[w] EXCEPT !.at = "noted", !.prior = registry.value,
                         !.settled = \A v \in Writers : ~Config!Undecided(v)]
LEMMA Noted ==
    ASSUME Locked, NEW w \in Writers, Config!NotePrior(w), registry.value # "foreign"
    PROVE  /\ Note(w) \in Commands /\ op' = [op EXCEPT ![w] = Note(w)]
           /\ Note(w).at = "noted" /\ Note(w).kind = op[w].kind /\ Note(w).doc = op[w].doc
           /\ Note(w).prior = registry.value
           /\ Note(w).settled = (\A v \in Writers : ~Config!Undecided(v))
  <1>1. op[w] \in Commands /\ op \in [Writers -> Commands] /\ registry.value \in Values
    BY DEF Locked
  <1> DEFINE settled == \A v \in Writers : ~Config!Undecided(v)
  <1>2. op' = [op EXCEPT ![w].at = "noted", ![w].prior = registry.value, ![w].settled = settled]
    BY DEF Config!NotePrior
  <1> HIDE DEF settled
  <1>3. settled \in BOOLEAN
    BY DEF settled
  <1> DEFINE c == [op[w] EXCEPT !.at = "noted", !.prior = registry.value, !.settled = settled]
  <1>4. c \in Commands /\ op' = [op EXCEPT ![w] = c]
    BY <1>1, <1>2, <1>3 DEF Commands, OpPlaces
  <1>5. /\ c.at = "noted" /\ c.kind = op[w].kind /\ c.doc = op[w].doc
        /\ c.prior = registry.value /\ c.settled = settled
    BY <1>1 DEF Commands
  <1>6. c = Note(w)
    BY DEF Note, settled
  <1> QED BY <1>4, <1>5, <1>6 DEF settled

LEMMA LockedIsKept ==
    ASSUME Config!AutostartAssumption, Locked, Config!Next
    PROVE  Locked'
  <1>0. /\ op \in [Writers -> Commands] /\ saved \in Docs
        /\ registry.value \in Values /\ torn \in BOOLEAN
    BY DEF Locked
  <1>1. ASSUME NEW w \in Writers, Config!Writer(w) \/ Config!Crash(w)
        PROVE  Locked'
    <2> DEFINE back == [Config!Idle EXCEPT !.at = "locking"]
               failed == [op[w] EXCEPT !.at = "failed"]
    <2>0. /\ op[w] \in Commands
          /\ op[w].at \in Holding => lock = w /\ op[w].doc = saved
          /\ op[w].at \in Registering => op[w].kind \in {"on", "off"}
      BY DEF Locked
    <2>1. Config!Idle.at = "idle" /\ back.at = "locking"
      BY DEF Config!Idle
    <2>2. \A at \in OpPlaces : LET c == [op[w] EXCEPT !.at = at]
                               IN  c.at = at /\ c.kind = op[w].kind /\ c.doc = op[w].doc
      BY <2>0 DEF Commands
    <2>3. /\ Config!Intended(w) \in Values
          /\ "failed" \in OpPlaces /\ "undoing" \in OpPlaces /\ "written" \in OpPlaces
          /\ "verified" \in OpPlaces
      BY DEF Config!Intended, Values, OpPlaces
    <2>4. Config!Unlock(w) => lock' = lock \/ lock = w
      BY DEF Config!Unlock
    <2>a. CASE Config!Start(w)
      <3>1. PICK kind \in Kinds :
                op' = [op EXCEPT ![w] = [Config!Idle EXCEPT !.at = "locking", !.kind = kind]]
        BY <2>a DEF Config!Start
      <3> DEFINE c == [Config!Idle EXCEPT !.at = "locking", !.kind = kind]
      <3>2. c \in Commands /\ c.at = "locking"
        BY Documents DEF Config!Idle, Commands, OpPlaces, Values, Config!AutostartAssumption
      <3> QED BY <2>a, <1>0, <3>1, <3>2, OneCommandMoves
              DEF Config!Start, Config!historyVars, Holding, Registering
    <2>b. CASE Config!Acquire(w)
      <3>1. PICK c \in Commands : op' = [op EXCEPT ![w] = c] /\ c.at = "open" /\ c.doc = saved
        BY <2>b, Opened
      <3> QED BY <2>b, <1>0, <3>1, OneCommandMoves
              DEF Config!Acquire, Config!historyVars, Holding, Registering
    <2>c. CASE Config!Busy(w)
      <3>1. Moves(w, Config!Idle) \/ Moves(w, back)
        BY <2>c, CommandsMove DEF Config!Busy
      <3> QED BY <2>c, <1>0, <2>1, <3>1, OneCommandMoves
              DEF Config!Busy, Config!historyVars, Moves, Holding, Registering
    <2>d. CASE Config!Look(w)
      <3>1. Moves(w, Config!Idle)
        BY <2>d, CommandsMove DEF Config!Look
      <3> QED BY <2>d, <1>0, <2>1, <2>4, <3>1, OneCommandMoves
              DEF Config!Look, Config!historyVars, Moves, Holding, Registering
    <2>e. CASE Config!Commit(w)
      <3>1. Moves(w, Config!Idle)
        BY <2>e, CommandsMove DEF Config!Commit
      <3>2. op[w].at \in Holding
        BY <2>e DEF Config!Commit, Config!At, Holding
      <3>3. registry' = registry /\ torn' = torn /\ (lock' = lock \/ lock = w)
        BY <2>e, <2>4 DEF Config!Commit, Config!Save
      <3>4. CASE Config!Save(w)
        <4>1. file' = saved' /\ saved' \in Docs
          BY <2>0, <3>2, <3>4, SavedAsPatched
        <4> QED BY <1>0, <2>1, <3>1, <3>2, <3>3, <4>1, OneCommandMoves
                DEF Moves, Holding, Registering
      <3>5. CASE file' = file /\ saved' = saved
        BY <1>0, <2>1, <3>1, <3>3, <3>5, OneCommandMoves DEF Moves, Holding, Registering
      <3> QED BY <2>e, <3>4, <3>5 DEF Config!Commit
    <2>f. CASE Config!NotePrior(w)
      <3>1. CASE registry.value = "foreign"
        <4>1. Moves(w, back) /\ Config!Unlock(w)
          BY <2>f, <3>1, CommandsMove DEF Config!NotePrior
        <4> QED BY <2>f, <1>0, <2>1, <2>4, <4>1, OneCommandMoves
                DEF Config!NotePrior, Config!historyVars, Moves, Holding, Registering
      <3>2. CASE registry.value # "foreign"
        <4>1. lock' = lock /\ op[w].at = "open" /\ op[w].kind \in {"on", "off"}
          BY <2>f, <3>2 DEF Config!NotePrior, Config!At
        <4>2. /\ Note(w) \in Commands /\ op' = [op EXCEPT ![w] = Note(w)]
              /\ Note(w).at = "noted" /\ Note(w).kind = op[w].kind /\ Note(w).doc = op[w].doc
          BY <2>f, <3>2, Noted
        <4>3. UNCHANGED <<file, registry, saved, torn>>
          BY <2>f DEF Config!NotePrior, Config!historyVars
        <4> QED BY <1>0, <2>0, <4>1, <4>2, <4>3, OneCommandMoves DEF Holding, Registering
      <3> QED BY <3>1, <3>2
    <2>g. CASE Config!Register(w)
      <3>0. op[w].at = "noted" /\ UNCHANGED <<file, saved, torn>>
        BY <2>g DEF Config!Register, Config!At, Config!historyVars
      <3>1. CASE /\ registry' = [value |-> Config!Intended(w), author |-> w]
                 /\ Config!Go(w, "written") /\ lock' = lock
        <4>1. Moves(w, [op[w] EXCEPT !.at = "written"])
          BY <3>1, <2>3, CommandsMove
        <4>2. registry'.value = Config!Intended(w)
          BY <3>1
        <4> QED BY <1>0, <2>0, <2>2, <2>3, <3>0, <3>1, <4>1, <4>2, OneCommandMoves
                DEF Moves, Holding, Registering
      <3>2. CASE Config!Fail(w) /\ registry' = registry
        <4>1. Moves(w, failed) /\ (lock' = lock \/ lock = w)
          BY <3>2, <2>3, <2>4, CommandsMove DEF Config!Fail
        <4> QED BY <1>0, <2>0, <2>2, <2>3, <3>0, <3>2, <4>1, OneCommandMoves
                DEF Moves, Holding, Registering
      <3> QED BY <2>g, <3>1, <3>2 DEF Config!Register
    <2>h. CASE Config!Verify(w)
      <3>0. op[w].at = "written" /\ UNCHANGED <<file, saved, torn, registry>>
        BY <2>h DEF Config!Verify, Config!At, Config!historyVars
      <3>1. CASE Config!Go(w, "verified") /\ lock' = lock
        <4>1. Moves(w, [op[w] EXCEPT !.at = "verified"])
          BY <3>1, <2>3, CommandsMove
        <4> QED BY <1>0, <2>0, <2>2, <2>3, <3>0, <3>1, <4>1, OneCommandMoves
                DEF Moves, Holding, Registering
      <3>2. CASE Config!Fail(w)
        <4>1. Moves(w, failed) /\ (lock' = lock \/ lock = w)
          BY <3>2, <2>3, <2>4, CommandsMove DEF Config!Fail
        <4> QED BY <1>0, <2>0, <2>2, <2>3, <3>0, <4>1, OneCommandMoves
                DEF Moves, Holding, Registering
      <3> QED BY <2>h, <3>1, <3>2 DEF Config!Verify
    <2>i. CASE Config!Persist(w)
      <3>0. op[w].at = "verified" /\ UNCHANGED <<torn, registry>>
        BY <2>i DEF Config!Persist, Config!At
      <3>1. CASE Config!Save(w) /\ Config!Finish(w)
        <4>1. Moves(w, Config!Idle) /\ (lock' = lock \/ lock = w)
          BY <3>1, <2>4, CommandsMove DEF Config!Save
        <4>2. op[w].at \in Holding
          BY <3>0 DEF Holding
        <4>3. file' = saved' /\ saved' \in Docs
          BY <2>0, <3>1, <4>2, SavedAsPatched
        <4> QED BY <1>0, <2>1, <3>0, <4>1, <4>2, <4>3, OneCommandMoves
                DEF Moves, Holding, Registering
      <3>2. CASE Config!Fail(w) /\ UNCHANGED <<file, saved>>
        <4>1. Moves(w, failed) /\ (lock' = lock \/ lock = w)
          BY <3>2, <2>3, <2>4, CommandsMove DEF Config!Fail
        <4> QED BY <1>0, <2>0, <2>2, <2>3, <3>0, <3>2, <4>1, OneCommandMoves
                DEF Moves, Holding, Registering
      <3> QED BY <2>i, <3>1, <3>2 DEF Config!Persist
    <2>j. CASE Config!CompareBack(w)
      <3>0. op[w].at = "failed" /\ UNCHANGED <<file, saved, registry, lock>> /\ torn' \in BOOLEAN
        BY <2>j, <1>0 DEF Config!CompareBack, Config!At
      <3>1. Moves(w, [op[w] EXCEPT !.at = "undoing"]) \/ Moves(w, back)
        BY <2>j, <2>3, CommandsMove DEF Config!CompareBack
      <3> QED BY <1>0, <2>0, <2>1, <2>2, <2>3, <3>0, <3>1, OneCommandMoves
              DEF Moves, Holding, Registering
    <2>k. CASE Config!Undo(w)
      <3>1. Moves(w, back)
        BY <2>k, CommandsMove DEF Config!Undo
      <3>2. registry'.value \in Values
        BY <2>k, <1>0, <2>0 DEF Config!Undo, Commands
      <3>3. torn' \in BOOLEAN
        BY <2>k, <1>0 DEF Config!Undo
      <3>4. UNCHANGED <<file, saved, lock>>
        BY <2>k DEF Config!Undo
      <3> QED BY <2>1, <3>1, <3>2, <3>3, <3>4, OneCommandMoves DEF Moves, Holding, Registering
    <2>l. CASE Config!Crash(w)
      <3>1. Moves(w, Config!Idle) /\ (lock' = lock \/ lock = w) /\ torn' \in BOOLEAN
        BY <2>l, <1>0, <2>4, CommandsMove DEF Config!Crash
      <3> QED BY <2>l, <1>0, <2>1, <3>1, OneCommandMoves DEF Config!Crash, Moves, Holding, Registering
    <2> QED BY <1>1, <2>a, <2>b, <2>c, <2>d, <2>e, <2>f, <2>g, <2>h, <2>i, <2>j, <2>k, <2>l
            DEF Config!Writer
  <1>2. CASE Config!OthersRegister
    <2>1. registry'.value \in Values /\ torn' \in BOOLEAN /\ UNCHANGED <<file, lock, op, saved>>
      BY <1>2 DEF Config!OthersRegister, Values
    <2> QED BY <2>1 DEF Locked
  <1> QED BY <1>1, <1>2 DEF Config!Next

\* A command that has registered nothing begins, ends or waits.
LEMMA SettledElsewhere ==
    ASSUME Locked, Settlement, NEW w \in Writers, NEW c \in Commands,
           op' = [op EXCEPT ![w] = c], UNCHANGED <<registry, before>>,
           ~Written(w), ~Undecided(w), c.at \notin Registering
    PROVE  Settlement'
  <1>1. \A v \in Writers : op'[v] = IF v = w THEN c ELSE op[v]
    BY DEF Locked
  <1>2. ~Written(w)' /\ ~Undecided(w)'
    BY <1>1 DEF Written, Undecided, Registering
  <1>3. \A v \in Writers : v # w => (Written(v)' <=> Written(v)) /\ (Undecided(v)' <=> Undecided(v))
    BY <1>1 DEF Written, Undecided
  <1>4. \A v \in Writers : v # w => Config!Intended(v)' = Config!Intended(v)
    BY <1>1 DEF Config!Intended
  <1>5. \A v \in Writers : Written(v)' => registry'.value = Config!Intended(v)'
    BY <1>2, <1>3, <1>4 DEF Settlement
  <1>6. \A v, u \in Writers : Written(v)' /\ Undecided(u)' => registry'.author # u
    BY <1>2, <1>3 DEF Settlement
  <1>7. \A v \in Writers : op'[v].settled /\ op'[v].at \in {"noted", "written", "verified"} =>
            op'[v].prior = before' /\ \A u \in Writers : ~Undecided(u)'
    BY <1>1, <1>2, <1>3 DEF Settlement, Registering
  <1>8. \A v \in Writers : op'[v].settled /\ Undecided(v)' /\ registry'.author = v =>
            op'[v].prior = before'
    BY <1>1, <1>2, <1>3 DEF Settlement
  <1>9. \A v, u \in Writers :
            /\ op'[v].settled /\ op'[v].at \in Registering
            /\ op'[u].settled /\ op'[u].at \in Registering
            => v = u
    BY <1>1 DEF Settlement
  <1>10. \/ registry'.value = before'
         \/ \E v \in Writers : /\ Written(v)' \/ Undecided(v)'
                               /\ op'[v].settled => registry'.author = v
    BY <1>1, <1>3 DEF Settlement
  <1> QED BY <1>5, <1>6, <1>7, <1>8, <1>9, <1>10 DEF Settlement

\* While one process notes, registers or verifies, no other does.
LEMMA OneRegisters ==
    ASSUME Locked, NEW w \in Writers, op[w].at \in Holding
    PROVE  \A v \in Writers : v # w =>
              ~Written(v) /\ op[v].at \notin {"noted", "written", "verified"}
  BY OneHolder DEF Written, Holding

LEMMA SettledByNote ==
    ASSUME Locked, Settlement, NEW w \in Writers, Config!NotePrior(w)
    PROVE  Settlement'
  <1>0. op[w].at = "open" /\ UNCHANGED <<registry, before>>
    BY DEF Config!NotePrior, Config!At, Config!historyVars
  <1>1. CASE registry.value = "foreign"
    <2>1. Moves(w, [Config!Idle EXCEPT !.at = "locking"])
      BY <1>1, CommandsMove DEF Config!NotePrior
    <2>2. [Config!Idle EXCEPT !.at = "locking"].at = "locking"
      BY DEF Config!Idle
    <2> QED BY <1>0, <2>1, <2>2, SettledElsewhere DEF Moves, Written, Undecided, Registering
  <1>2. CASE registry.value # "foreign"
    <2> DEFINE c == Note(w)
    <2>0. /\ op' = [op EXCEPT ![w] = c] /\ c.at = "noted" /\ c.prior = registry.value
          /\ c.settled = (\A v \in Writers : ~Config!Undecided(v))
      BY <1>2, Noted
    <2> HIDE DEF c
    <2>1. \A v \in Writers : op'[v] = IF v = w THEN c ELSE op[v]
      BY <2>0 DEF Locked
    <2>2. c.settled => \A v \in Writers : ~Undecided(v)
      BY <2>0 DEF Undecided, Config!Undecided
    <2>3. \A v \in Writers : ~Written(v)
      BY <1>0, OneRegisters DEF Holding, Written
    <2>4. \A v \in Writers : ~Written(v)' /\ (Undecided(v)' <=> Undecided(v))
      BY <1>0, <2>0, <2>1, <2>3 DEF Written, Undecided
    <2>5. c.settled => registry.value = before
      BY <2>2, <2>3 DEF Settlement
    <2>6. \A v \in Writers : op'[v].settled /\ op'[v].at \in {"noted", "written", "verified"} =>
              op'[v].prior = before' /\ \A u \in Writers : ~Undecided(u)'
      BY <1>0, <2>0, <2>1, <2>2, <2>4, <2>5, OneRegisters DEF Holding
    <2>7. \A v \in Writers : op'[v].settled /\ Undecided(v)' /\ registry'.author = v =>
              op'[v].prior = before'
      BY <1>0, <2>0, <2>1, <2>4 DEF Settlement, Undecided
    <2>8. \A v \in Writers \ {w} : c.settled => op[v].at \notin Registering
      BY <1>0, <2>2, OneRegisters DEF Holding, Registering, Undecided
    <2>9. \A v, u \in Writers :
              /\ op'[v].settled /\ op'[v].at \in Registering
              /\ op'[u].settled /\ op'[u].at \in Registering
              => v = u
      BY <2>1, <2>8 DEF Settlement
    <2>10. \/ registry'.value = before'
           \/ \E v \in Writers : /\ Written(v)' \/ Undecided(v)'
                                 /\ op'[v].settled => registry'.author = v
      <3>1. SUFFICES ASSUME registry.value # before
                     PROVE  \E v \in Writers : Undecided(v)' /\ (op'[v].settled => registry'.author = v)
        BY <1>0
      <3>2. PICK v \in Writers : Undecided(v) /\ (op[v].settled => registry.author = v)
        BY <2>3, <3>1 DEF Settlement
      <3>3. v # w
        BY <1>0, <3>2 DEF Undecided
      <3> QED BY <1>0, <2>1, <2>4, <3>2, <3>3
    <2> QED BY <1>0, <2>4, <2>6, <2>7, <2>9, <2>10 DEF Settlement
  <1> QED BY <1>1, <1>2

\* The change is registered.
LEMMA SettledByWriting ==
    ASSUME Locked, Settlement, NEW w \in Writers, op[w].at = "noted", before' = before,
           registry' = [value |-> Config!Intended(w), author |-> w], Config!Go(w, "written")
    PROVE  Settlement'
  <1> DEFINE c == [op[w] EXCEPT !.at = "written"]
  <1>0. op[w] \in Commands /\ op \in [Writers -> Commands]
    BY DEF Locked
  <1>1. \A v \in Writers : op'[v] = IF v = w THEN c ELSE op[v]
    BY <1>0 DEF Config!Go
  <1>2. c.at = "written" /\ c.kind = op[w].kind /\ c.prior = op[w].prior /\ c.settled = op[w].settled
    BY <1>0 DEF Commands
  <1> HIDE DEF c
  <1>3. \A v \in Writers : v # w => ~Written(v) /\ op[v].at \notin {"noted", "written", "verified"}
    BY OneRegisters DEF Holding
  <1>4. \A v \in Writers : (Written(v)' <=> v = w) /\ (Undecided(v)' <=> Undecided(v))
    BY <1>1, <1>2, <1>3 DEF Written, Undecided
  <1>5. Config!Intended(w)' = Config!Intended(w) /\ ~Undecided(w)
    BY <1>1, <1>2 DEF Config!Intended, Undecided
  <1>6. \A v \in Writers : op'[v].settled /\ op'[v].at \in {"noted", "written", "verified"} =>
            op'[v].prior = before' /\ \A u \in Writers : ~Undecided(u)'
    BY <1>1, <1>2, <1>3, <1>4 DEF Settlement
  <1>7. \A v, u \in Writers : Written(v)' /\ Undecided(u)' => registry'.author # u
    BY <1>4, <1>5
  <1>8. \A v \in Writers : op'[v].settled /\ Undecided(v)' /\ registry'.author = v =>
            op'[v].prior = before'
    BY <1>4, <1>5
  <1>9. \A v, u \in Writers :
            /\ op'[v].settled /\ op'[v].at \in Registering
            /\ op'[u].settled /\ op'[u].at \in Registering
            => v = u
    BY <1>1, <1>2 DEF Settlement, Registering
  <1>10. Written(w)' /\ registry'.author = w
    BY <1>4
  <1> QED BY <1>4, <1>5, <1>6, <1>7, <1>8, <1>9, <1>10 DEF Settlement

\* It fails, or the file cannot be written.
LEMMA SettledByFailing ==
    ASSUME Locked, Settlement, NEW w \in Writers, op[w].at \in {"noted", "verified"},
           UNCHANGED <<registry, before>>, Config!Go(w, "failed")
    PROVE  Settlement'
  <1> DEFINE c == [op[w] EXCEPT !.at = "failed"]
  <1>0. op[w] \in Commands /\ op \in [Writers -> Commands]
    BY DEF Locked
  <1>1. \A v \in Writers : op'[v] = IF v = w THEN c ELSE op[v]
    BY <1>0 DEF Config!Go
  <1>2. c.at = "failed" /\ c.kind = op[w].kind /\ c.prior = op[w].prior /\ c.settled = op[w].settled
    BY <1>0 DEF Commands
  <1> HIDE DEF c
  <1>3. \A v \in Writers : v # w => ~Written(v) /\ op[v].at \notin {"noted", "written", "verified"}
    BY OneRegisters DEF Holding
  <1>4. \A v \in Writers : ~Written(v)' /\ (Undecided(v)' <=> v = w \/ Undecided(v))
    BY <1>1, <1>2, <1>3 DEF Written, Undecided
  <1>5. \A v \in Writers : op'[v].at \notin {"noted", "written", "verified"}
    BY <1>1, <1>2, <1>3
  <1>6. \A v \in Writers : op'[v].settled /\ Undecided(v)' /\ registry'.author = v =>
            op'[v].prior = before'
    BY <1>1, <1>2, <1>4 DEF Settlement
  <1>7. \A v, u \in Writers :
            /\ op'[v].settled /\ op'[v].at \in Registering
            /\ op'[u].settled /\ op'[u].at \in Registering
            => v = u
    BY <1>1, <1>2 DEF Settlement, Registering
  <1>8. \/ registry'.value = before'
        \/ \E v \in Writers : /\ Written(v)' \/ Undecided(v)'
                              /\ op'[v].settled => registry'.author = v
    BY <1>1, <1>2, <1>3, <1>4 DEF Settlement
  <1> QED BY <1>4, <1>5, <1>6, <1>7, <1>8 DEF Settlement

\* The command goes on at a place of the same kind.
LEMMA SettledOnTheWay ==
    ASSUME Locked, Settlement, NEW w \in Writers, UNCHANGED <<registry, before>>,
           \/ op[w].at = "written" /\ Config!Go(w, "verified")
           \/ op[w].at = "failed" /\ Config!Go(w, "undoing")
    PROVE  Settlement'
  <1>0. op[w] \in Commands /\ op \in [Writers -> Commands]
    BY DEF Locked
  <1>1. PICK at \in {"verified", "undoing"} :
           /\ op' = [op EXCEPT ![w] = [op[w] EXCEPT !.at = at]]
           /\ op[w].at = IF at = "verified" THEN "written" ELSE "failed"
    BY <1>0 DEF Config!Go
  <1> DEFINE c == [op[w] EXCEPT !.at = at]
  <1>2. \A v \in Writers : op'[v] = IF v = w THEN c ELSE op[v]
    BY <1>0, <1>1
  <1>3. c.at = at /\ c.kind = op[w].kind /\ c.prior = op[w].prior /\ c.settled = op[w].settled
    BY <1>0 DEF Commands
  <1> HIDE DEF c
  <1>4. \A v \in Writers :
            /\ Written(v)' <=> Written(v)
            /\ Undecided(v)' <=> Undecided(v)
            /\ Config!Intended(v)' = Config!Intended(v)
            /\ op'[v].prior = op[v].prior /\ (op'[v].settled <=> op[v].settled)
            /\ (op'[v].at \in Registering <=> op[v].at \in Registering)
            /\ (op'[v].at \in {"noted", "written", "verified"}
                   <=> op[v].at \in {"noted", "written", "verified"})
    BY <1>1, <1>2, <1>3 DEF Written, Undecided, Config!Intended, Registering
  <1> QED BY <1>4 DEF Settlement

\* It is saved: what others noted before is not what they may put back.
LEMMA SettledBySaving ==
    ASSUME Locked, Settlement, NEW w \in Writers, op[w].at = "verified",
           op' = [op EXCEPT ![w] = Config!Idle],
           registry' = registry, before' = Config!Intended(w)
    PROVE  Settlement'
  <1>1. \A v \in Writers : op'[v] = IF v = w THEN Config!Idle ELSE op[v]
    BY DEF Locked
  <1>2. Config!Idle.at = "idle"
    BY DEF Config!Idle
  <1>3. \A v \in Writers : v # w => ~Written(v) /\ op[v].at \notin {"noted", "written", "verified"}
    BY OneRegisters DEF Holding
  <1>4. \A v \in Writers : /\ ~Written(v)'
                           /\ Undecided(v)' <=> Undecided(v)
                           /\ op'[v].at \notin {"noted", "written", "verified"}
    BY <1>1, <1>2, <1>3 DEF Written, Undecided
  <1>5. Written(w)
    BY DEF Written
  <1>6. registry'.value = before'
    BY <1>5 DEF Settlement
  <1>7. \A v \in Writers : Undecided(v)' => registry'.author # v
    BY <1>4, <1>5 DEF Settlement
  <1>8. \A v, u \in Writers :
            /\ op'[v].settled /\ op'[v].at \in Registering
            /\ op'[u].settled /\ op'[u].at \in Registering
            => v = u
    BY <1>1, <1>2 DEF Settlement, Registering
  <1> QED BY <1>4, <1>6, <1>7, <1>8 DEF Settlement

\* What is put back is what was saved, or what is there; or the answer says that the
\* two may differ.
LEMMA SettledByUndoing ==
    ASSUME Locked, Settlement, NEW w \in Writers, Config!Undo(w), ~torn'
    PROVE  Settlement'
  <1> DEFINE c == [Config!Idle EXCEPT !.at = "locking"]
  <1>0. /\ op[w].at = "undoing" /\ before' = before
        /\ op[w].settled
        /\ op[w].prior = registry.value \/ registry.author = w
        /\ registry' = [value |-> op[w].prior, author |-> w]
        /\ op' = [op EXCEPT ![w] = c]
    BY DEF Config!Undo, Config!UndoesAnother, Config!Reread, Config!At
  <1>1. \A v \in Writers : op'[v] = IF v = w THEN c ELSE op[v]
    BY <1>0 DEF Locked
  <1>2. c.at = "locking"
    BY DEF Config!Idle
  <1> HIDE DEF c
  <1>3. Undecided(w) /\ ~Written(w)
    BY <1>0 DEF Undecided, Written
  <1>4. \A v \in Writers : /\ Written(v)' <=> Written(v)
                           /\ Undecided(v)' <=> v # w /\ Undecided(v)
                           /\ v # w => op'[v] = op[v]
    BY <1>0, <1>1, <1>2 DEF Written, Undecided
  <1>5. ASSUME NEW v \in Writers, Written(v)
        PROVE  registry'.value = Config!Intended(v)'
    <2>1. registry.author # w /\ v # w
      BY <1>3, <1>5 DEF Settlement
    <2>2. registry'.value = registry.value
      BY <1>0, <2>1
    <2> QED BY <1>5, <1>4, <2>1, <2>2 DEF Settlement, Config!Intended
  <1>6. \A v, u \in Writers : Written(v)' /\ Undecided(u)' => registry'.author # u
    BY <1>0, <1>4
  <1>7. \A v \in Writers : op'[v].settled /\ op'[v].at \in {"noted", "written", "verified"} =>
            op'[v].prior = before' /\ \A u \in Writers : ~Undecided(u)'
    BY <1>0, <1>1, <1>2, <1>4 DEF Settlement
  <1>8. \A v \in Writers : op'[v].settled /\ Undecided(v)' /\ registry'.author = v =>
            op'[v].prior = before'
    BY <1>0, <1>4
  <1>9. \A v, u \in Writers :
            /\ op'[v].settled /\ op'[v].at \in Registering
            /\ op'[u].settled /\ op'[u].at \in Registering
            => v = u
    BY <1>1, <1>2 DEF Settlement, Registering
  <1>10. \/ registry'.value = before'
         \/ \E v \in Writers : /\ Written(v)' \/ Undecided(v)'
                               /\ op'[v].settled => registry'.author = v
    <2>1. CASE registry.author = w
      BY <1>0, <1>3, <2>1 DEF Settlement
    <2>2. CASE registry.author # w /\ registry.value # before
      <3>1. PICK v \in Writers : /\ Written(v) \/ Undecided(v)
                                 /\ op[v].settled => registry.author = v
        BY <2>2 DEF Settlement
      <3>2. v # w
        BY <1>0, <2>2, <3>1
      <3>3. op[v].at \in Registering /\ op[w].at \in Registering
        BY <1>0, <3>1 DEF Written, Undecided, Registering
      <3>4. ~op[v].settled
        BY <1>0, <3>2, <3>3 DEF Settlement
      <3> QED BY <1>4, <3>1, <3>2, <3>4
    <2>3. CASE registry.author # w /\ registry.value = before
      BY <1>0, <2>3
    <2> QED BY <2>1, <2>2, <2>3
  <1> QED BY <1>4, <1>5, <1>6, <1>7, <1>8, <1>9, <1>10 DEF Settlement

LEMMA SettlementIsKept ==
    ASSUME Config!AutostartAssumption, Locked, torn \/ Settlement, Config!Next
    PROVE  torn' \/ Settlement'
  <1>1. torn => torn'
    BY DEF Config!Next, Config!Writer, Config!historyVars, Config!Start, Config!Acquire,
           Config!Busy, Config!Look, Config!Commit, Config!NotePrior, Config!Register,
           Config!Verify, Config!Persist, Config!CompareBack, Config!Undo, Config!Crash,
           Config!OthersRegister
  <1>2. SUFFICES ASSUME Settlement, ~torn'
                 PROVE  Settlement'
    BY <1>1
  <1>3. PICK w \in Writers : Config!Writer(w) \/ Config!Crash(w)
    BY <1>2 DEF Config!Next, Config!OthersRegister
  <1> DEFINE back == [Config!Idle EXCEPT !.at = "locking"]
  <1>4. Config!Idle.at = "idle" /\ back.at = "locking"
    BY DEF Config!Idle
  <1>5. /\ Config!Finish(w) => Moves(w, Config!Idle)
        /\ Config!Reread(w) => Moves(w, back)
    BY CommandsMove
  <1>a. CASE Config!Start(w)
    <2>1. PICK kind \in Kinds :
              op' = [op EXCEPT ![w] = [Config!Idle EXCEPT !.at = "locking", !.kind = kind]]
      BY <1>a DEF Config!Start
    <2> DEFINE c == [Config!Idle EXCEPT !.at = "locking", !.kind = kind]
    <2>2. c \in Commands /\ c.at = "locking"
      BY Documents DEF Config!Idle, Commands, OpPlaces, Values, Config!AutostartAssumption
    <2> QED BY <1>a, <1>2, <2>1, <2>2, SettledElsewhere
            DEF Config!Start, Config!At, Config!historyVars, Written, Undecided, Registering
  <1>b. CASE Config!Acquire(w)
    <2>1. PICK c \in Commands : op' = [op EXCEPT ![w] = c] /\ c.at = "open" /\ c.doc = saved
      BY <1>b, Opened
    <2> QED BY <1>b, <1>2, <2>1, SettledElsewhere
            DEF Config!Acquire, Config!At, Config!historyVars, Written, Undecided, Registering
  <1>c. CASE Config!Busy(w) \/ Config!Look(w) \/ Config!Commit(w)
    <2>1. Moves(w, Config!Idle) \/ Moves(w, back)
      BY <1>c, <1>5 DEF Config!Busy, Config!Look, Config!Commit
    <2>2. op[w].at \in {"locking", "open"} /\ UNCHANGED <<registry, before>>
      BY <1>c DEF Config!Busy, Config!Look, Config!Commit, Config!At, Config!historyVars
    <2> QED BY <1>2, <1>4, <2>1, <2>2, SettledElsewhere DEF Moves, Written, Undecided, Registering
  <1>d. CASE Config!NotePrior(w)
    BY <1>d, <1>2, SettledByNote
  <1>e. CASE Config!Register(w)
    <2>1. op[w].at = "noted" /\ before' = before
      BY <1>e DEF Config!Register, Config!At, Config!historyVars
    <2>2. \/ /\ registry' = [value |-> Config!Intended(w), author |-> w]
             /\ Config!Go(w, "written")
          \/ Config!Go(w, "failed") /\ registry' = registry
      BY <1>e DEF Config!Register, Config!Fail
    <2> QED BY <1>2, <2>1, <2>2, SettledByWriting, SettledByFailing
  <1>f. CASE Config!Verify(w)
    <2>1. op[w].at = "written" /\ UNCHANGED <<registry, before>>
      BY <1>f DEF Config!Verify, Config!At, Config!historyVars
    <2>2. registry.value = Config!Intended(w)
      BY <1>2, <2>1 DEF Settlement, Written
    <2>3. Config!Go(w, "verified")
      BY <1>f, <2>2 DEF Config!Verify
    <2> QED BY <1>2, <2>1, <2>3, SettledOnTheWay
  <1>g. CASE Config!Persist(w)
    <2>1. op[w].at = "verified" /\ registry' = registry
      BY <1>g DEF Config!Persist, Config!At
    <2>2. \/ Moves(w, Config!Idle) /\ before' = Config!Intended(w)
          \/ Config!Go(w, "failed") /\ before' = before
      BY <1>g, <1>5 DEF Config!Persist, Config!Fail
    <2> QED BY <1>2, <2>1, <2>2, SettledBySaving, SettledByFailing DEF Moves
  <1>h. CASE Config!CompareBack(w)
    <2>1. op[w].at = "failed" /\ UNCHANGED <<registry, before>> /\ Config!Go(w, "undoing")
      BY <1>h, <1>2 DEF Config!CompareBack, Config!At
    <2> QED BY <1>2, <2>1, SettledOnTheWay
  <1>i. CASE Config!Undo(w)
    BY <1>i, <1>2, SettledByUndoing
  <1>j. CASE Config!Crash(w)
    <2>1. Moves(w, Config!Idle) /\ UNCHANGED <<registry, before>>
      BY <1>j, <1>5 DEF Config!Crash
    <2>2. ~Written(w) /\ ~Undecided(w)
      BY <1>j, <1>2 DEF Config!Crash, Written, Undecided
    <2> QED BY <1>2, <1>4, <2>1, <2>2, SettledElsewhere DEF Moves, Registering
  <1> QED BY <1>3, <1>a, <1>b, <1>c, <1>d, <1>e, <1>f, <1>g, <1>h, <1>i, <1>j DEF Config!Writer

-----------------------------------------------------------------------------
(* The configuration and the login entry. *)

LEMMA ConfigInitially ==
    ASSUME Config!AutostartAssumption, Config!Init
    PROVE  ConfigInvariant
  <1>1. \A w \in Writers : op[w] = Config!Idle
    BY DEF Config!Init
  <1>2. Config!Idle \in Commands /\ Config!Idle.at = "idle"
    BY Documents DEF Config!Idle, Commands, OpPlaces, Values, Config!AllKinds
  <1>3. op \in [Writers -> Commands]
    BY <1>2 DEF Config!Init
  <1>4. Locked
    BY <1>1, <1>2, <1>3, Documents DEF Config!Init, Locked, Holding, Registering, Values
  <1>5. Settlement
    BY <1>1, <1>2 DEF Config!Init, Settlement, Written, Undecided, Registering
  <1> QED BY <1>4, <1>5 DEF ConfigInvariant

LEMMA ConfigIsKept ==
    ASSUME Config!AutostartAssumption, ConfigInvariant, [Config!Next]_configVars
    PROVE  ConfigInvariant'
  <1>1. CASE Config!Next
    BY <1>1, LockedIsKept, SettlementIsKept DEF ConfigInvariant
  <1>2. CASE UNCHANGED configVars
    BY <1>2 DEF configVars, ConfigInvariant, Locked, Settlement, Written, Undecided, Config!Intended
  <1> QED BY <1>1, <1>2

LEMMA ConfigSuffices ==
    ASSUME ConfigInvariant
    PROVE  Config!AutostartIsSound
  <1>1. Config!NothingIsLost
    BY DEF ConfigInvariant, Locked, Config!NothingIsLost
  <1>2. Config!BothOrNeither
    BY DEF ConfigInvariant, Settlement, Written, Undecided, Config!BothOrNeither
  <1> QED BY <1>1, <1>2 DEF Config!AutostartIsSound

\* However many processes change the settings of one user, whatever fails and
\* whoever dies: no saved change is lost (config.rs, ConfigMutation), and a login
\* setting is in the registry and in the file or in neither, unless the answer said
\* otherwise, a process died halfway or others interfered (autostart.rs).
THEOREM ConfigCorrect ==
    Config!AutostartAssumption /\ Config!Spec => []Config!AutostartIsSound
  <1>1. Config!AutostartAssumption /\ Config!Init => ConfigInvariant
    BY ConfigInitially
  <1>2. Config!AutostartAssumption /\ ConfigInvariant /\ [Config!Next]_Config!vars
            => ConfigInvariant'
    BY ConfigIsKept DEF configVars, Config!vars
  <1>3. ConfigInvariant => Config!AutostartIsSound
    BY ConfigSuffices
  <1>4. Config!AutostartAssumption' <=> Config!AutostartAssumption
    BY DEF Config!AutostartAssumption
  <1> QED BY <1>1, <1>2, <1>3, <1>4, PTL DEF Config!Spec

-----------------------------------------------------------------------------
(* The parts of the run. *)

\* What holds of whichever part runs.
PartInvariant ==
    /\ part \in {"together", "faulty"} => SupervisionInvariant
    /\ part = "config" => ConfigInvariant

LEMMA PartIsKept ==
    ASSUME PartInvariant, [ControlNext]_<<part, vars, configVars, libraryVars>>
    PROVE  PartInvariant'
  <1>0. SupervisionAssumption /\ Config!AutostartAssumption
    BY ControlAssumption
  <1>1. part' = part
    BY DEF ControlNext
  <1>2. CASE part \in {"together", "faulty"}
    <2>1. [Next]_vars
      BY <1>2 DEF ControlNext
    <2> QED BY <1>0, <1>1, <1>2, <2>1, InvariantIsKept DEF PartInvariant
  <1>3. CASE part = "config"
    <2>1. [Config!Next]_configVars
      BY <1>3 DEF ControlNext
    <2> QED BY <1>0, <1>1, <1>3, <2>1, ConfigIsKept DEF PartInvariant
  <1> QED BY <1>1, <1>2, <1>3 DEF PartInvariant

\* The recorders of a user, the apps that start them and the processes that change
\* the configuration are sound in every part that ControlMC runs, for any apps,
\* recorders and writers.
THEOREM ControlCorrect == ControlSpec => []ControlIsSound
  <1>1. ControlInit => PartInvariant
    BY ControlAssumption, InvariantInitially, ConfigInitially DEF ControlInit, PartInvariant
  <1>2. PartInvariant /\ [ControlNext]_<<part, vars, configVars, libraryVars>> => PartInvariant'
    BY PartIsKept
  <1>3. PartInvariant => ControlIsSound
    BY ControlAssumption, InvariantSuffices, ConfigSuffices DEF PartInvariant, ControlIsSound
  <1> QED BY <1>1, <1>2, <1>3, PTL DEF ControlSpec
=============================================================================
