----------------------- MODULE RecordingServiceProofs -----------------------
(***************************************************************************)
(* Theorems about RecordingService, for any set of game processes.  The    *)
(* inductive invariant Inv says who owns every capture at each stage of    *)
(* the loop, and why a process that was recorded once is not admitted      *)
(* again: it has ended, or its handle still decides the tick and the retry *)
(* state blocks it.                                                        *)
(***************************************************************************)
EXTENDS RecordingService, TLAPS

Stages == {"settle", "observe", "admit"}

\* Every startup task and capture has the owner its phase implies; only a
\* loop that failed leaves a cancelled startup without one.
Ownership ==
    /\ \A p \in Processes :
        /\ attempt[p].phase \in {"waiting", "native", "ready", "failed",
                                 "panicked"} => starting = p \/ pc = "failed"
        /\ attempt[p].phase = "recording" => active = p
        /\ attempt[p].phase = "closing" => pc = "closing" /\ closing.process = p
        /\ attempt[p].phase = "failed" => attempt[p].disposition # "none"
    /\ starting # NoProcess =>
        attempt[starting].phase \in {"waiting", "native", "ready", "failed",
                                     "panicked"}
    /\ active # NoProcess => attempt[active].phase = "recording"
    /\ pc = "closing" => closing.process # NoProcess

\* What the loop owns at each stage.
Staging ==
    /\ pc = "joining" => starting # NoProcess
    /\ pc = "retire" => starting = NoProcess
    /\ pc \in {"closing", "reset", "block", "skip", "maintenance", "stopped",
               "failed"} => active = NoProcess /\ starting = NoProcess
    /\ stopping => pc \in {"cancel", "joining", "retire", "closing", "reset",
                           "maintenance", "stopped"}
    /\ stopping /\ pc = "closing" => closing.next \in {"retire", "reset"}
    /\ pc \in {"maintenance", "stopped"} => stopping

\* A graph outlives its owner only after the loop failed, and then alone.
Single ==
    \A p, q \in Processes :
        attempt[p].phase # "none" /\ attempt[q].phase # "none" => p = q

\* An owned process is the one the tick works on; its owner is retired only
\* after it ended.
Tracking ==
    \A p \in Processes :
        active = p \/ starting = p =>
            /\ pc \in Stages => current = p
            /\ pc \in Stages \cup {"select"} => previous = p
            /\ pc \in {"cancel", "joining", "retire"} /\ ~stopping =>
                life[p] = "ended"

\* A recording is closed for publication only after its process ended.
Closing ==
    pc = "closing" => closing.required \/ closing.failed \/ stopping

\* The process of the recording given up last stays current, with the retry
\* state against it, as long as it lives.
Blocking ==
    blocked # NoProcess /\ life[blocked] # "ended" /\ ~stopping
        /\ pc # "failed" =>
        /\ active = NoProcess /\ starting = NoProcess
        /\ previous = blocked /\ current = blocked
        /\ pc \in Stages \cup {"select", "closing", "block", "skip"}
        /\ pc = "closing" => closing.next \in {"block", "skip"}
        /\ pc \in Stages \cup {"select"} =>
            retry.process = blocked /\ retry.terminal

\* A recorded process is active, blocked or gone.
Accounted ==
    /\ \A p \in recorded : \/ active = p \/ blocked = p
                           \/ life[p] = "ended" \/ stopping \/ pc = "failed"
    /\ starting # NoProcess => starting \notin recorded

\* The projection follows the owner except while a recording is closed.
Projection ==
    /\ status.service = "available" /\ pc # "closing" =>
        /\ status.activity = "recording" <=> active # NoProcess
        /\ status.activity = "starting" => starting # NoProcess
        /\ status.activity # "finalizing"
    /\ pc = "failed" => status.service = "failed"

Inv == /\ TypeOK /\ Ownership /\ Staging /\ Single /\ Tracking /\ Closing
       /\ Blocking /\ Accounted /\ Projection

-----------------------------------------------------------------------------
\* The projection keeps its type.
LEMMA StatusType ==
  ASSUME NEW s \in Status
  PROVE  /\ \A a \in Activities : Capture(s, a) \in Status
         /\ \A b \in {"startup", "finalization"} : CaptureError(s, b) \in Status
         /\ \A c \in {"stopping", "stopped"} : Become(s, c) \in Status
BY DEF Capture, CaptureError, Become, Status, Activities

\* So does the retry state.
LEMMA RetryType ==
  ASSUME retry \in Retry
  PROVE  /\ NoRetry \in Retry
         /\ \A p \in Option : BlockActiveProcess(p) \in Retry
         /\ \A p \in Processes, d \in Dispositions \ {"none"} :
                RecordFailure(p, d) \in Retry
<1>1. NoRetry \in Retry
  BY DEF NoRetry, Retry, Option
<1>2. ASSUME NEW p \in Option PROVE BlockActiveProcess(p) \in Retry
  BY DEF BlockActiveProcess, Retry
<1>3. ASSUME NEW p \in Processes, NEW d \in Dispositions \ {"none"}
      PROVE  RecordFailure(p, d) \in Retry
  <2>1. CASE d = "cancelled"
    BY <1>1, <2>1 DEF RecordFailure
  <2>2. CASE d = "retryable"
    <3>1. (retry.process = p /\ retry.terminal) \in BOOLEAN
      BY DEF Retry
    <3> QED
      BY <2>2, <3>1 DEF RecordFailure, Retry, Option
  <2>3. CASE d = "terminal"
    BY <2>3 DEF RecordFailure, Retry, Option
  <2> QED
    BY <2>1, <2>2, <2>3 DEF Dispositions
<1> QED
  BY <1>1, <1>2, <1>3

\* A new or retired attempt has the type of one.
LEMMA NoAttemptType ==
  /\ NoAttempt \in Attempt
  /\ [NoAttempt EXCEPT !.phase = "waiting"] \in Attempt
BY DEF NoAttempt, Attempt, Dispositions

\* Closing a recording assigns well-formed values.
LEMMA CloseType ==
  ASSUME TypeOK, NEW p \in Processes, NEW failed \in BOOLEAN,
         NEW required \in BOOLEAN,
         NEW next \in {"retire", "reset", "observe", "block", "skip"},
         Close(p, failed, required, next)
  PROVE  /\ closing' \in Stop /\ attempt' \in [Processes -> Attempt]
         /\ status' \in Status /\ pc' = "closing"
<1>1. attempt[p].stalled \in BOOLEAN /\ attempt[p].exited \in BOOLEAN
  BY DEF TypeOK, Attempt
<1>2. closing' \in Stop
  BY <1>1 DEF Close, Stop, Option
<1>3. [attempt[p] EXCEPT !.phase = "closing"] \in Attempt
  BY DEF TypeOK, Attempt
<1>4. attempt' \in [Processes -> Attempt]
  BY <1>3 DEF Close, TypeOK
<1>5. status' \in Status
  BY StatusType DEF Close, TypeOK, Activities
<1> QED
  BY <1>2, <1>4, <1>5 DEF Close

\* What the environment does keeps the invariant.
LEMMA EnvironmentStep ==
  ASSUME Inv, Environment
  PROVE  Inv'
<1> USE ServiceAssumption DEF Inv
<1>1. ASSUME NEW r \in Processes, ProcessStarts(r) PROVE Inv'
  <2>1. TypeOK'
    BY <1>1 DEF ProcessStarts, TypeOK, external, history
  <2>2. /\ Ownership' /\ Staging' /\ Single' /\ Tracking'
        /\ Closing' /\ Blocking' /\ Accounted' /\ Projection'
    BY <1>1 DEF ProcessStarts, Ownership, Staging, Single, Tracking,
      Closing, Blocking, Accounted, Projection, history, TypeOK
  <2> QED
    BY <2>1, <2>2
<1>2. ASSUME NEW r \in Processes, ProcessEnds(r) PROVE Inv'
  <2>1. TypeOK'
    BY <1>2 DEF ProcessEnds, TypeOK, external, history
  <2>2. /\ Ownership' /\ Staging' /\ Single' /\ Tracking'
        /\ Closing' /\ Blocking' /\ Accounted' /\ Projection'
    BY <1>2 DEF ProcessEnds, Ownership, Staging, Single, Tracking, Closing,
      Blocking, Accounted, Projection, history, TypeOK
  <2> QED
    BY <2>1, <2>2
<1>3. CASE RequestShutdown
  <2>1. TypeOK'
    BY <1>3 DEF RequestShutdown, TypeOK, external, history
  <2>2. /\ Ownership' /\ Staging' /\ Single' /\ Tracking'
        /\ Closing' /\ Blocking' /\ Accounted' /\ Projection'
    BY <1>3 DEF RequestShutdown, Ownership, Staging, Single, Tracking,
      Closing, Blocking, Accounted, Projection, history
  <2> QED
    BY <2>1, <2>2
<1>4. ASSUME NEW r \in Processes, CaptureBreaks(r) PROVE Inv'
  <2>1. TypeOK'
    <3>1. /\ [attempt[r] EXCEPT !.exited = TRUE] \in Attempt
          /\ [attempt[r] EXCEPT !.stalled = TRUE] \in Attempt
      BY DEF TypeOK, Attempt
    <3>2. attempt' \in [Processes -> Attempt]
      BY <1>4, <3>1 DEF CaptureBreaks, TypeOK
    <3> QED
      BY <1>4, <3>2 DEF CaptureBreaks, TypeOK, external, history
  <2>2. Ownership'
    BY <1>4 DEF CaptureBreaks, TypeOK, Ownership, Option, Attempt, history
  <2>3. Single'
    BY <1>4 DEF CaptureBreaks, TypeOK, Single, Attempt
  <2>4. /\ Staging' /\ Tracking' /\ Closing'
        /\ Blocking' /\ Accounted' /\ Projection'
    BY <1>4 DEF CaptureBreaks, Staging, Tracking, Closing, Blocking,
      Accounted, Projection, external, history
  <2> QED
    BY <2>1, <2>2, <2>3, <2>4
<1>5. ASSUME NEW r \in Processes, CleanupUnproven(r) PROVE Inv'
  <2>1. TypeOK'
    BY <1>5 DEF CleanupUnproven, TypeOK, external, history
  <2>2. /\ Ownership' /\ Staging' /\ Single' /\ Tracking'
        /\ Closing' /\ Blocking' /\ Accounted' /\ Projection'
    BY <1>5 DEF CleanupUnproven, Ownership, Staging, Single, Tracking,
      Closing, Blocking, Accounted, Projection, history
  <2> QED
    BY <2>1, <2>2
<1>6. CASE BackoffElapses
  <2>1. TypeOK'
    <3>1. retry' \in Retry
      BY <1>6 DEF BackoffElapses, TypeOK, Retry
    <3> QED
      BY <1>6, <3>1 DEF BackoffElapses, TypeOK, external, history
  <2>2. Blocking'
    BY <1>6 DEF BackoffElapses, Blocking, TypeOK, Retry, external
  <2>3. /\ Ownership' /\ Staging' /\ Single' /\ Tracking'
        /\ Closing' /\ Accounted' /\ Projection'
    BY <1>6 DEF BackoffElapses, Ownership, Staging, Single, Tracking,
      Closing, Accounted, Projection, external, history
  <2> QED
    BY <2>1, <2>2, <2>3
<1> QED
  BY <1>1, <1>2, <1>3, <1>4, <1>5, <1>6 DEF Environment

\* The steps of a startup task keep the invariant.
LEMMA StartupTaskStep ==
  ASSUME Inv, NEW p \in Processes, StartupTask(p)
  PROVE  Inv'
<1> USE ServiceAssumption DEF Inv
<1>1. ASSUME NEW r \in Processes, StartupAdmits(r) PROVE Inv'
  <2>1. TypeOK'
    <3>1. attempt' \in [Processes -> Attempt]
      BY <1>1 DEF StartupAdmits, TypeOK, Attempt, Dispositions
    <3>2. status' \in Status
      BY <1>1, StatusType DEF StartupAdmits, TypeOK, Activities
    <3> QED
      BY <1>1, <3>1, <3>2 DEF StartupAdmits, TypeOK, taskFrame, external,
        history
  <2>2. Ownership' /\ Single'
    BY <1>1 DEF StartupAdmits, TypeOK, Ownership, Single, Attempt,
      taskFrame, external, history
  <2>3. Projection'
    BY <1>1 DEF StartupAdmits, Projection, Ownership, Capture, TypeOK,
      Status, taskFrame, external, history
  <2>4. Staging' /\ Tracking' /\ Closing' /\ Blocking' /\ Accounted'
    BY <1>1 DEF StartupAdmits, Staging, Tracking, Closing, Blocking,
      Accounted, taskFrame, external, history
  <2> QED
    BY <2>1, <2>2, <2>3, <2>4
<1>2. ASSUME NEW r \in Processes, StartupRefuses(r) PROVE Inv'
  <2>1. TypeOK'
    <3>1. attempt' \in [Processes -> Attempt]
      BY <1>2 DEF StartupRefuses, Fail, TypeOK, Attempt, Dispositions
    <3>2. status' \in Status
      BY <1>2, StatusType DEF StartupRefuses, TypeOK, Activities
    <3> QED
      BY <1>2, <3>1, <3>2 DEF StartupRefuses, TypeOK, taskFrame, external,
        history
  <2>2. Ownership'
    BY <1>2 DEF StartupRefuses, Fail, TypeOK, Ownership, Option, Attempt,
      Dispositions, taskFrame, external, history
  <2>3. Single'
    BY <1>2 DEF StartupRefuses, Fail, TypeOK, Single, Attempt
  <2>4. /\ Staging' /\ Tracking' /\ Closing'
        /\ Blocking' /\ Accounted' /\ Projection'
    BY <1>2 DEF StartupRefuses, Staging, Tracking, Closing, Blocking,
      Accounted, Projection, taskFrame, external, history
  <2> QED
    BY <2>1, <2>2, <2>3, <2>4
<1>3. ASSUME NEW r \in Processes, NativeEnds(r) PROVE Inv'
  <2>1. TypeOK'
    <3>1. attempt' \in [Processes -> Attempt]
      BY <1>3 DEF NativeEnds, Fail, TypeOK, Attempt, Dispositions
    <3>2. status' \in Status
      BY <1>3, StatusType DEF NativeEnds, TypeOK, Activities
    <3> QED
      BY <1>3, <3>1, <3>2 DEF NativeEnds, TypeOK, taskFrame, external,
        history
  <2>2. Ownership'
    <3>1. \A o \in Processes \ {r} : attempt'[o] = attempt[o]
      BY <1>3 DEF NativeEnds, Fail, TypeOK
    <3>2. /\ attempt'[r].phase \in {"failed", "ready"}
          /\ attempt'[r].phase = "failed" => attempt'[r].disposition # "none"
      BY <1>3 DEF NativeEnds, Fail, TypeOK, Attempt
    <3> QED
      BY <1>3, <3>1, <3>2
      DEF NativeEnds, TypeOK, Ownership, Option, taskFrame, external
  <2>3. Single'
    BY <1>3 DEF NativeEnds, Fail, TypeOK, Single, Attempt
  <2>4. /\ Staging' /\ Tracking' /\ Closing'
        /\ Blocking' /\ Accounted' /\ Projection'
    BY <1>3 DEF NativeEnds, Staging, Tracking, Closing, Blocking,
      Accounted, Projection, taskFrame, external, history
  <2> QED
    BY <2>1, <2>2, <2>3, <2>4
<1> QED
  BY <1>1, <1>2, <1>3 DEF StartupTask

\* The start of a tick keeps the invariant.
LEMMA TickBeginsStep ==
  ASSUME Inv, TickBegins
  PROVE  Inv'
<1> USE ServiceAssumption DEF Inv
<1>1. CASE RunFails
  <2>1. TypeOK'
    <3>1. attempt' \in [Processes -> Attempt]
      <4>1. ASSUME NEW p \in Processes, NEW b \in BOOLEAN
            PROVE  [attempt[p] EXCEPT !.cancelled = b] \in Attempt
        BY DEF TypeOK, Attempt
      <4>2. ASSUME NEW p \in Processes
            PROVE  (attempt[p].cancelled \/ p = starting) \in BOOLEAN
        BY DEF TypeOK, Attempt
      <4> QED
        BY <1>1, <4>1, <4>2, NoAttemptType DEF RunFails
    <3>2. status' \in Status
      BY <1>1 DEF RunFails, TypeOK, Status, Activities
    <3> QED
      BY <1>1, <3>1, <3>2 DEF RunFails, TypeOK, Option, loopFrame, external
  <2>2. Ownership' /\ Single'
    BY <1>1 DEF RunFails, NoAttempt, TypeOK, Attempt, Ownership, Single,
      Staging, loopFrame, external, history
  <2>3. Staging' /\ Closing' /\ Blocking'
    BY <1>1 DEF RunFails, Staging, Closing, Blocking, loopFrame, external,
      history
  <2>4. Tracking' /\ Accounted'
    BY <1>1 DEF RunFails, Tracking, Accounted, loopFrame, external, history
  <2>5. Projection'
    BY <1>1 DEF RunFails, Projection, TypeOK, Status
  <2> QED
    BY <2>1, <2>2, <2>3, <2>4, <2>5
<1>2. ASSUME NEW listed \in Observations, Tick(listed) PROVE Inv'
  <2>1. TypeOK'
    <3>1. current' \in Option
      BY <1>2 DEF Tick, Current, Owner, Observations, TypeOK, Option
    <3> QED
      BY <1>2, <3>1, RetryType DEF Tick, TypeOK, Option, loopFrame, external
  <2>2. Ownership' /\ Staging' /\ Single' /\ Closing' /\ Projection'
    BY <1>2 DEF Tick, Ownership, Staging, Single, Closing, Projection,
      loopFrame, external, history
  <2>3. Tracking'
    BY <1>2 DEF Tick, Current, Owner, Tracking, Staging, TypeOK, Option,
      Stages, loopFrame, external, history
  <2>4. Blocking'
    BY <1>2 DEF Tick, Current, Owner, Blocking, TypeOK, Option, Stages,
      loopFrame, external, history
  <2>5. Accounted'
    BY <1>2 DEF Tick, Accounted, loopFrame, external, history
  <2> QED
    BY <2>1, <2>2, <2>3, <2>4, <2>5
<1> QED
  BY <1>1, <1>2 DEF TickBegins

\* Retiring what the loop owns keeps the invariant.
LEMMA RetireStep ==
  ASSUME Inv, CancelStarting \/ JoinStarting \/ RetireActive \/ FinishClosing
                 \/ Reset
  PROVE  Inv'
<1> USE ServiceAssumption DEF Inv
<1>1. CASE CancelStarting
  <2>1. TypeOK'
    <3>1. attempt' \in [Processes -> Attempt]
      <4>1. ASSUME NEW p \in Processes
            PROVE  [attempt[p] EXCEPT !.cancelled = TRUE] \in Attempt
        BY DEF TypeOK, Attempt
      <4> QED
        BY <1>1, <4>1 DEF CancelStarting, TypeOK, Option
    <3> QED
      BY <1>1, <3>1 DEF CancelStarting, TypeOK, loopFrame, external
  <2>2. Ownership' /\ Single'
    BY <1>1 DEF CancelStarting, TypeOK, Option, Attempt, Ownership, Single,
      Staging, loopFrame, external, history
  <2>3. /\ Staging' /\ Tracking' /\ Closing'
        /\ Blocking' /\ Accounted' /\ Projection'
    BY <1>1 DEF CancelStarting, Staging, Tracking, Closing, Blocking,
      Accounted, Projection, Stages, loopFrame, external, history
  <2> QED
    BY <2>1, <2>2, <2>3
<1>2. CASE JoinStarting
  <2>1. TypeOK'
    <3>1. starting \in Processes
      BY <1>2 DEF JoinStarting, Staging, TypeOK, Option
    <3>2. CASE attempt[starting].phase = "ready"
      <4>1. Close(starting, FALSE, ~stopping, "retire")
        BY <1>2, <3>2 DEF JoinStarting
      <4>2. (~stopping) \in BOOLEAN
        OBVIOUS
      <4>3. /\ closing' \in Stop /\ attempt' \in [Processes -> Attempt]
            /\ status' \in Status /\ pc' = "closing"
        BY <3>1, <4>1, <4>2, CloseType
      <4> QED
        BY <1>2, <4>3 DEF JoinStarting, TypeOK, Option, loopFrame, external
    <3>3. CASE attempt[starting].phase # "ready"
      <4>1. status' \in Status
        BY <1>2, <3>3, StatusType DEF JoinStarting, TypeOK, Activities
      <4> QED
        BY <1>2, <3>1, <3>3, <4>1, NoAttemptType
        DEF JoinStarting, TypeOK, Option, loopFrame, external
    <3> QED
      BY <3>2, <3>3
  <2>2. Ownership' /\ Single'
    BY <1>2 DEF JoinStarting, TaskFinished, Close, NoAttempt, TypeOK,
      Option, Attempt, Ownership, Staging, Single, Tracking, loopFrame,
      external, history
  <2>3. Staging' /\ Tracking' /\ Blocking'
    BY <1>2 DEF JoinStarting, Close, Staging, Tracking, Blocking, TypeOK,
      Stages, loopFrame, external, history
  <2>4. Closing'
    <3>1. CASE stopping
      BY <1>2, <3>1 DEF JoinStarting, Closing
    <3>2. CASE ~stopping
      <4>1. pc' = "closing" => closing'.required = (~stopping)
        BY <1>2 DEF JoinStarting, Close
      <4>2. stopping = FALSE
        BY <3>2 DEF TypeOK
      <4> QED
        BY <3>2, <4>1, <4>2 DEF Closing
    <3> QED
      BY <3>1, <3>2
  <2>5. Accounted'
    BY <1>2 DEF JoinStarting, Close, Accounted, TypeOK, loopFrame,
      external, history
  <2>6. Projection'
    <3>1. CASE attempt[starting].phase = "ready"
      BY <1>2, <3>1 DEF JoinStarting, Close, Projection
    <3>2. CASE attempt[starting].phase # "ready"
      BY <1>2, <3>2
      DEF JoinStarting, Capture, Projection, Ownership, Staging, TypeOK, Status
    <3> QED
      BY <3>1, <3>2
  <2> QED
    BY <2>1, <2>2, <2>3, <2>4, <2>5, <2>6
<1>3. CASE RetireActive
  <2>1. TypeOK'
    <3>1. CASE active = NoProcess
      BY <1>3, <3>1 DEF RetireActive, TypeOK, Option, loopFrame, external
    <3>2. CASE active # NoProcess
      <4>1. Close(active, FALSE, ~stopping, "reset")
        BY <1>3, <3>2 DEF RetireActive
      <4>2. (~stopping) \in BOOLEAN /\ active \in Processes
        BY <3>2 DEF TypeOK, Option
      <4>3. /\ closing' \in Stop /\ attempt' \in [Processes -> Attempt]
            /\ status' \in Status /\ pc' = "closing"
        BY <4>1, <4>2, CloseType
      <4> QED
        BY <1>3, <4>3 DEF RetireActive, TypeOK, Option, loopFrame, external
    <3> QED
      BY <3>1, <3>2
  <2>2. Ownership' /\ Single'
    BY <1>3 DEF RetireActive, Close, TypeOK, Option, Attempt, Ownership,
      Staging, Single, loopFrame, external, history
  <2>3. Staging' /\ Tracking' /\ Blocking'
    BY <1>3 DEF RetireActive, Close, Staging, Tracking, Blocking, TypeOK,
      Stages, loopFrame, external, history
  <2>4. Closing'
    <3>1. CASE stopping
      BY <1>3, <3>1 DEF RetireActive, Closing
    <3>2. CASE ~stopping
      <4>1. pc' = "closing" => closing'.required = (~stopping)
        BY <1>3 DEF RetireActive, Close
      <4>2. stopping = FALSE
        BY <3>2 DEF TypeOK
      <4> QED
        BY <3>2, <4>1, <4>2 DEF Closing
    <3> QED
      BY <3>1, <3>2
  <2>5. Accounted'
    BY <1>3 DEF RetireActive, Close, Accounted, Tracking, TypeOK, Option,
      loopFrame, external, history
  <2>6. Projection'
    BY <1>3 DEF RetireActive, Close, Capture, Projection
  <2> QED
    BY <2>1, <2>2, <2>3, <2>4, <2>5, <2>6
<1>4. CASE FinishClosing
  <2>1. TypeOK'
    <3>1. closing.process \in Processes
      BY <1>4 DEF FinishClosing, Ownership, TypeOK, Stop, Option
    <3>2. status' \in Status
      BY <1>4, StatusType DEF FinishClosing, TypeOK, Activities
    <3>3. NoStop \in Stop /\ closing.next \in {"retire", "reset", "observe",
                                              "block", "skip"}
      BY DEF NoStop, Stop, Option, TypeOK
    <3> QED
      BY <1>4, <3>1, <3>2, <3>3, NoAttemptType
      DEF FinishClosing, TypeOK, external
  <2>2. Ownership' /\ Single'
    BY <1>4 DEF FinishClosing, NoAttempt, TypeOK, Stop, Option, Attempt,
      Ownership, Staging, Single, loopFrame, external, history
  <2>3. Staging' /\ Tracking' /\ Blocking'
    BY <1>4 DEF FinishClosing, TypeOK, Stop, Staging, Tracking, Blocking,
      Stages, loopFrame, external, history
  <2>4. Closing' /\ Accounted'
    BY <1>4 DEF FinishClosing, TypeOK, Stop, Closing, Accounted, external
  <2>5. Projection'
    <3>1. active = NoProcess
      BY <1>4 DEF FinishClosing, Staging
    <3>2. status'.activity = "idle" \/ status'.service # "available"
      BY <1>4 DEF FinishClosing, Capture, CaptureError, TypeOK, Status
    <3>3. pc' # "failed"
      BY <1>4 DEF FinishClosing, TypeOK, Stop
    <3> QED
      BY <1>4, <3>1, <3>2, <3>3 DEF FinishClosing, Projection
  <2> QED
    BY <2>1, <2>2, <2>3, <2>4, <2>5
<1>5. CASE Reset
  <2>1. TypeOK'
    BY <1>5, RetryType DEF Reset, TypeOK, loopFrame, external
  <2>2. /\ Ownership' /\ Staging' /\ Single' /\ Tracking'
        /\ Closing' /\ Blocking' /\ Accounted' /\ Projection'
    BY <1>5 DEF Reset, Ownership, Staging, Single, Tracking, Closing,
      Blocking, Accounted, Projection, TypeOK, Stages, loopFrame, external,
      history
  <2> QED
    BY <2>1, <2>2
<1> QED
  BY <1>1, <1>2, <1>3, <1>4, <1>5

\* A settled startup keeps the invariant.
LEMMA SettleStep ==
  ASSUME Inv, Settle
  PROVE  Inv'
<1> USE ServiceAssumption DEF Inv
<1>0. pc = "settle" /\ active \in Option /\ starting \in Option
  BY DEF Settle, TypeOK
<1>1. CASE starting = NoProcess \/ ~TaskFinished(starting)
  <2>1. /\ pc' = "observe"
        /\ UNCHANGED <<attempt, active, starting, retry, status, recorded,
                       closing, gaveUp, external, published, stopping,
                       previous, current, blocked>>
    BY <1>1 DEF Settle
  <2>2. TypeOK'
    BY <2>1 DEF TypeOK, external
  <2> QED
    BY <1>0, <2>1, <2>2 DEF Ownership, Staging, Single, Tracking, Closing,
      Blocking, Accounted, Projection, Stages, external
<1>2. CASE starting # NoProcess /\ attempt[starting].phase = "ready"
  <2>1. starting \in Processes /\ TaskFinished(starting)
    BY <1>0, <1>2 DEF Option, TaskFinished
  <2>2. current = starting
    BY <1>0, <2>1 DEF Tracking, Stages
  <2>3. /\ pc' = "observe" /\ active' = starting /\ starting' = NoProcess
        /\ attempt' = [attempt EXCEPT ![starting].phase = "recording"]
        /\ recorded' = recorded \cup {starting}
        /\ retry' = NoRetry /\ status' = Capture(status, "recording")
        /\ UNCHANGED <<closing, gaveUp, external, published, stopping,
                       previous, current, blocked>>
    BY <1>2, <2>1, <2>2 DEF Settle
  <2>4. TypeOK'
    <3>1. status' \in Status /\ retry' \in Retry
      BY <2>3, StatusType, RetryType DEF TypeOK, Activities
    <3>2. attempt' \in [Processes -> Attempt]
      <4>1. attempt \in [Processes -> Attempt] /\ attempt[starting] \in Attempt
        BY <2>1 DEF TypeOK
      <4>2. [attempt[starting] EXCEPT !.phase = "recording"] \in Attempt
        BY <4>1 DEF Attempt
      <4>3. attempt' = [attempt EXCEPT ![starting] = [attempt[starting] EXCEPT !.phase = "recording"]]
        BY <2>1, <2>3, <4>1
      <4> QED
        BY <2>1, <4>1, <4>2, <4>3
    <3> QED
      BY <2>1, <2>3, <3>1, <3>2 DEF TypeOK, Option, external
  <2>5. Ownership' /\ Single'
    BY <1>0, <2>1, <2>3 DEF Ownership, Single, TypeOK, Attempt
  <2>6. Staging' /\ Tracking' /\ Closing'
    BY <1>0, <2>1, <2>2, <2>3 DEF Staging, Tracking, Closing, Stages, external
  <2>7. Blocking' /\ Accounted'
    BY <1>0, <1>2, <2>1, <2>3 DEF Blocking, Accounted, TypeOK, external
  <2>8. Projection'
    BY <1>0, <2>1, <2>3 DEF Projection, Capture, TypeOK, Status
  <2> QED
    BY <2>4, <2>5, <2>6, <2>7, <2>8
<1>3. CASE starting # NoProcess /\ TaskFinished(starting)
            /\ attempt[starting].phase # "ready"
  <2> DEFINE disposition == IF attempt[starting].phase = "panicked"
                            THEN "terminal" ELSE attempt[starting].disposition
  <2>1. starting \in Processes
    BY <1>0, <1>3 DEF Option
  <2>2. disposition \in Dispositions \ {"none"}
    <3>1. attempt[starting].phase \in {"failed", "panicked"}
      BY <1>3 DEF TaskFinished
    <3>2. attempt[starting].disposition \in Dispositions
      BY <2>1 DEF TypeOK, Attempt
    <3> QED
      BY <2>1, <3>1, <3>2 DEF Ownership, Dispositions
  <2>3. /\ pc' = "observe" /\ starting' = NoProcess
        /\ attempt' = [attempt EXCEPT ![starting] = NoAttempt]
        /\ retry' = RecordFailure(starting, disposition)
        /\ gaveUp' \in {gaveUp, gaveUp \cup {starting}}
        /\ status' \in {Capture(status, "idle"),
                        CaptureError(status, "startup")}
        /\ UNCHANGED <<active, recorded, closing, external, published,
                       stopping, previous, current, blocked>>
    BY <1>3 DEF Settle
  <2> HIDE DEF disposition
  <2>4. TypeOK'
    <3>1. status' \in Status /\ retry' \in Retry
      BY <2>1, <2>2, <2>3, StatusType, RetryType DEF TypeOK, Activities
    <3> QED
      BY <2>1, <2>3, <3>1, NoAttemptType DEF TypeOK, Option, external
  <2>5. Ownership' /\ Single'
    BY <1>0, <2>1, <2>3 DEF Ownership, Single, TypeOK, Attempt, NoAttempt
  <2>6. Staging' /\ Tracking' /\ Closing'
    BY <1>0, <2>1, <2>3 DEF Staging, Tracking, Closing, Stages, external
  <2>7. Blocking' /\ Accounted'
    BY <1>0, <1>3, <2>3 DEF Blocking, Accounted, Staging, external
  <2>8. active = NoProcess
    BY <1>3 DEF TypeOK
  <2>9. Projection'
    BY <1>0, <2>3, <2>8
    DEF Projection, Capture, CaptureError, TypeOK, Status
  <2> QED
    BY <2>4, <2>5, <2>6, <2>7, <2>9
<1> QED
  BY <1>1, <1>2, <1>3

\* Watching the active recording keeps the invariant.
LEMMA ObserveStep ==
  ASSUME Inv, ObserveFailure \/ ObserveHealthy \/ Block
  PROVE  Inv'
<1> USE ServiceAssumption DEF Inv
<1>1. CASE ObserveFailure
  <2>1. TypeOK'
    <3>1. active \in Processes
      BY <1>1 DEF ObserveFailure, TypeOK, Option
    <3>2. PICK next \in {"block", "skip"}, failed \in BOOLEAN :
            GiveUp(next, failed)
      BY <1>1 DEF ObserveFailure
    <3>3. /\ closing' \in Stop /\ attempt' \in [Processes -> Attempt]
          /\ status' \in Status /\ pc' = "closing"
      BY <3>1, <3>2, CloseType DEF GiveUp
    <3> QED
      BY <1>1, <3>1, <3>2, <3>3
      DEF ObserveFailure, GiveUp, TypeOK, Option, loopFrame, external
  <2>2. Ownership' /\ Single'
    BY <1>1 DEF ObserveFailure, GiveUp, Close, TypeOK, Option, Attempt,
      Ownership, Staging, Single, loopFrame, external, history
  <2>3. Staging' /\ Tracking' /\ Blocking'
    BY <1>1 DEF ObserveFailure, GiveUp, Close, Staging, Tracking, Blocking,
      TypeOK, Option, Stages, loopFrame, external, history
  <2>4. Closing'
    BY <1>1 DEF ObserveFailure, GiveUp, Close, Closing, TypeOK, Option,
      Attempt
  <2>5. Accounted'
    BY <1>1 DEF ObserveFailure, GiveUp, Close, Accounted, TypeOK, Blocking,
      Option, loopFrame, external, history
  <2>6. Projection'
    BY <1>1 DEF ObserveFailure, GiveUp, Close, Projection
  <2> QED
    BY <2>1, <2>2, <2>3, <2>4, <2>5, <2>6
<1>2. CASE ObserveHealthy
  <2>1. TypeOK'
    BY <1>2 DEF ObserveHealthy, TypeOK, loopFrame, external
  <2>2. /\ Ownership' /\ Staging' /\ Single' /\ Tracking'
        /\ Closing' /\ Blocking' /\ Accounted' /\ Projection'
    BY <1>2 DEF ObserveHealthy, Ownership, Staging, Single, Tracking,
      Closing, Blocking, Accounted, Projection, Stages, loopFrame,
      external, history
  <2> QED
    BY <2>1, <2>2
<1>3. CASE Block
  <2>1. TypeOK'
    BY <1>3, RetryType DEF Block, TypeOK, loopFrame, external
  <2>2. Blocking'
    BY <1>3 DEF Block, BlockActiveProcess, Blocking, Staging, Stages,
      external, loopFrame
  <2>3. /\ Ownership' /\ Staging' /\ Single' /\ Tracking'
        /\ Closing' /\ Accounted' /\ Projection'
    BY <1>3 DEF Block, Ownership, Staging, Single, Tracking, Closing,
      Accounted, Projection, Stages, loopFrame, external, history
  <2> QED
    BY <2>1, <2>2, <2>3
<1> QED
  BY <1>1, <1>2, <1>3

\* Admission keeps the invariant.
LEMMA AdmitStep ==
  ASSUME Inv, AdmitNothing \/ AdmitUnopenable \/ AdmitUnproven
                 \/ AdmitStart
  PROVE  Inv'
<1> USE ServiceAssumption DEF Inv
<1>1. CASE AdmitNothing
  <2>1. TypeOK'
    BY <1>1 DEF AdmitNothing, TypeOK, loopFrame, external
  <2>2. /\ Ownership' /\ Staging' /\ Single' /\ Tracking'
        /\ Closing' /\ Blocking' /\ Accounted' /\ Projection'
    BY <1>1 DEF AdmitNothing, Ownership, Staging, Single, Tracking,
      Closing, Blocking, Accounted, Projection, Stages, loopFrame,
      external, history
  <2> QED
    BY <2>1, <2>2
<1>2. CASE AdmitUnopenable
  <2>1. TypeOK'
    BY <1>2, RetryType DEF AdmitUnopenable, TypeOK, loopFrame, external
  <2>2. Blocking'
    BY <1>2 DEF AdmitUnopenable, BlockActiveProcess, IsCandidate, Blocking,
      Stages, external, loopFrame
  <2>3. /\ Ownership' /\ Staging' /\ Single' /\ Tracking'
        /\ Closing' /\ Accounted' /\ Projection'
    BY <1>2 DEF AdmitUnopenable, Ownership, Staging, Single, Tracking,
      Closing, Accounted, Projection, IsCandidate, Stages, loopFrame,
      external, history
  <2> QED
    BY <2>1, <2>2, <2>3
<1>3. CASE AdmitUnproven
  <2>1. TypeOK'
    BY <1>3 DEF AdmitUnproven, TypeOK, loopFrame, external
  <2>2. /\ Ownership' /\ Staging' /\ Single' /\ Tracking'
        /\ Closing' /\ Blocking' /\ Accounted' /\ Projection'
    BY <1>3 DEF AdmitUnproven, Ownership, Staging, Single, Tracking,
      Closing, Blocking, Accounted, Projection, IsCandidate, Stages,
      loopFrame, external, history
  <2> QED
    BY <2>1, <2>2
<1>4. CASE AdmitStart
  <2>1. TypeOK'
    <3>1. current \in Processes
      BY <1>4 DEF AdmitStart, IsCandidate, TypeOK, Option
    <3> QED
      BY <1>4, <3>1, NoAttemptType
      DEF AdmitStart, IsCandidate, TypeOK, Option, loopFrame, external
  <2>2. Ownership' /\ Single'
    BY <1>4 DEF AdmitStart, IsCandidate, NoAttempt, TypeOK, Option,
      Attempt, Ownership, Single, loopFrame, external, history
  <2>3. Staging' /\ Tracking' /\ Closing'
    BY <1>4 DEF AdmitStart, IsCandidate, Staging, Tracking, Closing,
      Stages, loopFrame, external, history
  <2>4. Blocking' /\ Accounted'
    BY <1>4 DEF AdmitStart, IsCandidate, Permits, Blocking, Accounted,
      Staging, Stages, TypeOK, Retry, Option, loopFrame, external, history
  <2>5. Projection'
    BY <1>4 DEF AdmitStart, IsCandidate, Projection
  <2> QED
    BY <2>1, <2>2, <2>3, <2>4, <2>5
<1> QED
  BY <1>1, <1>2, <1>3, <1>4

\* The shutdown keeps the invariant.
LEMMA ShutdownStep ==
  ASSUME Inv, BeginShutdown \/ FinishShutdown
  PROVE  Inv'
<1> USE ServiceAssumption DEF Inv
<1>1. CASE BeginShutdown
  <2>1. TypeOK'
    BY <1>1, StatusType DEF BeginShutdown, TypeOK, loopFrame, external
  <2>2. Projection'
    BY <1>1 DEF BeginShutdown, Become, Projection, TypeOK, Status
  <2>3. /\ Ownership' /\ Staging' /\ Single' /\ Tracking'
        /\ Closing' /\ Blocking' /\ Accounted'
    BY <1>1 DEF BeginShutdown, Ownership, Staging, Single, Tracking,
      Closing, Blocking, Accounted, TypeOK, Stages, loopFrame, external,
      history
  <2> QED
    BY <2>1, <2>2, <2>3
<1>2. CASE FinishShutdown
  <2>1. TypeOK'
    BY <1>2, StatusType DEF FinishShutdown, TypeOK, loopFrame, external
  <2>2. Projection'
    BY <1>2 DEF FinishShutdown, Become, Projection, TypeOK, Status
  <2>3. /\ Ownership' /\ Staging' /\ Single' /\ Tracking'
        /\ Closing' /\ Blocking' /\ Accounted'
    BY <1>2 DEF FinishShutdown, Ownership, Staging, Single, Tracking,
      Closing, Blocking, Accounted, Stages, loopFrame, external, history
  <2> QED
    BY <2>1, <2>2, <2>3
<1> QED
  BY <1>1, <1>2

\* The invariant holds in every initial state.
LEMMA InitInv == Init => Inv
<1> SUFFICES ASSUME Init PROVE Inv
  OBVIOUS
<1> USE ServiceAssumption DEF Init
<1>1. TypeOK
  <2>1. closing \in Stop
    BY DEF NoStop, Stop, Option
  <2>2. retry \in Retry
    BY DEF NoRetry, Retry, Option
  <2>3. status \in Status
    BY DEF Status, Activities
  <2> QED
    BY <2>1, <2>2, <2>3, NoAttemptType DEF TypeOK, Option
<1>2. Ownership /\ Single
  BY DEF Ownership, Single, NoAttempt
<1>3. Staging /\ Tracking /\ Closing /\ Blocking /\ Accounted
  BY DEF Staging, Tracking, Closing, Blocking, Accounted, Stages
<1>4. Projection
  BY DEF Projection
<1> QED
  BY <1>1, <1>2, <1>3, <1>4 DEF Inv

\* Every step keeps the invariant.
LEMMA NextInv == Inv /\ [Next]_vars => Inv'
<1> SUFFICES ASSUME Inv, [Next]_vars PROVE Inv'
  OBVIOUS
<1>1. CASE UNCHANGED vars
  BY <1>1 DEF vars, external, history, Inv, TypeOK, Ownership, Staging,
    Single, Tracking, Closing, Blocking, Accounted, Projection, Stages
<1>2. CASE Environment
  BY <1>2, EnvironmentStep DEF Environment
<1>3. CASE \E p \in Processes : StartupTask(p)
  BY <1>3, StartupTaskStep DEF StartupTask
<1>4. CASE TickBegins
  BY <1>4, TickBeginsStep DEF TickBegins
<1>5. CASE TickContinues
  BY <1>5, RetireStep, SettleStep, ObserveStep, AdmitStep DEF TickContinues
<1>6. CASE BeginShutdown \/ FinishShutdown
  BY <1>6, ShutdownStep
<1> QED
  BY <1>1, <1>2, <1>3, <1>4, <1>5, <1>6 DEF Next

\* The invariant holds in every reachable state.
LEMMA Invariance == Spec => []Inv
BY InitInv, NextInv, PTL DEF Spec

-----------------------------------------------------------------------------
(* What the invariant gives.                                               *)

\* Every variable keeps its type, and a startup and an active recording are
\* never owned together.
THEOREM TypeCorrect == Spec => []TypeOK
<1>1. Inv => TypeOK
  BY DEF Inv
<1> QED
  BY <1>1, Invariance, PTL

\* There is at most one native capture graph, and none during the shutdown
\* maintenance pass.
THEOREM OwnerCorrect == Spec => []OneCaptureOwner
<1>1. Inv => OneCaptureOwner
  <2> SUFFICES ASSUME Inv PROVE OneCaptureOwner
    OBVIOUS
  <2>1. \A p, q \in Processes : Live(p) /\ Live(q) => p = q
    BY DEF Inv, Single, Live
  <2>2. pc \in {"maintenance", "stopped"} => \A p \in Processes : ~Live(p)
    BY ServiceAssumption DEF Inv, Ownership, Staging, Live
  <2> QED
    BY <2>1, <2>2 DEF OneCaptureOwner
<1> QED
  BY <1>1, Invariance, PTL

\* Between two ticks the projected activity is that of the owner.
THEOREM StatusCorrect == Spec => []StatusMatchesOwner
<1>1. Inv => StatusMatchesOwner
  BY DEF Inv, Projection, StatusMatchesOwner
<1> QED
  BY <1>1, Invariance, PTL

\* A startup that has finished belongs to the process of the tick: the branch
\* of the service that stops a ready recording because its process changed is
\* never taken.
SettlesItsProcess == pc = "settle" /\ starting # NoProcess => current = starting

THEOREM SettleCorrect == Spec => []SettlesItsProcess
<1>1. Inv => SettlesItsProcess
  BY DEF Inv, Tracking, TypeOK, Option, Stages, SettlesItsProcess
<1> QED
  BY <1>1, Invariance, PTL

\* An active recording is left only when its process ended, its capture
\* failed, or the service stops.
THEOREM RetirementCorrect == Spec => OnlyEndedProcessesRetire
<1> DEFINE Retires == \A p \in Processes :
              active = p /\ active' # p =>
                  \/ life[p] = "ended" \/ stopping \/ blocked' = p
                  \/ pc' = "failed"
<1>1. ASSUME Inv, [Next]_vars PROVE [Retires]_vars
  <2>1. CASE RunFails
    BY <2>1 DEF RunFails
  <2>2. CASE RetireActive
    BY <1>1, <2>2 DEF RetireActive, Inv, Tracking, TypeOK
  <2>3. CASE ObserveFailure
    BY <2>3 DEF ObserveFailure, GiveUp
  <2>4. CASE Settle
    <3>1. active' = active \/ starting # NoProcess
      BY <2>4 DEF Settle
    <3>2. active # NoProcess => starting = NoProcess
      BY <1>1 DEF Inv, TypeOK
    <3> QED
      BY <3>1, <3>2, ServiceAssumption
  <2>5. CASE Environment \/ \E p \in Processes : StartupTask(p)
    BY <2>5 DEF Environment, ProcessStarts, ProcessEnds, CaptureBreaks,
      CleanupUnproven, RequestShutdown, BackoffElapses, StartupTask,
      StartupAdmits, StartupRefuses, NativeEnds, taskFrame
  <2>6. CASE \/ \E listed \in Observations : Tick(listed)
             \/ CancelStarting \/ JoinStarting \/ FinishClosing \/ Reset
    BY <2>6 DEF Tick, CancelStarting, JoinStarting, FinishClosing, Reset
  <2>7. CASE \/ ObserveHealthy \/ Block \/ AdmitNothing \/ AdmitUnopenable
             \/ AdmitUnproven \/ AdmitStart \/ BeginShutdown \/ FinishShutdown
    BY <2>7 DEF ObserveHealthy, Block, AdmitNothing, AdmitUnopenable,
      AdmitUnproven, AdmitStart, BeginShutdown, FinishShutdown
  <2>8. CASE UNCHANGED vars
    BY <2>8
  <2> QED
    BY <1>1, <2>1, <2>2, <2>3, <2>4, <2>5, <2>6, <2>7, <2>8
    DEF Next, TickBegins, TickContinues
<1> QED
  BY <1>1, Invariance, PTL DEF Spec, OnlyEndedProcessesRetire

\* A process is recorded at most once.
THEOREM RecordingCorrect == Spec => RecordedOnce
<1> DEFINE Once == \A p \in Processes :
              active' = p /\ active # p => p \notin recorded
<1>1. ASSUME Inv, [Next]_vars PROVE [Once]_vars
  <2>1. CASE RunFails \/ RetireActive \/ ObserveFailure
    BY <2>1, ServiceAssumption
    DEF RunFails, RetireActive, ObserveFailure, GiveUp
  <2>2. CASE Settle
    <3>1. active' = active \/ (starting # NoProcess /\ active' = starting)
      BY <2>2 DEF Settle
    <3> QED
      BY <1>1, <3>1 DEF Inv, Accounted
  <2>3. CASE Environment \/ \E p \in Processes : StartupTask(p)
    BY <2>3 DEF Environment, ProcessStarts, ProcessEnds, CaptureBreaks,
      CleanupUnproven, RequestShutdown, BackoffElapses, StartupTask,
      StartupAdmits, StartupRefuses, NativeEnds, taskFrame
  <2>4. CASE \/ \E listed \in Observations : Tick(listed)
             \/ CancelStarting \/ JoinStarting \/ FinishClosing \/ Reset
    BY <2>4 DEF Tick, CancelStarting, JoinStarting, FinishClosing, Reset
  <2>5. CASE \/ ObserveHealthy \/ Block \/ AdmitNothing \/ AdmitUnopenable
             \/ AdmitUnproven \/ AdmitStart \/ BeginShutdown \/ FinishShutdown
    BY <2>5 DEF ObserveHealthy, Block, AdmitNothing, AdmitUnopenable,
      AdmitUnproven, AdmitStart, BeginShutdown, FinishShutdown
  <2>6. CASE UNCHANGED vars
    BY <2>6
  <2> QED
    BY <1>1, <2>1, <2>2, <2>3, <2>4, <2>5, <2>6
    DEF Next, TickBegins, TickContinues
<1> QED
  BY <1>1, Invariance, PTL DEF Spec, RecordedOnce

\* A recording is published only after its process ended, or by a shutdown.
THEOREM PublicationCorrect == Spec => PublishedAfterItsProcess
<1> DEFINE After == \A p \in published' \ published :
              life[p] = "ended" \/ stopping
<1>1. ASSUME Inv, [Next]_vars PROVE [After]_vars
  <2>1. CASE FinishClosing
    <3>1. published' = published \/ /\ CanPublish(closing)
                                    /\ published' = published
                                                    \cup {closing.process}
      BY <2>1 DEF FinishClosing
    <3>2. pc = "closing"
      BY <2>1 DEF FinishClosing
    <3> QED
      BY <1>1, <3>1, <3>2 DEF CanPublish, Inv, Closing, TypeOK
  <2>2. CASE Environment \/ \E p \in Processes : StartupTask(p)
    BY <2>2 DEF Environment, ProcessStarts, ProcessEnds, CaptureBreaks,
      CleanupUnproven, RequestShutdown, BackoffElapses, StartupTask,
      StartupAdmits, StartupRefuses, NativeEnds, taskFrame, history
  <2>3. CASE \/ RunFails \/ \E listed \in Observations : Tick(listed)
             \/ CancelStarting \/ JoinStarting \/ RetireActive \/ Reset
    BY <2>3 DEF RunFails, Tick, CancelStarting, JoinStarting, RetireActive,
      Reset, loopFrame
  <2>4. CASE \/ Settle \/ ObserveFailure \/ ObserveHealthy \/ Block
             \/ AdmitNothing \/ AdmitUnopenable \/ AdmitUnproven
             \/ AdmitStart \/ BeginShutdown \/ FinishShutdown
    BY <2>4 DEF Settle, ObserveFailure, ObserveHealthy, Block, AdmitNothing,
      AdmitUnopenable, AdmitUnproven, AdmitStart, BeginShutdown,
      FinishShutdown, loopFrame
  <2>5. CASE UNCHANGED vars
    BY <2>5
  <2> QED
    BY <1>1, <2>1, <2>2, <2>3, <2>4, <2>5 DEF Next, TickBegins, TickContinues
<1> QED
  BY <1>1, Invariance, PTL DEF Spec, PublishedAfterItsProcess

=============================================================================
