---------------------------- MODULE FfmpegSession ----------------------------
(***************************************************************************)
(* A recording that FFmpeg makes.  The recorder knows it by two pipes only: *)
(* lines of progress on one, diagnostics of the capture on the other, each  *)
(* read by a task of its own into one evidence record.  It waits for a      *)
(* first frame that was captured, encoded and written; to stop, it asks,    *)
(* waits, kills, joins the readers, and then judges by the evidence whether *)
(* the file is a candidate for publication.                                 *)
(* recorder/src/encoder.rs, encoder/progress.rs                             *)
(***************************************************************************)
EXTENDS SequencesExt, TLC, Integers

CONSTANTS MaxFrames, MaxLines, MaxFaults   \* bounds of a run

\* What the constants must satisfy.
FfmpegAssumption == MaxFrames \in Nat /\ MaxLines \in Nat \ {0} /\ MaxFaults \in Nat

VARIABLES child,      \* the process: what it does, what it wrote, whether a kill was sent
          pipe,       \* lines that were printed and not read
          reader,     \* drain_stream of each pipe
          evidence,   \* RecordingEvidence
          session,
          faults

vars == <<child, pipe, reader, evidence, session, faults>>

Kinds == {"progress", "stderr"}
None == <<>>

Init ==
    /\ child = [is |-> "running", frames |-> 0, captured |-> 0, killed |-> FALSE]
    /\ pipe = [k \in Kinds |-> <<>>] /\ reader = [k \in Kinds |-> "running"]
    /\ evidence = [ready |-> FALSE, captured |-> 0, frames |-> 0, bytes |-> 0,
                   terminal |-> FALSE, end |-> FALSE, error |-> FALSE]
    /\ session = [at |-> "startup", early |-> FALSE, error |-> FALSE, candidate |-> None]
    /\ faults = 0

-----------------------------------------------------------------------------
(* FFmpeg.                                                                   *)

Prints(lines) ==
    /\ \A k \in DOMAIN lines : Len(pipe[k]) + Len(lines[k]) <= MaxLines
    /\ pipe' = [k \in Kinds |-> IF k \in DOMAIN lines THEN pipe[k] \o lines[k] ELSE pipe[k]]
    /\ UNCHANGED <<reader, evidence, session>>

On(k, line) == [j \in {k} |-> <<line>>]
Running == child.is = "running"

CaptureIsReady == Running /\ Prints(On("stderr", <<"ready">>)) /\ UNCHANGED <<child, faults>>

Captures ==
    /\ Running /\ child.captured < MaxFrames
    /\ child' = [child EXCEPT !.captured = @ + 1]
    /\ Prints(On("stderr", <<"captured", child.captured + 1>>)) /\ UNCHANGED faults

\* Frames go to the file before they are reported.
Encodes ==
    /\ Running /\ child.frames < child.captured
    /\ child' = [child EXCEPT !.frames = @ + 1]
    /\ UNCHANGED <<pipe, reader, evidence, session, faults>>

Reports ==
    /\ Running /\ UNCHANGED <<child, faults>>
    /\ Prints([k \in {"progress"} |-> <<<<"frames", child.frames>>, <<"bytes", child.frames>>>>])

\* The end, asked for or not: both pipes say so, and the file is complete.
Finishes ==
    /\ Running /\ child' = [child EXCEPT !.is = "success"]
    /\ Prints("progress" :> <<<<"frames", child.frames>>, <<"end">>>>
              @@ "stderr" :> <<<<"terminal", child.captured>>>>)
    /\ UNCHANGED faults

\* Anything else: a line that is no report, counters that run backwards, an exit
\* without the last words, a crash.
Fault == faults < MaxFaults /\ faults' = faults + 1
Misprints ==
    /\ Running /\ Fault /\ UNCHANGED child
    /\ \E line \in {<<"progress", "bad">>, <<"stderr", "bad">>, <<"progress", "frames", 0>>,
                   <<"stderr", "captured", 0>>} : Prints(On(line[1], Tail(line)))
Dies ==
    /\ Running /\ (Fault \/ (child.killed /\ UNCHANGED faults))
    /\ \E how \in {"success", "failure"} :
        /\ how = "success" => ~child.killed
        /\ child' = [child EXCEPT !.is = how]
    /\ UNCHANGED <<pipe, reader, evidence, session>>

-----------------------------------------------------------------------------
(* drain_stream.                                                             *)

\* Mutant: the end of progress needs no count of its own.
IngestEager(e, line) ==
    IF line[1] = "bytes" THEN [e EXCEPT !.bytes = line[2], !.end = TRUE]
    ELSE IF line[1] \in {"captured", "terminal"}
    THEN [e EXCEPT !.captured = line[2], !.terminal = TRUE]
    ELSE IF line[1] = "frames" THEN [e EXCEPT !.frames = line[2]]
    ELSE IF line[1] = "ready" THEN [e EXCEPT !.ready = TRUE] ELSE e

\* ingest_capture_diagnostic, ingest_progress_line: a counter never goes back.
Ingest(e, line) ==
    LET regressed == \/ line[1] \in {"captured", "terminal"} /\ line[2] < e.captured
                     \/ line[1] = "frames" /\ line[2] < e.frames
                     \/ line[1] = "bytes" /\ line[2] < e.bytes
    IN  IF line[1] = "bad" \/ regressed THEN [e EXCEPT !.error = TRUE]
        ELSE [e EXCEPT
                !.ready = @ \/ line[1] = "ready",
                !.captured = IF line[1] \in {"captured", "terminal"} THEN line[2] ELSE @,
                !.terminal = @ \/ line[1] = "terminal",
                !.frames = IF line[1] = "frames" THEN line[2] ELSE @,
                !.bytes = IF line[1] = "bytes" THEN line[2] ELSE @,
                !.end = @ \/ line[1] = "end"]

ReadLine(k) ==
    /\ reader[k] = "running" /\ pipe[k] # <<>>
    /\ pipe' = [pipe EXCEPT ![k] = Tail(@)]
    /\ evidence' = Ingest(evidence, Head(pipe[k]))
    /\ UNCHANGED <<child, reader, session, faults>>

ReaderEnds(k) ==
    /\ reader[k] = "running"
    /\ \/ pipe[k] = <<>> /\ ~Running /\ UNCHANGED <<evidence, faults>>
       \/ Fault /\ evidence' = [evidence EXCEPT !.error = TRUE]    \* a read fails
    /\ reader' = [reader EXCEPT ![k] = "done"]
    /\ UNCHANGED <<child, pipe, session>>

-----------------------------------------------------------------------------
(* start_recording.                                                          *)

To(at) == session' = [session EXCEPT !.at = at]
Keep == UNCHANGED <<pipe, evidence, faults>>

StartupReady ==
    ~evidence.error /\ evidence.ready /\ evidence.captured > 0 /\ evidence.frames > 0
    /\ evidence.bytes > 0

\* wait_for_startup looks at the evidence before it looks at the process; the clock
\* of the first frame may still be of no use.
WaitForStartup ==
    /\ session.at = "startup" /\ Keep /\ UNCHANGED <<child, reader>>
    /\ IF StartupReady THEN To("recording") \/ To("terminate")
       ELSE /\ evidence.error \/ ~Running \/ \A k \in Kinds : reader[k] = "done"
            /\ To("terminate")

\* Mutant: the deadline is looked at only when a report comes in.
StartupTimesOutHeard ==
    /\ session.at = "startup" /\ evidence.captured > 0
    /\ To("terminate") /\ Keep /\ UNCHANGED <<child, reader>>

StartupTimesOut ==
    session.at = "startup" /\ To("terminate") /\ Keep /\ UNCHANGED <<child, reader>>

\* terminate_failed_startup: killed, awaited for a while, both readers joined.
TerminateFailedStartup ==
    /\ session.at = "terminate" /\ Keep
    /\ child' = [child EXCEPT !.killed = TRUE]
    /\ reader' = [k \in Kinds |-> "done"] /\ To("failed")

-----------------------------------------------------------------------------
(* stop.                                                                     *)

StopStep(next) == session' = next /\ Keep

Stop ==
    /\ session.at = "recording"
    /\ IF ~Running THEN StopStep([session EXCEPT !.at = "join", !.early = TRUE])
       ELSE \E delivered \in BOOLEAN :
                StopStep([session EXCEPT !.at = "wait", !.error = ~delivered])
    /\ UNCHANGED <<child, reader>>

Waited ==
    /\ session.at \in {"wait", "kill"} /\ ~Running
    /\ StopStep([session EXCEPT !.at = "join"]) /\ UNCHANGED <<child, reader>>

WaitTimesOut ==
    /\ session.at = "wait"
    /\ StopStep([session EXCEPT !.at = "kill", !.error = TRUE])
    /\ child' = [child EXCEPT !.killed = TRUE] /\ UNCHANGED reader
KillTimesOut ==
    /\ session.at = "kill"
    /\ StopStep([session EXCEPT !.at = "join"]) /\ UNCHANGED <<child, reader>>

\* join_or_abort, of both: a pipe that something else holds open is given up.
JoinOrAbort(k) ==
    /\ session.at = "join" /\ reader[k] = "running"
    /\ reader' = [reader EXCEPT ![k] = "aborted"]
    /\ Keep /\ UNCHANGED <<child, session>>

\* The child's status is known unless the last wait was given up, which is an error.
Refused ==
    \/ child.is = "failure" \/ session.early \/ session.error
    \/ evidence.error \/ ~evidence.end \/ ~evidence.terminal

Judge ==
    /\ session.at = "join" /\ \A k \in Kinds : reader[k] # "running"
    /\ IF Refused \/ child.frames = 0 THEN To("failed")
       ELSE session' = [session EXCEPT !.at = "candidate", !.candidate = <<evidence.frames>>]
    /\ Keep /\ UNCHANGED <<child, reader>>

Recorder == \/ WaitForStartup \/ StartupTimesOut \/ TerminateFailedStartup
            \/ Waited \/ WaitTimesOut \/ KillTimesOut \/ Judge
            \/ \E k \in Kinds : JoinOrAbort(k)
Ffmpeg == CaptureIsReady \/ Captures \/ Encodes \/ Reports \/ Finishes \/ Misprints \/ Dies
Next == Ffmpeg \/ Recorder \/ Stop \/ \E k \in Kinds : ReadLine(k) \/ ReaderEnds(k)

Fairness == WF_vars(Recorder)
Spec == Init /\ [][Next]_vars /\ Fairness

-----------------------------------------------------------------------------
\* A candidate is of a process that ended well and was neither killed nor gone before
\* it was asked, and names as many frames as its file has.
CandidateIsWhole ==
    session.at = "candidate" =>
        /\ child.is = "success" /\ ~child.killed /\ ~session.early
        /\ session.candidate = <<child.frames>> /\ ~evidence.error

\* A recording begins with a frame in its file, and a process that could not begin or
\* end one is never left running without a kill.
RecordingIsBacked ==
    /\ session.at \in {"recording", "wait", "kill", "join"} => child.frames > 0 /\ evidence.ready
    /\ session.at \in {"failed", "candidate"} =>
          (~Running \/ child.killed) /\ \A k \in Kinds : reader[k] # "running"

SessionIsSound == CandidateIsWhole /\ RecordingIsBacked

\* Whatever FFmpeg does, a startup and a stop come to an end.
SessionEnds ==
    /\ session.at = "startup" ~> session.at # "startup"
    /\ session.at = "wait" ~> session.at \in {"failed", "candidate"}
=============================================================================
