---------------------------- MODULE RecordingPlan ----------------------------
(***************************************************************************)
(* The choice of an encoder.  Pairs of an encoder and a codec are tried in  *)
(* order of preference; for the automatic profile each pair runs a ladder   *)
(* of benchmarks.  A trial is a process that may fail, be too slow or hang  *)
(* until it is killed.                                                      *)
(* recorder/src/encoder.rs                                                  *)
(***************************************************************************)
EXTENDS SequencesExt, Integers

CONSTANTS Encoders,      \* preferred_encoders, in order
          Ladder,        \* profiles of recommend_profile, in order
          MaxSize,       \* max_dimensions of each profile
          Sources        \* dimensions that a game may have

\* What the constants must satisfy.
PlanAssumption ==
    /\ Encoders # <<>> /\ Ladder # <<>> /\ Range(Ladder) \subseteq DOMAIN MaxSize
    /\ \A size \in Range(MaxSize) : size[1] >= 2 /\ size[2] >= 2

VARIABLES request,   \* RecordingConfig, HEVC playback, source_dimensions, advertised encoders
          pair, rung,   \* the trial that is next
          working,   \* lowest_working
          trial,     \* run_bounded_probe
          seen,      \* the outcomes so far
          plan

vars == <<request, pair, rung, working, trial, seen, plan>>

None == <<>>

CodecCandidates(preference, playable) ==
    CASE preference = "h264" -> <<"h264">>
      [] preference = "hevc" -> <<"hevc">>
      [] OTHER -> IF playable THEN <<"hevc", "h264">> ELSE <<"h264">>

Codecs == CodecCandidates(request.codec, request.playable)
Pairs == [i \in 1 .. Len(Encoders) * Len(Codecs) |->
            <<Encoders[1 + ((i - 1) \div Len(Codecs))], Codecs[1 + ((i - 1) % Len(Codecs))]>>]

Init ==
    /\ request \in [codec : {"auto", "h264", "hevc"}, playable : BOOLEAN,
                    profile : {"auto"} \cup DOMAIN MaxSize, source : Sources,
                    advertised : SUBSET (Range(Encoders) \X {"h264", "hevc"})]
    /\ pair = 1 /\ rung = 1 /\ working = None /\ trial = "none" /\ seen = {} /\ plan = None

Tries == IF request.profile = "auto" THEN Ladder ELSE <<request.profile>>

-----------------------------------------------------------------------------
Even(n) == IF n - (n % 2) < 2 THEN 2 ELSE n - (n % 2)

\* Mutant: the other side decides.
FitOtherSide(source, most) ==
    IF source[1] <= most[1] /\ source[2] <= most[2] THEN <<Even(source[1]), Even(source[2])>>
    ELSE IF source[1] * most[2] <= most[1] * source[2]
    THEN <<Even(most[1]), Even((source[2] * most[1]) \div source[1])>>
    ELSE <<Even((source[1] * most[2]) \div source[2]), Even(most[2])>>

FitWithin(source, most) ==
    IF source[1] <= most[1] /\ source[2] <= most[2] THEN <<Even(source[1]), Even(source[2])>>
    ELSE IF source[1] * most[2] > most[1] * source[2]
    THEN <<Even(most[1]), Even((source[2] * most[1]) \div source[1])>>
    ELSE <<Even((source[1] * most[2]) \div source[2]), Even(most[2])>>

Select(profile) ==
    plan' = [pair |-> Pairs[pair], profile |-> profile,
             size |-> FitWithin(request.source, MaxSize[profile])]

-----------------------------------------------------------------------------
Skip ==
    /\ plan = None /\ trial = "none" /\ pair <= Len(Pairs)
    /\ Pairs[pair] \notin request.advertised
    /\ pair' = pair + 1 /\ UNCHANGED <<request, rung, working, trial, seen, plan>>

Launch ==
    /\ plan = None /\ trial = "none" /\ pair <= Len(Pairs)
    /\ Pairs[pair] \in request.advertised
    /\ trial' = "running" /\ UNCHANGED <<request, pair, rung, working, seen, plan>>

\* One trial has ended: quickly enough, too slowly, or not at all.
NextRung(fastest) ==
    /\ rung' = IF rung < Len(Tries) THEN rung + 1 ELSE 1
    /\ IF rung < Len(Tries)
       THEN pair' = pair /\ plan' = plan /\ working' = fastest
       ELSE /\ working' = None
            /\ IF fastest = None THEN pair' = pair + 1 /\ plan' = plan
               ELSE pair' = pair /\ Select(fastest[1])

Outcome(outcome) ==
    LET profile == Tries[rung]
    IN  /\ trial' = "none"
        /\ seen' = seen \cup {<<Pairs[pair], profile, outcome>>}
        /\ IF outcome = "fast"
           THEN Select(profile) /\ UNCHANGED <<pair, rung, working>>
           ELSE NextRung(IF outcome = "slow" THEN <<profile>> ELSE working)
        /\ UNCHANGED request

\* An explicit profile is tried with one frame, and time does not matter.
Exits == /\ trial = "running"
         /\ \E outcome \in {"fast", "failed"} \cup
                           (IF request.profile = "auto" THEN {"slow"} ELSE {}) : Outcome(outcome)

\* The deadline passes, or too much is printed: killed, reaped, its readers joined.
Kill == /\ trial = "running" /\ trial' = "killed"
        /\ UNCHANGED <<request, pair, rung, working, seen, plan>>
Reaped == trial = "killed" /\ Outcome("failed")

Next == Skip \/ Launch \/ Exits \/ Kill \/ Reaped

Fairness == WF_vars(Skip \/ Launch) /\ WF_vars(Kill) /\ WF_vars(Reaped)
Spec == Init /\ [][Next]_vars /\ Fairness

-----------------------------------------------------------------------------
\* The plan is of the first advertised pair that worked at all, with the best profile
\* that had headroom, or else the lowest that worked; nothing is chosen that did not.
Ran(p, profile, outcomes) == \E outcome \in outcomes : <<p, profile, outcome>> \in seen
PlanIsBest ==
    plan # None =>
        LET chosen == CHOOSE i \in DOMAIN Pairs : Pairs[i] = plan.pair
            rungs == {i \in DOMAIN Tries : Ran(plan.pair, Tries[i], {"fast", "slow"})}
            best == CHOOSE i \in rungs : Tries[i] = plan.profile
        IN  /\ plan.pair \in request.advertised
            /\ plan.pair[2] = "hevc" => request.playable \/ request.codec = "hevc"
            /\ \A i \in 1 .. chosen - 1 : Pairs[i] \in request.advertised =>
                  \A j \in DOMAIN Tries : <<Pairs[i], Tries[j], "failed">> \in seen
            /\ plan.profile \in {Tries[i] : i \in rungs}
            /\ IF Ran(plan.pair, plan.profile, {"fast"})
               THEN \A i \in 1 .. best - 1 : ~Ran(plan.pair, Tries[i], {"fast"})
               ELSE \A i \in best + 1 .. Len(Tries) : <<plan.pair, Tries[i], "failed">> \in seen

\* The video fits the profile, is never larger than the game, has even sides, and keeps
\* the game's shape to within them.
SizeFits ==
    plan # None =>
        LET source == request.source
            most == MaxSize[plan.profile]
            size == plan.size
        IN  \A side \in 1 .. 2 :
                LET other == 3 - side
                IN  /\ size[side] % 2 = 0 /\ size[side] >= 2 /\ size[side] <= most[side]
                    /\ size[side] <= source[side] \/ size[side] = 2
                    \* no side is two short of what the other side asks for
                    /\ source[other] > most[other] /\ size[other] = Even(most[other]) =>
                          (size[side] + 2) * source[other] > source[side] * size[other]

PlanIsSound == PlanIsBest /\ SizeFits

\* The choice ends, with a plan or with none.
ChoiceEnds == <>(plan # None \/ pair > Len(Pairs))
=============================================================================
