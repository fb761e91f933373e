----------------------- MODULE RecordingPublicationMC -----------------------
(***************************************************************************)
(* A recording's directory and the directory of recordings, each on its    *)
(* own; a behaviour chooses one of the two parts.                          *)
(*                                                                         *)
(* bundle: two generations with the same timeline, one with another, and   *)
(* one that fails validation.  pass: names over the digits 0 and 1 that    *)
(* are prefixes of each other, damaged bundles in front of sound ones.     *)
(***************************************************************************)
EXTENDS RecordingPublication

CONSTANTS
    recorded, copied, other, broken, first, second,
    Digits, TimestampLength, SuffixLength, Sound, Damaged, Kept, Canonical, Noise,
    MaxEntries, MaxSearches, MaxProbes, MaxFailures

MCMedia == {recorded, copied, other, broken}
MCTimelines == {first, second}
MCTimeline == [m \in MCMedia |-> IF m = other THEN second
                                 ELSE IF m = broken THEN Invalid ELSE first]

VARIABLES part, recovered, cursor, pass, present, failures

passVars == <<recovered, cursor, pass, present, failures>>

\* The letters of a name: the dash, and the digits 0 and 1.
D == 0
O == 1
I == 2

MCSound == {<<I>>, <<I, O, D, I>>}
MCDamaged == {<<O, D, I>>, <<I, O>>}
MCKept == {<<O>>}
MCNoise == {<<I, D>>, <<9>>}

Pass == INSTANCE RecoveryPass WITH
    MaxFaults <- MaxFailures, league <- present, faults <- failures

ASSUME DirectoryAssumption == Pass!PassAssumption

PublicationInit == part \in {"bundle", "pass"} /\ Init /\ Pass!Init

PublicationNext ==
    /\ \/ part = "bundle" /\ Next /\ UNCHANGED passVars
       \/ part = "pass" /\ Pass!Next /\ UNCHANGED vars
    /\ UNCHANGED part

PublicationSpec ==
    /\ PublicationInit /\ [][PublicationNext]_<<part, vars, passVars>>
    /\ WF_vars(part = "bundle" /\ Recorder) /\ WF_vars(part = "bundle" /\ LeagueEnds)
    /\ WF_passVars(part = "pass" /\ Pass!Maintenance)
    /\ WF_passVars(part = "pass" /\ Pass!LeagueEnds)

\* Whatever the listing order, the budgets, crashes and games, the frontier of
\* the recovery pass only leaves bundles behind whose turn has come.
NothingIsSkipped == Pass!NothingIsSkipped

=============================================================================
