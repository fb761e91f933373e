---------------------------- MODULE RecoveryPass ----------------------------
(***************************************************************************)
(* Which interrupted recordings an orderly exit looks at: the bounded pass *)
(* of recorder/src/finalizer/recovery.rs over the games directory and the  *)
(* prefix frontier of recovery/discovery.rs that it leaves in its cursor   *)
(* file for the next exit.  The reconciliation of one bundle is that of    *)
(* RecordingPublication; here it is recovered, refused or deferred.        *)
(*                                                                         *)
(* A name is a sequence over ALPHABET: 0 stands for the dash and d + 1 for *)
(* the digit d.  Other names are sequences that no bundle has.             *)
(***************************************************************************)
EXTENDS Naturals, SequencesExt, FiniteSetsExt

CONSTANTS
    Digits,            \* number of digits; 10
    TimestampLength,   \* digits of a timestamp; 20 for a u64
    SuffixLength,      \* digits of a collision suffix; 3
    Sound,             \* bundles that a probe would let recover
    Damaged,           \* bundles that are probed in vain
    Kept,              \* bundles without usable evidence: no probe
    Canonical,         \* bundles with metadata.json
    Noise,             \* other entries of the directory
    MaxEntries, MaxSearches, MaxProbes,  \* 512, 512 and 4
    MaxFaults          \* bound on games, crashes, failures and deadlines

Bundles == Sound \cup Damaged \cup Kept \cup Canonical
Entries == Bundles \cup Noise

VARIABLES
    recovered,  \* the sound bundles that were published
    cursor,     \* the saved frontier
    pass,       \* the running pass
    league,     \* a League process is present
    faults

vars == <<recovered, cursor, pass, league, faults>>

-----------------------------------------------------------------------------
(* Prefixes (discovery.rs).                                                *)

Dash == 0
Zero == 1
Alphabet == 0 .. Digits

\* Digits without a leading zero, "0" itself excepted where it may stand.
Timestamp(s) ==
    /\ Len(s) \in 1 .. TimestampLength
    /\ \A i \in 1 .. Len(s) : s[i] \in Alphabet \ {Dash}
    /\ s[1] = Zero => Len(s) = 1

SuffixPrefix(s) ==
    /\ Len(s) <= SuffixLength
    /\ \A i \in 1 .. Len(s) : s[i] \in Alphabet \ {Dash}
    /\ s # <<>> => s[1] # Zero

\* valid_prefix: some bundle name may start like this.
ValidPrefix(p) ==
    \/ p = <<>> \/ Timestamp(p)
    \/ \E n \in 1 .. Len(p) - 1 :
          /\ p[n + 1] = Dash
          /\ Timestamp(SubSeq(p, 1, n)) /\ SuffixPrefix(SubSeq(p, n + 2, Len(p)))

\* bundle_name: a timestamp, or a timestamp and a suffix.
BundleName(p) == p # <<>> /\ ValidPrefix(p) /\ p[Len(p)] # Dash

PassAssumption ==
    /\ Digits \in Nat /\ TimestampLength \in Nat /\ SuffixLength \in Nat
    /\ \A b \in Bundles : b \in Seq(Alphabet) /\ BundleName(b)
    /\ IsFiniteSet(Entries)
    /\ MaxEntries \in Nat /\ MaxSearches \in Nat /\ MaxProbes \in Nat /\ MaxFaults \in Nat

\* The symbols among cs that extend a prefix to a valid one.
Extensions(p, cs) == {c \in cs : ValidPrefix(Append(p, c))}

None == <<Digits + 1>>

\* descend: the first child of a region that is split.
Descend(p) ==
    LET children == Extensions(p, Alphabet)
    IN IF children = {} THEN None ELSE Append(p, Min(children))

\* advance: the next region in depth-first order that is not below this one.
Advance(p) ==
    LET Parent(k) == SubSeq(p, 1, k - 1)
        Later(k) == Extensions(Parent(k), {c \in Alphabet : c > p[k]})
        levels == {k \in 1 .. Len(p) : Later(k) # {}}
        level == Max(levels)
    IN IF levels = {} THEN None ELSE Append(Parent(level), Min(Later(level)))

OrElse(p, q) == IF p = None THEN q ELSE p

\* Where a region that was not exhausted goes on.
Split(p) == OrElse(Descend(p), Advance(p))

-----------------------------------------------------------------------------
(* One pass (run in recovery.rs).                                          *)

Phases == {"off", "top", "attempt", "budget", "entries", "finish"}

\* The locals of run; `tried` is the history of this sweep of the frontier.
Pass == [phase : Phases, prefix : Seq(Alphabet), tried : SUBSET Bundles,
         names : SUBSET Bundles, target : Seq(Nat), exhausted : BOOLEAN,
         inspected : 0 .. MaxEntries, searches : 0 .. MaxSearches,
         probes : 0 .. MaxProbes, idle : BOOLEAN, late : BOOLEAN,
         hinted : BOOLEAN]

NoPass == [phase |-> "off", prefix |-> <<>>, tried |-> {}, names |-> {},
           target |-> None, exhausted |-> FALSE, inspected |-> 0,
           searches |-> 0, probes |-> 0, idle |-> TRUE, late |-> FALSE,
           hinted |-> FALSE]

\* may_continue: once League was seen, the pass does not resume.
MayContinue == pass.idle /\ ~league

\* A new frontier; after the last one the sweep starts over.
At(frontier, p) ==
    IF frontier = None THEN [p EXCEPT !.prefix = <<>>, !.tried = {}]
                       ELSE [p EXCEPT !.prefix = frontier]

To(phase, p) == [p EXCEPT !.phase = phase]


\* Cursor::open.
SavedFrontier == cursor

\* An orderly exit without a game: from the cursor, or from the root when the
\* cursor file cannot be used.
Start ==
    /\ pass.phase = "off" /\ ~league
    /\ \/ /\ pass' = [NoPass EXCEPT !.phase = "top", !.hinted = TRUE,
                                    !.prefix = SavedFrontier.prefix,
                                    !.tried = SavedFrontier.tried]
          /\ UNCHANGED faults
       \/ /\ faults < MaxFaults /\ faults' = faults + 1
          /\ pass' = To("top", NoPass)
    /\ UNCHANGED <<recovered, cursor, league>>

\* The loop's conditions.
WithinBudget ==
    /\ pass.inspected < MaxEntries /\ pass.searches < MaxSearches
    /\ pass.probes < MaxProbes /\ ~pass.late

\* The top of the loop: a prefix that is itself a bundle name is looked at
\* before its region is searched.
Top ==
    /\ pass.phase = "top"
    /\ \/ /\ ~WithinBudget
          /\ pass' = To("finish", pass)
       \/ /\ WithinBudget /\ ~MayContinue
          /\ pass' = To("finish", [pass EXCEPT !.idle = FALSE])
       \/ /\ WithinBudget /\ MayContinue /\ ~BundleName(pass.prefix)
          /\ pass' = To("budget", pass)
       \/ /\ WithinBudget /\ MayContinue /\ BundleName(pass.prefix)
          /\ LET counted == [pass EXCEPT !.inspected = @ + 1]
             IN pass' = IF pass.prefix \in Bundles
                        THEN To("attempt", [counted EXCEPT !.target = pass.prefix])
                        ELSE To("budget", counted)
    /\ UNCHANGED <<recovered, cursor, league, faults>>

Exact == pass.target = pass.prefix

\* attempt returns true: the entry has its disposition.
Settled(p) ==
    LET next == [p EXCEPT !.tried = @ \cup {pass.target}, !.target = None]
    IN IF Exact THEN To("budget", next)
       ELSE To("entries", [next EXCEPT !.names = @ \ {pass.target}])

\* attempt returns false: the frontier stays, or splits the listed region.
Deferred(p) ==
    LET next == [p EXCEPT !.target = None]
    IN To("finish", IF Exact THEN next ELSE At(Split(p.prefix), next))

Candidate(n) == n \in Damaged \cup (Sound \ recovered)

\* Canonical metadata is noticed without asking for League; everything else
\* is inspected while it is absent, and a candidate costs a probe.
Attempt ==
    /\ pass.phase = "attempt"
    /\ LET n == pass.target
           probed == Settled([pass EXCEPT !.probes = @ + 1])
       IN \/ /\ n \in Canonical \cup recovered
             /\ pass' = Settled(pass)
             /\ UNCHANGED <<recovered, faults>>
          \/ /\ n \notin Canonical \cup recovered /\ ~MayContinue
             /\ pass' = Deferred([pass EXCEPT !.idle = FALSE])
             /\ UNCHANGED <<recovered, faults>>
          \/ /\ n \in Kept /\ MayContinue
             /\ pass' = Settled(pass)
             /\ UNCHANGED <<recovered, faults>>
          \/ /\ Candidate(n) /\ MayContinue
             /\ pass.probes >= MaxProbes \/ pass.late
             /\ pass' = Deferred(pass)
             /\ UNCHANGED <<recovered, faults>>
          \/ /\ Candidate(n) /\ MayContinue
             /\ pass.probes < MaxProbes /\ ~pass.late
             /\ pass' = probed
             /\ recovered' = recovered \cup ({n} \cap Sound)
             /\ UNCHANGED faults
          \/ /\ Candidate(n) /\ MayContinue  \* a call fails, or the probe
             /\ pass.probes < MaxProbes /\ ~pass.late
             /\ faults < MaxFaults /\ faults' = faults + 1
             /\ pass' \in {probed, Settled(pass)}
             /\ UNCHANGED recovered
    /\ UNCHANGED <<cursor, league>>

\* What one search may return: every match, or as many as the limit allows in
\* any order; fewer when the deadline passes.
Matching(p) == {n \in Entries : IsPrefix(p, n)}

\* What is left of the entry budget.
Limit == MaxEntries - pass.inspected

\* discover, if the budget and League allow it.
Search ==
    /\ pass.phase = "budget"
    /\ LET spent == \/ pass.inspected = MaxEntries \/ pass.probes = MaxProbes
                    \/ pass.late
           matching == Matching(pass.prefix)
           Found(names, exhausted) ==
               [pass EXCEPT !.phase = "entries", !.searches = @ + 1,
                            !.inspected = @ + Cardinality(names),
                            !.names = (names \cap Bundles) \ {pass.prefix},
                            !.exhausted = exhausted]
       IN \/ /\ spent
             /\ pass' = To("finish", At(Split(pass.prefix), pass))
             /\ UNCHANGED faults
          \/ /\ ~spent /\ ~MayContinue
             /\ pass' = To("finish", [pass EXCEPT !.idle = FALSE])
             /\ UNCHANGED faults
          \/ /\ ~spent /\ MayContinue
             /\ \E names \in SUBSET matching :
                   /\ Cardinality(names) = Min({Limit, Cardinality(matching)})
                   /\ pass' = Found(names, Cardinality(names) < Limit)
             /\ UNCHANGED faults
          \/ /\ ~spent /\ MayContinue
             /\ faults < MaxFaults /\ faults' = faults + 1
             /\ \E names \in SUBSET matching :
                   /\ Cardinality(names) < Limit
                   /\ pass' = [Found(names, FALSE) EXCEPT !.late = TRUE]
    /\ UNCHANGED <<recovered, cursor, league>>

\* Mutant: a region that was listed in part counts as exhausted.
AfterAny == Advance(pass.prefix)

\* Only an exhausted region is left behind.
AfterRegion == IF pass.exhausted THEN Advance(pass.prefix) ELSE Split(pass.prefix)

\* The listed entries one by one, then the next region.
Listed ==
    /\ pass.phase = "entries"
    /\ \/ \E n \in pass.names :
             pass' = IF pass.probes = MaxProbes \/ pass.late
                     THEN To("finish", At(Split(pass.prefix), pass))
                     ELSE To("attempt", [pass EXCEPT !.target = n])
       \/ /\ pass.names = {}
          /\ pass' = To(IF AfterRegion = None THEN "finish" ELSE "top",
                        At(AfterRegion, pass))
    /\ UNCHANGED <<recovered, cursor, league, faults>>

\* The frontier is saved unless League was seen.
Finish ==
    /\ pass.phase = "finish"
    /\ cursor' = IF pass.hinted /\ MayContinue
                 THEN [prefix |-> pass.prefix, tried |-> pass.tried]
                 ELSE cursor
    /\ pass' = NoPass
    /\ UNCHANGED <<recovered, league, faults>>

-----------------------------------------------------------------------------
(* The environment.                                                        *)

\* The process dies, or a search or save fails: the pass ends unsaved.
Crash ==
    /\ pass.phase # "off" /\ faults < MaxFaults
    /\ pass' = NoPass
    /\ faults' = faults + 1
    /\ UNCHANGED <<recovered, cursor, league>>

\* ADMISSION_BUDGET runs out.
DeadlinePasses ==
    /\ pass.phase # "off" /\ ~pass.late /\ faults < MaxFaults
    /\ pass' = [pass EXCEPT !.late = TRUE]
    /\ faults' = faults + 1
    /\ UNCHANGED <<recovered, cursor, league>>

LeagueAppears ==
    /\ ~league /\ faults < MaxFaults
    /\ league' = TRUE
    /\ faults' = faults + 1
    /\ UNCHANGED <<recovered, cursor, pass>>

LeagueEnds ==
    /\ league /\ league' = FALSE
    /\ UNCHANGED <<recovered, cursor, pass, faults>>

-----------------------------------------------------------------------------
Init ==
    /\ recovered = {}
    /\ cursor = [prefix |-> <<>>, tried |-> {}]
    /\ pass = NoPass
    /\ league = FALSE /\ faults = 0

Maintenance == Start \/ Top \/ Attempt \/ Search \/ Listed \/ Finish

Next == \/ Maintenance
        \/ Crash \/ DeadlinePasses \/ LeagueAppears \/ LeagueEnds

\* Orderly exits without a game keep coming, and each pass runs to its end.
Spec == Init /\ [][Next]_vars /\ WF_vars(Maintenance) /\ WF_vars(LeagueEnds)

-----------------------------------------------------------------------------
\* Depth-first order of names.
Before(n, p) ==
    \/ IsStrictPrefix(n, p)
    \/ \E k \in 1 .. Min({Len(n), Len(p)}) :
          n[k] < p[k] /\ SubSeq(n, 1, k - 1) = SubSeq(p, 1, k - 1)

\* The bundles that a frontier has left behind; the root follows them all.
LeftBehind(p) == IF p = <<>> THEN Bundles ELSE {n \in Bundles : Before(n, p)}

\* Whatever the listing order, the budgets, crashes and games, a frontier only
\* leaves bundles behind whose turn has come since the sweep began: none is
\* lost between a name and the names that it is a prefix of.
NothingIsSkipped ==
    [][(/\ pass.phase \in {"attempt", "budget", "entries"}
        /\ pass'.phase \in {"top", "finish"}
        /\ pass'.prefix # pass.prefix \/ (pass.phase = "entries" /\ pass.names = {}))
       => LeftBehind(pass'.prefix) \subseteq pass.tried]_vars

=============================================================================
