------------------------------ MODULE AppProofs ------------------------------
(***************************************************************************)
(* Theorems about what the app does with finished media (AppMC): that the  *)
(* preparation of League data is sound, for any bundles, media identities  *)
(* and bounds.                                                             *)
(*                                                                         *)
(* The rows only say what was read of a version (RowRule); that a version  *)
(* is the one that they stand for follows from its fingerprint, which is   *)
(* taken before anything is read and compared afterwards.  Files change in *)
(* between, but a version that was replaced does not come back (Before),   *)
(* so what the worker holds is of its version, if that is still there      *)
(* (VersionRule).  That no change is forgotten has to follow every change  *)
(* from the watch into a preparation and out of it: it is noticed, in a    *)
(* scan, or in what the worker has left to do (WorkRule, ChangeRule), and  *)
(* what counts as done is the version on disk or an earlier one            *)
(* (DoneRule).                                                             *)
(***************************************************************************)
EXTENDS AppMC, WellFoundedInduction, TLAPS

Source == [media : Media, match : BOOLEAN, result : Nat, journal : Nat, generation : Nat,
           sound : BOOLEAN]
Stamps == Source \cup {League!Gone, League!NoStamp}
Summaries == [media : Media, match : BOOLEAN]
Changes == [all : BOOLEAN, of : [Bundles -> 0 .. 2]]
Telemetries == [status : {"pending", "ready", "unavailable"}, stamp : Stamps, position : Nat,
                generation : Nat, pages : Nat \X Nat]
Rows == [bundle : Bundles, summary : Summaries, facts : Nat, match : BOOLEAN, history : Stamps,
         current : BOOLEAN, telemetry : Telemetries]

\* A preparation that scans, or that works on a recording.
Scanning == [step : {"scan", "reconcile"}, changes : Changes, targets : SUBSET Bundles,
             full : BOOLEAN]
Beginning == [step : {"begin", "failed"}, changes : Changes, pass : {"cards", "full"},
              left : SUBSET Bundles, pending : [Bundles -> Stamps], bundle : Bundles]
Preparing == [step : {"decode", "bless", "import", "overlay", "failed"}, changes : Changes,
              pass : {"cards", "full"}, left : SUBSET Bundles, pending : [Bundles -> Stamps],
              bundle : Bundles, stamp : Source]
Committing == [step : {"commit", "failed"}, changes : Changes,
               pass : {"cards", "full"}, left : SUBSET Bundles, pending : [Bundles -> Stamps],
               bundle : Bundles, stamp : Source, reached : Nat, generation : Nat,
               complete : BOOLEAN]

TypeOK ==
    /\ source \in [Bundles -> Source \cup {League!Gone}]
    /\ watch \in BOOLEAN /\ hints \in Changes /\ retry \in Changes
    /\ games \in [Bundles -> Summaries \cup {League!NoGame}]
    /\ completed \in [Bundles -> Stamps]
    /\ rows \in [Media -> Rows \cup {League!NoRow}]
    /\ job \in {League!Idle} \cup Scanning \cup Beginning \cup Preparing \cup Committing
    /\ edits \in Nat

\* What is said of a row holds of the version that it is the row of.
RowIsSound(m, r) ==
    LET t == r.telemetry IN
    /\ r # League!NoRow /\ t.status = "ready" =>
          /\ t.stamp \in Source /\ t.stamp.sound
          /\ t.position = t.stamp.journal /\ t.generation = t.stamp.generation
    /\ r # League!NoRow /\ r.current =>
          /\ r.history \in Source /\ r.history.media = m
          /\ r.facts = r.history.result /\ r.match = r.history.match
          /\ r.match = r.summary.match
RowsAreSound(table) == \A m \in Media : RowIsSound(m, table[m])
RowRule == RowsAreSound(rows)

\* A fingerprint that was taken is of the bundle as it is, or as it will not be again.
Before(s, b) ==
    /\ s.generation <= edits
    /\ LET now == source[b] IN
       now # League!Gone =>
          \/ s.generation < now.generation
          \/ /\ s.generation = now.generation /\ s.media = now.media /\ s.sound = now.sound
             /\ s.match => now.match
             /\ s.result <= now.result /\ s.journal <= now.journal

Working == job.step \notin {"idle", "scan", "reconcile"}
Stamped == job.step \in {"decode", "bless", "import", "commit", "overlay"}

Reaches(changes, b) == changes.all \/ changes.of[b] > 0
Finds(changes, b) == changes.all \/ changes.of[b] = 2

\* A preparation works on what it scanned and was asked for.
WorkRule ==
    /\ job.step \in {"scan", "reconcile"} =>
          \A b \in Bundles : job.full \/ b \in job.targets => Reaches(job.changes, b)
    /\ Working =>
          /\ job.bundle \in job.left
          /\ \A b \in job.left : job.pending[b] # League!NoStamp
          /\ \A b \in Bundles : job.pending[b] # League!NoStamp =>
                b \in League!Listed(games) /\ Reaches(job.changes, b)
    /\ job.step \in {"import", "commit", "overlay", "failed"} => job.pass = "full"

\* What it has read is of the version it stands for, if that is still there.
VersionRule ==
    /\ \A b \in Bundles : source[b] # League!Gone => source[b].generation <= edits
    /\ Stamped => /\ Before(job.stamp, job.bundle)
                  /\ job.stamp.media = games[job.bundle].media
    /\ job.step \in {"bless", "import", "commit", "overlay"} =>
          League!Row(job.bundle) # League!NoRow /\ League!Row(job.bundle).bundle = job.bundle
    /\ job.step = "bless" =>
          /\ League!Row(job.bundle).match = League!Row(job.bundle).summary.match
          /\ source[job.bundle] = job.stamp =>
                /\ League!Row(job.bundle).facts = job.stamp.result
                /\ League!Row(job.bundle).match = job.stamp.match
    /\ job.step = "commit" /\ source[job.bundle] = job.stamp =>
          /\ job.generation = job.stamp.generation /\ job.stamp.sound
          /\ job.complete => job.reached = job.stamp.journal

\* A version that is replaced does not come back: what counts as done, or is about to,
\* is the version that is there, or one before it.
DoneRule ==
    \A b \in Bundles :
        /\ completed[b] \in Source => Before(completed[b], b)
        /\ Working =>
              /\ job.pending[b] \in Source => Before(job.pending[b], b)
              /\ job.pending[b] # League!NoStamp /\ source[b] # League!Gone /\ completed[b] = source[b] =>
                    job.pending[b] = source[b]

\* Where a change is that is not prepared: noticed, or in a preparation.
Noticed(b) == \E c \in {hints, retry} : Reaches(c, b)
Discovered(b) == \E c \in {hints, retry} : Finds(c, b)
InScan(b) == job.full \/ b \in job.targets
InWork(b) == job.pending[b] = source[b] /\ (job.pass = "cards" \/ b \in job.left)
ChangeRule ==
    watch => \A b \in Bundles : source[b] # League!Gone =>
        /\ b \notin League!Listed(games) => Discovered(b) \/ (job.step = "scan" /\ InScan(b))
        /\ b \notin deferred /\ completed[b] # source[b] =>
              \/ Noticed(b)
              \/ job.step \in {"scan", "reconcile"} /\ InScan(b)
              \/ Working /\ InWork(b)

IndexInvariant ==
    TypeOK /\ RowRule /\ WorkRule /\ VersionRule /\ DoneRule /\ ChangeRule

-----------------------------------------------------------------------------
(* Records and choices. *)

\* A recording is chosen among those that are left.
LEMMA Chosen ==
    ASSUME NEW S, S \subseteq Nat, S # {}
    PROVE  (CHOOSE b \in S : \A c \in S : b <= c) \in S
  <1> DEFINE R == OpToRel(<, Nat)
  <1>1. IsWellFoundedOn(R, Nat)
    BY NatLessThanWellFounded
  <1>2. \A x, y \in Nat : <<x, y>> \in R <=> x < y
    BY DEF OpToRel
  <1> HIDE DEF R
  <1>3. PICK b \in S : \A c \in S : ~(<<c, b>> \in R)
    BY <1>1, WFMin
  <1>4. ASSUME NEW c \in S PROVE b <= c
    <2>1. b \in Nat /\ c \in Nat
      OBVIOUS
    <2>2. ~(c < b)
      BY <1>2, <1>3, <2>1
    <2> QED BY <2>1, <2>2
  <1> QED BY <1>4

\* The values that stand for nothing are none of the others.
LEMMA Absent ==
    ASSUME League!PreparationAssumption
    PROVE  /\ League!Gone \notin Source /\ League!NoStamp \notin Source /\ League!Gone # League!NoStamp
           /\ League!NoRow \notin Rows /\ League!NoGame \notin Summaries
  <1>1. League!Gone \notin Source /\ League!NoStamp \notin Source /\ League!NoGame \notin Summaries
    BY DEF League!Gone, League!NoStamp, League!NoGame, Source, Summaries, League!PreparationAssumption
  <1>2. League!NoRow \notin Rows
    BY DEF League!NoRow, Rows, League!PreparationAssumption
  <1>3. League!Gone # League!NoStamp
    BY DEF League!Gone, League!NoStamp
  <1> QED BY <1>1, <1>2, <1>3

\* By its step, a job has the fields that the step uses.
LEMMA Jobs ==
    ASSUME TypeOK
    PROVE  /\ job.step = "idle" <=> job = League!Idle
           /\ job.step \in {"scan", "reconcile"} => job \in Scanning
           /\ job.step = "begin" => job \in Beginning
           /\ job.step \in {"decode", "bless", "import", "overlay"} => job \in Preparing
           /\ job.step = "commit" => job \in Committing
           /\ job.step = "failed" => job \in Beginning \cup Preparing \cup Committing
           /\ Working => job \in Beginning \cup Preparing \cup Committing
  BY DEF TypeOK, Working, League!Idle, Scanning, Beginning, Preparing, Committing

\* Work on a recording is a preparation with a stage of its own.
LEMMA Works ==
    ASSUME TypeOK, Working
    PROVE  /\ job.changes \in Changes /\ job.pass \in {"cards", "full"}
           /\ job.left \subseteq Bundles /\ job.pending \in [Bundles -> Stamps]
           /\ job.bundle \in Bundles
  BY Jobs DEF Beginning, Preparing, Committing

\* Merging two sets of changes loses none and stays within two levels.
LEMMA Merges ==
    ASSUME NEW c \in Changes, NEW d \in Changes
    PROVE  /\ League!Merge(c, d) \in Changes
           /\ League!Nothing \in Changes /\ League!Everything \in Changes
           /\ League!Merge(c, d).all <=> c.all \/ d.all
           /\ \A b \in Bundles :
                 /\ Reaches(League!Merge(c, d), b) <=> Reaches(c, b) \/ Reaches(d, b)
                 /\ Finds(League!Merge(c, d), b) <=> Finds(c, b) \/ Finds(d, b)
                 /\ Finds(c, b) => Reaches(c, b)
                 /\ Reaches(League!Everything, b) /\ Finds(League!Everything, b)
                 /\ ~Reaches(League!Nothing, b)
  <1>0. League!Nothing \in Changes /\ ~League!Nothing.all /\ \A b \in Bundles : League!Nothing.of[b] = 0
    BY DEF League!Nothing, Changes
  <1>1. League!Nothing \in Changes /\ League!Everything \in Changes
        /\ League!Everything.all /\ ~League!Nothing.all
        /\ \A b \in Bundles : League!Nothing.of[b] = 0
    BY <1>0 DEF League!Everything, Changes
  <1>2. \A b \in Bundles : Finds(c, b) => Reaches(c, b)
    BY DEF Finds, Reaches, Changes
  <1>3. CASE c.all \/ d.all
    BY <1>1, <1>2, <1>3 DEF League!Merge, Reaches, Finds
  <1>4. CASE ~c.all /\ ~d.all
    <2> DEFINE e == [c EXCEPT !.of = [b \in Bundles |-> League!Higher(c.of[b], d.of[b])]]
    <2>1. League!Merge(c, d) = e
      BY <1>4 DEF League!Merge
    <2>2. \A b \in Bundles : League!Higher(c.of[b], d.of[b]) \in 0 .. 2
      BY DEF League!Higher, Changes
    <2>3. e \in Changes /\ ~e.all /\ \A b \in Bundles : e.of[b] = League!Higher(c.of[b], d.of[b])
      BY <1>4, <2>2 DEF Changes
    <2>4. \A b \in Bundles : /\ League!Higher(c.of[b], d.of[b]) > 0 <=> c.of[b] > 0 \/ d.of[b] > 0
                             /\ League!Higher(c.of[b], d.of[b]) = 2 <=> c.of[b] = 2 \/ d.of[b] = 2
      BY DEF League!Higher, Changes
    <2> HIDE DEF e
    <2> QED BY <1>1, <1>2, <1>4, <2>1, <2>3, <2>4 DEF Reaches, Finds
  <1> QED BY <1>3, <1>4


\* The next recording is one that is left, and none is dropped that was to be prepared.
LEMMA NextWorks ==
    ASSUME League!PreparationAssumption, job.changes \in Changes,
           NEW left \in SUBSET Bundles, NEW pass \in {"cards", "full"},
           NEW stamps \in [Bundles -> Stamps], \A b \in left : stamps[b] # League!NoStamp
    PROVE  LET next == League!NextGame(left, pass, stamps) IN
           /\ next \in {League!Idle} \cup Beginning
           /\ next # League!Idle =>
                 /\ next.step = "begin" /\ next.pending = stamps /\ next.changes = job.changes
                 /\ next.bundle \in next.left
                 /\ \A b \in next.left : stamps[b] # League!NoStamp
           /\ \A b \in Bundles : stamps[b] # League!NoStamp /\ (pass = "cards" \/ b \in left) =>
                 next # League!Idle /\ (next.pass = "cards" \/ b \in next.left)
  <1> DEFINE next == League!NextGame(left, pass, stamps)
             all == {b \in Bundles : stamps[b] # League!NoStamp}
             Job(p, l, b) == [step |-> "begin", changes |-> job.changes, pass |-> p, left |-> l,
                              pending |-> stamps, bundle |-> b]
  <1>0. Bundles \subseteq Nat
    BY DEF League!PreparationAssumption
  <1>1. \A p \in {"cards", "full"}, l \in SUBSET Bundles, b \in Bundles :
            /\ Job(p, l, b) \in Beginning /\ Job(p, l, b) # League!Idle
            /\ Job(p, l, b).step = "begin" /\ Job(p, l, b).pending = stamps
            /\ Job(p, l, b).changes = job.changes /\ Job(p, l, b).bundle = b
            /\ Job(p, l, b).left = l /\ Job(p, l, b).pass = p
    BY DEF Beginning, League!Idle
  <1>2. CASE left # {}
    <2> DEFINE b == CHOOSE x \in left : \A c \in left : x <= c
    <2>1. next = Job(pass, left, b)
      BY <1>2 DEF League!NextGame
    <2>2. b \in left
      BY <1>0, <1>2, Chosen
    <2> HIDE DEF b, Job, next
    <2>3. next \in Beginning /\ next # League!Idle /\ next.step = "begin" /\ next.pending = stamps
          /\ next.changes = job.changes /\ next.bundle = b /\ next.left = left /\ next.pass = pass
      BY <1>1, <2>1, <2>2
    <2> QED BY <2>2, <2>3 DEF next
  <1>3. CASE left = {} /\ pass = "cards" /\ all # {}
    <2> DEFINE b == CHOOSE x \in all : \A c \in all : x <= c
    <2>1. next = Job("full", all, b)
      BY <1>3 DEF League!NextGame
    <2>2. b \in all /\ b \in Bundles /\ all \in SUBSET Bundles
      <3>1. all \subseteq Nat
        BY <1>0
      <3> QED BY <3>1, <1>3, Chosen
    <2>a. \A c \in Bundles : stamps[c] # League!NoStamp => c \in all
      OBVIOUS
    <2>b. \A c \in all : stamps[c] # League!NoStamp
      OBVIOUS
    <2> HIDE DEF b, Job, next, all
    <2>3. next \in Beginning /\ next # League!Idle /\ next.step = "begin" /\ next.pending = stamps
          /\ next.changes = job.changes /\ next.bundle = b /\ next.left = all
      BY <1>1, <2>1, <2>2
    <2> QED BY <2>2, <2>3, <2>a, <2>b DEF next
  <1>4. CASE left = {} /\ ~(pass = "cards" /\ all # {})
    <2>1. next = League!Idle
      BY <1>4 DEF League!NextGame
    <2>2. \A b \in Bundles : ~(stamps[b] # League!NoStamp /\ (pass = "cards" \/ b \in left))
      BY <1>4
    <2> QED BY <2>1, <2>2
  <1> QED BY <1>2, <1>3, <1>4

-----------------------------------------------------------------------------
(* Changes of files. *)

\* What a change of a bundle does: it is new, and it is later than what was there.
Later(b, new, discover) ==
    /\ source' = [source EXCEPT ![b] = new] /\ new # source[b]
    /\ edits' = edits + 1
    /\ new # League!Gone /\ source[b] = League!Gone => new.generation = edits + 1
    /\ new # League!Gone /\ source[b] # League!Gone =>
          \/ new.generation = edits + 1
          \/ /\ new.generation = source[b].generation
             /\ new.media = source[b].media /\ new.sound = source[b].sound
             /\ source[b].match => new.match
             /\ source[b].result <= new.result /\ source[b].journal <= new.journal
    /\ source[b] = League!Gone => discover
    /\ watch => \/ hints' = League!Everything
                \/ hints' = League!Merge(hints, [League!Nothing EXCEPT !.of[b] = IF discover THEN 2 ELSE 1])
    /\ ~watch => hints' = hints
    /\ UNCHANGED <<watch, retry, games, completed, rows, token, job, deferred>>

\* A version of a file is only ever replaced by a later one.
LEMMA FilesAreLater ==
    ASSUME League!PreparationAssumption, TypeOK, League!Files
    PROVE  \E b \in Bundles, new \in Source \cup {League!Gone}, discover \in BOOLEAN :
              Later(b, new, discover)
  <1>1. PICK b \in Bundles : \/ League!Publish(b) \/ League!Remove(b) \/ League!MatchArrives(b)
                             \/ League!ResultArrives(b)
                             \/ League!JournalGrows(b) \/ League!JournalReplaced(b)
    BY DEF League!Files
  <1>0. source[b] \in Source \cup {League!Gone} /\ edits \in Nat /\ MaxBatches \in Nat /\ MaxBatches > 0
        /\ watch \in BOOLEAN
    BY DEF TypeOK, League!PreparationAssumption
  <1> DEFINE now == source[b]
  <1>2. CASE League!Publish(b)
    <2>1. PICK m \in Media : League!Edit(b, League!Published(m), TRUE)
      BY <1>2 DEF League!Publish
    <2>2. League!Published(m) \in Source /\ League!Published(m).generation = edits + 1
          /\ source[b] = League!Gone
      BY <1>0, <1>2 DEF League!Published, League!Publish, Source
    <2>3. Later(b, League!Published(m), TRUE)
      BY <2>1, <2>2 DEF League!Edit, Later
    <2> QED BY <2>2, <2>3
  <1>3. CASE League!Remove(b)
    <2>1. Later(b, League!Gone, TRUE)
      BY <1>3 DEF League!Remove, League!Edit, Later
    <2> QED BY <2>1
  <1>4. CASE League!MatchArrives(b)
    <2> DEFINE new == [now EXCEPT !.match = TRUE]
    <2>1. now # League!Gone /\ now \in Source /\ League!Edit(b, new, FALSE)
      BY <1>0, <1>4 DEF League!MatchArrives
    <2>a. now.result \in Nat /\ now.journal \in Nat
          /\ now.result <= now.result /\ now.journal <= now.journal
      BY <2>1 DEF Source
    <2>b. new \in Source /\ new.generation = now.generation /\ new.media = now.media
          /\ new.sound = now.sound /\ new.match /\ new.result = now.result
          /\ new.journal = now.journal
      BY <2>1 DEF Source
    <2>2. new \in Source /\ new.generation = now.generation /\ new.media = now.media
          /\ new.sound = now.sound /\ new.match /\ now.result <= new.result
          /\ now.journal <= new.journal
      BY <2>a, <2>b
    <2> HIDE DEF new
    <2>3. Later(b, new, FALSE)
      BY <2>1, <2>2 DEF League!Edit, Later
    <2> QED BY <2>2, <2>3
  <1>5. CASE League!ResultArrives(b)
    <2> DEFINE new == [now EXCEPT !.result = @ + 1]
    <2>1. now # League!Gone /\ now \in Source /\ League!Edit(b, new, FALSE)
      BY <1>0, <1>5 DEF League!ResultArrives
    <2>a. now.result \in Nat /\ now.result + 1 \in Nat /\ now.result <= now.result + 1
          /\ now.result <= now.result /\ now.journal <= now.journal
      BY <2>1 DEF Source
    <2>b. new.result = now.result + 1 /\ new.journal = now.journal /\ new.generation = now.generation
          /\ new.media = now.media /\ new.sound = now.sound /\ new.match = now.match
      BY <2>1 DEF Source
    <2>c. new \in Source
      BY <2>1, <2>a DEF Source
    <2>2. new \in Source /\ new.generation = now.generation /\ new.media = now.media
          /\ new.sound = now.sound /\ new.match = now.match /\ now.result <= new.result
          /\ now.journal <= new.journal
      BY <2>a, <2>b, <2>c
    <2> HIDE DEF new
    <2>3. Later(b, new, FALSE)
      BY <2>1, <2>2 DEF League!Edit, Later
    <2> QED BY <2>2, <2>3
  <1>6. CASE League!JournalGrows(b)
    <2> DEFINE new == [now EXCEPT !.journal = @ + 1]
    <2>1. now # League!Gone /\ now \in Source /\ League!Edit(b, new, FALSE)
      BY <1>0, <1>6 DEF League!JournalGrows
    <2>a. now.journal \in Nat /\ now.journal + 1 \in Nat /\ now.journal <= now.journal + 1
          /\ now.result <= now.result /\ now.journal <= now.journal
      BY <2>1 DEF Source
    <2>b. new.journal = now.journal + 1 /\ new.result = now.result /\ new.generation = now.generation
          /\ new.media = now.media /\ new.sound = now.sound /\ new.match = now.match
      BY <2>1 DEF Source
    <2>c. new \in Source
      BY <2>1, <2>a DEF Source
    <2>2. new \in Source /\ new.generation = now.generation /\ new.media = now.media
          /\ new.sound = now.sound /\ new.match = now.match /\ now.result <= new.result
          /\ now.journal <= new.journal
      BY <2>a, <2>b, <2>c
    <2> HIDE DEF new
    <2>3. Later(b, new, FALSE)
      BY <2>1, <2>2 DEF League!Edit, Later
    <2> QED BY <2>2, <2>3
  <1>7. CASE League!JournalReplaced(b)
    <2>1. PICK n \in 0 .. MaxBatches, s \in BOOLEAN :
              League!Edit(b, [now EXCEPT !.journal = n, !.generation = edits + 1, !.sound = s], FALSE)
      BY <1>7 DEF League!JournalReplaced
    <2> DEFINE new == [now EXCEPT !.journal = n, !.generation = edits + 1, !.sound = s]
    <2>2. now # League!Gone /\ now \in Source
      BY <1>0, <1>7 DEF League!JournalReplaced
    <2>a. n \in Nat /\ edits + 1 \in Nat
      BY <1>0
    <2>3. new \in Source /\ new.generation = edits + 1
      BY <2>a, <2>2 DEF Source
    <2>4. League!Edit(b, new, FALSE)
      BY <2>1
    <2> HIDE DEF new
    <2>5. Later(b, new, FALSE)
      BY <2>2, <2>3, <2>4 DEF League!Edit, Later
    <2> QED BY <2>3, <2>5
  <1> QED BY <1>1, <1>2, <1>3, <1>4, <1>5, <1>6, <1>7


\* Sources are the same if all that is read of them is.
LEMMA SameSource ==
    ASSUME NEW s \in Source, NEW t \in Source,
           s.media = t.media, s.match = t.match, s.result = t.result, s.journal = t.journal,
           s.generation = t.generation, s.sound = t.sound
    PROVE  s = t
  BY DEF Source

\* A fingerprint stays one that was taken before, and does not come back.
LEMMA LaterThanBefore ==
    ASSUME TypeOK, NEW b \in Bundles, NEW new \in Source \cup {League!Gone}, NEW discover,
           League!Gone \notin Source, Later(b, new, discover),
           NEW c \in Bundles, NEW s \in Source, Before(s, c)
    PROVE  /\ Before(s, c)'
           /\ source'[c] = s => source[c] = s
  <1>0. source[b] \in Source \cup {League!Gone} /\ edits \in Nat /\ edits' = edits + 1
        /\ s.generation \in Nat
    BY DEF TypeOK, Later, Source
  <1>1. CASE c # b
    <2>1. source'[c] = source[c]
      BY <1>1 DEF Later, TypeOK
    <2> QED BY <1>0, <2>1 DEF Before
  <1>2. CASE c = b
    <2>1. source'[c] = new
      BY <1>2 DEF Later, TypeOK
    <2>2. CASE new = League!Gone
      BY <1>0, <2>1, <2>2 DEF Before
    <2>3. CASE new # League!Gone /\ new.generation = edits + 1
      BY <1>0, <2>1, <2>3 DEF Before
    <2>4. CASE new # League!Gone /\ new.generation # edits + 1
      <3> DEFINE now == source[b]
      <3>1. /\ now # League!Gone /\ new.generation = now.generation
            /\ new.media = now.media /\ new.sound = now.sound
            /\ now.match => new.match
            /\ now.result <= new.result /\ now.journal <= new.journal
        BY <1>0, <2>4 DEF Later
      <3>2. now \in Source /\ new \in Source
        BY <1>0, <2>4, <3>1
      <3>3. /\ s.result \in Nat /\ s.journal \in Nat /\ now.result \in Nat /\ now.journal \in Nat
            /\ new.result \in Nat /\ new.journal \in Nat /\ now.generation \in Nat
            /\ s.match \in BOOLEAN /\ now.match \in BOOLEAN /\ new.match \in BOOLEAN
        BY <3>2 DEF Source
      <3>4. \/ s.generation < now.generation
            \/ /\ s.generation = now.generation /\ s.media = now.media /\ s.sound = now.sound
               /\ s.match => now.match
               /\ s.result <= now.result /\ s.journal <= now.journal
        BY <1>2, <3>1 DEF Before
      <3>7. new # now
        BY DEF Later
      <3> HIDE DEF now
      <3>5. Before(s, c)'
        <4>1. s.generation <= edits'
          BY <1>0 DEF Before
        <4>2. \/ s.generation < new.generation
              \/ /\ s.generation = new.generation /\ s.media = new.media /\ s.sound = new.sound
                 /\ s.match => new.match
                 /\ s.result <= new.result /\ s.journal <= new.journal
          BY <3>1, <3>3, <3>4
        <4> QED BY <2>1, <4>1, <4>2 DEF Before
      <3>6. new # s
        <4> SUFFICES ASSUME new = s PROVE FALSE
          OBVIOUS
        <4>1. s.generation = now.generation
          BY <3>1
        <4>2. /\ s.media = now.media /\ s.sound = now.sound /\ s.match = now.match
              /\ s.result = now.result /\ s.journal = now.journal
          BY <1>0, <3>1, <3>3, <3>4, <4>1
        <4>3. s = now
          BY <3>2, <4>1, <4>2, SameSource
        <4> QED BY <4>3, <3>7
      <3> QED BY <2>1, <3>5, <3>6
    <2> QED BY <2>2, <2>3, <2>4
  <1> QED BY <1>1, <1>2

\* The watch notices the bundle, and what was noticed stays so.
LEMMA LaterIsNoticed ==
    ASSUME TypeOK, NEW b \in Bundles, NEW new, NEW discover \in BOOLEAN,
           Later(b, new, discover), watch
    PROVE  /\ hints' \in Changes
           /\ Noticed(b)' /\ (discover => Discovered(b)')
           /\ \A c \in Bundles : (Noticed(c) => Noticed(c)') /\ (Discovered(c) => Discovered(c)')
  <1>0. hints \in Changes /\ retry' = retry
    BY DEF TypeOK, Later
  <1>1. CASE hints' = League!Everything
    BY <1>0, <1>1, Merges DEF Noticed, Discovered
  <1>2. CASE hints' # League!Everything
    <2> DEFINE h == [League!Nothing EXCEPT !.of[b] = IF discover THEN 2 ELSE 1]
    <2>0. League!Nothing \in Changes
      BY <1>0, Merges
    <2>1. h \in Changes
      BY <2>0 DEF Changes
    <2>2. h.of[b] = IF discover THEN 2 ELSE 1
      BY <2>0 DEF Changes
    <2>3. hints' = League!Merge(hints, h)
      BY <1>2 DEF Later
    <2> HIDE DEF h
    <2>4. Reaches(h, b) /\ (discover => Finds(h, b))
      BY <2>2 DEF Reaches, Finds
    <2>5. hints' \in Changes /\ \A c \in Bundles :
              /\ Reaches(hints', c) <=> Reaches(hints, c) \/ Reaches(h, c)
              /\ Finds(hints', c) <=> Finds(hints, c) \/ Finds(h, c)
      BY <1>0, <2>1, <2>3, Merges
    <2> QED BY <1>0, <2>4, <2>5 DEF Noticed, Discovered
  <1> QED BY <1>1, <1>2

\* What the files around the worker do, whatever it is doing.
LEMMA FilesKeep ==
    ASSUME League!PreparationAssumption, IndexInvariant, League!Files
    PROVE  IndexInvariant'
  <1>0. TypeOK /\ RowRule /\ WorkRule /\ VersionRule /\ DoneRule /\ ChangeRule
    BY DEF IndexInvariant
  <1>1. PICK b \in Bundles, new \in Source \cup {League!Gone}, discover \in BOOLEAN :
              Later(b, new, discover)
    BY <1>0, FilesAreLater
  <1>2. League!Gone \notin Source /\ League!NoStamp \notin Source
    BY Absent
  <1>3. /\ UNCHANGED <<watch, retry, games, completed, rows, token, job, deferred>>
        /\ edits \in Nat /\ edits' = edits + 1
        /\ source'[b] = new /\ \A c \in Bundles : c # b => source'[c] = source[c]
    BY <1>0, <1>1 DEF Later, TypeOK
  <1>4. TypeOK'
    <2>1. hints' \in Changes
      BY <1>0, <1>1, LaterIsNoticed DEF Later, TypeOK
    <2>2. source' \in [Bundles -> Source \cup {League!Gone}]
      BY <1>0, <1>1 DEF Later, TypeOK
    <2> QED BY <1>0, <1>3, <2>1, <2>2 DEF TypeOK
  <1>5. RowRule'
    BY <1>0, <1>3 DEF RowRule, RowsAreSound, RowIsSound
  <1>6. WorkRule'
    BY <1>0, <1>3 DEF WorkRule, Working, Reaches, League!Listed
  <1>7. VersionRule'
    <2>1. \A c \in Bundles : source'[c] # League!Gone => source'[c].generation <= edits'
      <3> SUFFICES ASSUME NEW c \in Bundles, source'[c] # League!Gone
                   PROVE  source'[c].generation <= edits'
        OBVIOUS
      <3>1. source'[c] \in Source /\ source'[c].generation \in Nat
        BY <1>4 DEF TypeOK, Source
      <3>2. CASE c # b
        BY <1>0, <1>3, <3>1, <3>2 DEF VersionRule
      <3>3. CASE c = b /\ source[b] # League!Gone
        <4>1. source[b] \in Source /\ source[b].generation \in Nat /\ source[b].generation <= edits
          BY <1>0, <3>3 DEF VersionRule, TypeOK, Source
        <4>2. new.generation = edits + 1 \/ new.generation = source[b].generation
          BY <1>1, <1>3, <3>3 DEF Later
        <4> QED BY <1>3, <3>3, <4>1, <4>2
      <3>4. CASE c = b /\ source[b] = League!Gone
        BY <1>1, <1>3, <3>4 DEF Later
      <3> QED BY <3>2, <3>3, <3>4
    <2>2. Stamped => job.stamp \in Source /\ job.bundle \in Bundles
      BY <1>0, Jobs DEF Stamped, Preparing, Committing
    <2>3. Stamped => /\ Before(job.stamp, job.bundle)'
                     /\ source'[job.bundle] = job.stamp => source[job.bundle] = job.stamp
      BY <1>0, <1>1, <1>2, <1>3, <2>2, LaterThanBefore DEF VersionRule
    <2> QED BY <1>0, <1>3, <2>1, <2>3 DEF VersionRule, Stamped, League!Row, Before
  <1>9. DoneRule'
    <2> SUFFICES ASSUME NEW c \in Bundles
                 PROVE  /\ completed[c] \in Source => Before(completed[c], c)'
                        /\ Working =>
                              /\ job.pending[c] \in Source => Before(job.pending[c], c)'
                              /\ job.pending[c] # League!NoStamp /\ source'[c] # League!Gone
                                 /\ completed[c] = source'[c] => job.pending[c] = source'[c]
      BY <1>3 DEF DoneRule, Working, Before
    <2>1. \A s \in Source : Before(s, c) =>
              Before(s, c)' /\ (source'[c] = s => source[c] = s)
      BY <1>0, <1>1, <1>2, LaterThanBefore
    <2>2. source'[c] # League!Gone => source'[c] \in Source
      BY <1>4 DEF TypeOK
    <2>3. /\ completed[c] \in Source => Before(completed[c], c)
          /\ Working =>
                /\ job.pending[c] \in Source => Before(job.pending[c], c)
                /\ job.pending[c] # League!NoStamp /\ source[c] # League!Gone /\ completed[c] = source[c] =>
                      job.pending[c] = source[c]
      BY <1>0 DEF DoneRule
    <2>4. source'[c] # League!Gone /\ completed[c] = source'[c] => source[c] = source'[c]
      BY <2>1, <2>2, <2>3
    <2>5. completed'[c] = completed[c] /\ job' = job
      BY <1>3
    <2>6. completed[c] \in Source => Before(completed[c], c)'
      BY <2>1, <2>3, <2>5 DEF Before
    <2>7. Working /\ job.pending[c] \in Source => Before(job.pending[c], c)'
      BY <2>1, <2>3, <2>5 DEF Before
    <2> QED BY <2>3, <2>4, <2>6, <2>7
  <1>8. ChangeRule'
    <2> SUFFICES ASSUME watch', NEW c \in Bundles, source'[c] # League!Gone
                 PROVE  /\ c \notin League!Listed(games) =>
                              Discovered(c)' \/ (job.step = "scan" /\ InScan(c))
                        /\ c \notin deferred /\ completed[c] # source'[c] =>
                              \/ Noticed(c)'
                              \/ job.step \in {"scan", "reconcile"} /\ InScan(c)
                              \/ Working /\ job.pending[c] = source'[c]
                                         /\ (job.pass = "cards" \/ c \in job.left)
      BY <1>3 DEF ChangeRule, InScan, InWork, Working, League!Listed
    <2>1. /\ Noticed(b)' /\ (discover => Discovered(b)')
          /\ (Noticed(c) => Noticed(c)') /\ (Discovered(c) => Discovered(c)')
      BY <1>0, <1>1, <1>3, LaterIsNoticed
    <2>2. CASE c # b
      BY <1>0, <1>3, <2>1, <2>2 DEF ChangeRule, InWork
    <2>3. CASE c = b /\ source[b] # League!Gone
      BY <1>0, <1>3, <2>1, <2>3 DEF ChangeRule
    <2>4. CASE c = b /\ source[b] = League!Gone
      BY <1>1, <2>1, <2>4 DEF Later
    <2> QED BY <2>2, <2>3, <2>4
  <1> QED BY <1>4, <1>5, <1>6, <1>7, <1>8, <1>9 DEF IndexInvariant


-----------------------------------------------------------------------------
(* The worker wakes, scans, gives up and starts again. *)

\* What holds whatever the worker does that is not working on a recording.
LEMMA NotWorking ==
    ASSUME League!PreparationAssumption, IndexInvariant, UNCHANGED <<source, rows, edits>>,
           job'.step \in {"idle", "scan", "reconcile"}
    PROVE  /\ RowRule' /\ VersionRule' /\ ~Working'
           /\ completed' \in {completed, [b \in Bundles |-> League!NoStamp]} => DoneRule'
  <1>1. RowRule' /\ VersionRule' /\ ~Working'
    BY DEF IndexInvariant, RowRule, RowsAreSound, RowIsSound, VersionRule, Working, Stamped, Before
  <1>2. ASSUME completed' \in {completed, [b \in Bundles |-> League!NoStamp]}
        PROVE  DoneRule'
    <2>1. \A b \in Bundles : completed'[b] = completed[b] \/ completed'[b] = League!NoStamp
      BY <1>2
    <2>2. ASSUME NEW b \in Bundles, completed'[b] \in Source
          PROVE  Before(completed[b], b)' /\ completed'[b] = completed[b]
      BY <2>1, <2>2, Absent DEF IndexInvariant, DoneRule, Before
    <2> QED BY <1>1, <2>2 DEF DoneRule, Before
  <1> QED BY <1>1, <1>2

LEMMA TickKeeps ==
    ASSUME League!PreparationAssumption, IndexInvariant, League!Tick
    PROVE  IndexInvariant'
  <1>0. /\ TypeOK /\ ChangeRule /\ job = League!Idle /\ hints \in Changes /\ retry \in Changes
        /\ UNCHANGED <<source, watch, games, completed, rows, token, deferred, edits, troubles>>
        /\ retry' = League!Nothing /\ hints' = League!Nothing
    BY DEF IndexInvariant, League!Tick, TypeOK
  <1> DEFINE noted == League!Merge(retry, hints)
             wanted == {b \in Bundles : noted.of[b] = 2 \/ (noted.of[b] = 1 /\ b \in League!Listed(games))}
             changes == [noted EXCEPT !.of = [b \in Bundles |-> IF b \in wanted THEN @[b] ELSE 0]]
             next == [step |-> "scan", targets |-> wanted, full |-> noted.all, changes |-> changes]
  <1>1. /\ noted \in Changes /\ League!Nothing \in Changes
        /\ \A b \in Bundles : /\ Reaches(noted, b) <=> Reaches(retry, b) \/ Reaches(hints, b)
                              /\ Finds(noted, b) <=> Finds(retry, b) \/ Finds(hints, b)
    BY <1>0, Merges
  <1>2. job' = IF ~noted.all /\ wanted = {} THEN League!Idle ELSE next
    BY DEF League!Tick
  <1>3. /\ changes \in Changes /\ changes.all = noted.all
        /\ \A b \in wanted : changes.of[b] = noted.of[b]
    <2>1. \A b \in Bundles : noted.of[b] \in 0 .. 2
      BY <1>1 DEF Changes
    <2> HIDE DEF wanted
    <2>2. [b \in Bundles |-> IF b \in wanted THEN noted.of[b] ELSE 0] \in [Bundles -> 0 .. 2]
      BY <2>1
    <2> QED BY <1>1, <2>2 DEF Changes, wanted
  <1>4. \A b \in Bundles : b \in wanted => Reaches(noted, b) /\ Reaches(changes, b)
    BY <1>1, <1>3 DEF Reaches, Changes
  <1>5. \A b \in Bundles : Finds(noted, b) => noted.all \/ b \in wanted
    BY DEF Finds
  <1>6. \A b \in Bundles : b \in League!Listed(games) /\ Reaches(noted, b) => noted.all \/ b \in wanted
    BY <1>1 DEF Reaches, Changes
  <1>7. wanted \subseteq Bundles /\ noted.all \in BOOLEAN
    BY <1>1 DEF Changes
  <1> HIDE DEF noted, wanted, changes
  <1>8. next \in Scanning
    BY <1>3, <1>7 DEF Scanning
  <1>9. /\ job'.step \in {"idle", "scan"}
        /\ job'.step = "scan" => job' = next
        /\ \A b \in Bundles : noted.all \/ b \in wanted =>
              job'.step = "scan" /\ (job'.full \/ b \in job'.targets)
    BY <1>2 DEF League!Idle
  <1>10. TypeOK'
    BY <1>0, <1>1, <1>2, <1>8 DEF TypeOK
  <1>11. RowRule' /\ VersionRule' /\ DoneRule' /\ ~Working'
    BY <1>0, <1>9, NotWorking
  <1>12. WorkRule'
    BY <1>3, <1>4, <1>9, <1>11 DEF WorkRule, Reaches
  <1>13. ChangeRule'
    <2> SUFFICES ASSUME watch, NEW b \in Bundles, source[b] # League!Gone
                 PROVE  /\ b \notin League!Listed(games) => job'.step = "scan" /\ InScan(b)'
                        /\ b \notin deferred /\ completed[b] # source[b] =>
                              job'.step = "scan" /\ InScan(b)'
      BY <1>0 DEF ChangeRule
    <2>1. job.step = "idle" /\ ~Working
      BY <1>0 DEF League!Idle, Working
    <2>2. b \notin League!Listed(games) => Finds(noted, b)
      BY <1>0, <1>1, <2>1 DEF ChangeRule, Discovered
    <2>3. b \notin deferred /\ completed[b] # source[b] => Reaches(noted, b)
      BY <1>0, <1>1, <2>1 DEF ChangeRule, Noticed
    <2> QED BY <1>5, <1>6, <1>9, <2>2, <2>3 DEF InScan
  <1> QED BY <1>10, <1>11, <1>12, <1>13 DEF IndexInvariant

LEMMA RescanKeeps ==
    ASSUME League!PreparationAssumption, IndexInvariant, League!Rescan
    PROVE  IndexInvariant'
  <1>0. /\ TypeOK /\ hints \in Changes /\ watch' \in BOOLEAN
        /\ UNCHANGED <<source, games, completed, rows, token, deferred, edits, troubles>>
        /\ retry' = League!Nothing /\ hints' = League!Nothing
        /\ job' = [step |-> "scan", changes |-> League!Everything, targets |-> {}, full |-> TRUE]
    BY DEF IndexInvariant, League!Rescan, TypeOK
  <1>1. League!Nothing \in Changes /\ League!Everything \in Changes /\ League!Everything.all
    BY <1>0, Merges DEF League!Everything, League!Nothing
  <1>2. job' \in Scanning /\ job'.step = "scan" /\ job'.full /\ job'.changes = League!Everything
    BY <1>0, <1>1 DEF Scanning
  <1>3. TypeOK'
    BY <1>0, <1>1, <1>2 DEF TypeOK
  <1>4. RowRule' /\ VersionRule' /\ DoneRule' /\ ~Working'
    BY <1>0, <1>2, NotWorking
  <1>5. WorkRule' /\ ChangeRule'
    BY <1>1, <1>2, <1>4 DEF WorkRule, ChangeRule, Reaches, InScan
  <1> QED BY <1>3, <1>4, <1>5 DEF IndexInvariant

LEMMA ScanKeeps ==
    ASSUME League!PreparationAssumption, IndexInvariant, League!Scan
    PROVE  IndexInvariant'
  <1>0. /\ TypeOK /\ WorkRule /\ ChangeRule /\ job.step = "scan" /\ ~Working
        /\ UNCHANGED <<source, watch, hints, retry, completed, rows, token, deferred, edits>>
        /\ job' = [job EXCEPT !.step = "reconcile"]
        /\ games' = [b \in Bundles |-> IF InScan(b) THEN League!Summary(b) ELSE games[b]]
    BY DEF IndexInvariant, League!Scan, Working, InScan
  <1>1. job' \in Scanning /\ job'.step = "reconcile" /\ job'.full = job.full
        /\ job'.targets = job.targets /\ job'.changes = job.changes
    BY <1>0, Jobs DEF Scanning
  <1>2. \A b \in Bundles : /\ League!Summary(b) \in Summaries \cup {League!NoGame}
                           /\ source[b] # League!Gone => League!Summary(b) # League!NoGame
    <2>1. ASSUME NEW b \in Bundles, source[b] # League!Gone
          PROVE  League!Summary(b) \in Summaries
      BY <1>0, <2>1 DEF League!Summary, Summaries, TypeOK, Source
    <2> QED BY <2>1, Absent DEF League!Summary
  <1>3. TypeOK'
    <2>1. games' \in [Bundles -> Summaries \cup {League!NoGame}]
      BY <1>0, <1>2 DEF TypeOK
    <2> QED BY <1>0, <1>1, <2>1 DEF TypeOK
  <1>4. RowRule' /\ VersionRule' /\ DoneRule' /\ ~Working'
    BY <1>0, <1>1, NotWorking
  <1>5. WorkRule'
    BY <1>0, <1>1, <1>4 DEF WorkRule
  <1>6. ChangeRule'
    <2> SUFFICES ASSUME watch, NEW b \in Bundles, source[b] # League!Gone
                 PROVE  /\ b \notin League!Listed(games') => Discovered(b)
                        /\ b \notin deferred /\ completed[b] # source[b] => Noticed(b) \/ InScan(b)'
      BY <1>0, <1>1 DEF ChangeRule, Discovered, Noticed
    <2>1. InScan(b)' <=> InScan(b)
      BY <1>1 DEF InScan
    <2>2. InScan(b) => b \in League!Listed(games')
      BY <1>0, <1>2 DEF League!Listed
    <2>3. ~InScan(b) => (b \in League!Listed(games) => b \in League!Listed(games'))
      BY <1>0 DEF League!Listed, TypeOK
    <2> QED BY <1>0, <2>1, <2>2, <2>3 DEF ChangeRule
  <1> QED BY <1>3, <1>4, <1>5, <1>6 DEF IndexInvariant

LEMMA ContendedKeeps ==
    ASSUME League!PreparationAssumption, IndexInvariant, League!Contended
    PROVE  IndexInvariant'
  <1>0. /\ TypeOK /\ WorkRule /\ ChangeRule /\ job.step \in {"reconcile", "begin"}
        /\ UNCHANGED <<source, watch, hints, games, completed, rows, token, deferred, edits>>
        /\ job' = League!Idle /\ retry' = League!Merge(retry, job.changes)
    BY DEF IndexInvariant, League!Contended, League!Abandon
  <1>1. job.changes \in Changes /\ retry \in Changes
    BY <1>0, Jobs DEF Scanning, Beginning, TypeOK
  <1>2. /\ retry' \in Changes
        /\ \A b \in Bundles :
              /\ Reaches(retry', b) <=> Reaches(retry, b) \/ Reaches(job.changes, b)
              /\ Finds(retry', b) <=> Finds(retry, b) \/ Finds(job.changes, b)
    BY <1>0, <1>1, Merges
  <1>3. job'.step = "idle"
    BY <1>0 DEF League!Idle
  <1>4. TypeOK'
    BY <1>0, <1>2 DEF TypeOK
  <1>5. RowRule' /\ VersionRule' /\ DoneRule' /\ ~Working'
    BY <1>0, <1>3, NotWorking
  <1>6. WorkRule'
    BY <1>3, <1>5 DEF WorkRule
  <1>7. ChangeRule'
    <2> SUFFICES ASSUME watch, NEW b \in Bundles, source[b] # League!Gone
                 PROVE  /\ b \notin League!Listed(games) => Discovered(b)'
                        /\ b \notin deferred /\ completed[b] # source[b] => Noticed(b)'
      BY <1>0 DEF ChangeRule
    <2>1. (Noticed(b) => Noticed(b)') /\ (Discovered(b) => Discovered(b)')
      BY <1>0, <1>2 DEF Noticed, Discovered
    <2>2. job.step = "reconcile" /\ InScan(b) => Noticed(b)'
      BY <1>0, <1>2 DEF WorkRule, InScan, Noticed
    <2>3. Working /\ InWork(b) => Noticed(b)'
      <3>1. source[b] \in Source /\ League!NoStamp \notin Source
        BY <1>0, Absent DEF TypeOK
      <3> QED BY <1>0, <1>2, <3>1 DEF WorkRule, InWork, Noticed
    <2> QED BY <1>0, <2>1, <2>2, <2>3 DEF ChangeRule
  <1> QED BY <1>4, <1>5, <1>6, <1>7 DEF IndexInvariant

LEMMA RestartKeeps ==
    ASSUME League!PreparationAssumption, IndexInvariant, League!Restart
    PROVE  IndexInvariant'
  <1>0. /\ TypeOK /\ hints \in Changes /\ UNCHANGED <<source, rows, token, edits>>
        /\ games' = League!Unscanned /\ completed' = [b \in Bundles |-> League!NoStamp]
        /\ watch' \in BOOLEAN /\ retry' = League!Everything /\ hints' = League!Nothing /\ job' = League!Idle
    BY DEF IndexInvariant, League!Restart, TypeOK
  <1>1. League!Nothing \in Changes /\ League!Everything \in Changes
        /\ \A b \in Bundles : Reaches(League!Everything, b) /\ Finds(League!Everything, b)
    BY <1>0, Merges
  <1>2. job'.step = "idle"
    BY <1>0 DEF League!Idle
  <1>3. TypeOK'
    BY <1>0, <1>1 DEF TypeOK, League!Unscanned, Stamps
  <1>4. RowRule' /\ VersionRule' /\ DoneRule' /\ ~Working'
    BY <1>0, <1>2, NotWorking
  <1>5. WorkRule' /\ ChangeRule'
    BY <1>0, <1>1, <1>2, <1>4 DEF WorkRule, ChangeRule, Noticed, Discovered
  <1> QED BY <1>3, <1>4, <1>5 DEF IndexInvariant


-----------------------------------------------------------------------------
(* The rows follow a scan. *)

\* The rows that a reconciliation leaves say what the rows before it said.
LEMMA ReconciledRows ==
    ASSUME League!PreparationAssumption, NEW known,
           NEW list \in [Bundles -> Summaries \cup {League!NoGame}],
           NEW table \in [Media -> Rows \cup {League!NoRow}], RowsAreSound(table)
    PROVE  /\ League!Reconciled(table, known, list) \in [Media -> Rows \cup {League!NoRow}]
           /\ RowsAreSound(League!Reconciled(table, known, list))
  <1> DEFINE kept(m) == {b \in League!Unique(list) : list[b].media = m}
             Of(m, b) == IF table[m].bundle # b
                    THEN [bundle |-> b, summary |-> list[b], facts |-> 0, match |-> FALSE,
                          history |-> League!NoStamp, current |-> FALSE, telemetry |-> League!Unprepared]
                    ELSE [table[m] EXCEPT !.summary = list[b],
                                          !.current = @ /\ table[m].summary = list[b]]
             new == [m \in Media |-> IF kept(m) = {} THEN League!NoRow
                                     ELSE Of(m, CHOOSE b \in kept(m) : TRUE)]
  <1>1. League!Reconciled(table, known, list) = IF known = list THEN table ELSE new
    BY DEF League!Reconciled
  <1>2. \A m \in Media : RowIsSound(m, table[m])
    BY DEF RowsAreSound
  <1>3. League!Unprepared \in Telemetries /\ League!Unprepared.status = "pending"
    BY DEF League!Unprepared, Telemetries, Stamps
  <1>4. League!NoRow \notin Rows
    BY Absent
  <1>5. ASSUME NEW m \in Media, NEW b \in Bundles, list[b] \in Summaries
        PROVE  Of(m, b) \in Rows /\ RowIsSound(m, Of(m, b))
    <2>1. CASE table[m].bundle # b
      <3> DEFINE r == [bundle |-> b, summary |-> list[b], facts |-> 0, match |-> FALSE,
                       history |-> League!NoStamp, current |-> FALSE, telemetry |-> League!Unprepared]
      <3>1. Of(m, b) = r
        BY <2>1
      <3>2. r \in Rows /\ ~r.current /\ r.telemetry = League!Unprepared
        BY <1>3, <1>5 DEF Rows, Stamps
      <3> HIDE DEF r, Of
      <3> QED BY <1>3, <3>1, <3>2 DEF RowIsSound
    <2>2. CASE table[m].bundle = b
      <3> DEFINE old == table[m]
                 r == [old EXCEPT !.summary = list[b], !.current = @ /\ old.summary = list[b]]
      <3>1. Of(m, b) = r
        BY <2>2
      <3>2. old \in Rows
        BY <2>2 DEF League!NoRow, League!PreparationAssumption
      <3>3. /\ r \in Rows /\ r.telemetry = old.telemetry /\ r.history = old.history
            /\ r.facts = old.facts /\ r.match = old.match /\ r.summary = list[b]
        BY <1>5, <3>2 DEF Rows
      <3>4. r.current => old.current /\ r.summary = old.summary
        BY <3>2 DEF Rows
      <3>5. old # League!NoRow /\ RowIsSound(m, old)
        BY <1>2, <1>4, <3>2
      <3> HIDE DEF r, old, Of
      <3> QED BY <3>1, <3>3, <3>4, <3>5 DEF RowIsSound
    <2> QED BY <2>1, <2>2
  <1>6. ASSUME NEW m \in Media
        PROVE  new[m] \in Rows \cup {League!NoRow} /\ RowIsSound(m, new[m])
    <2>1. CASE kept(m) = {}
      <3>1. new[m] = League!NoRow
        BY <2>1
      <3> HIDE DEF new
      <3> QED BY <3>1 DEF RowIsSound
    <2>2. CASE kept(m) # {}
      <3> DEFINE b == CHOOSE c \in kept(m) : TRUE
      <3>1. b \in kept(m)
        BY <2>2
      <3>2. b \in Bundles /\ list[b] \in Summaries
        BY <3>1 DEF League!Unique, League!Listed
      <3>3. new[m] = Of(m, b)
        BY <2>2
      <3> HIDE DEF b, Of, new
      <3> QED BY <1>5, <3>2, <3>3
    <2> QED BY <2>1, <2>2
  <1>7. new \in [Media -> Rows \cup {League!NoRow}] /\ RowsAreSound(new)
    <2>1. new = [m \in Media |-> new[m]]
      OBVIOUS
    <2> HIDE DEF new
    <2> QED BY <1>6, <2>1 DEF RowsAreSound
  <1> HIDE DEF new
  <1> QED BY <1>1, <1>7

\* The targets of a scan can be put in an order.
LEMMA ListingIsAList ==
    ASSUME League!PreparationAssumption, TypeOK
    PROVE  League!Listing \in [Bundles -> Summaries \cup {League!NoGame}]
  <1>1. ASSUME NEW b \in Bundles
        PROVE  League!Summary(b) \in Summaries \cup {League!NoGame}
    <2>1. source[b] # League!Gone => source[b] \in Source
      BY DEF TypeOK
    <2> QED BY <2>1 DEF League!Summary, Summaries, Source
  <1>2. DOMAIN source = Bundles
    BY DEF TypeOK
  <1> QED BY <1>1, <1>2 DEF League!Listing

\* The app replaces rows only while no step of the worker relies on one.
LEMMA RowsReplaced ==
    ASSUME IndexInvariant, League!Unlocked,
           UNCHANGED <<source, watch, retry, games, completed, job, deferred, edits>>,
           rows' \in [Media -> Rows \cup {League!NoRow}], RowsAreSound(rows')
    PROVE  /\ hints' \in Changes => TypeOK'
           /\ RowRule' /\ WorkRule' /\ VersionRule' /\ DoneRule'
  <1>1. hints' \in Changes => TypeOK'
    BY DEF IndexInvariant, TypeOK
  <1>2. RowRule'
    BY DEF RowRule, RowsAreSound, RowIsSound
  <1>3. WorkRule'
    BY DEF IndexInvariant, WorkRule, Working, Reaches, League!Listed
  <1>4. VersionRule'
    BY DEF IndexInvariant, VersionRule, League!Unlocked, Stamped, Before
  <1>5. DoneRule'
    BY DEF IndexInvariant, DoneRule, Working, Before
  <1> QED BY <1>1, <1>2, <1>3, <1>4, <1>5

LEMMA RefreshKeeps ==
    ASSUME League!PreparationAssumption, IndexInvariant, League!Refresh
    PROVE  IndexInvariant'
  <1>0. /\ TypeOK /\ RowsAreSound(rows) /\ ChangeRule /\ League!Unlocked /\ hints \in Changes
        /\ rows' = League!Reconciled(rows, token, League!Listing)
        /\ UNCHANGED <<source, watch, hints, retry, games, completed, job, deferred, edits>>
    BY DEF IndexInvariant, League!Refresh, RowRule, TypeOK
  <1>1. rows' \in [Media -> Rows \cup {League!NoRow}] /\ RowsAreSound(rows')
    <2>1. rows \in [Media -> Rows \cup {League!NoRow}]
      BY <1>0 DEF TypeOK
    <2> QED BY <1>0, <2>1, ListingIsAList, ReconciledRows
  <1>2. TypeOK' /\ RowRule' /\ WorkRule' /\ VersionRule' /\ DoneRule'
    BY <1>0, <1>1, RowsReplaced
  <1>3. ChangeRule'
    BY <1>0 DEF ChangeRule, Noticed, Discovered, InScan, InWork, Working
  <1> QED BY <1>2, <1>3 DEF IndexInvariant

LEMMA ResetKeeps ==
    ASSUME League!PreparationAssumption, IndexInvariant, League!Reset
    PROVE  IndexInvariant'
  <1> DEFINE empty == [m \in Media |-> League!NoRow]
  <1>0. /\ TypeOK /\ ChangeRule /\ League!Unlocked /\ hints \in Changes
        /\ rows' = League!Reconciled(empty, League!NoToken, League!Listing)
        /\ hints' = IF watch THEN League!Everything ELSE hints
        /\ UNCHANGED <<source, watch, retry, games, completed, job, deferred, edits>>
    BY DEF IndexInvariant, League!Reset, TypeOK
  <1>1. rows' \in [Media -> Rows \cup {League!NoRow}] /\ RowsAreSound(rows')
    <2>1. empty \in [Media -> Rows \cup {League!NoRow}] /\ RowsAreSound(empty)
      BY DEF RowsAreSound, RowIsSound
    <2> HIDE DEF empty
    <2> QED BY <1>0, <2>1, ListingIsAList, ReconciledRows
  <1>2. hints' \in Changes /\ (watch => \A b \in Bundles : Reaches(hints', b) /\ Finds(hints', b))
    BY <1>0, Merges
  <1>3. TypeOK' /\ RowRule' /\ WorkRule' /\ VersionRule' /\ DoneRule'
    BY <1>0, <1>1, <1>2, RowsReplaced
  <1>4. ChangeRule'
    BY <1>0, <1>2 DEF ChangeRule, Noticed, Discovered
  <1> QED BY <1>3, <1>4 DEF IndexInvariant

LEMMA ReconcileKeeps ==
    ASSUME League!PreparationAssumption, IndexInvariant, League!Reconcile
    PROVE  IndexInvariant'
  <1>0. /\ TypeOK /\ RowsAreSound(rows) /\ WorkRule /\ VersionRule /\ DoneRule /\ ChangeRule
        /\ job.step = "reconcile" /\ ~Working
        /\ rows' = League!Reconciled(rows, token, games)
        /\ completed' = [b \in Bundles |-> IF b \in League!Listed(games) THEN completed[b]
                                           ELSE League!NoStamp]
        /\ UNCHANGED <<source, watch, hints, retry, games, edits>>
    BY DEF IndexInvariant, League!Reconcile, RowRule, Working
  <1>1. PICK unread \in SUBSET (League!Listed(games) \cap (IF job.full THEN Bundles ELSE job.targets)) :
          LET todo == {b \in League!Listed(games) \ unread :
                         /\ job.full \/ b \in job.targets
                         /\ completed[b] # source[b] \/ ~League!Settled(League!RowIn(rows', b), b)}
              stamps == [b \in Bundles |-> IF b \in todo THEN source[b] ELSE League!NoStamp]
          IN /\ job' = League!NextGame(todo, "cards", stamps)
             /\ deferred' = unread \cup (IF job.full THEN {} ELSE deferred \ job.targets)
    BY DEF League!Reconcile
  <1> DEFINE todo == {b \in League!Listed(games) \ unread :
                         /\ job.full \/ b \in job.targets
                         /\ completed[b] # source[b] \/ ~League!Settled(League!RowIn(rows', b), b)}
             stamps == [b \in Bundles |-> IF b \in todo THEN source[b] ELSE League!NoStamp]
  <1>2. /\ job' = League!NextGame(todo, "cards", stamps)
        /\ deferred' = unread \cup (IF job.full THEN {} ELSE deferred \ job.targets)
    BY <1>1
  <1>3. League!Listed(games) \subseteq Bundles
    BY <1>0 DEF TypeOK, League!Listed
  <1>4. /\ todo \subseteq Bundles
        /\ \A b \in todo : b \in League!Listed(games) /\ InScan(b)
        /\ \A b \in League!Listed(games) : InScan(b) /\ completed[b] # source[b] =>
              b \in todo \/ b \in unread
    BY <1>3 DEF InScan
  <1> HIDE DEF todo
  <1>5. \A b \in Bundles : source[b] # League!NoStamp /\ source[b] \in Stamps
    BY <1>0, Absent DEF TypeOK, Stamps
  <1>6. /\ stamps \in [Bundles -> Stamps]
        /\ \A b \in Bundles : /\ b \in todo => stamps[b] = source[b] /\ stamps[b] # League!NoStamp
                              /\ stamps[b] # League!NoStamp => b \in todo
    BY <1>5 DEF Stamps
  <1>7. job.changes \in Changes
    BY <1>0, Jobs DEF Scanning
  <1> HIDE DEF stamps
  <1>8. /\ job' \in {League!Idle} \cup Beginning
        /\ job' # League!Idle => /\ job'.step = "begin" /\ job'.pending = stamps
                                 /\ job'.changes = job.changes /\ job'.bundle \in job'.left
                                 /\ \A b \in job'.left : stamps[b] # League!NoStamp
        /\ \A b \in todo : job' # League!Idle /\ (job'.pass = "cards" \/ b \in job'.left)
    <2>1. todo \in SUBSET Bundles /\ "cards" \in {"cards", "full"}
          /\ \A b \in todo : stamps[b] # League!NoStamp
      BY <1>4, <1>6
    <2>2. LET next == League!NextGame(todo, "cards", stamps) IN
          /\ next \in {League!Idle} \cup Beginning
          /\ next # League!Idle =>
                /\ next.step = "begin" /\ next.pending = stamps /\ next.changes = job.changes
                /\ next.bundle \in next.left
                /\ \A b \in next.left : stamps[b] # League!NoStamp
          /\ \A b \in Bundles : stamps[b] # League!NoStamp /\ ("cards" = "cards" \/ b \in todo) =>
                next # League!Idle /\ (next.pass = "cards" \/ b \in next.left)
      BY <1>6, <1>7, <2>1, NextWorks
    <2> QED BY <1>2, <1>4, <1>6, <2>2
  <1>9. /\ job' = League!Idle => job'.step = "idle" /\ ~Working'
        /\ job' # League!Idle => job'.step = "begin" /\ Working'
    BY <1>8 DEF League!Idle, Working
  <1>10. TypeOK'
    <2>1. /\ rows \in [Media -> Rows \cup {League!NoRow}]
          /\ games \in [Bundles -> Summaries \cup {League!NoGame}]
      BY <1>0 DEF TypeOK
    <2>2. rows' \in [Media -> Rows \cup {League!NoRow}]
      BY <1>0, <2>1, ReconciledRows
    <2>3. completed' \in [Bundles -> Stamps]
      BY <1>0 DEF TypeOK, Stamps
    <2> QED BY <1>0, <1>8, <2>2, <2>3 DEF TypeOK
  <1>11. RowRule'
    <2>1. /\ rows \in [Media -> Rows \cup {League!NoRow}]
          /\ games \in [Bundles -> Summaries \cup {League!NoGame}]
      BY <1>0 DEF TypeOK
    <2>2. RowsAreSound(rows')
      BY <1>0, <2>1, ReconciledRows
    <2> QED BY <2>2 DEF RowRule, RowsAreSound, RowIsSound
  <1>12. WorkRule'
    <2>1. \A b \in todo : b \in League!Listed(games) /\ Reaches(job.changes, b)
      BY <1>0, <1>4 DEF WorkRule, InScan
    <2>2. Working' => \A b \in Bundles : job'.pending[b] # League!NoStamp =>
              b \in League!Listed(games') /\ Reaches(job'.changes, b)
      BY <1>0, <1>6, <1>8, <1>9, <2>1
    <2> QED BY <1>6, <1>8, <1>9, <2>2 DEF WorkRule
  <1>13. VersionRule'
    BY <1>0, <1>9 DEF VersionRule, Stamped, Before
  <1>15. DoneRule'
    <2>1. \A b \in Bundles, s \in Source : Before(s, b) => Before(s, b)'
      BY <1>0 DEF Before
    <2>2. ASSUME NEW b \in Bundles, completed'[b] \in Source
          PROVE  Before(completed[b], b)'
      <3>1. completed'[b] = completed[b]
        BY <1>0, <2>2, Absent
      <3>2. Before(completed[b], b)
        BY <1>0, <2>2, <3>1 DEF DoneRule
      <3> QED BY <1>0, <3>1, <3>2 DEF Before
    <2>3. Working' => job'.pending = stamps
      BY <1>8, <1>9
    <2>4. \A b \in Bundles : stamps[b] # League!NoStamp => stamps[b] = source[b]
      BY <1>6
    <2>5. ASSUME NEW b \in Bundles, Working', job'.pending[b] \in Source
          PROVE  Before(job.pending[b], b)'
      <3>1. job'.pending[b] = source[b]
        BY <2>3, <2>4, <2>5, Absent
      <3>2. source[b].generation <= edits /\ source[b] # League!Gone /\ source[b] \in Source
        BY <1>0, <2>5, <3>1, Absent DEF VersionRule
      <3>3. source[b].result \in Nat /\ source[b].journal \in Nat
        BY <3>2 DEF Source
      <3>4. Before(source[b], b)
        BY <3>2, <3>3 DEF Before
      <3> QED BY <1>0, <3>1, <3>4 DEF Before
    <2>6. ASSUME NEW b \in Bundles, Working', job'.pending[b] # League!NoStamp
          PROVE  job'.pending[b] = source'[b]
      BY <1>0, <2>3, <2>4, <2>6
    <2> QED BY <2>2, <2>5, <2>6 DEF DoneRule
  <1>14. ChangeRule'
    <2> SUFFICES ASSUME watch, NEW b \in Bundles, source[b] # League!Gone
                 PROVE  /\ b \notin League!Listed(games) => Discovered(b)
                        /\ b \notin deferred' /\ completed'[b] # source[b] =>
                              Noticed(b) \/ (Working' /\ InWork(b)')
      BY <1>0 DEF ChangeRule, Discovered, Noticed
    <2>1. b \notin League!Listed(games) => Discovered(b) /\ Noticed(b)
      <3>1. hints \in Changes /\ retry \in Changes
        BY <1>0 DEF TypeOK
      <3>2. Discovered(b) => Noticed(b)
        BY <3>1, Merges DEF Discovered, Noticed
      <3> QED BY <1>0, <3>2 DEF ChangeRule
    <2>2. ASSUME b \in League!Listed(games), b \notin deferred', completed'[b] # source[b]
          PROVE  Noticed(b) \/ (Working' /\ InWork(b)')
      <3>1. completed[b] # source[b]
        BY <1>0, <2>2
      <3>2. CASE InScan(b)
        <4>1. b \in todo
          BY <1>2, <1>4, <2>2, <3>1, <3>2
        <4> QED BY <1>0, <1>6, <1>8, <1>9, <4>1 DEF InWork
      <3>3. CASE ~InScan(b)
        <4>1. b \notin deferred
          BY <1>2, <2>2, <3>3 DEF InScan
        <4> QED BY <1>0, <3>1, <3>3, <4>1 DEF ChangeRule
      <3> QED BY <3>2, <3>3
    <2> QED BY <2>1, <2>2
  <1> QED BY <1>10, <1>11, <1>12, <1>13, <1>14, <1>15 DEF IndexInvariant


-----------------------------------------------------------------------------
(* The worker at work on a recording. *)

\* A job that goes on with what the present one has to prepare, the recordings in finished left out.
Continues(next, finished) ==
    /\ next \in {League!Idle} \cup Beginning \cup Preparing \cup Committing
    /\ next # League!Idle =>
          /\ next.step \notin {"idle", "scan", "reconcile"}
          /\ next.pending = job.pending /\ next.changes = job.changes
          /\ next.bundle \in next.left
          /\ \A b \in next.left : job.pending[b] # League!NoStamp
          /\ next.step \in {"import", "commit", "overlay", "failed"} => next.pass = "full"
    /\ \A b \in Bundles :
          job.pending[b] # League!NoStamp /\ (job.pass = "cards" \/ b \in job.left \ finished) =>
              next # League!Idle /\ (next.pass = "cards" \/ b \in next.left)

\* Going on with the next recording of the list.
LEMMA NextOneContinues ==
    ASSUME League!PreparationAssumption, TypeOK, WorkRule, Working
    PROVE  /\ Continues(League!NextOne, {job.bundle})
           /\ League!NextOne # League!Idle => League!NextOne.step = "begin"
  <1>1. /\ job.changes \in Changes /\ job.pass \in {"cards", "full"}
        /\ job.left \ {job.bundle} \in SUBSET Bundles /\ job.pending \in [Bundles -> Stamps]
    BY Works
  <1>2. \A b \in job.left \ {job.bundle} : job.pending[b] # League!NoStamp
    BY DEF WorkRule
  <1>3. LET next == League!NextGame(job.left \ {job.bundle}, job.pass, job.pending) IN
        /\ next \in {League!Idle} \cup Beginning
        /\ next # League!Idle =>
              /\ next.step = "begin" /\ next.pending = job.pending /\ next.changes = job.changes
              /\ next.bundle \in next.left
              /\ \A b \in next.left : job.pending[b] # League!NoStamp
        /\ \A b \in Bundles : job.pending[b] # League!NoStamp
                              /\ (job.pass = "cards" \/ b \in job.left \ {job.bundle}) =>
              next # League!Idle /\ (next.pass = "cards" \/ b \in next.left)
    BY <1>1, <1>2, NextWorks
  <1> HIDE DEF League!NextGame
  <1> QED BY <1>3 DEF Continues, League!NextOne

\* A job that keeps its recording keeps the rest.
LEMMA SameRecording ==
    ASSUME TypeOK, WorkRule, Working,
           NEW next \in Beginning \cup Preparing \cup Committing,
           next.changes = job.changes, next.left = job.left, next.pending = job.pending,
           next.bundle = job.bundle, next.pass = job.pass,
           next.step \in {"import", "commit", "overlay", "failed"} => next.pass = "full"
    PROVE  Continues(next, {})
  <1>1. next.step \notin {"idle", "scan", "reconcile"} /\ next # League!Idle
    BY DEF Beginning, Preparing, Committing, League!Idle
  <1>2. job.bundle \in job.left /\ \A b \in job.left : job.pending[b] # League!NoStamp
    BY DEF WorkRule
  <1> QED BY <1>1, <1>2 DEF Continues

\* A preparation that fails keeps what it had to do.
LEMMA FailedContinues ==
    ASSUME League!PreparationAssumption, TypeOK, WorkRule, Working, League!Failed
    PROVE  /\ job.pass = "cards" => Continues(job', {job.bundle})
           /\ job.pass # "cards" => Continues(job', {})
           /\ job'.step \in {"idle", "begin", "failed"}
  <1>1. CASE job.pass = "cards"
    <2>1. job' = League!NextOne
      BY <1>1 DEF League!Failed
    <2>2. /\ Continues(League!NextOne, {job.bundle})
          /\ League!NextOne # League!Idle => League!NextOne.step = "begin"
      BY NextOneContinues
    <2>3. job'.step \in {"idle", "begin"}
      BY <2>1, <2>2 DEF League!Idle
    <2> QED BY <1>1, <2>1, <2>2, <2>3
  <1>2. CASE job.pass # "cards"
    <2>1. job' = [job EXCEPT !.step = "failed"]
      BY <1>2 DEF League!Failed
    <2>2. job \in Beginning \cup Preparing \cup Committing /\ job.pass = "full"
      BY <1>2, Jobs, Works
    <2>3. /\ job' \in Beginning \cup Preparing \cup Committing /\ job'.step = "failed"
          /\ job'.changes = job.changes /\ job'.left = job.left /\ job'.pending = job.pending
          /\ job'.bundle = job.bundle /\ job'.pass = job.pass
      BY <2>1, <2>2 DEF Beginning, Preparing, Committing
    <2>4. Continues(job', {})
      BY <2>2, <2>3, SameRecording
    <2> QED BY <1>2, <2>3, <2>4
  <1> QED BY <1>1, <1>2

\* While the worker goes on, no change is lost: what leaves its hands counts as done.
LEMMA WorkGoesOn ==
    ASSUME League!PreparationAssumption, IndexInvariant, Working,
           UNCHANGED <<source, watch, hints, retry, games, deferred, edits>>,
           NEW finished, Continues(job', finished),
           rows' \in [Media -> Rows \cup {League!NoRow}],
           completed' \in [Bundles -> Stamps],
           \A b \in Bundles : \/ completed'[b] = completed[b]
                              \/ completed'[b] = job.pending[b] /\ job.pending[b] # League!NoStamp,
           \A b \in finished : job.pass = "cards" \/ completed'[b] = job.pending[b]
    PROVE  TypeOK' /\ WorkRule' /\ DoneRule' /\ ChangeRule'
  <1>0. TypeOK /\ WorkRule /\ VersionRule /\ DoneRule /\ ChangeRule
    BY DEF IndexInvariant
  <1>1. job.step \notin {"idle", "scan", "reconcile"}
    BY DEF Working
  <1>2. TypeOK'
    BY <1>0 DEF TypeOK, Continues
  <1>3. Working' => job' # League!Idle
    BY DEF Working, League!Idle
  <1>4. job' # League!Idle => Working'
    BY DEF Working, Continues
  <1>5. job'.step \notin {"scan", "reconcile"}
    BY DEF Continues, League!Idle
  <1>6. WorkRule'
    <2>1. ASSUME Working'
          PROVE  /\ job'.bundle \in job'.left
                 /\ \A b \in job'.left : job'.pending[b] # League!NoStamp
                 /\ \A b \in Bundles : job'.pending[b] # League!NoStamp =>
                       b \in League!Listed(games) /\ Reaches(job'.changes, b)
                 /\ job'.step \in {"import", "commit", "overlay", "failed"} => job'.pass = "full"
      BY <1>0, <1>3, <2>1 DEF Continues, WorkRule
    <2>2. job'.step \in {"import", "commit", "overlay", "failed"} => Working'
      BY DEF Working
    <2> QED BY <1>5, <2>1, <2>2 DEF WorkRule
  <1>7. DoneRule'
    <2>1. Working' => job'.pending = job.pending
      BY <1>3 DEF Continues
    <2>2. ASSUME NEW b \in Bundles, completed'[b] \in Source
          PROVE  Before(completed[b], b)'
      <3>1. CASE completed'[b] = completed[b]
        BY <1>0, <2>2, <3>1 DEF DoneRule, Before
      <3>2. CASE completed'[b] = job.pending[b]
        BY <1>0, <2>2, <3>2 DEF DoneRule, Before
      <3> QED BY <3>1, <3>2
    <2>3. ASSUME NEW b \in Bundles, Working', job'.pending[b] \in Source
          PROVE  Before(job.pending[b], b)'
      <3>1. Before(job.pending[b], b)
        BY <1>0, <2>1, <2>3 DEF DoneRule
      <3> QED BY <2>1, <2>3, <3>1 DEF Before
    <2>4. ASSUME NEW b \in Bundles, Working', job'.pending[b] # League!NoStamp, source'[b] # League!Gone,
                 completed'[b] = source'[b]
          PROVE  job'.pending[b] = source'[b]
      BY <1>0, <2>1, <2>4 DEF DoneRule
    <2> QED BY <2>2, <2>3, <2>4 DEF DoneRule
  <1>8. ChangeRule'
    <2> SUFFICES ASSUME watch, NEW b \in Bundles, source[b] # League!Gone
                 PROVE  /\ b \notin League!Listed(games) => Discovered(b)
                        /\ b \notin deferred /\ completed'[b] # source[b] =>
                              Noticed(b) \/ (Working' /\ InWork(b)')
      BY DEF ChangeRule, Discovered, Noticed
    <2>1. b \notin League!Listed(games) => Discovered(b)
      BY <1>0, <1>1 DEF ChangeRule
    <2>2. ASSUME b \notin deferred, completed'[b] # source[b], ~Noticed(b)
          PROVE  Working' /\ InWork(b)'
      <3>1. source[b] # League!NoStamp
        BY <1>0, Absent DEF TypeOK
      <3>2. completed[b] # source[b] => InWork(b)
        BY <1>0, <1>1, <2>2 DEF ChangeRule
      <3>3. completed'[b] = completed[b]
        <4>1. CASE completed[b] = source[b]
          BY <1>0, <2>2, <4>1 DEF DoneRule
        <4>2. CASE completed[b] # source[b]
          BY <2>2, <3>2, <4>2 DEF InWork
        <4> QED BY <4>1, <4>2
      <3>4. InWork(b)
        BY <2>2, <3>2, <3>3
      <3>5. job.pending[b] = source[b] /\ (job.pass = "cards" \/ b \in job.left \ finished)
        BY <2>2, <3>4 DEF InWork
      <3>6. job' # League!Idle /\ (job'.pass = "cards" \/ b \in job'.left) /\ job'.pending = job.pending
        BY <3>1, <3>5 DEF Continues
      <3> QED BY <1>4, <3>5, <3>6 DEF InWork
    <2> QED BY <2>1, <2>2
  <1> QED BY <1>2, <1>6, <1>7, <1>8

\* The recording at hand has a row in the table, if any.
LEMMA AtHand ==
    ASSUME League!PreparationAssumption, TypeOK, WorkRule, Working
    PROVE  /\ job.bundle \in Bundles /\ games[job.bundle] \in Summaries
           /\ games[job.bundle].media \in Media
           /\ games[job.bundle].match \in BOOLEAN
           /\ League!Row(job.bundle) \in Rows \cup {League!NoRow}
           /\ job.pending[job.bundle] # League!NoStamp
  <1>1. job.bundle \in Bundles /\ job.pending[job.bundle] # League!NoStamp
    BY Works DEF WorkRule
  <1>2. games[job.bundle] \in Summaries
    BY <1>1 DEF WorkRule, League!Listed, TypeOK
  <1>3. games[job.bundle].media \in Media /\ games[job.bundle].match \in BOOLEAN
    BY <1>2 DEF Summaries
  <1> QED BY <1>1, <1>2, <1>3 DEF League!Row, TypeOK

\* One row is written.
LEMMA RowWritten ==
    ASSUME TypeOK, RowRule, NEW m \in Media, NEW r \in Rows, RowIsSound(m, r),
           rows' = [rows EXCEPT ![m] = r]
    PROVE  /\ rows' \in [Media -> Rows \cup {League!NoRow}] /\ RowRule' /\ rows'[m] = r
  <1>1. rows' \in [Media -> Rows \cup {League!NoRow}] /\ rows'[m] = r
        /\ \A n \in Media : n # m => rows'[n] = rows[n]
    BY DEF TypeOK
  <1>2. \A n \in Media : RowIsSound(n, rows[n])
    BY DEF RowRule, RowsAreSound
  <1>3. \A n \in Media : RowIsSound(n, rows'[n])
    BY <1>1, <1>2
  <1> QED BY <1>1, <1>3 DEF RowRule, RowsAreSound, RowIsSound

\* What the row says of the journal is replaced.
LEMMA JournalWritten ==
    ASSUME TypeOK, RowRule, NEW m \in Media, rows[m] \in Rows, League!NoRow \notin Rows,
           NEW t \in Telemetries,
           t.status = "ready" =>
              /\ t.stamp \in Source /\ t.stamp.sound
              /\ t.position = t.stamp.journal /\ t.generation = t.stamp.generation,
           rows' = [rows EXCEPT ![m] = [rows[m] EXCEPT !.telemetry = t]]
    PROVE  /\ rows' \in [Media -> Rows \cup {League!NoRow}] /\ RowRule'
           /\ rows'[m] \in Rows /\ rows'[m].bundle = rows[m].bundle
  <1> DEFINE old == rows[m]
             r == [old EXCEPT !.telemetry = t]
  <1>1. /\ r \in Rows /\ r.telemetry = t /\ r.bundle = old.bundle /\ r.current = old.current
        /\ r.history = old.history /\ r.facts = old.facts /\ r.match = old.match
        /\ r.summary = old.summary
    BY DEF Rows
  <1>2. RowIsSound(m, old) /\ old # League!NoRow /\ r # League!NoRow
    BY <1>1 DEF RowRule, RowsAreSound
  <1> HIDE DEF r
  <1>3. RowIsSound(m, r)
    BY <1>1, <1>2 DEF RowIsSound
  <1>4. rows' = [rows EXCEPT ![m] = r]
    BY DEF r
  <1> QED BY <1>1, <1>3, <1>4, RowWritten


LEMMA BeginKeeps ==
    ASSUME League!PreparationAssumption, IndexInvariant, League!Begin
    PROVE  IndexInvariant'
  <1>0. /\ TypeOK /\ RowRule /\ WorkRule /\ VersionRule /\ DoneRule
        /\ job.step = "begin" /\ Working
        /\ UNCHANGED <<source, watch, hints, retry, games, completed, rows, deferred, edits>>
        /\ rows \in [Media -> Rows \cup {League!NoRow}] /\ completed \in [Bundles -> Stamps]
    BY DEF IndexInvariant, League!Begin, Working, TypeOK
  <1> DEFINE b == job.bundle
             known == /\ League!Row(b).bundle = b /\ League!Row(b).history = source[b]
                      /\ League!Row(b).summary = games[b] /\ League!Row(b).current
  <1>1. b \in Bundles /\ games[b] \in Summaries /\ games[b].media \in Media
        /\ League!Row(b) \in Rows \cup {League!NoRow}
    BY <1>0, AtHand
  <1>2. RowRule'
    BY <1>0 DEF RowRule, RowsAreSound, RowIsSound
  <1>3. CASE source[b] = League!Gone \/ source[b].media # games[b].media
    <2>1. League!Failed
      BY <1>3 DEF League!Begin
    <2>2. /\ job.pass = "cards" => Continues(job', {b})
          /\ job.pass # "cards" => Continues(job', {})
          /\ job'.step \in {"idle", "begin", "failed"}
      BY <1>0, <2>1, FailedContinues
    <2>3. VersionRule'
      BY <1>0, <2>2 DEF VersionRule, Stamped
    <2>4. PICK finished : Continues(job', finished) /\ (finished = {} \/ job.pass = "cards")
      BY <2>2
    <2>5. TypeOK' /\ WorkRule' /\ DoneRule' /\ ChangeRule'
      BY <1>0, <2>4, WorkGoesOn
    <2> QED BY <1>2, <2>3, <2>5 DEF IndexInvariant
  <1>4. CASE source[b] # League!Gone /\ source[b].media = games[b].media
    <2> DEFINE next == [step |-> IF known THEN "bless" ELSE "decode", changes |-> job.changes,
                        pass |-> job.pass, left |-> job.left, pending |-> job.pending,
                        bundle |-> b, stamp |-> source[b]]
    <2>1. job' = next
      BY <1>4 DEF League!Begin
    <2>2. source[b] \in Source
      BY <1>0, <1>1, <1>4 DEF TypeOK
    <2>3. /\ next \in Preparing /\ next.step = (IF known THEN "bless" ELSE "decode")
          /\ next.changes = job.changes /\ next.pass = job.pass /\ next.left = job.left
          /\ next.pending = job.pending /\ next.bundle = b /\ next.stamp = source[b]
      BY <1>0, <2>2, Works DEF Preparing
    <2> HIDE DEF next
    <2>4. Continues(job', {})
      BY <1>0, <2>1, <2>3, SameRecording
    <2>5. TypeOK' /\ WorkRule' /\ DoneRule' /\ ChangeRule'
      BY <1>0, <2>4, WorkGoesOn
    <2>6. Before(source[b], b)
      <3>1. source[b].generation <= edits
        BY <1>0, <1>1, <1>4 DEF VersionRule
      <3>2. source[b].result \in Nat /\ source[b].journal \in Nat
        BY <2>2 DEF Source
      <3> QED BY <3>1, <3>2 DEF Before
    <2>7. ASSUME known
          PROVE  /\ League!Row(b) # League!NoRow /\ League!Row(b).bundle = b
                 /\ League!Row(b).match = League!Row(b).summary.match
                 /\ League!Row(b).facts = source[b].result /\ League!Row(b).match = source[b].match
      <3>1. League!Row(b) # League!NoRow
        BY <1>1, <2>7 DEF League!NoRow, League!PreparationAssumption
      <3>2. RowIsSound(games[b].media, League!Row(b))
        BY <1>0, <1>1 DEF RowRule, RowsAreSound, League!Row
      <3> QED BY <2>7, <3>1, <3>2 DEF RowIsSound
    <2>8. VersionRule'
      <3>1. Before(job.stamp, job.bundle)' /\ job'.stamp.media = games'[job'.bundle].media
        BY <1>0, <1>4, <2>1, <2>3, <2>6 DEF Before
      <3>2. \A c \in Bundles : source'[c] # League!Gone => source'[c].generation <= edits'
        BY <1>0 DEF VersionRule
      <3>3. job'.step \in {"bless", "decode"} /\ (job'.step = "bless" => known)
            /\ job'.stamp = source[b] /\ job'.bundle = b
        BY <2>1, <2>3
      <3>4. League!Row(job.bundle)' = League!Row(b)
        BY <1>0, <3>3 DEF League!Row
      <3> HIDE DEF known
      <3> QED BY <1>0, <2>7, <3>1, <3>2, <3>3, <3>4 DEF VersionRule
    <2> QED BY <1>2, <2>5, <2>8 DEF IndexInvariant
  <1> QED BY <1>3, <1>4

LEMMA DecodeKeeps ==
    ASSUME League!PreparationAssumption, IndexInvariant, League!Decode
    PROVE  IndexInvariant'
  <1>0. /\ TypeOK /\ RowRule /\ WorkRule /\ VersionRule /\ DoneRule
        /\ job.step = "decode" /\ Working /\ Stamped /\ job \in Preparing
        /\ UNCHANGED <<source, watch, hints, retry, games, completed, deferred, edits>>
        /\ rows \in [Media -> Rows \cup {League!NoRow}] /\ completed \in [Bundles -> Stamps]
    BY Jobs DEF IndexInvariant, League!Decode, Working, Stamped, TypeOK
  <1> DEFINE b == job.bundle
             now == source[b]
             m == games[b].media
             old == IF League!Row(b) = League!NoRow
                    THEN [bundle |-> b, summary |-> games[b], facts |-> 0, match |-> FALSE,
                          history |-> League!NoStamp, current |-> FALSE, telemetry |-> League!Unprepared]
                    ELSE League!Row(b)
             new == [old EXCEPT !.summary = games[b], !.facts = now.result, !.match = now.match,
                                !.current = @ /\ old.summary = games[b] /\ old.facts = now.result]
  <1>1. b \in Bundles /\ games[b] \in Summaries /\ m \in Media /\ League!Row(b) \in Rows \cup {League!NoRow}
    BY <1>0, AtHand
  <1>2. CASE now = League!Gone \/ now.match # games[b].match \/ old.bundle # b
    <2>1. League!Failed /\ rows' = rows
      BY <1>2 DEF League!Decode
    <2>2. /\ job.pass = "cards" => Continues(job', {b})
          /\ job.pass # "cards" => Continues(job', {})
          /\ job'.step \in {"idle", "begin", "failed"}
      BY <1>0, <2>1, FailedContinues
    <2>3. VersionRule'
      BY <1>0, <2>2 DEF VersionRule, Stamped
    <2>4. PICK finished : Continues(job', finished) /\ (finished = {} \/ job.pass = "cards")
      BY <2>2
    <2>5. TypeOK' /\ WorkRule' /\ DoneRule' /\ ChangeRule'
      BY <1>0, <2>1, <2>4, WorkGoesOn
    <2>6. RowRule'
      BY <1>0, <2>1 DEF RowRule, RowsAreSound, RowIsSound
    <2> QED BY <2>3, <2>5, <2>6 DEF IndexInvariant
  <1>3. CASE now # League!Gone /\ now.match = games[b].match /\ old.bundle = b
    <2>1. /\ rows' = [n \in Media |-> IF n = m THEN new
                                      ELSE IF rows[n].bundle = b THEN League!NoRow ELSE rows[n]]
          /\ job' = [job EXCEPT !.step = "bless"]
      BY <1>3 DEF League!Decode
    <2>2. now \in Source /\ now.result \in Nat /\ now.match \in BOOLEAN
      <3>1. now \in Source
        BY <1>0, <1>1, <1>3 DEF TypeOK
      <3> QED BY <3>1 DEF Source
    <2>3. League!Unprepared \in Telemetries /\ League!Unprepared.status = "pending"
          /\ League!NoRow \notin Rows
      BY Absent DEF League!Unprepared, Telemetries, Stamps
    <2>4. old \in Rows /\ RowIsSound(m, old)
      <3>1. CASE League!Row(b) = League!NoRow
        <4> DEFINE r == [bundle |-> b, summary |-> games[b], facts |-> 0, match |-> FALSE,
                         history |-> League!NoStamp, current |-> FALSE, telemetry |-> League!Unprepared]
        <4>1. r \in Rows /\ ~r.current /\ r.telemetry = League!Unprepared
          BY <1>1, <2>3 DEF Rows, Stamps
        <4>2. old = r
          BY <3>1
        <4> HIDE DEF r, old
        <4> QED BY <2>3, <4>1, <4>2 DEF RowIsSound
      <3>2. CASE League!Row(b) # League!NoRow
        BY <1>0, <1>1, <3>2 DEF RowRule, RowsAreSound, League!Row
      <3> QED BY <3>1, <3>2
    <2> HIDE DEF old
    <2>5. /\ new \in Rows /\ new.summary = games[b] /\ new.facts = now.result
          /\ new.match = now.match /\ new.bundle = b /\ new.history = old.history
          /\ new.telemetry = old.telemetry
          /\ new.current => old.current /\ old.summary = games[b] /\ old.facts = now.result
      BY <1>1, <1>3, <2>2, <2>4 DEF Rows
    <2> HIDE DEF new
    <2>6. RowIsSound(m, new)
      BY <1>3, <2>3, <2>4, <2>5 DEF RowIsSound
    <2>7. rows' \in [Media -> Rows \cup {League!NoRow}] /\ rows'[m] = new
      BY <1>0, <1>1, <2>1, <2>5
    <2>8. RowRule'
      <3>1. \A n \in Media : RowIsSound(n, rows'[n])
        <4> SUFFICES ASSUME NEW n \in Media PROVE RowIsSound(n, rows'[n])
          OBVIOUS
        <4>1. (rows'[n] = new /\ n = m) \/ rows'[n] = League!NoRow \/ rows'[n] = rows[n]
          BY <2>1
        <4>2. RowIsSound(n, rows[n]) /\ RowIsSound(n, League!NoRow)
          BY <1>0 DEF RowRule, RowsAreSound, RowIsSound
        <4> QED BY <2>6, <4>1, <4>2
      <3> QED BY <3>1 DEF RowRule, RowsAreSound, RowIsSound
    <2>9. /\ job' \in Preparing /\ job'.step = "bless" /\ job'.stamp = job.stamp
          /\ job'.changes = job.changes /\ job'.pass = job.pass /\ job'.left = job.left
          /\ job'.pending = job.pending /\ job'.bundle = b
      BY <1>0, <2>1 DEF Preparing
    <2>10. Continues(job', {})
      BY <1>0, <2>9, SameRecording
    <2>11. TypeOK' /\ WorkRule' /\ DoneRule' /\ ChangeRule'
      BY <1>0, <2>7, <2>10, WorkGoesOn
    <2>12. VersionRule'
      <3>1. Before(job.stamp, job.bundle)' /\ job'.stamp.media = games'[job'.bundle].media
        BY <1>0, <2>9 DEF Before, VersionRule
      <3>2. \A c \in Bundles : source'[c] # League!Gone => source'[c].generation <= edits'
        BY <1>0 DEF VersionRule
      <3>3. League!Row(job.bundle)' = new
        BY <1>0, <2>7, <2>9 DEF League!Row
      <3>4. new # League!NoRow /\ new.bundle = b /\ new.match = new.summary.match
            /\ (source[b] = job.stamp => new.facts = job.stamp.result /\ new.match = job.stamp.match)
        BY <1>3, <2>3, <2>5
      <3> QED BY <1>0, <2>9, <3>1, <3>2, <3>3, <3>4 DEF VersionRule
    <2> QED BY <2>8, <2>11, <2>12 DEF IndexInvariant
  <1> QED BY <1>2, <1>3


LEMMA BlessKeeps ==
    ASSUME League!PreparationAssumption, IndexInvariant, League!Bless
    PROVE  IndexInvariant'
  <1>0. /\ TypeOK /\ RowRule /\ WorkRule /\ VersionRule /\ DoneRule
        /\ job.step = "bless" /\ Working /\ Stamped /\ job \in Preparing
        /\ UNCHANGED <<source, watch, hints, retry, games, completed, deferred, edits>>
        /\ rows \in [Media -> Rows \cup {League!NoRow}] /\ completed \in [Bundles -> Stamps]
    BY Jobs DEF IndexInvariant, League!Bless, Working, Stamped, TypeOK
  <1> DEFINE b == job.bundle
             m == games[b].media
             old == rows[m]
             new == [old EXCEPT !.history = job.stamp, !.current = TRUE]
  <1>1. b \in Bundles /\ m \in Media
    BY <1>0, AtHand
  <1>2. CASE source[b] # job.stamp
    <2>1. League!Failed /\ rows' = rows
      BY <1>2 DEF League!Bless, League!SameVersion, League!Version
    <2>2. /\ job.pass = "cards" => Continues(job', {b})
          /\ job.pass # "cards" => Continues(job', {})
          /\ job'.step \in {"idle", "begin", "failed"}
      BY <1>0, <2>1, FailedContinues
    <2>3. VersionRule'
      BY <1>0, <2>2 DEF VersionRule, Stamped
    <2>4. PICK finished : Continues(job', finished) /\ (finished = {} \/ job.pass = "cards")
      BY <2>2
    <2>5. TypeOK' /\ WorkRule' /\ DoneRule' /\ ChangeRule'
      BY <1>0, <2>1, <2>4, WorkGoesOn
    <2>6. RowRule'
      BY <1>0, <2>1 DEF RowRule, RowsAreSound, RowIsSound
    <2> QED BY <2>3, <2>5, <2>6 DEF IndexInvariant
  <1>3. CASE source[b] = job.stamp
    <2>1. /\ rows' = [rows EXCEPT ![m].history = job.stamp, ![m].current = TRUE]
          /\ job' = IF job.pass = "cards" THEN League!NextOne ELSE [job EXCEPT !.step = "import"]
      BY <1>3 DEF League!Bless, League!SameVersion, League!Version
    <2>2. old \in Rows /\ old.bundle = b /\ old.match = old.summary.match
          /\ old.facts = job.stamp.result /\ old.match = job.stamp.match
      BY <1>0, <1>1, <1>3 DEF VersionRule, League!Row
    <2>3. job.stamp \in Source /\ job.stamp.media = m
      BY <1>0 DEF Preparing, VersionRule
    <2>4. /\ new \in Rows /\ new.history = job.stamp /\ new.bundle = b /\ new.facts = old.facts
          /\ new.match = old.match /\ new.summary = old.summary /\ new.telemetry = old.telemetry
      BY <2>2, <2>3 DEF Rows, Stamps
    <2>5. rows' = [rows EXCEPT ![m] = new]
      BY <1>0, <1>1, <2>1, <2>2 DEF Rows
    <2>6. RowIsSound(m, old) /\ League!NoRow \notin Rows
      BY <1>0, <1>1, Absent DEF RowRule, RowsAreSound
    <2> HIDE DEF new, old
    <2>7. RowIsSound(m, new)
      BY <2>2, <2>3, <2>4, <2>6 DEF RowIsSound
    <2>8. rows' \in [Media -> Rows \cup {League!NoRow}] /\ RowRule' /\ rows'[m] = new
      BY <1>0, <1>1, <2>4, <2>5, <2>7, RowWritten
    <2>9. CASE job.pass = "cards"
      <3>1. job' = League!NextOne /\ Continues(job', {b}) /\ job'.step \in {"idle", "begin"}
        BY <1>0, <2>1, <2>9, NextOneContinues DEF League!Idle
      <3>2. TypeOK' /\ WorkRule' /\ DoneRule' /\ ChangeRule'
        BY <1>0, <2>8, <2>9, <3>1, WorkGoesOn
      <3>3. VersionRule'
        BY <1>0, <3>1 DEF VersionRule, Stamped
      <3> QED BY <2>8, <3>2, <3>3 DEF IndexInvariant
    <2>10. CASE job.pass # "cards"
      <3>1. /\ job' \in Preparing /\ job'.step = "import" /\ job'.stamp = job.stamp
            /\ job'.changes = job.changes /\ job'.pass = job.pass /\ job'.left = job.left
            /\ job'.pending = job.pending /\ job'.bundle = b
        BY <1>0, <2>1, <2>10 DEF Preparing
      <3>2. job.pass = "full"
        BY <1>0, <2>10 DEF Preparing
      <3>3. Continues(job', {})
        BY <1>0, <3>1, <3>2, SameRecording
      <3>4. TypeOK' /\ WorkRule' /\ DoneRule' /\ ChangeRule'
        BY <1>0, <2>8, <3>3, WorkGoesOn
      <3>5. VersionRule'
        <4>1. Before(job.stamp, job.bundle)' /\ job'.stamp.media = games'[job'.bundle].media
          BY <1>0, <3>1 DEF Before, VersionRule
        <4>2. \A c \in Bundles : source'[c] # League!Gone => source'[c].generation <= edits'
          BY <1>0 DEF VersionRule
        <4>3. League!Row(job.bundle)' = new /\ new # League!NoRow /\ new.bundle = b
          BY <1>0, <2>4, <2>6, <2>8, <3>1 DEF League!Row
        <4> QED BY <3>1, <4>1, <4>2, <4>3 DEF VersionRule
      <3> QED BY <2>8, <3>4, <3>5 DEF IndexInvariant
    <2> QED BY <2>9, <2>10
  <1> QED BY <1>2, <1>3

\* The recording counts as done in the version that the scan saw.
LEMMA DoneContinues ==
    ASSUME League!PreparationAssumption, IndexInvariant, Working,
           UNCHANGED <<source, watch, hints, retry, games, deferred, edits>>,
           League!Done(job.bundle), rows' \in [Media -> Rows \cup {League!NoRow}], RowRule'
    PROVE  IndexInvariant'
  <1>0. TypeOK /\ WorkRule /\ VersionRule /\ completed \in [Bundles -> Stamps]
    BY DEF IndexInvariant, TypeOK
  <1>1. /\ completed' = [completed EXCEPT ![job.bundle] = job.pending[job.bundle]]
        /\ job' = League!NextOne
    BY DEF League!Done
  <1>2. /\ job.bundle \in Bundles /\ job.pending \in [Bundles -> Stamps]
        /\ job.pending[job.bundle] # League!NoStamp
    BY <1>0, Works, AtHand
  <1>3. Continues(job', {job.bundle}) /\ job'.step \in {"idle", "begin"}
    BY <1>0, <1>1, NextOneContinues DEF League!Idle
  <1>4. /\ completed' \in [Bundles -> Stamps]
        /\ completed'[job.bundle] = job.pending[job.bundle]
        /\ \A b \in Bundles : b # job.bundle => completed'[b] = completed[b]
    BY <1>0, <1>1, <1>2
  <1>5. TypeOK' /\ WorkRule' /\ DoneRule' /\ ChangeRule'
    BY <1>2, <1>3, <1>4, WorkGoesOn
  <1>6. VersionRule'
    BY <1>0, <1>3 DEF VersionRule, Stamped
  <1> QED BY <1>5, <1>6 DEF IndexInvariant

\* The recording is left in another step, in which no version matters.
LEMMA UnstampedContinues ==
    ASSUME League!PreparationAssumption, IndexInvariant, Working, Continues(job', {}),
           job'.step \in {"begin", "failed"},
           UNCHANGED <<source, watch, hints, retry, games, completed, deferred, edits>>,
           rows' \in [Media -> Rows \cup {League!NoRow}], RowRule'
    PROVE  IndexInvariant'
  <1>1. completed \in [Bundles -> Stamps]
    BY DEF IndexInvariant, TypeOK
  <1>2. TypeOK' /\ WorkRule' /\ DoneRule' /\ ChangeRule'
    BY <1>1, WorkGoesOn
  <1>3. VersionRule'
    BY DEF IndexInvariant, VersionRule, Stamped
  <1> QED BY <1>2, <1>3 DEF IndexInvariant

\* A preparation that starts over keeps what it had to do.
LEMMA AgainContinues ==
    ASSUME TypeOK, WorkRule, Working, League!Again, job.pass = "full"
    PROVE  Continues(job', {}) /\ job'.step = "begin"
  <1>1. /\ job' \in Beginning /\ job'.step = "begin" /\ job'.changes = job.changes
        /\ job'.pass = job.pass /\ job'.left = job.left /\ job'.pending = job.pending
        /\ job'.bundle = job.bundle
    BY Works DEF League!Again, Beginning
  <1> QED BY <1>1, SameRecording

LEMMA PreparationFailedKeeps ==
    ASSUME League!PreparationAssumption, IndexInvariant, League!PreparationFailed
    PROVE  IndexInvariant'
  <1>0. /\ TypeOK /\ RowRule /\ WorkRule /\ job.step = "failed" /\ Working
        /\ UNCHANGED <<source, watch, hints, retry, games, deferred, edits>>
        /\ League!Done(job.bundle) /\ rows \in [Media -> Rows \cup {League!NoRow}]
    BY DEF IndexInvariant, League!PreparationFailed, Working, TypeOK
  <1> DEFINE b == job.bundle
             m == games[b].media
             t == [rows[m].telemetry EXCEPT !.status = "unavailable", !.stamp = source[b]]
  <1>1. b \in Bundles /\ m \in Media
    BY <1>0, AtHand
  <1>2. rows' \in [Media -> Rows \cup {League!NoRow}] /\ RowRule'
    <2>1. CASE League!Row(b) = League!NoRow
      <3>1. rows' = rows
        BY <2>1 DEF League!PreparationFailed
      <3> QED BY <1>0, <3>1 DEF RowRule, RowsAreSound, RowIsSound
    <2>2. CASE League!Row(b) # League!NoRow
      <3>1. rows' = [rows EXCEPT ![m].telemetry.status = "unavailable",
                                 ![m].telemetry.stamp = source[b]]
        BY <2>2 DEF League!PreparationFailed
      <3>2. rows[m] \in Rows /\ League!NoRow \notin Rows
        BY <1>0, <1>1, <2>2, Absent DEF League!Row
      <3>3. rows[m].telemetry \in Telemetries /\ source[b] \in Stamps
        BY <1>0, <1>1, <3>2 DEF Rows, TypeOK, Stamps
      <3>4. t \in Telemetries /\ t.status = "unavailable"
        BY <3>3 DEF Telemetries
      <3>5. rows' = [rows EXCEPT ![m] = [rows[m] EXCEPT !.telemetry = t]]
        BY <1>0, <1>1, <3>1, <3>2, <3>3 DEF Rows, Telemetries
      <3> HIDE DEF t
      <3> QED BY <1>0, <1>1, <3>2, <3>4, <3>5, JournalWritten
    <2> QED BY <2>1, <2>2
  <1> QED BY <1>0, <1>2, DoneContinues

LEMMA OverlayKeeps ==
    ASSUME League!PreparationAssumption, IndexInvariant, League!Overlay
    PROVE  IndexInvariant'
  <1>0. /\ TypeOK /\ RowRule /\ WorkRule /\ VersionRule /\ job.step = "overlay" /\ Working
        /\ UNCHANGED <<source, watch, hints, retry, games, deferred, edits>>
        /\ rows \in [Media -> Rows \cup {League!NoRow}] /\ job.pass = "full"
    BY DEF IndexInvariant, League!Overlay, Working, TypeOK, WorkRule
  <1> DEFINE b == job.bundle
             m == games[b].media
             t == League!Row(b).telemetry
             before == IF t.pages[1] = t.position THEN t.pages[2] ELSE 0
  <1>1. b \in Bundles /\ m \in Media /\ League!Row(b) = rows[m] /\ rows[m] # League!NoRow
    BY <1>0, AtHand DEF VersionRule, League!Row
  <1>2. CASE League!PagesDone(t)
    <2>1. League!Done(b) /\ rows' = rows
      BY <1>2 DEF League!Overlay
    <2>2. RowRule'
      BY <1>0, <2>1 DEF RowRule, RowsAreSound, RowIsSound
    <2> QED BY <1>0, <2>1, <2>2, DoneContinues
  <1>3. CASE ~League!PagesDone(t)
    <2> DEFINE new == [t EXCEPT !.pages = <<t.position, before + 1>>]
    <2>1. /\ rows' = [rows EXCEPT ![m].telemetry.pages = <<t.position, before + 1>>]
          /\ League!Again /\ completed' = completed
      BY <1>3 DEF League!Overlay
    <2>2. rows[m] \in Rows /\ t \in Telemetries /\ League!NoRow \notin Rows
      BY <1>0, <1>1, Absent DEF Rows
    <2>3. t.pages[1] \in Nat /\ t.pages[2] \in Nat /\ t.position \in Nat
      BY <2>2 DEF Telemetries
    <2>4. before + 1 \in Nat
      BY <2>3
    <2> DEFINE pages == <<t.position, before + 1>>
    <2>5. pages \in Nat \X Nat
      BY <2>3, <2>4
    <2> HIDE DEF pages
    <2>6. /\ new = [t EXCEPT !.pages = pages]
          /\ rows' = [rows EXCEPT ![m].telemetry.pages = pages]
      BY <2>1 DEF pages
    <2> HIDE DEF new
    <2>7. /\ new \in Telemetries /\ new.status = t.status /\ new.stamp = t.stamp
          /\ new.position = t.position /\ new.generation = t.generation
      BY <2>2, <2>5, <2>6 DEF Telemetries
    <2>8. rows' = [rows EXCEPT ![m] = [rows[m] EXCEPT !.telemetry = new]]
      BY <1>0, <1>1, <2>2, <2>6 DEF Rows
    <2>9. RowIsSound(m, rows[m])
      BY <1>0, <1>1 DEF RowRule, RowsAreSound
    <2>10. rows' \in [Media -> Rows \cup {League!NoRow}] /\ RowRule'
      <3>1. new.status = "ready" =>
               /\ new.stamp \in Source /\ new.stamp.sound
               /\ new.position = new.stamp.journal /\ new.generation = new.stamp.generation
        BY <1>1, <2>7, <2>9 DEF RowIsSound
      <3> QED BY <1>0, <1>1, <2>2, <2>7, <2>8, <3>1, JournalWritten
    <2>11. Continues(job', {}) /\ job'.step = "begin"
      BY <1>0, <2>1, AgainContinues
    <2> QED BY <1>0, <2>1, <2>10, <2>11, UnstampedContinues
  <1> QED BY <1>2, <1>3


\* A journal that cannot be read makes the recording unavailable in this version.
LEMMA UnavailableContinues ==
    ASSUME League!PreparationAssumption, IndexInvariant, job.step \in {"import", "commit"},
           job' = [job EXCEPT !.step = "failed"],
           rows' = [rows EXCEPT ![games[job.bundle].media].telemetry =
                       [League!Unprepared EXCEPT !.status = "unavailable", !.stamp = job.stamp]],
           UNCHANGED <<source, watch, hints, retry, games, completed, deferred, edits>>
    PROVE  IndexInvariant'
  <1>0. /\ TypeOK /\ RowRule /\ WorkRule /\ VersionRule /\ Working
        /\ rows \in [Media -> Rows \cup {League!NoRow}] /\ job.pass = "full"
    BY DEF IndexInvariant, Working, TypeOK, WorkRule
  <1> DEFINE b == job.bundle
             m == games[b].media
             t == [League!Unprepared EXCEPT !.status = "unavailable", !.stamp = job.stamp]
  <1>1. b \in Bundles /\ m \in Media /\ League!Row(b) = rows[m] /\ rows[m] # League!NoRow
    BY <1>0, AtHand DEF VersionRule, League!Row
  <1>2. rows[m] \in Rows /\ League!NoRow \notin Rows
    BY <1>0, <1>1, Absent
  <1>3. job \in Preparing \cup Committing /\ job.stamp \in Source
    BY <1>0, Jobs DEF Preparing, Committing
  <1>4. t \in Telemetries /\ t.status = "unavailable"
    BY <1>3 DEF League!Unprepared, Telemetries, Stamps
  <1>5. rows' = [rows EXCEPT ![m] = [rows[m] EXCEPT !.telemetry = t]]
    BY <1>0, <1>1, <1>2 DEF Rows
  <1> HIDE DEF t
  <1>6. rows' \in [Media -> Rows \cup {League!NoRow}] /\ RowRule'
    BY <1>0, <1>1, <1>2, <1>4, <1>5, JournalWritten
  <1>7. /\ job' \in Preparing \cup Committing /\ job'.step = "failed"
        /\ job'.changes = job.changes /\ job'.pass = job.pass /\ job'.left = job.left
        /\ job'.pending = job.pending /\ job'.bundle = b
    BY <1>3 DEF Preparing, Committing
  <1>8. Continues(job', {})
    BY <1>0, <1>7, SameRecording
  <1> QED BY <1>0, <1>6, <1>7, <1>8, UnstampedContinues

LEMMA ImportKeeps ==
    ASSUME League!PreparationAssumption, IndexInvariant, League!Import
    PROVE  IndexInvariant'
  <1>0. /\ TypeOK /\ RowRule /\ WorkRule /\ VersionRule /\ job.step = "import" /\ Working /\ Stamped
        /\ UNCHANGED <<source, watch, hints, retry, games, deferred, edits>>
        /\ rows \in [Media -> Rows \cup {League!NoRow}] /\ completed \in [Bundles -> Stamps]
        /\ job.pass = "full" /\ job \in Preparing
    BY Jobs DEF IndexInvariant, League!Import, Working, Stamped, TypeOK, WorkRule
  <1> DEFINE b == job.bundle
             m == games[b].media
             t == League!Row(b).telemetry
             now == source[b]
             start == IF now # League!Gone /\ League!Restored(t, now) THEN t.position ELSE 0
             reached == IF start + ImportBatches < now.journal THEN start + ImportBatches ELSE now.journal
  <1>1. b \in Bundles /\ m \in Media
        /\ League!Row(b) = rows[m] /\ rows[m] # League!NoRow /\ rows[m].bundle = b
    BY <1>0, AtHand DEF VersionRule, League!Row
  <1>2. rows[m] \in Rows /\ League!NoRow \notin Rows /\ t \in Telemetries /\ job.stamp \in Source
    BY <1>0, <1>1, Absent DEF Rows, Preparing
  <1>3. CASE t.stamp = job.stamp /\ t.status = "ready"
    <2>1. job' = [job EXCEPT !.step = "overlay"] /\ completed' = completed /\ rows' = rows
      BY <1>3 DEF League!Import
    <2>2. /\ job' \in Preparing /\ job'.step = "overlay" /\ job'.stamp = job.stamp
          /\ job'.changes = job.changes /\ job'.pass = job.pass /\ job'.left = job.left
          /\ job'.pending = job.pending /\ job'.bundle = b
      BY <1>0, <2>1 DEF Preparing
    <2>3. Continues(job', {})
      BY <1>0, <2>2, SameRecording
    <2>4. TypeOK' /\ WorkRule' /\ DoneRule' /\ ChangeRule'
      BY <1>0, <2>1, <2>3, WorkGoesOn
    <2>5. RowRule'
      BY <1>0, <2>1 DEF RowRule, RowsAreSound, RowIsSound
    <2>6. VersionRule'
      <3>1. Before(job.stamp, job.bundle)' /\ job'.stamp.media = games'[job'.bundle].media
        BY <1>0, <2>2 DEF Before, VersionRule
      <3>2. \A c \in Bundles : source'[c] # League!Gone => source'[c].generation <= edits'
        BY <1>0 DEF VersionRule
      <3>3. League!Row(job.bundle)' = rows[m]
        BY <1>0, <2>1, <2>2 DEF League!Row
      <3> QED BY <1>1, <2>2, <3>1, <3>2, <3>3 DEF VersionRule
    <2> QED BY <2>4, <2>5, <2>6 DEF IndexInvariant
  <1>4. CASE t.stamp = job.stamp /\ t.status # "ready"
    <2>1. League!Done(b) /\ rows' = rows
      BY <1>4 DEF League!Import
    <2>2. RowRule'
      BY <1>0, <2>1 DEF RowRule, RowsAreSound, RowIsSound
    <2> QED BY <1>0, <2>1, <2>2, DoneContinues
  <1>5. CASE t.stamp # job.stamp /\ (now = League!Gone \/ ~now.sound)
    <2>1. /\ job' = [job EXCEPT !.step = "failed"] /\ completed' = completed
          /\ rows' = [rows EXCEPT ![m].telemetry =
                         [League!Unprepared EXCEPT !.status = "unavailable", !.stamp = job.stamp]]
      BY <1>5 DEF League!Import
    <2> QED BY <1>0, <2>1, UnavailableContinues
  <1>6. CASE t.stamp # job.stamp /\ now # League!Gone /\ now.sound
    <2> DEFINE next == [step |-> "commit", changes |-> job.changes, pass |-> "full",
                        left |-> job.left, pending |-> job.pending, bundle |-> b,
                        stamp |-> job.stamp, reached |-> reached,
                        generation |-> now.generation, complete |-> reached = now.journal]
               new == IF League!Restored(t, now) THEN t ELSE League!Unprepared
    <2>1. /\ job' = next /\ completed' = completed
          /\ rows' = [rows EXCEPT ![m].telemetry = IF League!Restored(t, now) THEN @ ELSE League!Unprepared]
      BY <1>6 DEF League!Import
    <2>2. now \in Source /\ now.journal \in Nat /\ now.generation \in Nat
      <3>1. now \in Source
        BY <1>0, <1>1, <1>6 DEF TypeOK
      <3> QED BY <3>1 DEF Source
    <2>3. reached \in Nat
      <3>1. t.position \in Nat /\ ImportBatches \in Nat
        BY <1>2 DEF Telemetries, League!PreparationAssumption
      <3>2. start \in Nat
        BY <3>1
      <3> HIDE DEF start
      <3> QED BY <2>2, <3>1, <3>2
    <2>4. new \in Telemetries /\ (new.status = "ready" => new = t)
      BY <1>2 DEF League!Unprepared, Telemetries, Stamps
    <2>5. rows' = [rows EXCEPT ![m] = [rows[m] EXCEPT !.telemetry = new]]
      BY <1>0, <1>1, <1>2, <2>1 DEF Rows
    <2> HIDE DEF new, reached
    <2>6. /\ next \in Committing /\ next.step = "commit" /\ next.stamp = job.stamp
          /\ next.changes = job.changes /\ next.pass = job.pass /\ next.left = job.left
          /\ next.pending = job.pending /\ next.bundle = b
          /\ next.reached = reached /\ next.generation = now.generation
          /\ next.complete = (reached = now.journal)
      BY <1>0, <1>1, <1>2, <2>2, <2>3, Works DEF Committing
    <2> HIDE DEF next
    <2>7. RowIsSound(m, rows[m])
      BY <1>0, <1>1 DEF RowRule, RowsAreSound
    <2>8. rows' \in [Media -> Rows \cup {League!NoRow}] /\ RowRule' /\ rows'[m] \in Rows
          /\ rows'[m].bundle = b
      <3>1. new.status = "ready" =>
               /\ new.stamp \in Source /\ new.stamp.sound
               /\ new.position = new.stamp.journal /\ new.generation = new.stamp.generation
        BY <1>1, <2>4, <2>7 DEF RowIsSound
      <3> QED BY <1>0, <1>1, <1>2, <2>4, <2>5, <3>1, JournalWritten
    <2>9. Continues(job', {})
      BY <1>0, <2>1, <2>6, SameRecording
    <2>10. TypeOK' /\ WorkRule' /\ DoneRule' /\ ChangeRule'
      <3>1. Working /\ UNCHANGED <<source, watch, hints, retry, games, deferred, edits>>
        BY <1>0
      <3>2. rows' \in [Media -> Rows \cup {League!NoRow}]
        BY <2>8
      <3>3. completed' = completed /\ completed' \in [Bundles -> Stamps]
        BY <1>0, <2>1
      <3> HIDE DEF b, m, t, now, start
      <3> QED BY <2>9, <3>1, <3>2, <3>3, WorkGoesOn
    <2>11. VersionRule'
      <3>1. Before(job.stamp, job.bundle)' /\ job'.stamp.media = games'[job'.bundle].media
        BY <1>0, <2>1, <2>6 DEF Before, VersionRule
      <3>2. \A c \in Bundles : source'[c] # League!Gone => source'[c].generation <= edits'
        BY <1>0 DEF VersionRule
      <3>3. League!Row(job.bundle)' = rows'[m] /\ rows'[m] # League!NoRow
        BY <1>0, <1>2, <2>1, <2>6, <2>8 DEF League!Row
      <3>4. source'[b] = now
        BY <1>0
      <3>5. source'[b] = next.stamp =>
               /\ next.generation = next.stamp.generation /\ next.stamp.sound
               /\ next.complete => next.reached = next.stamp.journal
        BY <1>6, <2>6, <3>4
      <3>6. job' = next /\ next.step = "commit" /\ next.bundle = b
        BY <2>1, <2>6
      <3> QED BY <2>8, <3>1, <3>2, <3>3, <3>5, <3>6 DEF VersionRule
    <2> QED BY <2>8, <2>10, <2>11 DEF IndexInvariant
  <1> QED BY <1>3, <1>4, <1>5, <1>6

LEMMA CommitKeeps ==
    ASSUME League!PreparationAssumption, IndexInvariant, League!Commit
    PROVE  IndexInvariant'
  <1>0. /\ TypeOK /\ RowRule /\ WorkRule /\ VersionRule /\ job.step = "commit" /\ Working /\ Stamped
        /\ UNCHANGED <<source, watch, hints, retry, games, completed, deferred, edits>>
        /\ rows \in [Media -> Rows \cup {League!NoRow}] /\ completed \in [Bundles -> Stamps]
        /\ job.pass = "full" /\ job \in Committing
    BY Jobs DEF IndexInvariant, League!Commit, Working, Stamped, TypeOK, WorkRule
  <1> DEFINE b == job.bundle
             m == games[b].media
             ready == job.complete /\ source[b] = job.stamp
             replaced == source[b] = League!Gone \/ source[b].generation # job.generation
  <1>1. b \in Bundles /\ m \in Media
        /\ League!Row(b) = rows[m] /\ rows[m] # League!NoRow /\ rows[m].bundle = b
    BY <1>0, AtHand DEF VersionRule, League!Row
  <1>2. rows[m] \in Rows /\ League!NoRow \notin Rows /\ rows[m].telemetry \in Telemetries
        /\ job.stamp \in Source /\ job.reached \in Nat /\ job.generation \in Nat
    BY <1>0, <1>1, Absent DEF Rows, Committing
  <1>3. CASE replaced
    <2>1. /\ job' = [job EXCEPT !.step = "failed"]
          /\ rows' = [rows EXCEPT ![m].telemetry =
                         [League!Unprepared EXCEPT !.status = "unavailable", !.stamp = job.stamp]]
      BY <1>3 DEF League!Commit
    <2> QED BY <1>0, <2>1, UnavailableContinues
  <1>4. CASE ~replaced
    <2> DEFINE t == rows[m].telemetry
               new == [t EXCEPT !.position = job.reached, !.generation = job.generation,
                                !.status = IF ready THEN "ready" ELSE "pending",
                                !.stamp = IF ready THEN job.stamp ELSE League!NoStamp]
               next == [step |-> "overlay", changes |-> job.changes, pass |-> "full",
                        left |-> job.left, pending |-> job.pending, bundle |-> b,
                        stamp |-> job.stamp]
    <2>1. /\ rows' = [rows EXCEPT ![m].telemetry =
                [@ EXCEPT !.position = job.reached, !.generation = job.generation,
                          !.status = IF ready THEN "ready" ELSE "pending",
                          !.stamp = IF ready THEN job.stamp ELSE League!NoStamp]]
          /\ job' = IF ready THEN next ELSE
                    [step |-> "begin", changes |-> job.changes, pass |-> "full",
                     left |-> job.left, pending |-> job.pending, bundle |-> b]
      BY <1>4 DEF League!Commit, League!SameVersion, League!Version, League!Again
    <2> HIDE DEF ready
    <2>2. /\ new \in Telemetries /\ new.position = job.reached
          /\ new.generation = job.generation
          /\ new.status = (IF ready THEN "ready" ELSE "pending")
          /\ new.stamp = (IF ready THEN job.stamp ELSE League!NoStamp)
      BY <1>2 DEF Telemetries, Stamps
    <2>3. rows' = [rows EXCEPT ![m] = [rows[m] EXCEPT !.telemetry = new]]
      BY <1>0, <1>1, <1>2, <2>1 DEF Rows
    <2> HIDE DEF new
    <2>4. new.status = "ready" =>
               /\ new.stamp \in Source /\ new.stamp.sound
               /\ new.position = new.stamp.journal /\ new.generation = new.stamp.generation
      BY <1>0, <1>2, <2>2 DEF ready, VersionRule
    <2>5. rows' \in [Media -> Rows \cup {League!NoRow}] /\ RowRule' /\ rows'[m] \in Rows
          /\ rows'[m].bundle = b
      BY <1>0, <1>1, <1>2, <2>2, <2>3, <2>4, JournalWritten
    <2>6. CASE ready
      <3>1. /\ next \in Preparing /\ next.step = "overlay" /\ next.stamp = job.stamp
            /\ next.changes = job.changes /\ next.pass = job.pass /\ next.left = job.left
            /\ next.pending = job.pending /\ next.bundle = b
        BY <1>0, <1>1, <1>2, Works DEF Preparing
      <3>2. job' = next
        BY <2>1, <2>6
      <3> HIDE DEF next
      <3>3. Continues(job', {})
        BY <1>0, <3>1, <3>2, SameRecording
      <3>4. TypeOK' /\ WorkRule' /\ DoneRule' /\ ChangeRule'
        BY <1>0, <2>5, <3>3, WorkGoesOn
      <3>5. VersionRule'
        <4>1. Before(job.stamp, job.bundle)' /\ job'.stamp.media = games'[job'.bundle].media
          BY <1>0, <3>1, <3>2 DEF Before, VersionRule
        <4>2. \A c \in Bundles : source'[c] # League!Gone => source'[c].generation <= edits'
          BY <1>0 DEF VersionRule
        <4>3. League!Row(job.bundle)' = rows'[m] /\ rows'[m] # League!NoRow
          BY <1>0, <1>2, <2>5, <3>1, <3>2 DEF League!Row
        <4> QED BY <2>5, <3>1, <3>2, <4>1, <4>2, <4>3 DEF VersionRule
      <3> QED BY <2>5, <3>4, <3>5 DEF IndexInvariant
    <2>7. CASE ~ready
      <3>1. League!Again
        BY <2>1, <2>7 DEF League!Again
      <3>2. Continues(job', {}) /\ job'.step = "begin"
        BY <1>0, <3>1, AgainContinues
      <3> QED BY <1>0, <2>5, <3>2, UnstampedContinues
    <2> QED BY <2>6, <2>7
  <1> QED BY <1>3, <1>4

-----------------------------------------------------------------------------
(* The invariant. *)

\* The invariant holds of an empty index.
LEMMA IndexStarts ==
    ASSUME League!PreparationAssumption, League!Init
    PROVE  IndexInvariant
  <1>1. League!Nothing \in Changes /\ League!Everything \in Changes
        /\ \A b \in Bundles : Reaches(League!Everything, b) /\ Finds(League!Everything, b)
    <2>1. [all |-> FALSE, of |-> [b \in Bundles |-> 0]] \in Changes
      BY DEF Changes
    <2> QED BY <2>1, Merges DEF League!Nothing
  <1>2. job.step = "idle" /\ job = League!Idle
    BY DEF League!Init, League!Idle
  <1>3. TypeOK
    BY <1>1, <1>2 DEF League!Init, TypeOK, League!Unscanned, Stamps
  <1>4. RowRule /\ WorkRule /\ VersionRule /\ DoneRule
    BY <1>2, Absent DEF League!Init, RowRule, RowsAreSound, RowIsSound, WorkRule, VersionRule, DoneRule,
                        Working, Stamped
  <1>5. ChangeRule
    BY DEF League!Init, ChangeRule
  <1> QED BY <1>3, <1>4, <1>5 DEF IndexInvariant

\* The invariant survives every step of the files and of the worker.
LEMMA IndexKeeps ==
    ASSUME League!PreparationAssumption, IndexInvariant, [League!Next]_League!vars
    PROVE  IndexInvariant'
  <1>1. CASE League!Next
    BY <1>1, FilesKeep, TickKeeps, ScanKeeps, ReconcileKeeps, BeginKeeps, DecodeKeeps, BlessKeeps,
       ImportKeeps, CommitKeeps, OverlayKeeps, PreparationFailedKeeps, RescanKeeps, ContendedKeeps,
       RestartKeeps, RefreshKeeps, ResetKeeps DEF League!Next, League!Worker
  <1>2. CASE UNCHANGED League!vars
    <2>0. /\ source' = source /\ watch' = watch /\ hints' = hints /\ retry' = retry
          /\ games' = games /\ completed' = completed /\ rows' = rows
          /\ deferred' = deferred /\ edits' = edits /\ job' = job
      BY <1>2 DEF League!vars
    <2>1. TypeOK'
      BY <2>0 DEF IndexInvariant, TypeOK
    <2>2. RowRule'
      BY <2>0 DEF IndexInvariant, RowRule, RowsAreSound, RowIsSound
    <2>3. WorkRule'
      BY <2>0 DEF IndexInvariant, WorkRule, Working, League!Listed, Reaches
    <2>4. VersionRule'
      BY <2>0 DEF IndexInvariant, VersionRule, Stamped, Before, League!Row
    <2>5. DoneRule'
      <3>1. DoneRule /\ (Working' <=> Working) /\ \A s, b : Before(s, b)' <=> Before(s, b)
        BY <2>0 DEF IndexInvariant, Working, Before
      <3> QED BY <2>0, <3>1 DEF DoneRule
    <2>6. ChangeRule'
      BY <2>0 DEF IndexInvariant, ChangeRule, Working, Reaches, Finds, League!Listed, Noticed,
                  Discovered, InScan, InWork
    <2> QED BY <2>1, <2>2, <2>3, <2>4, <2>5, <2>6 DEF IndexInvariant
  <1> QED BY <1>1, <1>2

\* The invariant says what the queries rely on.
LEMMA IndexIsSound ==
    ASSUME League!PreparationAssumption, IndexInvariant
    PROVE  League!LeagueIndexIsSound
  <1>0. TypeOK /\ \A m \in Media : RowIsSound(m, rows[m])
    BY DEF IndexInvariant, RowRule, RowsAreSound
  <1>1. League!ReadyIsWhole
    BY <1>0 DEF League!ReadyIsWhole, RowIsSound
  <1>2. League!FactsAreOfTheirVersion
    BY <1>0 DEF League!FactsAreOfTheirVersion, RowIsSound
  <1>3. League!NoChangeIsForgotten
    <2> SUFFICES ASSUME watch, job = League!Idle, NEW b \in Bundles, b \notin deferred,
                        source[b] # League!Gone, completed[b] # source[b]
                 PROVE  \E c \in {hints, retry} : c.all \/ c.of[b] > 0
      BY <1>0 DEF League!NoChangeIsForgotten, TypeOK
    <2>1. job.step = "idle" /\ ~Working
      BY DEF League!Idle, Working
    <2> QED BY <2>1 DEF IndexInvariant, ChangeRule, Noticed, Reaches
  <1> QED BY <1>1, <1>2, <1>3 DEF League!LeagueIndexIsSound

\* What the index says of a recording holds of the version that its fingerprint names,
\* and no change that the watch saw is forgotten, for any recordings and bounds.
THEOREM IndexCorrect == League!PreparationAssumption /\ League!Spec => []League!LeagueIndexIsSound
  <1> SUFFICES ASSUME League!PreparationAssumption
               PROVE  League!Spec => []League!LeagueIndexIsSound
    OBVIOUS
  <1>1. League!Init => IndexInvariant
    BY IndexStarts
  <1>2. IndexInvariant /\ [League!Next]_League!vars => IndexInvariant'
    BY IndexKeeps
  <1>3. IndexInvariant => League!LeagueIndexIsSound
    BY IndexIsSound
  <1> QED BY <1>1, <1>2, <1>3, PTL DEF League!Spec

-----------------------------------------------------------------------------
(* The preparation as part of the app. *)

appVars == <<part, playbackVars, indexVars, vars, planVars, ffmpegVars, scanVars, leagueVars,
             mutationVars, playerVars>>

\* A step of the app is a step of the preparation or leaves it alone.
LEMMA AppStepsPrepare ==
    ASSUME [AppNext]_appVars
    PROVE  [League!Next]_League!vars
  <1>1. leagueVars' = leagueVars => League!vars' = League!vars
    BY DEF leagueVars, League!vars
  <1>2. appVars' = appVars => leagueVars' = leagueVars
    BY DEF appVars
  <1>3. AppNext => League!Next \/ leagueVars' = leagueVars
    <2> SUFFICES ASSUME AppNext PROVE League!Next \/ leagueVars' = leagueVars
      OBVIOUS
    <2>1. LeagueNext \/ leagueVars' = leagueVars
      BY DEF AppNext
    <2> QED BY <2>1 DEF LeagueNext
  <1> QED BY <1>1, <1>2, <1>3

\* Whatever the app does, what its index says of a recording holds of the version on
\* disk, and no change of a file that the watch saw is forgotten.
THEOREM PreparationCorrect == AppSpec => []PreparationIsSound
  <1>0. League!PreparationAssumption
    BY AppAssumption DEF AppAssumption
  <1>1. AppInit => IndexInvariant
    BY <1>0, IndexStarts DEF AppInit
  <1>2. IndexInvariant /\ [AppNext]_appVars => IndexInvariant'
    BY <1>0, AppStepsPrepare, IndexKeeps
  <1>3. IndexInvariant => PreparationIsSound
    BY <1>0, IndexIsSound DEF PreparationIsSound
  <1>4. AppSpec => AppInit /\ [][AppNext]_appVars
    BY DEF AppSpec, appVars
  <1> QED BY <1>1, <1>2, <1>3, <1>4, PTL
=============================================================================
