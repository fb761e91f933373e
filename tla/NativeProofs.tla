------------------------------ MODULE NativeProofs ------------------------------
(***************************************************************************)
(* The parts of the native recording engine that NativeMC runs are sound   *)
(* for any callbacks, slots, sizes, windows and waits.  Every part has an  *)
(* invariant that its steps keep; the theorems at the end put them         *)
(* together.  The queue of a sound device is not here: how much it holds   *)
(* is a sum over a sequence, which TLC checks.                             *)
(***************************************************************************)
EXTENDS NativeMC, FiniteSets, FiniteSetTheorems, TLAPS

\* The finite sets of the instances are the finite sets of the library.
LEMMA SameCount ==
    ASSUME NEW S
    PROVE  Lifecycle!Cardinality(S) = Cardinality(S)
  BY DEF Cardinality, Lifecycle!Cardinality

LEMMA SameFinite ==
    ASSUME NEW S
    PROVE  /\ Capture!IsFiniteSet(S) <=> IsFiniteSet(S)
           /\ Capture!Cardinality(S) = Cardinality(S)
  <1>1. Capture!IsFiniteSet(S) <=> IsFiniteSet(S)
    BY DEF IsFiniteSet, Capture!IsFiniteSet
  <1>2. Capture!Cardinality(S) = Cardinality(S)
    BY DEF Cardinality, Capture!Cardinality
  <1> QED BY <1>1, <1>2

-----------------------------------------------------------------------------
(* The callbacks of the capture. *)

Places == {"out", "entered", "inside", "taken", "sent", "leaving", "notify", "locking"}
Callback == [at : Places, generation : Nat]
OwnerPlaces == {"run", "lock", "check", "waiting", "quiet", "late", "unpause", "complete",
                "retained"}
Counters == [arrived : Nat, admitted : Nat, drops : Nat, copies : Nat, replaced : Nat,
             discards : Nat, recreated : Nat]

CaptureTypes ==
    /\ gate \in [reconfiguring : BOOLEAN, stopping : BOOLEAN, waiter : BOOLEAN]
    /\ active \in Nat /\ owners \subseteq Handlers
    /\ callback \in [callbacks -> Callback]
    /\ releasing \in BOOLEAN
    /\ owner \in [does : {"start", "record", "fail", "recreate", "shutdown"},
                  why : {"none", "idle", "release"}, at : OwnerPlaces, woken : BOOLEAN]
    /\ pool \in [generation : Nat, open : BOOLEAN, attached : SUBSET Handlers]
    /\ handoff \in Seq(Nat) /\ pending \in Seq(Nat)
    /\ offered \in Counters

\* The callbacks that the state counts as active, and those that have sent a surface.
Busy == {"inside", "taken", "sent", "entered", "leaving"}
Active == {c \in callbacks : callback[c].at \in Busy}
Senders == {c \in callbacks : callback[c].at = "sent"}
ActiveCounted == active = Cardinality(Active)
SentCounted ==
    offered.admitted + Cardinality(Senders)
        = offered.copies + offered.replaced + offered.discards + Len(handoff) + Len(pending)

\* The gate is as the worker left it, and who waits has registered.
GateIsSet ==
    /\ owner.does \in {"start", "record", "fail"} => owner.at = "run" /\ owner.why = "none"
    /\ owner.does = "recreate" => gate.reconfiguring /\ owner.why = "idle"
    /\ owner.does = "shutdown" => gate.stopping /\ owner.why \in {"idle", "release"}
    /\ owner.at \in {"check", "waiting"} => gate.waiter
    /\ owner.at = "complete" => owner.why = "release"

\* A surface is of the pool that there is, and one at a time.
OneGeneration ==
    /\ \A c \in callbacks : callback[c].at = "taken" => callback[c].generation = pool.generation
    /\ handoff # <<>> => handoff = <<pool.generation>>
    /\ pending # <<>> => pending = <<pool.generation>>

\* What the worker has seen to be over stays over.
ReleaseIsFinal ==
    owner.why = "release" =>
        /\ handoff = <<>> /\ pending = <<>>
        /\ owner.at \in {"quiet", "complete"} => Capture!Released

CaptureInvariant ==
    /\ CaptureTypes /\ ActiveCounted /\ GateIsSet /\ OneGeneration /\ ReleaseIsFinal
    /\ Capture!PoolIsQuiet /\ Capture!NoWakeupIsLost /\ SentCounted

LEMMA CaptureInitially == Capture!CaptureAssumption /\ Capture!Init => CaptureInvariant
  <1> SUFFICES ASSUME Capture!CaptureAssumption, Capture!Init PROVE CaptureInvariant
    OBVIOUS
  <1>1. \A c \in callbacks : callback[c] = [at |-> "out", generation |-> 0]
    BY DEF Capture!Init
  <1>2. CaptureTypes
    <2>1. callback \in [callbacks -> Callback]
      BY DEF Capture!Init, Places, Callback
    <2>2. handoff = <<>> /\ pending = <<>> /\ <<>> \in Seq(Nat)
      BY DEF Capture!Init
    <2> QED BY <2>1, <2>2 DEF Capture!Init, CaptureTypes, OwnerPlaces, Counters
  <1>3. Active = {} /\ Senders = {}
    BY <1>1 DEF Active, Senders, Busy
  <1>4. ActiveCounted
    BY <1>3, FS_EmptySet DEF Capture!Init, ActiveCounted
  <1>5. GateIsSet /\ OneGeneration /\ ReleaseIsFinal
    BY <1>1 DEF Capture!Init, GateIsSet, OneGeneration, ReleaseIsFinal
  <1>6. Capture!PoolIsQuiet /\ Capture!NoWakeupIsLost
    BY DEF Capture!Init, Capture!PoolIsQuiet, Capture!NoWakeupIsLost
  <1>7. SentCounted
    BY <1>3, FS_EmptySet DEF Capture!Init, SentCounted
  <1> QED BY <1>2, <1>4, <1>5, <1>6, <1>7 DEF CaptureInvariant

\* A set of callbacks, when one of them joins or leaves it.
LEMMA OneJoins ==
    ASSUME NEW S, NEW T, NEW c, IsFiniteSet(S), c \notin S, T = S \cup {c}
    PROVE  Cardinality(T) = Cardinality(S) + 1
  BY FS_AddElement

LEMMA OneGoes ==
    ASSUME NEW S, NEW T, NEW c, IsFiniteSet(S), c \in S, T = S \ {c}
    PROVE  Cardinality(T) = Cardinality(S) - 1 /\ Cardinality(S) >= 1
  <1>1. Cardinality(T) = Cardinality(S) - 1
    BY FS_RemoveElement
  <1>2. Cardinality(T) \in Nat /\ Cardinality(S) \in Nat
    BY FS_CardinalityType, FS_RemoveElement
  <1> QED BY <1>1, <1>2

\* A callback goes to another place: the counts of those who are busy or have sent.
LEMMA CallbackMoves ==
    ASSUME Capture!CaptureAssumption, CaptureTypes, NEW c \in callbacks, NEW x \in Places,
           callback' \in [callbacks -> Callback],
           callback'[c].at = x, \A d \in callbacks \ {c} : callback'[d] = callback[d]
    PROVE  /\ Cardinality(Active) \in Nat /\ Cardinality(Senders) \in Nat
           /\ (callback[c].at \in Busy <=> x \in Busy) => Cardinality(Active') = Cardinality(Active)
           /\ callback[c].at \notin Busy /\ x \in Busy => Cardinality(Active') = Cardinality(Active) + 1
           /\ callback[c].at \in Busy /\ x \notin Busy =>
                Cardinality(Active') = Cardinality(Active) - 1 /\ Cardinality(Active) >= 1
           /\ (callback[c].at = "sent" <=> x = "sent") =>
                Cardinality(Senders') = Cardinality(Senders)
           /\ callback[c].at # "sent" /\ x = "sent" =>
                Cardinality(Senders') = Cardinality(Senders) + 1
           /\ callback[c].at = "sent" /\ x # "sent" =>
                Cardinality(Senders') = Cardinality(Senders) - 1
  <1>1. IsFiniteSet(callbacks)
    BY SameFinite DEF Capture!CaptureAssumption
  <1>2. Active = {d \in callbacks : callback[d].at \in Busy}
    BY DEF Active
  <1>3. Active' = {d \in callbacks : callback'[d].at \in Busy}
    BY DEF Active
  <1>4. /\ Senders = {d \in callbacks : callback[d].at = "sent"}
        /\ Senders' = {d \in callbacks : callback'[d].at = "sent"}
    BY DEF Senders
  <1>5. IsFiniteSet(Active) /\ IsFiniteSet(Senders)
    BY <1>1, <1>2, <1>4, FS_Subset
  <1>6. Cardinality(Active) \in Nat /\ Cardinality(Senders) \in Nat
    BY <1>5, FS_CardinalityType
  <1>8. (callback[c].at \in Busy <=> x \in Busy) => Active' = Active
    BY <1>2, <1>3
  <1>9. callback[c].at \notin Busy /\ x \in Busy => Cardinality(Active') = Cardinality(Active) + 1
    <2>1. callback[c].at \notin Busy /\ x \in Busy => Active' = Active \cup {c} /\ c \notin Active
      BY <1>2, <1>3
    <2> QED BY <1>5, <2>1, OneJoins
  <1>10. callback[c].at \in Busy /\ x \notin Busy =>
           Cardinality(Active') = Cardinality(Active) - 1 /\ Cardinality(Active) >= 1
    <2>1. callback[c].at \in Busy /\ x \notin Busy => Active' = Active \ {c} /\ c \in Active
      BY <1>2, <1>3
    <2> QED BY <1>5, <2>1, OneGoes
  <1>11. (callback[c].at = "sent" <=> x = "sent") => Senders' = Senders
    BY <1>4
  <1>12. callback[c].at # "sent" /\ x = "sent" =>
           Cardinality(Senders') = Cardinality(Senders) + 1
    <2>1. callback[c].at # "sent" /\ x = "sent" =>
            Senders' = Senders \cup {c} /\ c \notin Senders
      BY <1>4
    <2> QED BY <1>5, <2>1, OneJoins
  <1>13. callback[c].at = "sent" /\ x # "sent" =>
           Cardinality(Senders') = Cardinality(Senders) - 1
    <2>1. callback[c].at = "sent" /\ x # "sent" =>
            Senders' = Senders \ {c} /\ c \in Senders
      BY <1>4
    <2> QED BY <1>5, <2>1, OneGoes
  <1> QED BY <1>6, <1>8, <1>9, <1>10, <1>11, <1>12, <1>13

LEMMA IdleIsEmpty ==
    ASSUME Capture!CaptureAssumption, CaptureTypes, ActiveCounted
    PROVE  /\ active = 0 => \A c \in callbacks : callback[c].at \notin Busy
           /\ \A c \in callbacks : callback[c].at \in Busy => active >= 1
  <1>1. IsFiniteSet(Active)
    BY SameFinite, FS_Subset DEF Capture!CaptureAssumption, Active
  <1>2. active = 0 => Active = {}
    BY <1>1, FS_EmptySet DEF ActiveCounted
  <1> QED BY <1>2 DEF Active, CaptureTypes

LEMMA CallbackGoes ==
    ASSUME CaptureTypes, NEW c \in callbacks, NEW x \in Places, NEW g \in Nat,
           \/ callback' = [callback EXCEPT ![c].at = x] /\ g = callback[c].generation
           \/ callback' = [callback EXCEPT ![c] = [at |-> x, generation |-> g]]
    PROVE  /\ callback' \in [callbacks -> Callback]
           /\ callback'[c].at = x /\ callback'[c].generation = g
           /\ \A d \in callbacks \ {c} : callback'[d] = callback[d]
  <1>1. callback \in [callbacks -> Callback]
    BY DEF CaptureTypes
  <1>2. callback[c] \in Callback
    BY <1>1
  <1> DEFINE r == [at |-> x, generation |-> g]
  <1>3. r \in Callback /\ r.at = x /\ r.generation = g
    BY DEF Callback
  <1>4. callback' = [callback EXCEPT ![c] = r]
    <2>1. CASE callback' = [callback EXCEPT ![c].at = x] /\ g = callback[c].generation
      <3>1. [callback[c] EXCEPT !.at = x] = r
        BY <1>2, <2>1 DEF Callback
      <3>2. callback' = [callback EXCEPT ![c] = [callback[c] EXCEPT !.at = x]]
        BY <1>1, <2>1
      <3> QED BY <3>1, <3>2
    <2> QED BY <2>1
  <1> HIDE DEF r
  <1> QED BY <1>1, <1>3, <1>4

\* Every way in which a surface goes from one count to another keeps the balance.
SurfaceGoes ==
    \/ /\ offered' = [offered EXCEPT !.admitted = @ + 1]
       /\ Cardinality(Senders') = Cardinality(Senders) - 1 /\ UNCHANGED <<handoff, pending>>
    \/ /\ Cardinality(Senders') = Cardinality(Senders) + 1 /\ Len(handoff) = 0 /\ Len(handoff') = 1
       /\ UNCHANGED <<offered, pending>>
    \/ /\ offered' = [offered EXCEPT !.replaced = @ + Len(pending)] /\ UNCHANGED Senders
       /\ Len(handoff) = 1 /\ Len(handoff') = 0 /\ Len(pending') = 1
    \/ /\ offered' = [offered EXCEPT !.discards = @ + 1] /\ UNCHANGED <<Senders, pending>>
       /\ Len(handoff) = 1 /\ Len(handoff') = 0
    \/ /\ \/ offered' = [offered EXCEPT !.copies = @ + 1]
          \/ offered' = [offered EXCEPT !.discards = @ + 1]
       /\ Len(pending) = 1 /\ Len(pending') = 0 /\ UNCHANGED <<Senders, handoff>>
    \/ /\ \E n \in Nat : offered' = [offered EXCEPT !.discards = @ + Len(handoff) + Len(pending),
                                                    !.recreated = n]
       /\ Len(handoff') = 0 /\ Len(pending') = 0 /\ UNCHANGED Senders

LEMMA SurfacesBalance ==
    ASSUME offered \in Counters, handoff \in Seq(Nat), pending \in Seq(Nat),
           Cardinality(Senders) \in Nat, SentCounted, SurfaceGoes
    PROVE  SentCounted' /\ offered' \in Counters
  <1>0. /\ offered.admitted \in Nat /\ offered.copies \in Nat /\ offered.replaced \in Nat
        /\ offered.discards \in Nat /\ Len(handoff) \in Nat /\ Len(pending) \in Nat
        /\ offered.arrived \in Nat /\ offered.drops \in Nat /\ offered.recreated \in Nat
    BY DEF Counters
  <1>1. SUFFICES ASSUME NEW a \in Nat, NEW c \in Nat, NEW r \in Nat, NEW d \in Nat, NEW h \in Nat,
                        NEW p \in Nat, NEW s \in Nat,
                        a = offered.admitted, c = offered.copies, r = offered.replaced,
                        d = offered.discards, h = Len(handoff), p = Len(pending),
                        s = Cardinality(Senders)
                 PROVE  SentCounted' /\ offered' \in Counters
    BY <1>0
  <1>2. a + s = c + r + d + h + p
    BY <1>1 DEF SentCounted
  <1>3. CASE offered' = [offered EXCEPT !.admitted = @ + 1]
             /\ Cardinality(Senders') = Cardinality(Senders) - 1 /\ UNCHANGED <<handoff, pending>>
    <2>1. (a + 1) + (s - 1) = c + r + d + h + p
      BY <1>2
    <2>2. /\ offered'.admitted = a + 1 /\ offered'.copies = c /\ offered'.replaced = r
          /\ offered'.discards = d /\ Cardinality(Senders') = s - 1
          /\ Len(handoff') = h /\ Len(pending') = p
      BY <1>1, <1>3 DEF Counters
    <2>3. offered' \in Counters
      <3>1. offered.admitted + 1 \in Nat
        BY <1>0
      <3> QED BY <1>0, <1>3, <3>1 DEF Counters
    <2> QED BY <2>1, <2>2, <2>3 DEF SentCounted
  <1>4. CASE Cardinality(Senders') = Cardinality(Senders) + 1 /\ Len(handoff) = 0
             /\ Len(handoff') = 1 /\ UNCHANGED <<offered, pending>>
    <2>1. h = 0
      BY <1>1, <1>4
    <2>2. a + (s + 1) = c + r + d + 1 + p
      BY <1>2, <2>1
    <2>3. Cardinality(Senders') = s + 1 /\ Len(handoff') = 1 /\ Len(pending') = p /\ offered' = offered
      BY <1>1, <1>4
    <2> QED BY <1>1, <2>2, <2>3 DEF SentCounted
  <1>5. CASE offered' = [offered EXCEPT !.replaced = @ + Len(pending)] /\ UNCHANGED Senders
             /\ Len(handoff) = 1 /\ Len(handoff') = 0 /\ Len(pending') = 1
    <2>1. h = 1
      BY <1>1, <1>5
    <2>2. a + s = c + (r + p) + d + 0 + 1
      BY <1>2, <2>1
    <2>3. /\ offered'.admitted = a /\ offered'.copies = c /\ offered'.replaced = r + p
          /\ offered'.discards = d /\ Cardinality(Senders') = s
          /\ Len(handoff') = 0 /\ Len(pending') = 1
      BY <1>1, <1>5 DEF Counters
    <2>4. offered' \in Counters
      <3>1. offered.replaced + Len(pending) \in Nat
        BY <1>0
      <3> QED BY <1>0, <1>5, <3>1 DEF Counters
    <2> QED BY <2>2, <2>3, <2>4 DEF SentCounted
  <1>6. CASE offered' = [offered EXCEPT !.discards = @ + 1] /\ UNCHANGED <<Senders, pending>>
             /\ Len(handoff) = 1 /\ Len(handoff') = 0
    <2>1. h = 1
      BY <1>1, <1>6
    <2>2. a + s = c + r + (d + 1) + 0 + p
      BY <1>2, <2>1
    <2>3. /\ offered'.admitted = a /\ offered'.copies = c /\ offered'.replaced = r
          /\ offered'.discards = d + 1 /\ Cardinality(Senders') = s
          /\ Len(handoff') = 0 /\ Len(pending') = p
      BY <1>1, <1>6 DEF Counters
    <2>4. offered' \in Counters
      <3>1. offered.discards + 1 \in Nat
        BY <1>0
      <3> QED BY <1>0, <1>6, <3>1 DEF Counters
    <2> QED BY <2>2, <2>3, <2>4 DEF SentCounted
  <1>7. CASE Len(pending) = 1 /\ Len(pending') = 0 /\ UNCHANGED <<Senders, handoff>>
             /\ \/ offered' = [offered EXCEPT !.copies = @ + 1]
                \/ offered' = [offered EXCEPT !.discards = @ + 1]
    <2>1. p = 1
      BY <1>1, <1>7
    <2>2. a + s = (c + 1) + r + d + h + 0 /\ a + s = c + r + (d + 1) + h + 0
      BY <1>2, <2>1
    <2>3. /\ offered'.admitted = a /\ offered'.replaced = r
          /\ \/ offered'.copies = c + 1 /\ offered'.discards = d
             \/ offered'.copies = c /\ offered'.discards = d + 1
          /\ Cardinality(Senders') = s /\ Len(handoff') = h /\ Len(pending') = 0
      BY <1>1, <1>7 DEF Counters
    <2>4. offered' \in Counters
      <3>1. offered.copies + 1 \in Nat /\ offered.discards + 1 \in Nat
        BY <1>0
      <3> QED BY <1>0, <1>7, <3>1 DEF Counters
    <2> QED BY <2>2, <2>3, <2>4 DEF SentCounted
  <1>8. ASSUME NEW n \in Nat, Len(handoff') = 0, Len(pending') = 0, UNCHANGED Senders,
               offered' = [offered EXCEPT !.discards = @ + Len(handoff) + Len(pending),
                                          !.recreated = n]
        PROVE  SentCounted' /\ offered' \in Counters
    <2>1. a + s = c + r + (d + h + p) + 0 + 0
      BY <1>2
    <2>2. /\ offered'.admitted = a /\ offered'.copies = c /\ offered'.replaced = r
          /\ offered'.discards = d + h + p /\ Cardinality(Senders') = s
      BY <1>1, <1>8 DEF Counters
    <2>3. offered.discards + Len(handoff) + Len(pending) \in Nat
      BY <1>0
    <2>4. offered' \in Counters
      BY <1>0, <1>8, <2>3 DEF Counters
    <2> QED BY <1>8, <2>1, <2>2, <2>4 DEF SentCounted
  <1> QED BY <1>3, <1>4, <1>5, <1>6, <1>7, <1>8 DEF SurfaceGoes

\* A callback that is called, or finds the gate as it is.
LEMMA CallbackEnters ==
    ASSUME Capture!CaptureAssumption, CaptureInvariant, NEW c \in callbacks,
           Capture!Called(c) \/ Capture!Gated(c)
    PROVE  CaptureInvariant'
  <1> USE DEF CaptureInvariant
  <1>0. PICK x \in {"entered", "leaving", "inside"} :
        /\ callback' = [callback EXCEPT ![c].at = x]
        /\ callback[c].at \in {"out", "entered"}
        /\ UNCHANGED <<gate, owners, lock, releasing, owner, pool, handoff, pending, offered>>
        /\ callback[c].at = "out" => active' = active + 1 /\ "frame" \in owners
        /\ callback[c].at = "entered" => active' = active
        /\ x = "inside" => ~gate.reconfiguring /\ ~gate.stopping
    <2>1. CASE Capture!Called(c)
      BY <2>1 DEF Capture!Called, Capture!At, Capture!Goes
    <2>2. CASE Capture!Gated(c)
      BY <2>2 DEF Capture!Gated, Capture!At, Capture!Goes
    <2> QED BY <2>1, <2>2
  <1>1. x \in Places /\ callback[c].generation \in Nat
    BY DEF Places, CaptureTypes, Callback
  <1>2. /\ callback' \in [callbacks -> Callback]
        /\ callback'[c].at = x /\ callback'[c].generation = callback[c].generation
        /\ \A d \in callbacks \ {c} : callback'[d] = callback[d]
    BY <1>0, <1>1, CallbackGoes
  <1>3. /\ Cardinality(Active) \in Nat /\ Cardinality(Senders') = Cardinality(Senders)
        /\ callback[c].at = "out" => Cardinality(Active') = Cardinality(Active) + 1
        /\ callback[c].at = "entered" => Cardinality(Active') = Cardinality(Active)
    BY <1>0, <1>1, <1>2, CallbackMoves DEF Busy
  <1>4. CaptureTypes'
    BY <1>0, <1>2 DEF CaptureTypes
  <1>5. ActiveCounted' /\ SentCounted' /\ GateIsSet'
    BY <1>0, <1>3 DEF ActiveCounted, SentCounted, GateIsSet
  <1>6. OneGeneration'
    BY <1>0, <1>1, <1>2 DEF OneGeneration
  <1>7. ReleaseIsFinal'
    BY <1>0 DEF ReleaseIsFinal, Capture!Released, Capture!Idle, CaptureTypes
  <1>8. Capture!PoolIsQuiet'
    <2>1. owner.does \in {"recreate", "shutdown"} => x # "inside"
      BY <1>0 DEF GateIsSet, CaptureTypes
    <2>2. owner.why = "release" => owner.does = "shutdown"
      BY DEF GateIsSet, CaptureTypes
    <2> QED BY <1>0, <1>1, <1>2, <2>1, <2>2
            DEF Capture!PoolIsQuiet, Capture!At, Capture!Inside
  <1>9. Capture!NoWakeupIsLost'
    <2>1. active' # 0
      <3>1. callback[c].at = "entered" => active >= 1
        BY IdleIsEmpty DEF Busy
      <3> QED BY <1>0, <3>1 DEF CaptureTypes
    <2> QED BY <1>0, <2>1 DEF Capture!NoWakeupIsLost, Capture!Quiet, Capture!Released, Capture!Idle
  <1> QED BY <1>4, <1>5, <1>6, <1>7, <1>8, <1>9

\* A callback that is inside takes a surface, leaves it in the handoff and counts it.
LEMMA CallbackAdmits ==
    ASSUME Capture!CaptureAssumption, CaptureInvariant, NEW c \in callbacks,
           Capture!TakeSurface(c) \/ Capture!Admit(c) \/ Capture!CountAdmitted(c)
    PROVE  CaptureInvariant'
  <1> USE DEF CaptureInvariant
  <1>0. PICK x \in {"taken", "sent", "leaving"}, g \in {pool.generation, callback[c].generation} :
        /\ \/ callback' = [callback EXCEPT ![c].at = x] /\ g = callback[c].generation
           \/ callback' = [callback EXCEPT ![c] = [at |-> x, generation |-> g]]
        /\ callback[c].at \in Capture!Inside
        /\ UNCHANGED <<gate, active, owners, lock, releasing, owner, pool, pending>>
        /\ x = "taken" => g = pool.generation
        /\ callback[c].at = "sent" =>
              x = "leaving" /\ offered' = [offered EXCEPT !.admitted = @ + 1]
        /\ x = "sent" => /\ callback[c].at = "taken" /\ handoff = <<>> /\ UNCHANGED offered
                         /\ handoff' = <<callback[c].generation>>
        /\ x # "sent" => UNCHANGED handoff
        /\ callback[c].at # "sent" =>
              offered' \in {offered, [offered EXCEPT !.drops = @ + 1],
                            [offered EXCEPT !.arrived = @ + 1]}
    <2>1. CASE Capture!TakeSurface(c)
      BY <2>1 DEF Capture!TakeSurface, Capture!At, Capture!Goes, Capture!Inside
    <2>2. CASE Capture!Admit(c)
      BY <2>2 DEF Capture!Admit, Capture!At, Capture!Goes, Capture!Inside
    <2>3. CASE Capture!CountAdmitted(c)
      BY <2>3 DEF Capture!CountAdmitted, Capture!At, Capture!Goes, Capture!Inside
    <2> QED BY <2>1, <2>2, <2>3
  <1>1. /\ x \in Places /\ pool.generation \in Nat /\ callback[c].generation \in Nat
        /\ x \in Busy /\ callback[c].at \in Busy /\ active \in Nat
    BY <1>0 DEF Places, CaptureTypes, Callback, Busy, Capture!Inside
  <1>2. /\ callback' \in [callbacks -> Callback]
        /\ callback'[c].at = x /\ callback'[c].generation = g
        /\ \A d \in callbacks \ {c} : callback'[d] = callback[d]
    BY <1>0, <1>1, CallbackGoes
  <1>3. offered \in Counters /\ offered' \in Counters /\ handoff \in Seq(Nat) /\ handoff' \in Seq(Nat)
    <2>1. offered \in Counters /\ handoff \in Seq(Nat)
      BY DEF CaptureTypes
    <2>2. handoff' \in Seq(Nat)
      <3>1. <<callback[c].generation>> \in Seq(Nat)
        BY <1>1
      <3> QED BY <1>0, <2>1, <3>1
    <2>3. CASE callback[c].at = "sent"
      BY <1>0, <2>1, <2>2, <2>3 DEF Counters
    <2>4. CASE callback[c].at # "sent"
      <3>1. [offered EXCEPT !.drops = @ + 1] \in Counters
        BY <2>1 DEF Counters
      <3>2. [offered EXCEPT !.arrived = @ + 1] \in Counters
        BY <2>1 DEF Counters
      <3> QED BY <1>0, <2>1, <2>2, <2>4, <3>1, <3>2
    <2> QED BY <2>3, <2>4
  <1>4. /\ Cardinality(Active') = Cardinality(Active) /\ Cardinality(Senders) \in Nat
        /\ callback[c].at # "sent" /\ x # "sent" => Cardinality(Senders') = Cardinality(Senders)
        /\ callback[c].at # "sent" /\ x = "sent" => Cardinality(Senders') = Cardinality(Senders) + 1
        /\ callback[c].at = "sent" /\ x # "sent" => Cardinality(Senders') = Cardinality(Senders) - 1
    BY <1>1, <1>2, CallbackMoves
  <1>5. callback[c].at = "taken" => callback[c].generation = pool.generation
    BY DEF OneGeneration
  <1>6. CaptureTypes'
    BY <1>0, <1>2, <1>3 DEF CaptureTypes
  <1>7. ActiveCounted' /\ GateIsSet'
    BY <1>0, <1>4 DEF ActiveCounted, GateIsSet
  <1>8. SentCounted'
    <2>1. CASE callback[c].at = "sent" \/ x = "sent"
      <3>1. x = "sent" => Len(handoff) = 0 /\ Len(handoff') = 1 /\ callback[c].at # "sent"
        BY <1>0
      <3>2. SurfaceGoes
        BY <1>0, <1>4, <2>1, <3>1 DEF SurfaceGoes
      <3>3. pending \in Seq(Nat)
        BY DEF CaptureTypes
      <3> QED BY <1>3, <1>4, <3>2, <3>3, SurfacesBalance
    <2>2. CASE callback[c].at # "sent" /\ x # "sent"
      <3>1. /\ offered'.admitted = offered.admitted /\ offered'.copies = offered.copies
            /\ offered'.replaced = offered.replaced /\ offered'.discards = offered.discards
        BY <1>0, <1>3, <2>2 DEF Counters
      <3> QED BY <1>0, <1>4, <2>2, <3>1 DEF SentCounted
    <2> QED BY <2>1, <2>2
  <1>9. OneGeneration'
    BY <1>0, <1>2, <1>5 DEF OneGeneration
  <1>10. ReleaseIsFinal' /\ Capture!PoolIsQuiet'
    <2>1. /\ owner.why # "release"
          /\ ~(owner.does = "recreate" /\ owner.at \in {"quiet", "unpause"})
          /\ ~(owner.does = "shutdown" /\ owner.at = "quiet")
      BY <1>0 DEF Capture!PoolIsQuiet, Capture!At, GateIsSet, CaptureTypes
    <2> QED BY <1>0, <2>1 DEF ReleaseIsFinal, Capture!PoolIsQuiet
  <1>11. Capture!NoWakeupIsLost'
    <2>1. active' # 0
      BY <1>0, <1>1, IdleIsEmpty
    <2> QED BY <1>0, <2>1 DEF Capture!NoWakeupIsLost, Capture!Quiet, Capture!Released, Capture!Idle
  <1> QED BY <1>6, <1>7, <1>8, <1>9, <1>10, <1>11

\* A callback that leaves, and the last one, which looks for somebody to wake.
LEMMA CallbackLeaves ==
    ASSUME Capture!CaptureAssumption, CaptureInvariant, NEW c \in callbacks,
           Capture!Leave(c) \/ Capture!Notify(c) \/ Capture!NotifyLocked(c)
    PROVE  CaptureInvariant'
  <1> USE DEF CaptureInvariant
  <1>0. PICK x \in {"notify", "locking", "out"} :
        /\ callback' = [callback EXCEPT ![c].at = x]
        /\ callback[c].at \in {"leaving", "notify", "locking"}
        /\ UNCHANGED <<gate, owners, lock, releasing, pool, handoff, pending, offered>>
        /\ callback[c].at = "leaving" => /\ active' = active - 1 /\ UNCHANGED owner
                                         /\ active = 1 => x = "notify"
        /\ callback[c].at # "leaving" => UNCHANGED active
        /\ callback[c].at = "notify" => UNCHANGED owner /\ (gate.waiter => x = "locking")
        /\ owner' \in {owner, [owner EXCEPT !.woken = TRUE]}
        /\ callback[c].at = "locking" /\ owner.at = "waiting" => owner'.woken
    <2>0. owner.at = "waiting" => [owner EXCEPT !.woken = TRUE].woken
      BY DEF CaptureTypes
    <2>1. CASE Capture!Leave(c)
      BY <2>1 DEF Capture!Leave, Capture!At, Capture!Goes
    <2>2. CASE Capture!Notify(c)
      BY <2>2 DEF Capture!Notify, Capture!At, Capture!Goes
    <2>3. CASE Capture!NotifyLocked(c)
      BY <2>0, <2>3 DEF Capture!NotifyLocked, Capture!Wakes, Capture!At, Capture!Goes
    <2> QED BY <2>1, <2>2, <2>3
  <1>1. x \in Places /\ x \notin Busy /\ x # "sent" /\ callback[c].generation \in Nat
    BY DEF Places, CaptureTypes, Callback, Busy
  <1>2. /\ callback' \in [callbacks -> Callback]
        /\ callback'[c].at = x /\ callback'[c].generation = callback[c].generation
        /\ \A d \in callbacks \ {c} : callback'[d] = callback[d]
    BY <1>0, <1>1, CallbackGoes
  <1>3. /\ Cardinality(Active) \in Nat /\ Cardinality(Senders') = Cardinality(Senders)
        /\ callback[c].at = "leaving" =>
              Cardinality(Active') = Cardinality(Active) - 1 /\ Cardinality(Active) >= 1
        /\ callback[c].at # "leaving" => Cardinality(Active') = Cardinality(Active)
    BY <1>0, <1>1, <1>2, CallbackMoves DEF Busy
  <1>4. /\ owner'.does = owner.does /\ owner'.why = owner.why /\ owner'.at = owner.at
        /\ owner.woken => owner'.woken
        /\ owner' \in [does : {"start", "record", "fail", "recreate", "shutdown"},
                       why : {"none", "idle", "release"}, at : OwnerPlaces, woken : BOOLEAN]
    BY <1>0 DEF CaptureTypes
  <1>5. active' \in Nat
    BY <1>0, <1>3 DEF ActiveCounted
  <1>6. CaptureTypes'
    BY <1>0, <1>2, <1>4, <1>5 DEF CaptureTypes
  <1>7. ActiveCounted' /\ SentCounted'
    BY <1>0, <1>3 DEF ActiveCounted, SentCounted
  <1>8. GateIsSet' /\ OneGeneration'
    BY <1>0, <1>2, <1>4 DEF GateIsSet, OneGeneration
  <1>9. ReleaseIsFinal'
    <2>1. owner.why = "release" /\ owner.at \in {"quiet", "complete"} => callback[c].at # "leaving"
      BY IdleIsEmpty DEF ReleaseIsFinal, Capture!Released, Capture!Idle, Busy
    <2> QED BY <1>0, <1>4, <2>1 DEF ReleaseIsFinal, Capture!Released, Capture!Idle
  <1>10. Capture!PoolIsQuiet'
    BY <1>0, <1>2, <1>4 DEF Capture!PoolIsQuiet, Capture!At, Capture!Inside
  <1>11. Capture!NoWakeupIsLost'
    <2> SUFFICES ASSUME owner'.at = "waiting", Capture!Quiet'
                 PROVE  \/ owner'.woken \/ releasing'
                        \/ \E d \in callbacks : callback'[d].at \in {"notify", "locking"}
      BY DEF Capture!NoWakeupIsLost, Capture!At
    <2>1. CASE callback[c].at = "leaving"
      <3>1. active' = 0
        BY <2>1 DEF Capture!Quiet, Capture!Released, Capture!Idle
      <3>2. active = 1
        BY <1>0, <2>1, <3>1 DEF CaptureTypes
      <3> QED BY <1>0, <1>2, <2>1, <3>2
    <2>2. CASE callback[c].at = "notify"
      BY <1>0, <1>2, <1>4, <2>2 DEF GateIsSet
    <2>3. CASE callback[c].at = "locking"
      BY <1>0, <1>4, <2>3
    <2> QED BY <1>0, <2>1, <2>2, <2>3
  <1> QED BY <1>6, <1>7, <1>8, <1>9, <1>10, <1>11

\* Who is where stays as it is.
LEMMA NobodyMoves ==
    ASSUME ActiveCounted, UNCHANGED <<callback, active>>
    PROVE  ActiveCounted' /\ Senders' = Senders
  BY DEF ActiveCounted, Active, Senders

\* A handler is let go, and the worker is told when it was the last.
LEMMA HandlersGo ==
    ASSUME Capture!CaptureAssumption, CaptureInvariant,
           (\E h \in Handlers : Capture!ReleaseHandler(h)) \/ Capture!NotifyRelease
    PROVE  CaptureInvariant'
  <1> USE DEF CaptureInvariant
  <1>0. /\ UNCHANGED <<gate, active, lock, callback, pool, handoff, pending, offered>>
        /\ owners' \subseteq owners /\ releasing' \in BOOLEAN
        /\ owner' \in {owner, [owner EXCEPT !.woken = TRUE]}
        /\ \/ UNCHANGED owner /\ ~releasing /\ releasing' = (owners' = {})
           \/ /\ UNCHANGED owners /\ releasing
              /\ gate.waiter /\ owner.at = "waiting" => owner'.woken
    <2>0. [owner EXCEPT !.woken = TRUE].woken
      BY DEF CaptureTypes
    <2>1. CASE \E h \in Handlers : Capture!ReleaseHandler(h)
      BY <2>1 DEF Capture!ReleaseHandler
    <2>2. CASE Capture!NotifyRelease
      BY <2>0, <2>2 DEF Capture!NotifyRelease, Capture!Wakes
    <2> QED BY <2>1, <2>2
  <1>1. /\ owner'.does = owner.does /\ owner'.why = owner.why /\ owner'.at = owner.at
        /\ owner.woken => owner'.woken
        /\ owner' \in [does : {"start", "record", "fail", "recreate", "shutdown"},
                       why : {"none", "idle", "release"}, at : OwnerPlaces, woken : BOOLEAN]
    BY <1>0 DEF CaptureTypes
  <1>2. CaptureTypes'
    BY <1>0, <1>1 DEF CaptureTypes
  <1>3. ActiveCounted' /\ SentCounted'
    BY <1>0, NobodyMoves DEF SentCounted
  <1>4. GateIsSet' /\ OneGeneration'
    BY <1>0, <1>1 DEF GateIsSet, OneGeneration
  <1>5. ReleaseIsFinal'
    BY <1>0, <1>1 DEF ReleaseIsFinal, Capture!Released, Capture!Idle
  <1>6. Capture!PoolIsQuiet'
    BY <1>0, <1>1 DEF Capture!PoolIsQuiet, Capture!At
  <1>7. Capture!NoWakeupIsLost'
    <2> SUFFICES ASSUME owner'.at = "waiting", Capture!Quiet'
                 PROVE  \/ owner'.woken \/ releasing'
                        \/ \E d \in callbacks : callback'[d].at \in {"notify", "locking"}
      BY DEF Capture!NoWakeupIsLost, Capture!At
    <2>1. CASE UNCHANGED owner /\ ~releasing /\ releasing' = (owners' = {})
      <3>1. CASE owner.why = "release"
        BY <2>1, <3>1 DEF Capture!Quiet, Capture!Released
      <3>2. CASE owner.why # "release"
        BY <1>0, <2>1, <3>2 DEF Capture!NoWakeupIsLost, Capture!Quiet, Capture!Idle, Capture!At
      <3> QED BY <3>1, <3>2
    <2>2. CASE gate.waiter /\ owner.at = "waiting" => owner'.woken
      BY <1>1, <2>2 DEF GateIsSet
    <2> QED BY <1>0, <2>1, <2>2
  <1> QED BY <1>2, <1>3, <1>4, <1>5, <1>6, <1>7

\* The worker begins, takes the surface of the handoff, and shows or drops it.
LEMMA WorkerRuns ==
    ASSUME Capture!CaptureAssumption, CaptureInvariant,
           Capture!Start \/ Capture!ReceivePending \/ Capture!StagePending
    PROVE  CaptureInvariant'
  <1> USE DEF CaptureInvariant
  <1>0. /\ owner.at = "run" /\ owner.why = "none" /\ owner'.at = "run" /\ owner'.why = "none"
        /\ owner.does \in {"start", "record"} /\ owner'.does \in {"record", "fail"}
        /\ owner' \in [does : {"start", "record", "fail", "recreate", "shutdown"},
                       why : {"none", "idle", "release"}, at : OwnerPlaces, woken : BOOLEAN]
    BY DEF Capture!Start, Capture!ReceivePending, Capture!StagePending, Capture!Running,
           CaptureTypes, GateIsSet
  <1>1. UNCHANGED <<gate, active, callback, releasing>> /\ pool'.generation = pool.generation
    BY DEF Capture!Start, Capture!ReceivePending, Capture!StagePending, CaptureTypes
  <1>2. /\ offered \in Counters /\ handoff \in Seq(Nat) /\ pending \in Seq(Nat)
        /\ handoff # <<>> => Len(handoff) = 1
        /\ pending # <<>> => Len(pending) = 1
    BY DEF CaptureTypes, OneGeneration
  <1>3. ActiveCounted' /\ Senders' = Senders
    BY <1>1, NobodyMoves
  <1>4. Cardinality(Senders) \in Nat
    BY SameFinite, FS_Subset, FS_CardinalityType DEF Capture!CaptureAssumption, Senders
  <1>5. CaptureTypes' /\ OneGeneration' /\ SentCounted'
    <2>1. CASE Capture!Start
      <3>1. owners' \subseteq Handlers /\ pool'.attached = owners' /\ pool' = [pool EXCEPT !.attached = owners']
        BY <2>1 DEF Capture!Start, Capture!CaptureAssumption, CaptureTypes
      <3>2. pool' \in [generation : Nat, open : BOOLEAN, attached : SUBSET Handlers]
        BY <3>1 DEF CaptureTypes
      <3>3. UNCHANGED <<handoff, pending, offered>>
        BY <2>1 DEF Capture!Start
      <3>4. SentCounted'
        BY <1>3, <3>3 DEF SentCounted
      <3> QED BY <1>0, <1>1, <3>1, <3>2, <3>3, <3>4 DEF CaptureTypes, OneGeneration
    <2>2. CASE Capture!ReceivePending
      <3>1. /\ handoff' = <<>> /\ pending' \in {pending, handoff} /\ handoff # <<>>
            /\ UNCHANGED <<owners, pool>>
        BY <2>2 DEF Capture!ReceivePending
      <3>2. SurfaceGoes
        BY <1>2, <1>3, <2>2 DEF Capture!ReceivePending, SurfaceGoes
      <3>3. SentCounted' /\ offered' \in Counters
        BY <1>2, <1>4, <3>2, SurfacesBalance
      <3>4. handoff' \in Seq(Nat) /\ pending' \in Seq(Nat)
        BY <1>2, <3>1
      <3> QED BY <1>0, <1>1, <3>1, <3>3, <3>4 DEF CaptureTypes, OneGeneration
    <2>3. CASE Capture!StagePending
      <3>1. pending' = <<>> /\ pending # <<>> /\ UNCHANGED <<handoff, owners, pool>>
        BY <2>3 DEF Capture!StagePending
      <3>2. SurfaceGoes
        BY <1>2, <1>3, <2>3, <3>1 DEF Capture!StagePending, SurfaceGoes
      <3>3. SentCounted' /\ offered' \in Counters
        BY <1>2, <1>4, <3>2, SurfacesBalance
      <3> QED BY <1>0, <1>1, <1>2, <3>1, <3>3 DEF CaptureTypes, OneGeneration
    <2> QED BY <2>1, <2>2, <2>3
  <1>6. GateIsSet' /\ ReleaseIsFinal' /\ Capture!PoolIsQuiet' /\ Capture!NoWakeupIsLost'
    BY <1>0, <1>1 DEF GateIsSet, ReleaseIsFinal, Capture!PoolIsQuiet, Capture!NoWakeupIsLost
  <1> QED BY <1>3, <1>5, <1>6

\* The worker closes the gate, and waits until nobody is inside.
LEMMA WorkerWaits ==
    ASSUME Capture!CaptureAssumption, CaptureInvariant,
           \/ Capture!Recreate \/ Capture!Shutdown \/ Capture!Register \/ Capture!CheckQuiet
           \/ Capture!Woken \/ Capture!TimedOut \/ Capture!Unpause \/ Capture!ShutdownEnds
    PROVE  CaptureInvariant'
  <1> USE DEF CaptureInvariant
  <1> DEFINE Owners == [does : {"start", "record", "fail", "recreate", "shutdown"},
                        why : {"none", "idle", "release"}, at : OwnerPlaces, woken : BOOLEAN]
             Gates == [reconfiguring : BOOLEAN, stopping : BOOLEAN, waiter : BOOLEAN]
  <1>0. owner \in Owners /\ gate \in Gates
    BY DEF CaptureTypes
  <1>1. /\ UNCHANGED <<active, owners, callback, releasing, handoff, pending, offered>>
        /\ pool' \in [generation : Nat, open : BOOLEAN, attached : SUBSET Handlers]
        /\ pool'.generation = pool.generation
    BY DEF Capture!Recreate, Capture!Shutdown, Capture!Register, Capture!CheckQuiet, Capture!Woken,
           Capture!TimedOut, Capture!Unpause, Capture!ShutdownEnds, Capture!Unregister, CaptureTypes
  <1>2. OneGeneration' /\ ActiveCounted' /\ SentCounted'
    BY <1>1, NobodyMoves DEF OneGeneration, SentCounted
  <1>3. /\ owner' \in Owners /\ gate' \in Gates
        /\ GateIsSet'
        /\ owner'.why = "release" => owner.why = "release"
    <2> USE <1>0 DEF GateIsSet, OwnerPlaces
    <2>1. CASE Capture!Recreate
      BY <2>1 DEF Capture!Recreate, Capture!Running
    <2>2. CASE Capture!Shutdown
      BY <2>2 DEF Capture!Shutdown, Capture!Running
    <2>3. CASE Capture!Register
      BY <2>3 DEF Capture!Register
    <2>4. CASE Capture!CheckQuiet
      BY <2>4 DEF Capture!CheckQuiet, Capture!Unregister
    <2>5. CASE Capture!Woken
      BY <2>5 DEF Capture!Woken
    <2>6. CASE Capture!TimedOut
      BY <2>6 DEF Capture!TimedOut, Capture!Unregister
    <2>7. CASE Capture!Unpause
      BY <2>7 DEF Capture!Unpause
    <2>8. CASE Capture!ShutdownEnds
      BY <2>8 DEF Capture!ShutdownEnds
    <2> QED BY <2>1, <2>2, <2>3, <2>4, <2>5, <2>6, <2>7, <2>8
  <1>4. /\ owner'.at = "waiting" => owner.at = "check" /\ ~Capture!Quiet /\ owner'.why = owner.why
        /\ owner'.at \in {"quiet", "unpause", "complete"} =>
              /\ owner'.why = owner.why /\ owner'.does = owner.does
              /\ Capture!Quiet \/ owner.at = "quiet"
    <2> USE <1>0 DEF OwnerPlaces
    <2>1. CASE Capture!Recreate \/ Capture!Shutdown
      BY <2>1 DEF Capture!Recreate, Capture!Shutdown
    <2>2. CASE Capture!Register
      BY <2>2 DEF Capture!Register
    <2>3. CASE Capture!CheckQuiet
      BY <2>3 DEF Capture!CheckQuiet, Capture!Unregister
    <2>4. CASE Capture!Woken
      BY <2>4 DEF Capture!Woken
    <2>5. CASE Capture!TimedOut
      BY <2>5 DEF Capture!TimedOut, Capture!Unregister
    <2>6. CASE Capture!Unpause
      BY <2>6 DEF Capture!Unpause
    <2>7. CASE Capture!ShutdownEnds
      BY <2>7 DEF Capture!ShutdownEnds
    <2> QED BY <2>1, <2>2, <2>3, <2>4, <2>5, <2>6, <2>7
  <1>5. Capture!NoWakeupIsLost'
    BY <1>1, <1>4 DEF Capture!NoWakeupIsLost, Capture!Quiet, Capture!Released, Capture!Idle
  <1>6. ReleaseIsFinal'
    BY <1>1, <1>3, <1>4 DEF ReleaseIsFinal, Capture!Quiet, Capture!Released, Capture!Idle
  <1>7. Capture!PoolIsQuiet'
    <2> SUFFICES ASSUME \/ owner'.does = "recreate" /\ owner'.at \in {"quiet", "unpause"}
                        \/ owner'.does = "shutdown" /\ (owner'.why = "release" \/ owner'.at = "quiet"),
                        NEW c \in callbacks
                 PROVE  callback[c].at \notin Capture!Inside
      BY <1>1 DEF Capture!PoolIsQuiet, Capture!At
    <2>1. active = 0 => callback[c].at \notin Busy
      BY IdleIsEmpty
    <2>2. CASE owner.why = "release"
      BY <1>0, <2>2 DEF Capture!PoolIsQuiet, Capture!At, GateIsSet
    <2>3. CASE owner.why # "release"
      <3>1. owner'.at \in {"quiet", "unpause"} /\ owner'.does = owner.does /\ (active = 0 \/ owner.at = "quiet")
        BY <1>3, <1>4, <2>3 DEF Capture!Quiet, Capture!Idle
      <3>2. CASE active = 0
        BY <2>1, <3>2 DEF Busy, Capture!Inside
      <3>3. CASE owner.at = "quiet"
        BY <3>1, <3>3 DEF Capture!PoolIsQuiet, Capture!At
      <3> QED BY <3>1, <3>2, <3>3
    <2> QED BY <2>2, <2>3
  <1>8. CaptureTypes'
    BY <1>1, <1>3 DEF CaptureTypes
  <1> QED BY <1>2, <1>3, <1>5, <1>6, <1>7, <1>8

\* The pool is made anew, or closed, with what was taken from it.
LEMMA WorkerEmpties ==
    ASSUME Capture!CaptureAssumption, CaptureInvariant, Capture!RecreatePool \/ Capture!ClosePool
    PROVE  CaptureInvariant'
  <1> USE DEF CaptureInvariant
  <1>0. /\ owner.at = "quiet" /\ owner.does \in {"recreate", "shutdown"}
        /\ UNCHANGED <<gate, active, owners, lock, callback, releasing>>
        /\ handoff' = <<>> /\ pending' = <<>>
    BY DEF Capture!RecreatePool, Capture!ClosePool, Capture!Drained
  <1>1. \A c \in callbacks : callback[c].at \notin Capture!Inside
    BY <1>0 DEF Capture!PoolIsQuiet, Capture!At
  <1>2. /\ owner'.does = owner.does
        /\ owner.does = "recreate" => owner'.at = "unpause" /\ owner'.why = owner.why
        /\ owner.does = "shutdown" => owner'.at = "lock" /\ owner'.why = "release"
        /\ owner' \in [does : {"start", "record", "fail", "recreate", "shutdown"},
                       why : {"none", "idle", "release"}, at : OwnerPlaces, woken : BOOLEAN]
        /\ pool' \in [generation : Nat, open : BOOLEAN, attached : SUBSET Handlers]
    <2>1. CASE Capture!RecreatePool
      BY <2>1 DEF Capture!RecreatePool, CaptureTypes, OwnerPlaces
    <2>2. CASE Capture!ClosePool
      BY <2>2 DEF Capture!ClosePool, CaptureTypes, OwnerPlaces
    <2> QED BY <2>1, <2>2
  <1>3. ActiveCounted' /\ Senders' = Senders
    BY <1>0, NobodyMoves
  <1>4. SentCounted' /\ offered' \in Counters
    <2>1. offered \in Counters /\ Cardinality(Senders) \in Nat
      BY SameFinite, FS_Subset, FS_CardinalityType DEF Capture!CaptureAssumption, Senders, CaptureTypes
    <2>2. \E n \in Nat : offered' = [offered EXCEPT !.discards = @ + Len(handoff) + Len(pending),
                                                    !.recreated = n]
      <3>1. offered.recreated \in Nat /\ offered.recreated + 1 \in Nat
        BY <2>1 DEF Counters
      <3> QED BY <3>1 DEF Capture!RecreatePool, Capture!ClosePool, Capture!Drained
    <2>3. SurfaceGoes
      BY <1>0, <1>3, <2>2 DEF SurfaceGoes
    <2> QED BY <2>1, <2>3, SurfacesBalance DEF CaptureTypes
  <1>5. CaptureTypes'
    BY <1>0, <1>2, <1>4 DEF CaptureTypes
  <1>7. GateIsSet' /\ OneGeneration' /\ ReleaseIsFinal' /\ Capture!NoWakeupIsLost'
    BY <1>0, <1>1, <1>2 DEF GateIsSet, OneGeneration, ReleaseIsFinal, Capture!NoWakeupIsLost, Capture!Inside
  <1>8. Capture!PoolIsQuiet'
    BY <1>0, <1>1 DEF Capture!PoolIsQuiet, Capture!At
  <1> QED BY <1>3, <1>4, <1>5, <1>7, <1>8

LEMMA CaptureKeeps ==
    ASSUME Capture!CaptureAssumption, CaptureInvariant, [Capture!Next]_captureVars
    PROVE  CaptureInvariant'
  <1>1. CASE Capture!Next
    <2>1. ASSUME NEW c \in callbacks, Capture!Callback(c) PROVE CaptureInvariant'
      BY <2>1, CallbackEnters, CallbackAdmits, CallbackLeaves DEF Capture!Callback
    <2>2. CASE Capture!Worker
      BY <2>2, WorkerRuns, WorkerWaits, WorkerEmpties DEF Capture!Worker
    <2> QED BY <1>1, <2>1, <2>2, HandlersGo DEF Capture!Next
  <1>2. CASE UNCHANGED captureVars
    BY <1>2, NobodyMoves
       DEF captureVars, CaptureInvariant, CaptureTypes, SentCounted, GateIsSet, OneGeneration,
           ReleaseIsFinal, Capture!Released, Capture!Idle, Capture!PoolIsQuiet, Capture!At,
           Capture!NoWakeupIsLost, Capture!Quiet
  <1> QED BY <1>1, <1>2

LEMMA CaptureSuffices == Capture!CaptureAssumption /\ CaptureInvariant => Capture!CaptureIsSound
  <1> SUFFICES ASSUME Capture!CaptureAssumption, CaptureInvariant PROVE Capture!CaptureIsSound
    OBVIOUS
  <1> USE DEF CaptureInvariant
  <1>1. Capture!SurfacesAreCurrent
    <2>1. \A k \in 1 .. Len(handoff) : handoff[k] = pool.generation
      BY DEF OneGeneration
    <2>2. \A k \in 1 .. Len(pending) : pending[k] = pool.generation
      BY DEF OneGeneration
    <2>3. /\ handoff \in Seq(Nat) /\ pending \in Seq(Nat)
          /\ Len(handoff \o pending) = Len(handoff) + Len(pending)
          /\ \A k \in 1 .. Len(handoff \o pending) :
                (handoff \o pending)[k] = IF k <= Len(handoff) THEN handoff[k]
                                          ELSE pending[k - Len(handoff)]
      BY DEF CaptureTypes
    <2> QED BY <2>1, <2>2, <2>3 DEF Capture!SurfacesAreCurrent
  <1>2. Capture!SurfacesAddUp
    <2>1. {c \in callbacks : Capture!At(c) = "sent"} = Senders
      BY DEF Senders, Capture!At
    <2> QED BY <2>1, SameFinite DEF Capture!SurfacesAddUp, SentCounted
  <1>3. Capture!CompletionIsFinal
    <2>1. owner.at = "complete" => handoff = <<>> /\ pending = <<>> /\ Capture!Released
      BY DEF GateIsSet, ReleaseIsFinal
    <2>2. <<>> \o <<>> = <<>>
      OBVIOUS
    <2> QED BY <2>1, <2>2 DEF Capture!CompletionIsFinal
  <1> QED BY <1>1, <1>2, <1>3 DEF Capture!CaptureIsSound

-----------------------------------------------------------------------------
(* The recordings, one after the other, and the owners of system audio. *)

WorkerPlaces == {"audio", "reserve", "check", "construct", "checked", "unwind", "run", "finish",
                 "summary", "report", "ended"}
OwnerRecord == [at : {"none", "live", "dropped"}, threads : SUBSET Lifecycle!Threads,
                retained : BOOLEAN, stopped : BOOLEAN, over : BOOLEAN]
LifecycleTypes ==
    /\ session \in 0 .. MaxSessions
    /\ service \in [at : {"idle", "await", "recording", "join"}, exited : BOOLEAN,
                    outcome : {"none", "cancelled", "terminal", "stopped", "failed", "candidate"}]
    /\ stop \in BOOLEAN /\ late \in BOOLEAN /\ after \in Nat
    /\ worker \in [at : WorkerPlaces, stage : Nat, built : Nat, failed : BOOLEAN, asked : BOOLEAN]
    /\ evidence \in [ready : BOOLEAN, error : BOOLEAN, terminal : BOOLEAN]
    /\ audio \in [Lifecycle!Session -> OwnerRecord]
    /\ inUse \in BOOLEAN /\ disabled \in BOOLEAN

\* The reservation is that of the one owner there is.
Reserves(r) == r.at = "live" \/ r.threads # {}
Exclusive ==
    /\ \A s, t \in Lifecycle!Session : Reserves(audio[s]) /\ Reserves(audio[t]) => s = t
    /\ inUse <=> \E s \in Lifecycle!Session : Reserves(audio[s])

\* The worker is at work only for a session, and takes down what it built; what is
\* offered is known when the session has ended.
WorkerEnds ==
    /\ worker.at # "ended" => session \in Lifecycle!Session
    /\ worker.at \in {"summary", "report", "ended"} => worker.built = 0
    /\ service.at = "idle" => worker.at = "ended"
    /\ service.at # "idle" => service.outcome # "candidate"

\* A stage that ends after the stop is the last.
LastStage ==
    after = 0 \/ (after = 1 /\ stop /\ worker.at \in {"checked", "unwind", "ended"})

LifecycleInvariant ==
    LifecycleTypes /\ Exclusive /\ WorkerEnds /\ LastStage /\ Lifecycle!CandidateIsEarned

LEMMA LifecycleInitially == Lifecycle!LifecycleAssumption /\ Lifecycle!Init => LifecycleInvariant
  <1> SUFFICES ASSUME Lifecycle!LifecycleAssumption, Lifecycle!Init PROVE LifecycleInvariant
    OBVIOUS
  <1>1. Lifecycle!Unborn \in OwnerRecord
    BY DEF Lifecycle!Unborn, OwnerRecord
  <1>2. audio \in [Lifecycle!Session -> OwnerRecord] /\ \A s \in Lifecycle!Session : audio[s] = Lifecycle!Unborn
    BY <1>1 DEF Lifecycle!Init
  <1>3. LifecycleTypes
    <2>1. session \in 0 .. MaxSessions
      BY DEF Lifecycle!Init, Lifecycle!LifecycleAssumption
    <2>2. worker \in [at : WorkerPlaces, stage : Nat, built : Nat, failed : BOOLEAN, asked : BOOLEAN]
      BY DEF Lifecycle!Init, WorkerPlaces
    <2> QED BY <1>2, <2>1, <2>2 DEF Lifecycle!Init, LifecycleTypes, Lifecycle!NoEvidence
  <1>4. Exclusive
    BY <1>2 DEF Lifecycle!Init, Exclusive, Reserves, Lifecycle!Unborn
  <1>5. WorkerEnds /\ LastStage /\ Lifecycle!CandidateIsEarned
    BY DEF Lifecycle!Init, WorkerEnds, LastStage, Lifecycle!CandidateIsEarned
  <1> QED BY <1>3, <1>4, <1>5 DEF LifecycleInvariant

\* One owner changes: it takes the reservation when there is none, keeps it, or gives
\* it back with what was the last of it.
LEMMA OwnerChanges ==
    ASSUME LifecycleTypes, Exclusive, NEW s \in Lifecycle!Session, NEW r \in OwnerRecord,
           audio' = [audio EXCEPT ![s] = r],
           Reserves(r) => Reserves(audio[s]) \/ ~inUse,
           inUse' = IF Reserves(r) THEN TRUE ELSE IF Reserves(audio[s]) THEN FALSE ELSE inUse
    PROVE  audio' \in [Lifecycle!Session -> OwnerRecord] /\ inUse' \in BOOLEAN /\ Exclusive'
  <1>1. /\ audio' \in [Lifecycle!Session -> OwnerRecord] /\ inUse' \in BOOLEAN
        /\ audio'[s] = r /\ \A t \in Lifecycle!Session \ {s} : audio'[t] = audio[t]
    BY DEF LifecycleTypes
  <1>2. \A t \in Lifecycle!Session : Reserves(audio'[t]) <=> IF t = s THEN Reserves(r)
                                                               ELSE Reserves(audio[t])
    BY <1>1 DEF Reserves, Reserves
  <1>3. Reserves(r) => Exclusive'
    BY <1>2 DEF Exclusive
  <1>4. ~Reserves(r) => Exclusive'
    BY <1>2 DEF Exclusive
  <1> QED BY <1>1, <1>3, <1>4

\* The owner of the session is dropped, if it lives.
LEMMA AudioDropped ==
    ASSUME LifecycleTypes, Exclusive, session \in Lifecycle!Session, Lifecycle!DropAudio
    PROVE  /\ audio' \in [Lifecycle!Session -> OwnerRecord] /\ inUse' \in BOOLEAN
           /\ disabled' \in BOOLEAN /\ Exclusive'
  <1>1. CASE Lifecycle!Owner.at # "live"
    BY <1>1 DEF Lifecycle!DropAudio, LifecycleTypes, Exclusive, Reserves
  <1>2. CASE Lifecycle!Owner.at = "live"
    <2> DEFINE r == [audio[session] EXCEPT !.at = "dropped", !.stopped = TRUE,
                        !.retained = audio[session].retained \/ audio[session].threads # {}]
    <2>1. audio[session] \in OwnerRecord /\ Lifecycle!Owner = audio[session]
      BY DEF LifecycleTypes, Lifecycle!Owner
    <2>2. r \in OwnerRecord /\ r.at = "dropped" /\ r.threads = audio[session].threads
      BY <2>1 DEF OwnerRecord
    <2>3. audio' = [audio EXCEPT ![session] = r]
      BY <1>2 DEF Lifecycle!DropAudio, Lifecycle!Owner
    <2>4. Reserves(audio[session]) /\ inUse
      BY <1>2, <2>1 DEF Reserves, Exclusive
    <2>5. inUse' = IF r.threads = {} THEN FALSE ELSE inUse
      <3>1. audio'[session] = r
        BY <2>3 DEF LifecycleTypes
      <3> HIDE DEF r
      <3> QED BY <1>2, <2>2, <3>1 DEF Lifecycle!DropAudio, Lifecycle!Returned
    <2>6. disabled' \in BOOLEAN
      BY <1>2 DEF Lifecycle!DropAudio
    <2> HIDE DEF r
    <2> QED BY <2>2, <2>3, <2>4, <2>5, <2>6, OwnerChanges DEF Reserves
  <1> QED BY <1>1, <1>2

\* The threads of an owner return, or do not.
LEMMA ThreadsGo ==
    ASSUME LifecycleInvariant, NEW s \in Lifecycle!Session,
           Lifecycle!ThreadReturns(s) \/ Lifecycle!DeadlinePasses(s)
    PROVE  LifecycleInvariant'
  <1> USE DEF LifecycleInvariant
  <1>1. UNCHANGED <<session, service, stop, late, worker, evidence, after>>
    BY DEF Lifecycle!ThreadReturns, Lifecycle!DeadlinePasses
  <1>2. audio[s] \in OwnerRecord
    BY DEF LifecycleTypes
  <1>3. /\ audio' \in [Lifecycle!Session -> OwnerRecord] /\ inUse' \in BOOLEAN
        /\ disabled' \in BOOLEAN /\ Exclusive'
    <2>1. CASE Lifecycle!ThreadReturns(s)
      <3>1. PICK t \in audio[s].threads :
              /\ audio' = [audio EXCEPT ![s].threads = @ \ {t}]
              /\ disabled' \in BOOLEAN /\ inUse' = Lifecycle!Returned(audio', s)
        BY <2>1 DEF Lifecycle!ThreadReturns, LifecycleTypes, OwnerRecord
      <3> DEFINE r == [audio[s] EXCEPT !.threads = audio[s].threads \ {t}]
      <3>2. r \in OwnerRecord /\ r.at = audio[s].at /\ r.threads = audio[s].threads \ {t}
        BY <1>2 DEF OwnerRecord
      <3>3. audio' = [audio EXCEPT ![s] = r] /\ audio'[s] = r
        BY <3>1 DEF LifecycleTypes
      <3> HIDE DEF r
      <3>4. Reserves(audio[s]) /\ inUse
        BY DEF Reserves, Exclusive
      <3>5. inUse' = IF r.at # "live" /\ r.threads = {} THEN FALSE ELSE inUse
        BY <3>1, <3>3 DEF Lifecycle!Returned
      <3> QED BY <3>1, <3>2, <3>3, <3>4, <3>5, OwnerChanges DEF Reserves
    <2>2. CASE Lifecycle!DeadlinePasses(s)
      <3> DEFINE r == [audio[s] EXCEPT !.over = TRUE]
      <3>1. r \in OwnerRecord /\ r.at = audio[s].at /\ r.threads = audio[s].threads
        BY <1>2 DEF OwnerRecord
      <3>2. audio' = [audio EXCEPT ![s] = r] /\ UNCHANGED <<inUse, disabled>>
        BY <2>2 DEF Lifecycle!DeadlinePasses, LifecycleTypes
      <3> HIDE DEF r
      <3>3. Reserves(audio[s]) <=> Reserves(r)
        BY <3>1 DEF Reserves, Reserves
      <3>4. Reserves(audio[s]) => inUse
        BY DEF Exclusive
      <3>5. inUse \in BOOLEAN /\ disabled \in BOOLEAN
        BY DEF LifecycleTypes
      <3> QED BY <3>1, <3>2, <3>3, <3>4, <3>5, OwnerChanges
    <2> QED BY <2>1, <2>2
  <1>4. LifecycleTypes'
    BY <1>1, <1>3 DEF LifecycleTypes
  <1>5. WorkerEnds' /\ LastStage' /\ Lifecycle!CandidateIsEarned'
    BY <1>1 DEF WorkerEnds, LastStage, Lifecycle!CandidateIsEarned
  <1> QED BY <1>3, <1>4, <1>5

\* The worker: sound.
LEMMA WorkerSounds ==
    ASSUME LifecycleInvariant, Lifecycle!CheckAudio \/ Lifecycle!Reserve
    PROVE  LifecycleInvariant'
  <1> USE DEF LifecycleInvariant
  <1>1. /\ UNCHANGED <<session, service, stop, late, evidence, disabled, after>>
        /\ worker.at \in {"audio", "reserve"}
        /\ worker' \in {[worker EXCEPT !.at = "check"], [worker EXCEPT !.at = "reserve"]}
    BY DEF Lifecycle!CheckAudio, Lifecycle!Reserve
  <1>2. /\ worker' \in [at : WorkerPlaces, stage : Nat, built : Nat, failed : BOOLEAN, asked : BOOLEAN]
        /\ worker'.at \in {"check", "reserve"}
    BY <1>1 DEF LifecycleTypes, WorkerPlaces
  <1>3. session \in Lifecycle!Session /\ service.at # "idle" /\ after = 0
    BY <1>1 DEF WorkerEnds, LastStage
  <1>4. audio' \in [Lifecycle!Session -> OwnerRecord] /\ inUse' \in BOOLEAN /\ Exclusive'
    <2>1. CASE UNCHANGED <<audio, inUse>>
      BY <2>1 DEF LifecycleTypes, Exclusive, Reserves
    <2>2. CASE ~UNCHANGED <<audio, inUse>>
      <3> DEFINE r == [audio[session] EXCEPT !.at = "live", !.threads = {"capture"}]
      <3>1. ~inUse /\ inUse' = TRUE /\ audio' = [audio EXCEPT ![session] = r]
        BY <2>2 DEF Lifecycle!CheckAudio, Lifecycle!Reserve
      <3>2. r \in OwnerRecord /\ r.at = "live"
        <4>1. audio[session] \in OwnerRecord
          BY <1>3 DEF LifecycleTypes
        <4> QED BY <4>1 DEF OwnerRecord, Lifecycle!Threads
      <3> HIDE DEF r
      <3> QED BY <1>3, <3>1, <3>2, OwnerChanges DEF Reserves
    <2> QED BY <2>1, <2>2
  <1>5. LifecycleTypes'
    BY <1>1, <1>2, <1>4 DEF LifecycleTypes
  <1>6. WorkerEnds' /\ LastStage' /\ Lifecycle!CandidateIsEarned'
    BY <1>1, <1>2, <1>3 DEF WorkerEnds, LastStage, Lifecycle!CandidateIsEarned
  <1> QED BY <1>4, <1>5, <1>6

\* The worker: the stages of a start.
LEMMA WorkerStarts ==
    ASSUME Lifecycle!LifecycleAssumption, LifecycleInvariant,
           Lifecycle!StageBegins \/ Lifecycle!StageEnds \/ Lifecycle!StageChecked
    PROVE  LifecycleInvariant'
  <1> USE DEF LifecycleInvariant
  <1>1. /\ UNCHANGED <<session, service, stop, late, evidence>>
        /\ worker.at \in {"check", "construct", "checked"}
    BY DEF Lifecycle!StageBegins, Lifecycle!StageEnds, Lifecycle!StageChecked
  <1>2. /\ worker' \in [at : WorkerPlaces, stage : Nat, built : Nat, failed : BOOLEAN, asked : BOOLEAN]
        /\ worker'.at \in {"construct", "unwind", "checked", "run", "check"}
        /\ worker.at = "checked" /\ stop => worker'.at = "unwind"
        /\ worker.at # "construct" => UNCHANGED after
        /\ worker.at = "construct" => \/ UNCHANGED after /\ worker'.at = "unwind"
                                      \/ worker'.at = "checked" /\ after' = IF stop THEN after + 1 ELSE after
    <2>1. worker.built + 1 \in Nat /\ worker.stage + 1 \in Nat
      BY DEF LifecycleTypes
    <2>2. CASE Lifecycle!StageBegins
      BY <2>2 DEF Lifecycle!StageBegins, LifecycleTypes, WorkerPlaces
    <2>3. CASE Lifecycle!StageEnds
      BY <2>1, <2>3 DEF Lifecycle!StageEnds, LifecycleTypes, WorkerPlaces
    <2>4. CASE Lifecycle!StageChecked
      BY <2>1, <2>4 DEF Lifecycle!StageChecked, Lifecycle!Refused, LifecycleTypes, WorkerPlaces
    <2> QED BY <2>2, <2>3, <2>4
  <1>3. session \in Lifecycle!Session /\ service.at # "idle"
    BY <1>1 DEF WorkerEnds
  <1>4. /\ audio' \in [Lifecycle!Session -> OwnerRecord] /\ inUse' \in BOOLEAN
        /\ disabled' \in BOOLEAN /\ Exclusive'
    <2>1. CASE UNCHANGED <<audio, inUse, disabled>>
      BY <2>1 DEF LifecycleTypes, Exclusive
    <2>2. CASE /\ Lifecycle!Owner.at = "live" /\ UNCHANGED <<inUse, disabled>>
               /\ audio' = [audio EXCEPT ![session].threads = Lifecycle!Threads]
      <3> DEFINE r == [audio[session] EXCEPT !.threads = Lifecycle!Threads]
      <3>1. audio[session] \in OwnerRecord
        BY <1>3 DEF LifecycleTypes
      <3>2. r \in OwnerRecord /\ r.at = "live"
        BY <2>2, <3>1 DEF OwnerRecord, Lifecycle!Owner
      <3>3. audio' = [audio EXCEPT ![session] = r]
        BY <1>3, <2>2 DEF LifecycleTypes
      <3> HIDE DEF r
      <3>4. Reserves(audio[session]) /\ Reserves(r) /\ inUse /\ disabled \in BOOLEAN
        BY <1>3, <2>2, <3>2 DEF Reserves, Exclusive, Lifecycle!Owner, LifecycleTypes
      <3> QED BY <1>3, <2>2, <3>2, <3>3, <3>4, OwnerChanges
    <2>3. CASE Lifecycle!DropAudio
      BY <1>3, <2>3, AudioDropped
    <2> QED BY <2>1, <2>2, <2>3 DEF Lifecycle!StageBegins, Lifecycle!StageEnds, Lifecycle!StageChecked
  <1>5. LastStage' /\ after' \in Nat
    BY <1>1, <1>2 DEF LastStage, LifecycleTypes
  <1>6. LifecycleTypes'
    BY <1>1, <1>2, <1>4, <1>5 DEF LifecycleTypes
  <1>7. WorkerEnds' /\ Lifecycle!CandidateIsEarned'
    BY <1>1, <1>2, <1>3 DEF WorkerEnds, Lifecycle!CandidateIsEarned
  <1> QED BY <1>4, <1>5, <1>6, <1>7

\* The worker: the run, and what follows it.
LEMMA WorkerFinishes ==
    ASSUME LifecycleInvariant,
           \/ Lifecycle!Unwind \/ Lifecycle!PublishEvidence \/ Lifecycle!RunEnds
           \/ Lifecycle!Drained \/ Lifecycle!Summarize \/ Lifecycle!Report
    PROVE  LifecycleInvariant'
  <1> USE DEF LifecycleInvariant
  <1>1. /\ UNCHANGED <<session, service, stop, late, after>>
        /\ worker.at \in {"unwind", "run", "finish", "summary", "report"}
    BY DEF Lifecycle!Unwind, Lifecycle!PublishEvidence, Lifecycle!RunEnds, Lifecycle!Drained,
           Lifecycle!Summarize, Lifecycle!Report
  <1>2. session \in Lifecycle!Session /\ service.at # "idle"
    BY <1>1 DEF WorkerEnds
  <1>3. /\ worker' \in [at : WorkerPlaces, stage : Nat, built : Nat, failed : BOOLEAN, asked : BOOLEAN]
        /\ worker'.at \in {"summary", "report", "ended"} => worker'.built = 0
        /\ worker.at = "unwind" => worker'.at = "ended"
    <2> USE DEF LifecycleTypes, WorkerPlaces, WorkerEnds
    <2>1. CASE Lifecycle!Unwind
      BY <2>1 DEF Lifecycle!Unwind
    <2>2. CASE Lifecycle!PublishEvidence
      BY <2>2 DEF Lifecycle!PublishEvidence
    <2>3. CASE Lifecycle!RunEnds
      BY <2>3 DEF Lifecycle!RunEnds
    <2>4. CASE Lifecycle!Drained
      <3>1. CASE worker' = [worker EXCEPT !.at = "summary", !.built = 0]
        BY <2>4, <3>1 DEF Lifecycle!Drained
      <3>2. CASE worker' = [worker EXCEPT !.at = "report", !.built = 0]
        BY <2>4, <3>2 DEF Lifecycle!Drained
      <3>3. CASE worker' = [worker EXCEPT !.at = "report", !.built = 0, !.failed = TRUE]
        BY <2>4, <3>3 DEF Lifecycle!Drained
      <3> QED BY <2>4, <3>1, <3>2, <3>3 DEF Lifecycle!Drained
    <2>5. CASE Lifecycle!Summarize
      BY <2>5 DEF Lifecycle!Summarize
    <2>6. CASE Lifecycle!Report
      BY <2>6 DEF Lifecycle!Report
    <2> QED BY <2>1, <2>2, <2>3, <2>4, <2>5, <2>6
  <1>4. /\ audio' \in [Lifecycle!Session -> OwnerRecord] /\ inUse' \in BOOLEAN
        /\ disabled' \in BOOLEAN /\ Exclusive'
    <2>1. CASE Lifecycle!DropAudio
      BY <1>2, <2>1, AudioDropped
    <2>2. CASE UNCHANGED <<audio, inUse>> /\ disabled' \in BOOLEAN
      BY <2>2 DEF LifecycleTypes, Exclusive
    <2>3. CASE Lifecycle!RunEnds
      <3> DEFINE b == audio[session].stopped \/ audio[session].at = "live"
                 r == [audio[session] EXCEPT !.stopped = b]
      <3>1. audio[session] \in OwnerRecord
        BY <1>2 DEF LifecycleTypes
      <3>2. b \in BOOLEAN
        BY <3>1 DEF OwnerRecord
      <3>3. audio' = [audio EXCEPT ![session].stopped = b] /\ UNCHANGED <<inUse, disabled>>
        BY <2>3 DEF Lifecycle!RunEnds, Lifecycle!Owner
      <3> HIDE DEF b
      <3>4. r \in OwnerRecord /\ r.at = audio[session].at /\ r.threads = audio[session].threads
        BY <3>1, <3>2 DEF OwnerRecord
      <3>5. audio' = [audio EXCEPT ![session] = r]
        BY <1>2, <3>3 DEF LifecycleTypes
      <3> HIDE DEF r
      <3>6. (Reserves(r) <=> Reserves(audio[session])) /\ (Reserves(audio[session]) => inUse)
        BY <1>2, <3>4 DEF Reserves, Exclusive
      <3>7. inUse \in BOOLEAN /\ disabled \in BOOLEAN
        BY DEF LifecycleTypes
      <3> QED BY <1>2, <3>3, <3>4, <3>5, <3>6, <3>7, OwnerChanges
    <2>4. CASE Lifecycle!Summarize
      BY <2>2, <2>4 DEF Lifecycle!Summarize
    <2> QED BY <2>1, <2>2, <2>3, <2>4
            DEF Lifecycle!Unwind, Lifecycle!PublishEvidence, Lifecycle!Drained, Lifecycle!Report,
                LifecycleTypes
  <1>5. evidence' \in [ready : BOOLEAN, error : BOOLEAN, terminal : BOOLEAN]
    BY DEF Lifecycle!Unwind, Lifecycle!PublishEvidence, Lifecycle!RunEnds, Lifecycle!Drained,
           Lifecycle!Summarize, Lifecycle!Report, LifecycleTypes
  <1>6. LifecycleTypes'
    BY <1>1, <1>3, <1>4, <1>5 DEF LifecycleTypes
  <1>7. WorkerEnds' /\ LastStage' /\ Lifecycle!CandidateIsEarned'
    BY <1>1, <1>2, <1>3 DEF WorkerEnds, LastStage, Lifecycle!CandidateIsEarned
  <1> QED BY <1>4, <1>6, <1>7

\* The service.
LEMMA ServiceGoesOn ==
    ASSUME Lifecycle!LifecycleAssumption, LifecycleInvariant,
           \/ Lifecycle!Start \/ Lifecycle!Cancel \/ Lifecycle!Late \/ Lifecycle!Stop
           \/ Lifecycle!Await
    PROVE  LifecycleInvariant'
  <1> USE DEF LifecycleInvariant
  <1>1. UNCHANGED <<audio, inUse, disabled>>
    BY DEF Lifecycle!Start, Lifecycle!Cancel, Lifecycle!Late, Lifecycle!Stop, Lifecycle!Await,
           Lifecycle!Fails, Lifecycle!Expires, Lifecycle!IsReady, Lifecycle!Gone, Lifecycle!Joined,
           Lifecycle!Join
  <1>2. Exclusive'
    BY <1>1 DEF Exclusive
  <1>3. CASE Lifecycle!Start
    <2>1. session' \in 0 .. MaxSessions /\ session' \in Lifecycle!Session
      BY <1>3 DEF Lifecycle!Start, LifecycleTypes, Lifecycle!LifecycleAssumption, Lifecycle!Session
    <2>2. worker' \in [at : WorkerPlaces, stage : Nat, built : Nat, failed : BOOLEAN, asked : BOOLEAN]
          /\ worker'.at \in {"audio", "check"}
      BY <1>3 DEF Lifecycle!Start, WorkerPlaces
    <2>3. LifecycleTypes'
      BY <1>1, <1>3, <2>1, <2>2 DEF Lifecycle!Start, LifecycleTypes, Lifecycle!NoEvidence
    <2> QED BY <1>2, <1>3, <2>1, <2>2, <2>3
            DEF Lifecycle!Start, WorkerEnds, LastStage, Lifecycle!CandidateIsEarned
  <1>4. ASSUME NEW outcome \in {"cancelled", "terminal", "stopped", "failed"},
               Lifecycle!Join(outcome), service.at # "idle"
        PROVE  LifecycleInvariant'
    <2>1. LifecycleTypes'
      BY <1>1, <1>4 DEF Lifecycle!Join, LifecycleTypes
    <2>2. service'.at = "join" /\ stop' /\ UNCHANGED <<session, worker, after>>
      BY <1>4 DEF Lifecycle!Join, LifecycleTypes
    <2>3. service'.outcome # "candidate"
      BY <1>4 DEF Lifecycle!Join, LifecycleTypes
    <2>4. WorkerEnds' /\ Lifecycle!CandidateIsEarned'
      BY <1>4, <2>2, <2>3 DEF WorkerEnds, Lifecycle!CandidateIsEarned
    <2>5. LastStage'
      BY <2>2 DEF LastStage
    <2> QED BY <1>2, <2>1, <2>4, <2>5
  <1>5. CASE Lifecycle!Late
    <2>1. LifecycleTypes'
      BY <1>1, <1>5 DEF Lifecycle!Late, LifecycleTypes
    <2> QED BY <1>2, <1>5, <2>1 DEF Lifecycle!Late, WorkerEnds, LastStage, Lifecycle!CandidateIsEarned
  <1>6. CASE Lifecycle!IsReady
    <2>1. LifecycleTypes' /\ service'.at = "recording" /\ UNCHANGED <<session, worker, after, stop>>
      BY <1>1, <1>6 DEF Lifecycle!IsReady, LifecycleTypes
    <2>2. service.at = "await" /\ service'.outcome = service.outcome
      BY <1>6 DEF Lifecycle!IsReady, LifecycleTypes
    <2>3. WorkerEnds' /\ Lifecycle!CandidateIsEarned'
      BY <2>1, <2>2 DEF WorkerEnds, Lifecycle!CandidateIsEarned
    <2> QED BY <1>2, <2>1, <2>3 DEF LastStage
  <1>7. CASE Lifecycle!Joined
    <2>1. service' = [service EXCEPT !.at = "idle", !.outcome = Lifecycle!Outcome]
          /\ UNCHANGED <<session, stop, late, worker, evidence, after>> /\ worker.at = "ended"
      BY <1>7 DEF Lifecycle!Joined
    <2>2. Lifecycle!Outcome \in {"none", "cancelled", "terminal", "stopped", "failed", "candidate"}
      BY DEF Lifecycle!Outcome, LifecycleTypes
    <2>3. LifecycleTypes' /\ service'.outcome = Lifecycle!Outcome /\ service'.exited = service.exited
      BY <1>1, <2>1, <2>2 DEF LifecycleTypes
    <2>4. service.outcome # "candidate"
      BY <1>7 DEF Lifecycle!Joined, WorkerEnds
    <2>5. Lifecycle!CandidateIsEarned'
      BY <2>1, <2>3, <2>4 DEF Lifecycle!CandidateIsEarned, Lifecycle!Outcome
    <2> QED BY <1>2, <2>1, <2>3, <2>5 DEF WorkerEnds, LastStage
  <1> QED BY <1>3, <1>4, <1>5, <1>6, <1>7
          DEF Lifecycle!Cancel, Lifecycle!Stop, Lifecycle!Await, Lifecycle!Fails,
              Lifecycle!Expires, Lifecycle!Gone

LEMMA LifecycleKeeps ==
    ASSUME Lifecycle!LifecycleAssumption, LifecycleInvariant, [Lifecycle!Next]_ownerVars
    PROVE  LifecycleInvariant'
  <1>1. CASE Lifecycle!Next
    BY <1>1, WorkerSounds, WorkerStarts, WorkerFinishes, ServiceGoesOn, ThreadsGo
       DEF Lifecycle!Next, Lifecycle!Worker
  <1>2. CASE UNCHANGED ownerVars
    BY <1>2 DEF ownerVars, LifecycleInvariant, LifecycleTypes, Exclusive, WorkerEnds, LastStage,
                Lifecycle!CandidateIsEarned
  <1> QED BY <1>1, <1>2

LEMMA LifecycleSuffices ==
    Lifecycle!LifecycleAssumption /\ LifecycleInvariant => Lifecycle!LifecycleIsSound
  <1> SUFFICES ASSUME Lifecycle!LifecycleAssumption, LifecycleInvariant
               PROVE  Lifecycle!LifecycleIsSound
    OBVIOUS
  <1> USE DEF LifecycleInvariant
  <1> DEFINE Holders == {s \in Lifecycle!Session : Lifecycle!Reserved(s)}
  <1>1. \A s \in Lifecycle!Session : Lifecycle!Reserved(s) <=> Reserves(audio[s])
    BY DEF Lifecycle!Reserved, Reserves
  <1>2. Cardinality(Holders) <= 1
    <2>1. CASE Holders = {}
      BY <2>1, FS_EmptySet
    <2>2. CASE Holders # {}
      <3>1. PICK s \in Holders : TRUE
        BY <2>2
      <3>2. Holders = {s}
        BY <1>1, <3>1 DEF Exclusive
      <3> QED BY <3>2, FS_Singleton
    <2> QED BY <2>1, <2>2
  <1>3. Lifecycle!OneOwner
    BY <1>1, <1>2, SameCount DEF Lifecycle!OneOwner, Exclusive
  <1>4. Lifecycle!GraphIsGone /\ Lifecycle!StopIsHeard
    BY DEF Lifecycle!GraphIsGone, Lifecycle!StopIsHeard, WorkerEnds, LastStage
  <1>5. Lifecycle!StuckDisables
    BY DEF Lifecycle!StuckDisables, Exclusive, Reserves
  <1> QED BY <1>3, <1>4, <1>5 DEF Lifecycle!LifecycleIsSound
-----------------------------------------------------------------------------
(* The pipes into FFmpeg. *)

FeederPlaces == {"connect", "loop", "write", "done", "failed", "escaped"}
Feeder == [at : FeederPlaces, blocks : Nat, age : Nat, startup : Nat, ready : BOOLEAN]
Ffmpeg == [audio : BOOLEAN, at : {"running", "ok", "failed", "killed"}, backlog : Nat,
           ended : BOOLEAN, age : Nat]

\* The block that is being written is within the room that is left.
MuxTypes ==
    /\ due \in Nat /\ room \in Nat /\ room <= Lead + Horizon
    /\ ending \in [set : BOOLEAN, age : Nat, left : Int]
    /\ flow \in [armed : Nat \cup {-1}, moved : BOOLEAN, quiet : Nat]
    /\ video \in {"none", "idle", "writing", "failed", "closed"}
    /\ feeder \in Feeder /\ feeder.blocks <= room
    /\ mux \in Ffmpeg
    /\ muxing \in {"handshake", "recording", "encoder", "mux", "saved", "failed"}

\* What an escape has waited for has not moved in all that time.
QuietWhileArmed == flow.armed # -1 /\ ~flow.moved => flow.quiet >= flow.armed

\* There is no video before the handshake has ended.
VideoStarts == (muxing = "handshake" => video = "none") /\ Mux!VideoHasItsAudio

\* FFmpeg ends well only when the video has ended and all of it was muxed.
EndsWhole ==
    /\ mux.at = "ok" => mux.ended /\ mux.backlog = 0 /\ video = "closed"
    /\ muxing = "saved" => mux.at = "ok"

MuxInvariant == MuxTypes /\ QuietWhileArmed /\ VideoStarts /\ EndsWhole

LEMMA MuxInitially == Mux!MuxAssumption /\ Mux!Init => MuxInvariant
  <1> SUFFICES ASSUME Mux!MuxAssumption, Mux!Init PROVE MuxInvariant
    OBVIOUS
  <1>1. room \in Nat /\ room <= Lead + Horizon
    BY DEF Mux!Init, Mux!MuxAssumption
  <1>2. MuxTypes
    BY <1>1 DEF Mux!Init, MuxTypes, Feeder, FeederPlaces, Ffmpeg, Mux!NewMux, Mux!Unarmed
  <1> QED BY <1>2 DEF Mux!Init, MuxInvariant, QuietWhileArmed, VideoStarts, Mux!VideoHasItsAudio,
                      EndsWhole, Mux!NewMux, Mux!Unarmed

\* What is written fits the room.
LEMMA BlocksFit ==
    ASSUME Mux!MuxAssumption, MuxTypes, Mux!Enough
    PROVE  Mux!Blocks \in Nat /\ Mux!Blocks <= room
  <1> DEFINE n == IF ending.set THEN ending.left ELSE due
  <1>1. n \in Int /\ room \in Nat
    BY DEF MuxTypes
  <1>2. Mux!Block \in Nat
    BY DEF Mux!Block, Mux!MuxAssumption
  <1>3. Mux!Target \in Int /\ Mux!Target <= room
    BY <1>1, <1>2 DEF Mux!Target, Mux!Least
  <1>4. Mux!Blocks = Mux!Least(n, Mux!Target)
    BY DEF Mux!Blocks
  <1> HIDE DEF n
  <1>5. Mux!Blocks \in Int /\ Mux!Blocks <= room
    BY <1>1, <1>3, <1>4 DEF Mux!Least
  <1> QED BY <1>5 DEF Mux!Enough

\* The thread of the sound.
LEMMA FeederGoes ==
    ASSUME Mux!MuxAssumption, MuxInvariant, Mux!Pump \/ Mux!ReadAudio
    PROVE  MuxInvariant'
  <1> USE DEF MuxInvariant
  <1>1. UNCHANGED <<video, mux, muxing>>
    BY DEF Mux!Pump, Mux!Connect, Mux!PumpFinishes, Mux!PumpExpires, Mux!Escape, Mux!PumpTurn,
           Mux!WriteFails, Mux!ReadAudio
  <1>2. ASSUME NEW how \in FeederPlaces, Mux!PumpEnds(how), UNCHANGED room
        PROVE  feeder' \in Feeder /\ feeder'.blocks <= room' /\ room' \in Nat
               /\ room' <= Lead + Horizon /\ feeder'.ready = feeder.ready
    <2>1. feeder' \in Feeder /\ feeder'.blocks = 0 /\ feeder'.ready = feeder.ready
      BY <1>2 DEF Mux!PumpEnds, MuxTypes, Feeder
    <2> QED BY <1>2, <2>1 DEF MuxTypes
  <1>3. /\ feeder' \in Feeder /\ feeder'.blocks <= room' /\ room' \in Nat
        /\ room' <= Lead + Horizon
        /\ feeder.ready => feeder'.ready
    <2>1. CASE Mux!Connect
      <3>1. CASE feeder' = [feeder EXCEPT !.at = "loop"]
        BY <2>1, <3>1 DEF Mux!Connect, MuxTypes, Feeder, FeederPlaces
      <3>2. CASE Mux!PumpEnds("failed")
        BY <1>2, <2>1, <3>2 DEF Mux!Connect, FeederPlaces
      <3> QED BY <2>1, <3>1, <3>2 DEF Mux!Connect
    <2>2. CASE Mux!PumpFinishes \/ Mux!PumpExpires \/ Mux!Escape \/ Mux!WriteFails
      BY <1>2, <2>2 DEF Mux!PumpFinishes, Mux!PumpExpires, Mux!Escape, Mux!WriteFails, FeederPlaces
    <2>3. CASE Mux!PumpTurn
      <3>1. CASE Mux!Enough
        <4>1. feeder' = [feeder EXCEPT !.at = "write", !.blocks = Mux!Blocks, !.age = 0]
              /\ UNCHANGED room
          BY <2>3, <3>1 DEF Mux!PumpTurn
        <4>2. Mux!Blocks \in Nat /\ Mux!Blocks <= room
          BY <3>1, BlocksFit
        <4> QED BY <4>1, <4>2 DEF MuxTypes, Feeder, FeederPlaces
      <3>2. CASE ~Mux!Enough
        BY <2>3, <3>2 DEF Mux!PumpTurn, MuxTypes
      <3> QED BY <3>1, <3>2
    <2>4. CASE Mux!ReadAudio
      <3>1. feeder' = [feeder EXCEPT !.at = "loop", !.blocks = 0, !.ready = TRUE]
            /\ room' = room - feeder.blocks
        BY <2>4 DEF Mux!ReadAudio
      <3>2. feeder' \in Feeder /\ feeder'.blocks = 0 /\ feeder'.ready
        BY <3>1 DEF MuxTypes, Feeder, FeederPlaces
      <3>3. feeder.blocks \in Nat
        BY DEF MuxTypes, Feeder
      <3>4. Lead + Horizon \in Int
        BY DEF Mux!MuxAssumption
      <3> QED BY <3>1, <3>2, <3>3, <3>4 DEF MuxTypes
    <2> QED BY <2>1, <2>2, <2>3, <2>4 DEF Mux!Pump
  <1>4. due' \in Nat /\ ending' \in [set : BOOLEAN, age : Nat, left : Int] /\ (ending.set => ending'.set)
    <2>1. CASE Mux!ReadAudio
      <3>1. feeder.blocks \in Nat /\ due \in Nat
        BY DEF MuxTypes, Feeder
      <3>2. due' \in Nat
        BY <2>1, <3>1 DEF Mux!ReadAudio
      <3>3. ending.left - feeder.blocks \in Int
        BY <3>1 DEF MuxTypes
      <3> QED BY <2>1, <3>2, <3>3 DEF Mux!ReadAudio, MuxTypes
    <2>2. CASE Mux!Pump
      BY <2>2 DEF Mux!Pump, Mux!Connect, Mux!PumpFinishes, Mux!PumpExpires, Mux!Escape, Mux!PumpTurn,
                  Mux!WriteFails, MuxTypes
    <2> QED BY <2>1, <2>2
  <1>5. flow' \in [armed : Nat \cup {-1}, moved : BOOLEAN, quiet : Nat] /\ QuietWhileArmed'
    <2>1. CASE UNCHANGED flow
      BY <2>1 DEF MuxTypes, QuietWhileArmed
    <2>2. CASE flow' = [flow EXCEPT !.armed = -1]
      BY <2>2 DEF MuxTypes, QuietWhileArmed
    <2>3. CASE flow' = [flow EXCEPT !.armed = 0, !.moved = FALSE]
      <3>1. flow' \in [armed : Nat \cup {-1}, moved : BOOLEAN, quiet : Nat] /\ flow'.armed = 0
            /\ flow'.quiet \in Nat
        BY <2>3 DEF MuxTypes
      <3> QED BY <3>1 DEF QuietWhileArmed
    <2>4. CASE flow' = Mux!Armed
      BY <2>1, <2>2, <2>3, <2>4 DEF Mux!Armed, Mux!Unarmed
    <2> QED BY <2>1, <2>4
            DEF Mux!Pump, Mux!Connect, Mux!PumpFinishes, Mux!PumpExpires, Mux!Escape, Mux!PumpTurn,
                Mux!WriteFails, Mux!ReadAudio
  <1>6. MuxTypes'
    BY <1>1, <1>3, <1>4, <1>5 DEF MuxTypes
  <1>7. VideoStarts' /\ EndsWhole'
    BY <1>1, <1>3, <1>4 DEF VideoStarts, Mux!VideoHasItsAudio, EndsWhole
  <1> QED BY <1>5, <1>6, <1>7

\* The writer of the video, and FFmpeg.
LEMMA VideoGoes ==
    ASSUME Mux!MuxAssumption, MuxInvariant,
           \/ Mux!BeginWrite \/ Mux!ReadVideo \/ Mux!VideoFails
           \/ Mux!Report \/ Mux!Exit \/ Mux!Dies
    PROVE  MuxInvariant'
  <1> USE DEF MuxInvariant
  <1>1. UNCHANGED <<due, ending, feeder, muxing>>
    BY DEF Mux!BeginWrite, Mux!ReadVideo, Mux!VideoFails, Mux!Report, Mux!Exit, Mux!Dies
  <1>2. room' \in Nat /\ room' <= Lead + Horizon /\ feeder'.blocks <= room'
    <2>1. CASE UNCHANGED room
      BY <1>1, <2>1 DEF MuxTypes
    <2>2. CASE room' = Mux!Least(room + 1, Lead + Horizon)
      <3>1. feeder.blocks \in Nat
        BY DEF MuxTypes, Feeder
      <3>2. Lead + Horizon \in Nat
        BY DEF Mux!MuxAssumption
      <3> QED BY <1>1, <2>2, <3>1, <3>2 DEF MuxTypes, Mux!Least
    <2> QED BY <2>1, <2>2
            DEF Mux!BeginWrite, Mux!ReadVideo, Mux!VideoFails, Mux!Report, Mux!Exit, Mux!Dies
  <1>3. flow' \in [armed : Nat \cup {-1}, moved : BOOLEAN, quiet : Nat] /\ QuietWhileArmed'
    <2>1. CASE UNCHANGED flow
      BY <2>1 DEF MuxTypes, QuietWhileArmed
    <2>2. CASE Mux!Moves
      BY <2>2 DEF Mux!Moves, MuxTypes, QuietWhileArmed
    <2> QED BY <2>1, <2>2
            DEF Mux!BeginWrite, Mux!ReadVideo, Mux!VideoFails, Mux!Report, Mux!Exit, Mux!Dies
  <1>4. mux' \in Ffmpeg /\ mux'.audio = mux.audio
    <2>1. CASE Mux!ReadVideo
      <3>1. mux.backlog + 1 \in Nat
        BY DEF MuxTypes, Ffmpeg
      <3> QED BY <2>1, <3>1 DEF Mux!ReadVideo, MuxTypes, Ffmpeg
    <2>2. CASE Mux!Report
      <3>1. mux.backlog - 1 \in Nat
        BY <2>2 DEF Mux!Report, MuxTypes, Ffmpeg
      <3> QED BY <2>2, <3>1 DEF Mux!Report, MuxTypes, Ffmpeg
    <2>3. CASE Mux!BeginWrite \/ Mux!VideoFails
      BY <2>3 DEF Mux!BeginWrite, Mux!VideoFails, MuxTypes
    <2>4. CASE Mux!Exit \/ Mux!Dies
      BY <2>4 DEF Mux!Exit, Mux!Dies, MuxTypes, Ffmpeg
    <2> QED BY <2>1, <2>2, <2>3, <2>4
  <1>5. /\ video' \in {"none", "idle", "writing", "failed", "closed"}
        /\ video' = "none" <=> video = "none"
        /\ video = "closed" => video' = "closed"
    BY DEF Mux!BeginWrite, Mux!ReadVideo, Mux!VideoFails, Mux!Report, Mux!Exit, Mux!Dies, MuxTypes
  <1>6. MuxTypes'
    BY <1>1, <1>2, <1>3, <1>4, <1>5 DEF MuxTypes
  <1>7. VideoStarts'
    BY <1>1, <1>4, <1>5 DEF VideoStarts, Mux!VideoHasItsAudio
  <1>8. EndsWhole'
    <2>1. CASE Mux!Exit
      BY <1>1, <2>1 DEF Mux!Exit, EndsWhole, MuxTypes, Ffmpeg
    <2>2. CASE Mux!BeginWrite \/ Mux!ReadVideo \/ Mux!Report \/ Mux!Dies
      <3>1. mux.at # "ok" /\ mux'.at # "ok"
        BY <2>2 DEF Mux!BeginWrite, Mux!ReadVideo, Mux!Report, Mux!Dies, MuxTypes, Ffmpeg
      <3> QED BY <1>1, <3>1 DEF EndsWhole
    <2>3. CASE Mux!VideoFails
      BY <1>1, <2>3 DEF Mux!VideoFails, EndsWhole
    <2> QED BY <2>1, <2>2, <2>3
  <1> QED BY <1>3, <1>6, <1>7, <1>8

\* The session.
LEMMA SessionGoes ==
    ASSUME Mux!MuxAssumption, MuxInvariant, Mux!Session \/ Mux!Finish
    PROVE  MuxInvariant'
  <1> USE DEF MuxInvariant
  <1>1. UNCHANGED <<due, room, flow, feeder>>
    BY DEF Mux!Session, Mux!Ready, Mux!TryAgain, Mux!Finish, Mux!EncoderEnds, Mux!MuxExits, Mux!Kill
  <1>2. ASSUME NEW left \in Int, Mux!StopsAudio(left)
        PROVE  ending' \in [set : BOOLEAN, age : Nat, left : Int] /\ ending'.set
    BY <1>2 DEF Mux!StopsAudio, MuxTypes
  <1>3. CASE Mux!Ready
    <2>1. MuxTypes'
      BY <1>1, <1>3 DEF Mux!Ready, MuxTypes
    <2>2. VideoStarts'
      BY <1>3 DEF Mux!Ready, VideoStarts, Mux!VideoHasItsAudio
    <2>3. EndsWhole'
      BY <1>3 DEF Mux!Ready, EndsWhole, VideoStarts
    <2> QED BY <1>1, <2>1, <2>2, <2>3 DEF QuietWhileArmed
  <1>4. CASE Mux!TryAgain
    <2>1. ending' \in [set : BOOLEAN, age : Nat, left : Int] /\ ending'.set
      BY <1>2, <1>4 DEF Mux!TryAgain
    <2>2. CASE mux' = Mux!NewMux(FALSE) /\ muxing' = "recording" /\ video' = "idle"
      <3>1. mux' \in Ffmpeg /\ ~mux'.audio /\ mux'.at = "running"
        BY <2>2 DEF Mux!NewMux, Ffmpeg
      <3>2. MuxTypes'
        BY <1>1, <2>1, <2>2, <3>1 DEF MuxTypes
      <3> QED BY <1>1, <2>1, <2>2, <3>1, <3>2
              DEF QuietWhileArmed, VideoStarts, Mux!VideoHasItsAudio, EndsWhole
    <2>3. CASE mux' = [mux EXCEPT !.at = "killed"] /\ muxing' = "failed" /\ UNCHANGED video
      <3>1. mux' \in Ffmpeg /\ mux'.at = "killed"
        BY <2>3 DEF MuxTypes, Ffmpeg
      <3>2. video = "none"
        BY <1>4 DEF Mux!TryAgain, VideoStarts
      <3>3. MuxTypes'
        BY <1>1, <2>1, <2>3, <3>1 DEF MuxTypes
      <3> QED BY <1>1, <2>3, <3>1, <3>2, <3>3
              DEF QuietWhileArmed, VideoStarts, Mux!VideoHasItsAudio, EndsWhole
    <2> QED BY <1>4, <2>2, <2>3 DEF Mux!TryAgain
  <1>5. CASE Mux!Finish
    <2>1. ending' \in [set : BOOLEAN, age : Nat, left : Int] /\ ending'.set
      <3>1. PICK left \in -1 .. Horizon : Mux!StopsAudio(left)
        BY <1>5 DEF Mux!Finish
      <3> QED BY <1>2, <3>1
    <2>2. MuxTypes'
      BY <1>1, <1>5, <2>1 DEF Mux!Finish, MuxTypes
    <2> QED BY <1>1, <1>5, <2>1, <2>2
            DEF Mux!Finish, QuietWhileArmed, VideoStarts, Mux!VideoHasItsAudio, EndsWhole
  <1>6. CASE Mux!EncoderEnds
    <2>1. mux' \in Ffmpeg /\ mux'.audio = mux.audio /\ mux'.at = mux.at /\ mux'.ended = mux.ended
          /\ mux'.backlog = mux.backlog
      BY <1>6 DEF Mux!EncoderEnds, MuxTypes, Ffmpeg
    <2>2. MuxTypes'
      BY <1>1, <1>6, <2>1 DEF Mux!EncoderEnds, MuxTypes
    <2>3. VideoStarts'
      BY <1>1, <1>6, <2>1 DEF Mux!EncoderEnds, VideoStarts, Mux!VideoHasItsAudio
    <2>4. EndsWhole'
      BY <1>6, <2>1 DEF Mux!EncoderEnds, EndsWhole
    <2> QED BY <1>1, <2>2, <2>3, <2>4 DEF QuietWhileArmed
  <1>7. CASE Mux!MuxExits
    <2>1. MuxTypes'
      BY <1>1, <1>7 DEF Mux!MuxExits, MuxTypes
    <2>2. VideoStarts' /\ EndsWhole'
      BY <1>1, <1>7 DEF Mux!MuxExits, VideoStarts, Mux!VideoHasItsAudio, EndsWhole
    <2> QED BY <1>1, <2>1, <2>2 DEF QuietWhileArmed
  <1>8. CASE Mux!Kill
    <2>1. mux' \in Ffmpeg /\ mux'.audio = mux.audio /\ mux'.at = "killed"
      BY <1>8 DEF Mux!Kill, MuxTypes, Ffmpeg
    <2>2. MuxTypes'
      BY <1>1, <1>8, <2>1 DEF Mux!Kill, MuxTypes
    <2> QED BY <1>1, <1>8, <2>1, <2>2
            DEF Mux!Kill, QuietWhileArmed, VideoStarts, Mux!VideoHasItsAudio, EndsWhole
  <1> QED BY <1>3, <1>4, <1>5, <1>6, <1>7, <1>8 DEF Mux!Session

\* Time passes.
LEMMA TimePassesForTheMux ==
    ASSUME Mux!MuxAssumption, MuxInvariant, Mux!Tick
    PROVE  MuxInvariant'
  <1> USE DEF MuxInvariant
  <1>1. ASSUME NEW n \in Nat, NEW most \in Nat
        PROVE  Mux!Aged(n, most) \in Nat
    BY <1>1 DEF Mux!Aged, Mux!Least
  <1>2. UNCHANGED <<room, video, muxing>>
    BY DEF Mux!Tick
  <1>3. due' \in Nat
    BY DEF Mux!Tick, Mux!Least, MuxTypes, Mux!MuxAssumption
  <1>4. ending' \in [set : BOOLEAN, age : Nat, left : Int] /\ ending'.set = ending.set
    <2>1. Mux!Aged(ending.age, StopWait) \in Nat
      BY <1>1 DEF MuxTypes, Mux!MuxAssumption
    <2> QED BY <2>1 DEF Mux!Tick, MuxTypes
  <1>5. flow' \in [armed : Nat \cup {-1}, moved : BOOLEAN, quiet : Nat] /\ QuietWhileArmed'
    <2>1. Mux!Aged(flow.quiet, Second) \in Nat
      BY <1>1 DEF MuxTypes, Mux!MuxAssumption
    <2>2. flow.armed # -1 => flow.armed \in Nat /\ Mux!Aged(flow.armed, Second) \in Nat
      BY <1>1 DEF MuxTypes, Mux!MuxAssumption
    <2>3. /\ flow'.armed = IF flow.armed = -1 THEN flow.armed ELSE Mux!Aged(flow.armed, Second)
          /\ flow'.quiet = Mux!Aged(flow.quiet, Second) /\ flow'.moved = flow.moved
          /\ flow' \in [armed : Nat \cup {-1}, moved : BOOLEAN, quiet : Nat]
      BY <2>1, <2>2 DEF Mux!Tick, MuxTypes, Mux!Unarmed
    <2>4. ASSUME NEW a \in Nat, NEW q \in Nat, q >= a
          PROVE  Mux!Aged(q, Second) >= Mux!Aged(a, Second)
      BY <2>4 DEF Mux!Aged, Mux!Least, Mux!MuxAssumption
    <2>5. flow.quiet \in Nat
      BY DEF MuxTypes
    <2> QED BY <2>2, <2>3, <2>4, <2>5, <1>1 DEF QuietWhileArmed
  <1>6. feeder' \in Feeder /\ feeder'.blocks = feeder.blocks /\ feeder'.ready = feeder.ready
    <2>1. Mux!Aged(feeder.age, Second) \in Nat /\ Mux!Aged(feeder.startup, StartupWait) \in Nat
      BY <1>1 DEF MuxTypes, Feeder, Mux!MuxAssumption
    <2> QED BY <2>1 DEF Mux!Tick, MuxTypes, Feeder
  <1>7. /\ mux' \in Ffmpeg /\ mux'.audio = mux.audio /\ mux'.at = mux.at
        /\ mux'.ended = mux.ended /\ mux'.backlog = mux.backlog
    <2>1. Mux!Aged(mux.age, MuxWait) \in Nat
      BY <1>1 DEF MuxTypes, Ffmpeg, Mux!MuxAssumption
    <2> QED BY <2>1 DEF Mux!Tick, MuxTypes, Ffmpeg
  <1>8. MuxTypes'
    BY <1>2, <1>3, <1>4, <1>5, <1>6, <1>7 DEF MuxTypes
  <1>9. VideoStarts' /\ EndsWhole'
    BY <1>2, <1>4, <1>6, <1>7 DEF VideoStarts, Mux!VideoHasItsAudio, EndsWhole
  <1> QED BY <1>5, <1>8, <1>9

LEMMA MuxKeeps ==
    ASSUME Mux!MuxAssumption, MuxInvariant, [Mux!Next]_muxVars
    PROVE  MuxInvariant'
  <1>1. CASE Mux!Next
    BY <1>1, FeederGoes, VideoGoes, SessionGoes, TimePassesForTheMux DEF Mux!Next
  <1>2. CASE UNCHANGED muxVars
    BY <1>2 DEF muxVars, MuxInvariant, MuxTypes, QuietWhileArmed, VideoStarts,
                Mux!VideoHasItsAudio, EndsWhole
  <1> QED BY <1>1, <1>2

LEMMA MuxSuffices == Mux!MuxAssumption /\ MuxInvariant => Mux!MuxIsSound
  <1> SUFFICES ASSUME Mux!MuxAssumption, MuxInvariant PROVE Mux!MuxIsSound
    OBVIOUS
  <1>1. Mux!LeadIsBounded
    BY DEF MuxInvariant, MuxTypes, Feeder, Mux!LeadIsBounded
  <1>2. Mux!SavedIsWhole
    BY DEF MuxInvariant, EndsWhole, Mux!SavedIsWhole
  <1> QED BY <1>1, <1>2 DEF MuxInvariant, VideoStarts, Mux!MuxIsSound

\* Only the escape escapes, and then the video has stood still for as long.
LEMMA EscapesWhenStalled ==
    ASSUME Mux!MuxAssumption, MuxInvariant, Mux!Next,
           feeder.at # "escaped", feeder'.at = "escaped"
    PROVE  video = "writing" /\ flow.quiet >= Second
  <1> USE DEF MuxInvariant
  <1>1. CASE Mux!Escape
    BY <1>1 DEF Mux!Escape, Mux!Stalled, Mux!Qualifies, QuietWhileArmed, MuxTypes, Mux!MuxAssumption
  <1>2. ASSUME NEW how \in {"done", "failed"}, Mux!PumpEnds(how)
        PROVE  FALSE
    BY <1>2 DEF Mux!PumpEnds, MuxTypes, Feeder
  <1>3. CASE Mux!Pump \/ Mux!ReadAudio \/ Mux!Tick
    BY <1>1, <1>2, <1>3
       DEF Mux!Pump, Mux!Connect, Mux!PumpFinishes, Mux!PumpExpires, Mux!PumpTurn, Mux!WriteFails,
           Mux!ReadAudio, Mux!Tick, MuxTypes, Feeder
  <1>4. CASE ~(Mux!Pump \/ Mux!ReadAudio \/ Mux!Tick)
    BY <1>4 DEF Mux!Next, Mux!BeginWrite, Mux!ReadVideo, Mux!VideoFails, Mux!Report, Mux!Exit,
                Mux!Dies, Mux!Session, Mux!Ready, Mux!TryAgain, Mux!Finish, Mux!EncoderEnds,
                Mux!MuxExits, Mux!Kill
  <1> QED BY <1>3, <1>4
-----------------------------------------------------------------------------
(* The watch over the window and the progress of a capture. *)

Sinks == {"encoded", "muxed"}
Look == [at : Nat, window : Watch!Shown]
Readiness == [previous : Watch!Shown, at : Nat, first : Nat, count : Nat]
WatchTypes ==
    /\ phase \in {"sleep", "resolve", "admitted", "watch", "failed", "clean", "ended"}
    /\ now \in Nat /\ window \in Watch!Shown /\ cancelled \in BOOLEAN
    /\ readiness \in Readiness /\ target \in Watch!Shown
    /\ looks \subseteq Look
    /\ watched \in [fresh : SUBSET Watch!Kinds, regenerated : BOOLEAN, detached : BOOLEAN]
    /\ watch \in [waiting : BOOLEAN, observed : Nat, confirm : Int,
                  advanced : [Watch!Kinds -> Nat]]
    /\ verdict \in {"none", "error", "stalled", "recover"}
    /\ progress \in [Sinks -> Nat] /\ gapAt \in Nat

\* What has been sampled: the same window in every sample since the first, none of them
\* long after the other.
Steady ==
    /\ readiness.first <= readiness.at
    /\ \E s \in looks : s.at = readiness.at
    /\ \E s \in looks : s.at = readiness.first
    /\ \A s \in looks : s.at <= readiness.at /\ (s.at >= readiness.first => s.window = readiness.previous)
    /\ \A t \in readiness.first .. readiness.at - 1 : \E s \in looks : s.at - t \in 1 .. MaxGap
SampledEnough == readiness.count >= 2 /\ readiness.at - readiness.first >= Cadence
Sampled ==
    /\ \A s \in looks : s.at <= now
    /\ readiness.previous # "none" => Steady
    /\ phase \in {"resolve", "admitted"} => SampledEnough /\ readiness.previous # "none"
    /\ phase = "admitted" => ~cancelled /\ Watch!Accepted

\* What the watchdog knows of the encoder and of the file, as long as it watches.
Known(k) ==
    /\ gapAt <= watch.advanced[k] /\ watch.advanced[k] <= watch.observed /\ progress[k] <= now
    /\ k \in watched.fresh => progress[k] >= watch.observed
    /\ k \notin watched.fresh =>
        /\ progress[k] <= watch.advanced[k]
        /\ watch.advanced[k] > watch.confirm =>
            watch.advanced[k] - progress[k] <= Stall /\ progress[k] >= gapAt
Watched ==
    /\ gapAt <= watch.observed /\ watch.observed <= now
    /\ watch.confirm >= -1 /\ watch.confirm <= watch.observed
    /\ \A k \in Sinks : Known(k)
Unwatched ==
    watched = Watch!NewCapture /\ watch = Watch!NewWatch /\ progress = [k \in Sinks |-> 0] /\ gapAt = 0

WatchInvariant ==
    /\ WatchTypes /\ Sampled
    /\ phase = "watch" => Watched
    /\ phase \in {"sleep", "resolve", "admitted"} => Unwatched
    /\ Watch!StallIsWatched /\ Watch!CleanStopIsLive

LEMMA WatchInitially == Watch!WatchAssumption /\ Watch!Init => WatchInvariant
  <1> SUFFICES ASSUME Watch!WatchAssumption, Watch!Init PROVE WatchInvariant
    OBVIOUS
  <1>1. readiness \in Readiness /\ readiness.previous = "none"
    BY DEF Watch!Init, Watch!NoReadiness, Readiness, Watch!Shown
  <1>2. WatchTypes
    <2>1. watched \in [fresh : SUBSET Watch!Kinds, regenerated : BOOLEAN, detached : BOOLEAN]
      BY DEF Watch!Init, Watch!NewCapture
    <2>2. watch \in [waiting : BOOLEAN, observed : Nat, confirm : Int, advanced : [Watch!Kinds -> Nat]]
      BY DEF Watch!Init, Watch!NewWatch, Watch!Never
    <2>3. progress \in [Sinks -> Nat] /\ gapAt \in Nat /\ now \in Nat
      BY DEF Watch!Init, Sinks
    <2> QED BY <1>1, <2>1, <2>2, <2>3 DEF Watch!Init, WatchTypes, Watch!Shown
  <1>3. Sampled
    BY <1>1 DEF Watch!Init, Sampled
  <1> QED BY <1>2, <1>3 DEF Watch!Init, WatchInvariant, Unwatched, Sinks, Watch!StallIsWatched,
                            Watch!CleanStopIsLive

\* Before the capture: nobody watches yet.
LEMMA StillUnwatched ==
    ASSUME WatchInvariant, phase \in {"sleep", "resolve", "admitted"},
           UNCHANGED Watch!watching, phase' \in {"sleep", "resolve", "admitted", "ended"}
    PROVE  /\ phase' = "watch" => Watched'
           /\ phase' \in {"sleep", "resolve", "admitted"} => Unwatched'
           /\ Watch!StallIsWatched' /\ Watch!CleanStopIsLive'
  BY DEF WatchInvariant, Unwatched, Watch!watching, Watch!StallIsWatched, Watch!CleanStopIsLive

\* The world before the capture.
LEMMA WindowGoes ==
    ASSUME Watch!WatchAssumption, WatchInvariant,
           \/ Watch!WindowChanges \/ Watch!Cancel \/ Watch!GiveUp \/ Watch!Resolve
           \/ Watch!Admit
    PROVE  WatchInvariant'
  <1> USE DEF WatchInvariant
  <1>1. phase \in {"sleep", "resolve"} /\ UNCHANGED <<now, looks>> /\ UNCHANGED Watch!watching
    BY DEF Watch!WindowChanges, Watch!Cancel, Watch!GiveUp, Watch!Resolve, Watch!Admit,
           Watch!admission
  <1>2. phase' \in {"sleep", "resolve", "admitted", "ended"}
    BY <1>1 DEF Watch!WindowChanges, Watch!Cancel, Watch!GiveUp, Watch!Resolve, Watch!Admit,
           Watch!admission
  <1>3. /\ phase' = "watch" => Watched'
        /\ phase' \in {"sleep", "resolve", "admitted"} => Unwatched'
        /\ Watch!StallIsWatched' /\ Watch!CleanStopIsLive'
    BY <1>1, <1>2, StillUnwatched
  <1>4. readiness' = readiness \/ (readiness' = Watch!NoReadiness /\ phase' = "sleep")
    BY DEF Watch!WindowChanges, Watch!Cancel, Watch!GiveUp, Watch!Resolve, Watch!Admit,
           Watch!admission
  <1>5. Watch!NoReadiness \in Readiness /\ Watch!NoReadiness.previous = "none"
    BY DEF Watch!NoReadiness, Readiness, Watch!Shown
  <1>6. WatchTypes'
    <2>1. window' \in Watch!Shown /\ target' \in Watch!Shown /\ cancelled' \in BOOLEAN
      BY DEF Watch!WindowChanges, Watch!Cancel, Watch!GiveUp, Watch!Resolve, Watch!Admit,
             Watch!admission, WatchTypes, Watch!Shown
    <2>2. readiness' \in Readiness
      BY <1>4, <1>5 DEF WatchTypes
    <2> QED BY <1>1, <1>2, <2>1, <2>2 DEF WatchTypes, Watch!watching
  <1>7. Sampled'
    <2>1. \A s \in looks' : s.at <= now'
      BY <1>1 DEF Sampled
    <2>2. readiness'.previous # "none" => Steady'
      BY <1>1, <1>4, <1>5 DEF Sampled, Steady
    <2>3. phase' \in {"resolve", "admitted"} => SampledEnough' /\ readiness'.previous # "none"
      <3>1. phase' \in {"resolve", "admitted"} => phase = "resolve" /\ readiness' = readiness
        BY DEF Watch!WindowChanges, Watch!Cancel, Watch!GiveUp, Watch!Resolve, Watch!Admit,
               Watch!admission
      <3> QED BY <3>1 DEF Sampled, SampledEnough
    <2>4. phase' = "admitted" => ~cancelled' /\ Watch!Accepted'
      BY <1>1 DEF Watch!WindowChanges, Watch!Cancel, Watch!GiveUp, Watch!Resolve, Watch!Admit,
                  Watch!admission, Watch!Accepted
    <2> QED BY <2>1, <2>2, <2>3, <2>4 DEF Sampled
  <1> QED BY <1>3, <1>6, <1>7

\* A sample is later than those before it, and goes on with them or begins anew.
LEMMA SampleTaken ==
    ASSUME Watch!WatchAssumption, WatchInvariant, Watch!Sample
    PROVE  WatchInvariant'
  <1> USE DEF WatchInvariant
  <1>1. /\ phase = "sleep" /\ UNCHANGED <<now, window, cancelled, target>>
        /\ UNCHANGED Watch!watching /\ phase' \in {"sleep", "resolve"}
        /\ readiness' = Watch!Observed /\ looks' = looks \cup {[at |-> now, window |-> window]}
        /\ phase' = "resolve" => SampledEnough'
    BY DEF Watch!Sample, Watch!IsReady, SampledEnough
  <1>2. /\ phase' = "watch" => Watched'
        /\ phase' \in {"sleep", "resolve", "admitted"} => Unwatched'
        /\ Watch!StallIsWatched' /\ Watch!CleanStopIsLive'
    BY <1>1, StillUnwatched
  <1>3. now \in Nat /\ window \in Watch!Shown /\ Cadence \in Nat /\ Cadence > 0 /\ MaxGap \in Int
    BY DEF WatchTypes, Watch!WatchAssumption
  <1>4. \A s \in looks : s.at \in Nat /\ s.at < now
    <2>1. ASSUME NEW s \in looks PROVE s.at \in Nat /\ s.at < now
      <3>1. s.at \in Nat
        BY DEF WatchTypes, Look
      <3>2. now - s.at >= Cadence
        BY DEF Watch!Sample
      <3> QED BY <1>3, <3>1, <3>2
    <2> QED BY <2>1
  <1>5. \A s \in looks' : s \in looks \/ (s.at = now /\ s.window = window)
    BY <1>1
  <1>6. [at |-> now, window |-> window] \in looks'
    BY <1>1
  <1>7. CASE readiness' = Watch!NoReadiness
    <2>1. readiness' \in Readiness /\ readiness'.previous = "none" /\ readiness'.count = 0
      BY <1>7 DEF Watch!NoReadiness, Readiness, Watch!Shown
    <2>2. ~SampledEnough'
      BY <2>1 DEF SampledEnough
    <2>3. WatchTypes'
      BY <1>1, <1>3, <2>1 DEF WatchTypes, Look, Watch!watching
    <2>4. Sampled'
      <3>1. \A s \in looks' : s.at <= now
        BY <1>3, <1>4, <1>5
      <3> QED BY <1>1, <2>1, <2>2, <3>1 DEF Sampled
    <2> QED BY <1>2, <2>3, <2>4
  <1>8. CASE readiness' = Watch!Restarted /\ window # "none"
    <2>1. readiness' \in Readiness /\ readiness'.previous = window /\ readiness'.at = now
          /\ readiness'.first = now /\ readiness'.count = 1
      BY <1>3, <1>8 DEF Watch!Restarted, Readiness
    <2>2. ~SampledEnough'
      BY <2>1 DEF SampledEnough
    <2>3. WatchTypes'
      BY <1>1, <1>3, <2>1 DEF WatchTypes, Look, Watch!watching
    <2>4. \A s \in looks' : s.at <= now /\ (s.at >= now => s.window = window)
      BY <1>3, <1>4, <1>5
    <2>5. Steady'
      <3>1. \A t \in now .. now - 1 : \E s \in looks' : s.at - t \in 1 .. MaxGap
        BY <1>3
      <3> QED BY <1>3, <1>6, <1>8, <2>1, <2>4, <3>1 DEF Steady
    <2>6. Sampled'
      BY <1>1, <2>2, <2>4, <2>5 DEF Sampled
    <2> QED BY <1>2, <2>3, <2>6
  <1>9. CASE /\ window # "none" /\ readiness.previous = window
             /\ now - readiness.at \in 1 .. MaxGap
             /\ readiness' = [readiness EXCEPT !.at = now, !.count = readiness.count + 1]
    <2> DEFINE r == readiness
    <2>1. r \in Readiness
      BY DEF WatchTypes
    <2>2. r.at \in Nat /\ r.first \in Nat /\ r.count \in Nat /\ r.previous = window
      BY <1>9, <2>1 DEF Readiness
    <2>3. readiness' \in Readiness /\ readiness'.previous = window /\ readiness'.at = now
          /\ readiness'.first = r.first
      <3>1. r.count + 1 \in Nat
        BY <2>2
      <3>2. readiness' = [r EXCEPT !.at = now, !.count = r.count + 1]
        BY <1>9
      <3> HIDE DEF r
      <3> QED BY <1>3, <2>1, <2>2, <3>1, <3>2 DEF Readiness
    <2>4. Steady
      BY <1>9 DEF Sampled
    <2>5. WatchTypes'
      BY <1>1, <1>3, <2>3 DEF WatchTypes, Look, Watch!watching
    <2>6. \A s \in looks' : s.at <= now /\ (s.at >= r.first => s.window = window)
      BY <1>3, <1>4, <1>5, <2>2, <2>4 DEF Steady
    <2>7. r.first <= now
      <3>1. r.first <= r.at /\ now - r.at >= 1
        BY <1>9, <2>4, <1>3, <2>2 DEF Steady
      <3> QED BY <1>3, <2>2, <3>1
    <2>8. ASSUME NEW t \in r.first .. now - 1
          PROVE  \E s \in looks' : s.at - t \in 1 .. MaxGap
      <3>1. CASE t <= r.at - 1
        <4>1. t \in r.first .. r.at - 1
          BY <2>2, <3>1
        <4>2. PICK s \in looks : s.at - t \in 1 .. MaxGap
          BY <2>4, <4>1 DEF Steady
        <4> QED BY <1>1, <4>2
      <3>2. CASE t >= r.at
        <4>1. now - t \in 1 .. MaxGap
          BY <1>3, <1>9, <2>2, <3>2
        <4> QED BY <1>6, <4>1
      <3> QED BY <2>2, <3>1, <3>2
    <2>9. Steady'
      <3>1. (\E s \in looks' : s.at = now) /\ (\E s \in looks' : s.at = r.first)
        BY <1>1, <1>6, <2>4 DEF Steady
      <3> QED BY <1>9, <2>3, <2>6, <2>7, <2>8, <3>1 DEF Steady
    <2>10. Sampled'
      BY <1>1, <1>9, <2>3, <2>6, <2>9 DEF Sampled
    <2> QED BY <1>2, <2>5, <2>10
  <1> QED BY <1>1, <1>7, <1>8, <1>9 DEF Watch!Observed

\* The clock, and the start of the capture.
LEMMA ClockGoes ==
    ASSUME Watch!WatchAssumption, WatchInvariant, Watch!Tick \/ Watch!Start
    PROVE  WatchInvariant'
  <1> USE DEF WatchInvariant
  <1>1. CASE Watch!Start
    <2>1. /\ phase = "admitted" /\ phase' = "watch" /\ now' = 0 /\ looks' = {}
          /\ readiness' = Watch!NoReadiness /\ target' = "none" /\ window' = "none"
          /\ UNCHANGED cancelled /\ UNCHANGED Watch!watching
      BY <1>1 DEF Watch!Start
    <2>2. readiness' \in Readiness /\ readiness'.previous = "none"
      BY <2>1 DEF Watch!NoReadiness, Readiness, Watch!Shown
    <2>3. WatchTypes'
      BY <2>1, <2>2 DEF WatchTypes, Watch!watching, Watch!Shown
    <2>4. Sampled'
      BY <2>1, <2>2 DEF Sampled
    <2>5. Unwatched'
      BY <2>1 DEF Unwatched, Watch!watching
    <2>6. Watched'
      <3>1. /\ gapAt' = 0 /\ watch'.observed = 0 /\ watch'.confirm = -1 /\ watched'.fresh = {}
            /\ \A k \in Sinks : watch'.advanced[k] = 0 /\ progress'[k] = 0
        BY <2>5 DEF Unwatched, Watch!NewWatch, Watch!NewCapture, Watch!Never, Sinks, Watch!Kinds
      <3>2. Stall \in Nat
        BY DEF Watch!WatchAssumption
      <3> QED BY <2>1, <3>1, <3>2 DEF Watched, Known
    <2> QED BY <2>1, <2>3, <2>4, <2>6 DEF Watch!StallIsWatched, Watch!CleanStopIsLive
  <1>2. CASE Watch!Tick
    <2>1. /\ phase \in {"sleep", "resolve", "watch"} /\ now' = now + 1 /\ UNCHANGED phase
          /\ UNCHANGED Watch!admission /\ UNCHANGED Watch!watching
      BY <1>2 DEF Watch!Tick
    <2>2. WatchTypes'
      BY <2>1 DEF WatchTypes, Watch!watching, Watch!admission
    <2>3. Sampled'
      <3>1. \A s \in looks : s.at <= now + 1
        BY DEF Sampled, WatchTypes, Look
      <3> QED BY <2>1, <3>1 DEF Sampled, Steady, SampledEnough, Watch!admission
    <2>4. phase = "watch" => Watched'
      <3>1. ASSUME phase = "watch", NEW k \in Sinks PROVE Known(k)'
        <4>1. progress[k] \in Nat /\ now \in Nat
          BY DEF WatchTypes
        <4> QED BY <2>1, <3>1, <4>1 DEF Watched, Known, Watch!watching
      <3>2. watch.observed \in Nat
        BY DEF WatchTypes
      <3> QED BY <2>1, <3>1, <3>2 DEF Watched, Watch!watching, WatchTypes
    <2>5. phase \in {"sleep", "resolve"} => Unwatched'
      BY <2>1 DEF Unwatched, Watch!watching
    <2> QED BY <2>1, <2>2, <2>3, <2>4, <2>5 DEF Watch!StallIsWatched, Watch!CleanStopIsLive
  <1> QED BY <1>1, <1>2

\* What happens to the capture while it is watched.
LEMMA CaptureGoesOn ==
    ASSUME Watch!WatchAssumption, WatchInvariant,
           (\E k \in Watch!Kinds : Watch!Progress(k)) \/ Watch!Detach
    PROVE  WatchInvariant'
  <1> USE DEF WatchInvariant
  <1>1. /\ phase = "watch" /\ UNCHANGED <<phase, now, watch, verdict, gapAt>>
        /\ UNCHANGED Watch!admission
    BY DEF Watch!Progress, Watch!Detach
  <1>2. Sampled'
    BY <1>1 DEF Sampled, Steady, SampledEnough, Watch!admission
  <1>3. CASE Watch!Detach
    <2>1. watched' = [watched EXCEPT !.detached = ~watched.detached,
                                     !.regenerated = watched.regenerated \/ watched.detached]
          /\ UNCHANGED progress
      BY <1>3 DEF Watch!Detach
    <2>2. watched' \in [fresh : SUBSET Watch!Kinds, regenerated : BOOLEAN, detached : BOOLEAN]
          /\ watched'.fresh = watched.fresh
      BY <2>1 DEF WatchTypes
    <2>3. WatchTypes'
      BY <1>1, <2>1, <2>2 DEF WatchTypes, Watch!admission
    <2>4. Watched'
      BY <1>1, <2>1, <2>2 DEF Watched, Known
    <2> QED BY <1>1, <1>2, <2>3, <2>4 DEF Watch!StallIsWatched, Watch!CleanStopIsLive
  <1>4. ASSUME NEW k \in Watch!Kinds, Watch!Progress(k)
        PROVE  WatchInvariant'
    <2>1. watched' = [watched EXCEPT !.fresh = watched.fresh \cup {k}]
          /\ progress' = IF k = "source" THEN progress ELSE [progress EXCEPT ![k] = now]
      BY <1>4 DEF Watch!Progress
    <2>2. watched' \in [fresh : SUBSET Watch!Kinds, regenerated : BOOLEAN, detached : BOOLEAN]
          /\ watched'.fresh = watched.fresh \cup {k}
      BY <2>1 DEF WatchTypes
    <2>3. progress' \in [Sinks -> Nat]
          /\ \A i \in Sinks : progress'[i] = IF i = k THEN now ELSE progress[i]
      BY <2>1 DEF WatchTypes, Sinks
    <2>4. WatchTypes'
      BY <1>1, <2>2, <2>3 DEF WatchTypes, Watch!admission
    <2>5. ASSUME NEW i \in Sinks PROVE Known(i)'
      BY <1>1, <2>2, <2>3, <2>5 DEF Watched, Known, WatchTypes
    <2>6. Watched'
      BY <1>1, <2>5 DEF Watched
    <2> QED BY <1>1, <1>2, <2>4, <2>6 DEF Watch!StallIsWatched, Watch!CleanStopIsLive
  <1> QED BY <1>3, <1>4

\* An observation, of one of them: what it takes for its last advance is no earlier than
\* its progress, and no later than the limit allows unless a gap is to be confirmed.
LEMMA ObservationIsFair ==
    ASSUME NEW n \in Nat, NEW o \in Nat, NEW g \in Nat, NEW c \in Int, NEW a \in Nat, NEW p \in Nat,
           NEW fresh \in BOOLEAN, NEW limit \in Nat \ {0},
           g <= o, o <= n, c <= o, g <= a, a <= o, p <= n,
           fresh => p >= o,
           ~fresh => p <= a /\ (a > c => a - p <= limit /\ p >= g),
           NEW gap \in BOOLEAN, gap <=> n - o > limit,
           NEW b \in Nat, b = IF gap \/ fresh THEN n ELSE a,
           NEW h \in Nat, h = IF gap THEN n ELSE g,
           NEW d \in Int, gap => d = n, ~gap => d = c \/ b > c
    PROVE  /\ h <= b /\ b <= n /\ p <= b
           /\ b > d => b - p <= limit /\ p >= h
           /\ n - b >= limit => n - p >= limit /\ n - h >= limit
           /\ n - b < limit /\ b > d => n - p < 2 * limit
  <1>1. CASE gap
    BY <1>1
  <1>2. CASE ~gap /\ fresh
    <2>1. b = n /\ h = g /\ n - p <= limit /\ p >= g
      BY <1>2
    <2> QED BY <1>2, <2>1
  <1>3. CASE ~gap /\ ~fresh
    <2>1. b = a /\ h = g /\ p <= a
      BY <1>3
    <2>2. b > d => a > c
      BY <1>3, <2>1
    <2> QED BY <1>3, <2>1, <2>2
  <1> QED BY <1>1, <1>2, <1>3

\* The observations: the fields of each, and what it means for each of the two.
NewGap == IF Watch!Gap THEN now ELSE gapAt
Fair(k) ==
    LET b == Watch!Advanced(k)
    IN  /\ b \in Nat /\ NewGap <= b /\ b <= now /\ progress[k] <= b
        /\ b > Watch!Confirm => b - progress[k] <= Stall /\ progress[k] >= NewGap
        /\ now - b >= Stall => now - progress[k] >= Stall /\ now - NewGap >= Stall
        /\ now - b < Stall /\ b > Watch!Confirm => now - progress[k] < 2 * Stall

LEMMA Observes ==
    ASSUME Watch!WatchAssumption, WatchInvariant, phase = "watch"
    PROVE  /\ NewGap \in Nat /\ NewGap <= now
           /\ Watch!Confirm \in Int /\ Watch!Confirm >= -1 /\ Watch!Confirm <= now
           /\ \A k \in Watch!Kinds : Watch!Advanced(k) \in Nat
           /\ \A k \in Sinks : Fair(k)
  <1> USE DEF WatchInvariant
  <1> DEFINE o == watch.observed
             c == watch.confirm
  <1>1. /\ now \in Nat /\ o \in Nat /\ gapAt \in Nat /\ c \in Int /\ Stall \in Nat \ {0}
        /\ gapAt <= o /\ o <= now /\ c <= o /\ c >= -1
    BY DEF WatchTypes, Watched, Watch!WatchAssumption
  <1>2. Watch!Gap \in BOOLEAN /\ (Watch!Gap <=> now - o > Stall)
    BY DEF Watch!Gap
  <1>3. \A k \in Watch!Kinds : Watch!Advanced(k) \in Nat
    BY <1>1 DEF Watch!Advanced, WatchTypes
  <1>4. \A k \in Sinks : Watch!Advanced(k) = IF Watch!Gap \/ k \in watched.fresh THEN now
                                                ELSE watch.advanced[k]
    BY DEF Watch!Advanced, Sinks
  <1>5. /\ Watch!Confirm \in Int /\ Watch!Confirm >= -1 /\ Watch!Confirm <= now
        /\ Watch!Gap => Watch!Confirm = now
        /\ ~Watch!Gap => Watch!Confirm = c \/ \A k \in Sinks : Watch!Advanced(k) > c
    <2>1. CASE Watch!Gap
      <3>1. Watch!Advanced("encoded") = now
        BY <1>4, <2>1 DEF Sinks
      <3>2. ~(Watch!Advanced("encoded") > now)
        BY <1>1, <3>1
      <3>3. Watch!Confirm = now
        BY <2>1, <3>2 DEF Watch!Confirm
      <3> QED BY <1>1, <2>1, <3>3
    <2>2. CASE ~Watch!Gap
      <3>1. Watch!Confirm = IF \A k \in Sinks : Watch!Advanced(k) > c THEN -1 ELSE c
        BY <2>2 DEF Watch!Confirm, Watch!Never, Sinks
      <3> HIDE DEF c, o
      <3> QED BY <1>1, <2>2, <3>1
    <2> QED BY <2>1, <2>2
  <1>6. NewGap \in Nat /\ NewGap <= now /\ NewGap = IF Watch!Gap THEN now ELSE gapAt
    BY <1>1 DEF NewGap
  <1>7. ASSUME NEW k \in Sinks PROVE Fair(k)
    <2>1. /\ watch.advanced[k] \in Nat /\ progress[k] \in Nat /\ Watch!Advanced(k) \in Nat
          /\ (k \in watched.fresh) \in BOOLEAN
      BY <1>3 DEF WatchTypes, Sinks, Watch!Kinds
    <2>2. /\ gapAt <= watch.advanced[k] /\ watch.advanced[k] <= o /\ progress[k] <= now
          /\ k \in watched.fresh => progress[k] >= o
          /\ k \notin watched.fresh =>
                /\ progress[k] <= watch.advanced[k]
                /\ watch.advanced[k] > c => watch.advanced[k] - progress[k] <= Stall /\ progress[k] >= gapAt
      BY DEF Watched, Known
    <2>3. Watch!Advanced(k) = IF Watch!Gap \/ k \in watched.fresh THEN now ELSE watch.advanced[k]
      BY <1>4
    <2>4. ~Watch!Gap => Watch!Confirm = c \/ Watch!Advanced(k) > c
      BY <1>5
    <2> HIDE DEF o, c
    <2> QED BY <1>1, <1>2, <1>5, <1>6, <2>1, <2>2, <2>3, <2>4, ObservationIsFair DEF Fair
  <1> QED BY <1>3, <1>5, <1>6, <1>7

\* The watch goes on, or ends.
LEMMA WatchGoesOn ==
    ASSUME Watch!WatchAssumption, WatchInvariant, Watch!Observe \/ Watch!Stop
    PROVE  WatchInvariant'
  <1> USE DEF WatchInvariant
  <1>1. phase = "watch"
    BY DEF Watch!Observe, Watch!Stop
  <1>2. /\ NewGap \in Nat /\ NewGap <= now
        /\ Watch!Confirm \in Int /\ Watch!Confirm >= -1 /\ Watch!Confirm <= now
        /\ \A k \in Watch!Kinds : Watch!Advanced(k) \in Nat
        /\ \A k \in Sinks : Fair(k)
    BY <1>1, Observes
  <1>3. now \in Nat /\ Stall \in Nat /\ progress \in [Sinks -> Nat]
    BY DEF WatchTypes, Watch!WatchAssumption
  <1>4. PICK visible \in BOOLEAN, error \in BOOLEAN :
          LET v == Watch!Observation(visible, error)
          IN  \/ Watch!Ended(v, "failed")
              \/ Watch!Ended(v, "clean") /\ v.verdict \notin {"error", "stalled"} /\ v.watch.confirm = -1
              \/ /\ v.verdict \notin {"error", "stalled"} /\ Watch!Remember(v) /\ watch' = v.watch
                 /\ watched' = [watched EXCEPT !.fresh = {}, !.regenerated = FALSE]
                 /\ UNCHANGED phase
    <2>1. CASE Watch!Observe
      BY <2>1 DEF Watch!Observe
    <2>2. CASE Watch!Stop
      <3>1. (~watch.waiting) \in BOOLEAN
        OBVIOUS
      <3> QED BY <2>2, <3>1 DEF Watch!Stop, Watch!Never
    <2> QED BY <2>1, <2>2
  <1> DEFINE v == Watch!Observation(visible, error)
  <1>5. /\ v.watch.observed = now /\ v.watch.confirm = Watch!Confirm
        /\ v.watch.advanced = [k \in Watch!Kinds |-> Watch!Advanced(k)]
        /\ v.watch.waiting \in BOOLEAN
        /\ v.watch = [waiting |-> v.watch.waiting, observed |-> now, confirm |-> Watch!Confirm,
                      advanced |-> [k \in Watch!Kinds |-> Watch!Advanced(k)]]
        /\ v.verdict \in {"none", "error", "stalled", "recover"}
        /\ v.verdict = "stalled" => \E k \in Sinks : Watch!Silent(k)
        /\ v.verdict \notin {"error", "stalled"} => \A k \in Sinks : ~Watch!Silent(k)
    BY DEF Watch!Observation, Sinks
  <1> HIDE DEF v
  <1>6. Watch!Remember(v)
    BY <1>4 DEF v, Watch!Ended
  <1>7. /\ verdict' = v.verdict /\ gapAt' = NewGap /\ UNCHANGED <<now, progress>>
        /\ UNCHANGED Watch!admission
    BY <1>6 DEF Watch!Remember, NewGap
  <1>8. phase' \in {"watch", "failed", "clean"}
    BY <1>1, <1>4 DEF Watch!Ended
  <1>9. Sampled'
    BY <1>7, <1>8 DEF Sampled, Steady, SampledEnough, Watch!admission
  <1>10. CASE phase' # "watch"
    <2>1. watch' = Watch!NewWatch /\ watched' = Watch!NewCapture
      BY <1>1, <1>4, <1>10 DEF Watch!Ended
    <2>2. WatchTypes'
      BY <1>2, <1>5, <1>7, <1>8, <2>1
         DEF WatchTypes, Watch!NewWatch, Watch!NewCapture, Watch!Kinds, Watch!Never, Watch!admission
    <2>3. Watch!StallIsWatched'
      <3>1. ASSUME v.verdict = "stalled"
            PROVE  \E k \in Sinks : now - progress[k] >= Stall /\ now - NewGap >= Stall
        <4>1. PICK k \in Sinks : now - Watch!Advanced(k) >= Stall
          BY <1>5, <3>1 DEF Watch!Silent
        <4> QED BY <1>2, <4>1 DEF Fair
      <3> QED BY <1>7, <3>1 DEF Watch!StallIsWatched, Sinks
    <2>4. Watch!CleanStopIsLive'
      <3> SUFFICES ASSUME phase' = "clean", NEW k \in Sinks
                   PROVE  now - progress[k] < 2 * Stall /\ progress[k] >= NewGap
        BY <1>7 DEF Watch!CleanStopIsLive, Sinks
      <3>1. v.verdict \notin {"error", "stalled"} /\ v.watch.confirm = -1
        BY <1>1, <1>4 DEF v, Watch!Ended
      <3>2. ~(now - Watch!Advanced(k) >= Stall) /\ Watch!Confirm = -1
        BY <1>5, <3>1 DEF Watch!Silent
      <3>3. Watch!Advanced(k) \in Nat /\ Fair(k)
        BY <1>2 DEF Fair
      <3>4. now - Watch!Advanced(k) < Stall /\ Watch!Advanced(k) > Watch!Confirm
        BY <1>3, <3>2, <3>3
      <3> QED BY <3>3, <3>4 DEF Fair
    <2> QED BY <1>8, <1>9, <1>10, <2>2, <2>3, <2>4
  <1>11. CASE phase' = "watch"
    <2>1. watch' = v.watch /\ watched' = [watched EXCEPT !.fresh = {}, !.regenerated = FALSE]
      BY <1>1, <1>4, <1>11 DEF v, Watch!Ended
    <2>2. watch'.observed = now /\ watch'.confirm = Watch!Confirm
          /\ \A k \in Watch!Kinds : watch'.advanced[k] = Watch!Advanced(k)
      BY <1>5, <2>1
    <2>3. watched' \in [fresh : SUBSET Watch!Kinds, regenerated : BOOLEAN, detached : BOOLEAN]
          /\ watched'.fresh = {}
      BY <2>1 DEF WatchTypes
    <2>4. watch' \in [waiting : BOOLEAN, observed : Nat, confirm : Int, advanced : [Watch!Kinds -> Nat]]
      <3>1. [k \in Watch!Kinds |-> Watch!Advanced(k)] \in [Watch!Kinds -> Nat]
        BY <1>2
      <3> QED BY <1>2, <1>3, <1>5, <2>1, <3>1
    <2>5. WatchTypes'
      BY <1>2, <1>5, <1>7, <1>8, <2>3, <2>4 DEF WatchTypes, Watch!admission
    <2>6. ASSUME NEW k \in Sinks PROVE Known(k)'
      <3>1. k \in Watch!Kinds /\ Fair(k)
        BY <1>2 DEF Sinks, Watch!Kinds
      <3>2. progress'[k] <= now'
        BY <1>3, <1>7, <3>1 DEF Fair
      <3> QED BY <1>7, <2>2, <2>3, <3>1, <3>2 DEF Known, Fair
    <2>7. Watched'
      BY <1>2, <1>3, <1>7, <2>2, <2>6 DEF Watched
    <2> QED BY <1>9, <1>11, <2>5, <2>7 DEF Watch!StallIsWatched, Watch!CleanStopIsLive
  <1> QED BY <1>10, <1>11

LEMMA WatchKeeps ==
    ASSUME Watch!WatchAssumption, WatchInvariant, [Watch!Next]_watchVars
    PROVE  WatchInvariant'
  <1>1. CASE Watch!Next
    BY <1>1, ClockGoes, WindowGoes, SampleTaken, CaptureGoesOn, WatchGoesOn DEF Watch!Next
  <1>2. CASE UNCHANGED watchVars
    BY <1>2 DEF watchVars, WatchInvariant, WatchTypes, Sampled, Steady, SampledEnough,
                Watch!Accepted, Watched, Known, Unwatched, Watch!StallIsWatched,
                Watch!CleanStopIsLive
  <1> QED BY <1>1, <1>2

LEMMA WatchSuffices == Watch!WatchAssumption /\ WatchInvariant => Watch!WatchIsSound
  <1> SUFFICES ASSUME Watch!WatchAssumption, WatchInvariant, phase = "admitted"
               PROVE  /\ target = window /\ ~cancelled
                      /\ \E first, last \in looks :
                          /\ \A s \in looks : s.at <= last.at /\ (s.at >= first.at => s.window = target)
                          /\ last.at - first.at >= Cadence /\ now - last.at <= MaxResolution
                          /\ \A t \in first.at .. last.at - 1 : \E s \in looks : s.at - t \in 1 .. MaxGap
    BY DEF WatchInvariant, Watch!WatchIsSound, Watch!AdmissionIsSteady
  <1>1. Steady /\ SampledEnough /\ ~cancelled /\ Watch!Accepted
    BY DEF WatchInvariant, Sampled
  <1>2. PICK first \in looks : first.at = readiness.first
    BY <1>1 DEF Steady
  <1>3. PICK last \in looks : last.at = readiness.at
    BY <1>1 DEF Steady
  <1>4. target = readiness.previous /\ window = readiness.previous /\ now - readiness.at <= MaxResolution
    BY <1>1 DEF Watch!Accepted
  <1> QED BY <1>1, <1>2, <1>3, <1>4 DEF Steady, SampledEnough
-----------------------------------------------------------------------------
(* The encoder. *)

Holder == slotSet \cup {"none"}
Command == [kind : {"frame", "barrier", "eos"}, slot : Holder]
ThreadPlaces == {"receive", "frame", "barrier", "eos", "write", "error", "gone"}
NvencPlaces == {"run", "converted", "submit", "enqueue", "drain", "close", "eos", "stop", "join",
                "closed"}

EncoderTypes ==
    /\ slots \in [slotSet -> {"free", "converted", "submitted"}]
    /\ hardware \in [slotSet -> {"idle", "encoding", "done"}]
    /\ mapped \subseteq slotSet
    /\ submitted \in Seq(Command)
    /\ thread \in [at : ThreadPlaces, slot : Holder]
    /\ telemetry \in [errors : Nat, abort : BOOLEAN, completed : Nat]
    /\ nvenc \in [at : NvencPlaces, slot : Holder, failed : BOOLEAN, patience : Nat]
    /\ abort \in BOOLEAN
    /\ channel \in [open : BOOLEAN, eos : BOOLEAN, ack : BOOLEAN, cancelled : BOOLEAN]
    /\ encoder \in {"open", "retained", "cleaned", "destroyed"}
    /\ order \in [submitted : Seq(slotSet), written : Seq(slotSet)]

\* Each slot that was submitted is in one place: with the worker, in the queue, or with
\* the thread.
IsFrame(k) == submitted[k].kind = "frame"
AtThread == thread.at \in {"frame", "write"}
AtWorker == nvenc.at \in {"submit", "enqueue"}
FreeIsFree ==
    \A s \in slotSet : slots[s] # "submitted" => s \notin mapped /\ hardware[s] # "encoding"
QueueOwns ==
    /\ \A k \in 1 .. Len(submitted) :
        IsFrame(k) => submitted[k].slot \in slotSet /\ slots[submitted[k].slot] = "submitted"
    /\ \A j, k \in 1 .. Len(submitted) :
        IsFrame(j) /\ IsFrame(k) /\ submitted[j].slot = submitted[k].slot => j = k
ThreadOwns ==
    /\ AtThread =>
        /\ thread.slot \in slotSet /\ slots[thread.slot] = "submitted"
        /\ \A k \in 1 .. Len(submitted) : IsFrame(k) => submitted[k].slot # thread.slot
    /\ thread.at = "write" => hardware[thread.slot] # "encoding"
WorkerOwns ==
    /\ nvenc.at = "converted" => nvenc.slot \in slotSet /\ slots[nvenc.slot] = "converted"
    /\ AtWorker =>
        /\ nvenc.slot \in slotSet /\ slots[nvenc.slot] = "submitted"
        /\ AtThread => thread.slot # nvenc.slot
        /\ \A k \in 1 .. Len(submitted) : IsFrame(k) => submitted[k].slot # nvenc.slot
    /\ nvenc.at = "submit" => hardware[nvenc.slot] # "encoding"

\* A barrier and the end of the stream are last, and nothing is queued behind them.
Marked == submitted # <<>> /\ ~IsFrame(Len(submitted))
MarksAreLast ==
    /\ \A k \in 1 .. Len(submitted) : k < Len(submitted) => IsFrame(k)
    /\ thread.at \in {"barrier", "eos"} => submitted = <<>>
    /\ Marked \/ thread.at \in {"barrier", "eos"} =>
        nvenc.at \in {"drain", "eos", "stop", "join", "closed"} \/ (abort /\ nvenc.at = "close")

\* What was submitted is what was written, what the thread has, what is queued, and what
\* the worker is about to queue, in this order, unless something went wrong.
Held == IF AtThread THEN 1 ELSE 0
Frames == IF Marked THEN Len(submitted) - 1 ELSE Len(submitted)
Coming == IF nvenc.at = "enqueue" THEN 1 ELSE 0
Aligned ==
    thread.at # "error" /\ telemetry.errors = 0 =>
        /\ Len(order.submitted) = Len(order.written) + Held + Frames + Coming
        /\ telemetry.completed = Len(order.written)
        /\ AtThread => thread.slot = order.submitted[Len(order.written) + 1]
        /\ \A k \in 1 .. Frames : submitted[k].slot = order.submitted[Len(order.written) + Held + k]
        /\ nvenc.at = "enqueue" => nvenc.slot = order.submitted[Len(order.submitted)]
Prefixed ==
    /\ Len(order.written) <= Len(order.submitted)
    /\ \A k \in 1 .. Len(order.written) : order.written[k] = order.submitted[k]

\* What went wrong is known, and is known to the end.
Blame ==
    /\ telemetry.errors > 0 => telemetry.abort /\ thread.at = "gone"
    /\ abort \/ telemetry.abort => nvenc.failed \/ telemetry.errors > 0
    /\ thread.at = "gone" => submitted = <<>> /\ (telemetry.errors > 0 \/ ~channel.open)
    /\ channel.open \/ nvenc.at \in {"join", "closed"}
Outcome ==
    /\ nvenc.at \in {"stop", "join", "closed"} /\ ~abort /\ ~telemetry.abort => Encoder!AllFree
    /\ encoder \in {"cleaned", "destroyed"} => thread.at = "gone" /\ nvenc.at = "closed"
    /\ encoder = "cleaned" => ~abort /\ ~telemetry.abort
    /\ nvenc.at = "closed" /\ ~nvenc.failed => encoder = "cleaned" /\ telemetry.errors = 0

EncoderInvariant ==
    /\ EncoderTypes /\ FreeIsFree /\ QueueOwns /\ ThreadOwns /\ WorkerOwns
    /\ MarksAreLast /\ Aligned /\ Prefixed /\ Blame /\ Outcome

LEMMA EncoderInitially == Encoder!EncoderAssumption /\ Encoder!Init => EncoderInvariant
  <1> SUFFICES ASSUME Encoder!EncoderAssumption, Encoder!Init PROVE EncoderInvariant
    OBVIOUS
  <1>1. /\ slots = [s \in slotSet |-> "free"] /\ hardware = [s \in slotSet |-> "idle"]
        /\ mapped = {} /\ submitted = <<>> /\ thread.at = "receive" /\ nvenc.at = "run"
        /\ telemetry = [errors |-> 0, abort |-> FALSE, completed |-> 0] /\ ~abort /\ channel.open
        /\ encoder = "open" /\ order.submitted = <<>> /\ order.written = <<>>
    BY DEF Encoder!Init
  <1>2. EncoderTypes
    <2>1. thread \in [at : ThreadPlaces, slot : Holder]
      BY DEF Encoder!Init, Encoder!None, ThreadPlaces, Holder
    <2>2. nvenc \in [at : NvencPlaces, slot : Holder, failed : BOOLEAN, patience : Nat]
      BY DEF Encoder!Init, Encoder!None, NvencPlaces, Holder
    <2>3. channel \in [open : BOOLEAN, eos : BOOLEAN, ack : BOOLEAN, cancelled : BOOLEAN]
          /\ abort \in BOOLEAN
      BY DEF Encoder!Init
    <2>4. submitted \in Seq(Command)
      BY <1>1
    <2>5. order \in [submitted : Seq(slotSet), written : Seq(slotSet)]
      <3>1. <<>> \in Seq(slotSet)
        OBVIOUS
      <3> QED BY <3>1 DEF Encoder!Init
    <2> QED BY <1>1, <2>1, <2>2, <2>3, <2>4, <2>5 DEF EncoderTypes
  <1>3. FreeIsFree /\ QueueOwns /\ ThreadOwns /\ WorkerOwns
    BY <1>1 DEF FreeIsFree, QueueOwns, ThreadOwns, WorkerOwns, AtThread, AtWorker
  <1>4. MarksAreLast
    BY <1>1 DEF MarksAreLast, Marked
  <1>5. Aligned /\ Prefixed
    BY <1>1 DEF Aligned, Prefixed, Held, Frames, Coming, AtThread, Marked
  <1>6. Blame /\ Outcome
    BY <1>1 DEF Blame, Outcome
  <1> QED BY <1>2, <1>3, <1>4, <1>5, <1>6 DEF EncoderInvariant

\* A step that moves no slot: the thread at most gives up or has nothing, and so does the
\* worker.
LEMMA NothingMoves ==
    ASSUME EncoderInvariant,
           UNCHANGED <<slots, hardware, mapped, submitted, order>>,
           UNCHANGED thread \/ /\ thread'.at \notin {"frame", "write"}
                               /\ thread.at \notin {"frame", "write", "error"} \/ thread'.at = "error",
           UNCHANGED nvenc \/ /\ nvenc.at # "enqueue"
                              /\ nvenc'.at \notin {"converted", "submit", "enqueue"},
           telemetry'.errors = telemetry.errors, telemetry'.completed = telemetry.completed
    PROVE  FreeIsFree' /\ QueueOwns' /\ ThreadOwns' /\ WorkerOwns' /\ Aligned' /\ Prefixed'
  <1> USE DEF EncoderInvariant
  <1>1. FreeIsFree' /\ Prefixed'
    BY DEF FreeIsFree, Prefixed
  <1>2. QueueOwns'
    BY DEF QueueOwns, IsFrame
  <1>3. ThreadOwns'
    BY DEF ThreadOwns, IsFrame, AtThread
  <1>4. WorkerOwns'
    <2>1. AtThread' => UNCHANGED thread
      BY DEF AtThread
    <2>2. CASE UNCHANGED nvenc
      BY <2>1, <2>2 DEF WorkerOwns, IsFrame, AtThread, AtWorker
    <2>3. CASE nvenc'.at \notin {"converted", "submit", "enqueue"}
      BY <2>3 DEF WorkerOwns, AtWorker
    <2> QED BY <2>2, <2>3
  <1>5. Aligned'
    <2>1. CASE thread'.at = "error" \/ telemetry'.errors # 0
      BY <2>1 DEF Aligned
    <2>2. CASE thread'.at # "error" /\ telemetry'.errors = 0
      <3>1. thread.at # "error" /\ telemetry.errors = 0
        BY <2>2
      <3>2. (AtThread' <=> AtThread) /\ (AtThread => UNCHANGED thread) /\ Held' = Held
        BY <2>2 DEF AtThread, Held
      <3>3. Frames' = Frames
        BY DEF Frames, Marked, IsFrame
      <3>4. Coming' = Coming /\ (nvenc'.at = "enqueue" => UNCHANGED nvenc)
        BY DEF Coming
      <3> QED BY <3>1, <3>2, <3>3, <3>4 DEF Aligned
    <2> QED BY <2>1, <2>2
  <1> QED BY <1>1, <1>2, <1>3, <1>4, <1>5

\* The worker takes a slot, and gives it back or has it mapped.
LEMMA SlotGoes ==
    ASSUME Encoder!EncoderAssumption, EncoderInvariant,
           Encoder!Acquire \/ Encoder!Release \/ Encoder!MapInput \/ Encoder!Rejected
    PROVE  EncoderInvariant'
  <1> USE DEF EncoderInvariant
  <1>1. /\ UNCHANGED <<hardware, submitted, thread, channel, encoder, order>>
        /\ telemetry'.errors = telemetry.errors /\ telemetry'.completed = telemetry.completed
        /\ nvenc.at \in {"run", "converted", "submit"}
        /\ nvenc'.at \in {"converted", "submit", "close"}
    BY DEF Encoder!Acquire, Encoder!Release, Encoder!MapInput, Encoder!Rejected, Encoder!Goes,
           Encoder!GivesUp, EncoderTypes
  <1>2. PICK s \in slotSet, to \in {"free", "converted", "submitted"} :
           /\ slots' = [slots EXCEPT ![s] = to] \/ (UNCHANGED slots /\ to = slots[s])
           /\ nvenc.at = "run" => slots[s] = "free" /\ to = "converted" /\ nvenc'.at = "converted" /\ nvenc'.slot = s
           /\ nvenc.at = "converted" => slots[s] = "converted" /\ nvenc.slot = s
           /\ nvenc.at = "submit" => nvenc.slot = s /\ nvenc'.at = "close"
           /\ nvenc'.at = "submit" => nvenc.at = "converted" /\ to = "submitted" /\ nvenc'.slot = s
           /\ nvenc'.at = "converted" => nvenc.at = "run"
           /\ mapped' \in {mapped, mapped \cup {s}, mapped \ {s}}
           /\ to # "submitted" => s \notin mapped' /\ hardware[s] # "encoding"
    <2>1. CASE Encoder!Acquire
      <3>1. nvenc.at = "run"
        BY <2>1 DEF Encoder!Acquire
      <3>2. PICK s \in slotSet : /\ slots[s] = "free" /\ slots' = [slots EXCEPT ![s] = "converted"]
                                 /\ nvenc' = [nvenc EXCEPT !.at = "converted", !.slot = s]
        BY <2>1 DEF Encoder!Acquire
      <3>3. nvenc'.at = "converted" /\ nvenc'.slot = s
        BY <3>2 DEF EncoderTypes
      <3>4. s \notin mapped /\ hardware[s] # "encoding" /\ mapped' = mapped
        BY <2>1, <3>2 DEF FreeIsFree, Encoder!Acquire
      <3> QED BY <3>1, <3>2, <3>3, <3>4
    <2>2. CASE Encoder!Release
      BY <2>2 DEF Encoder!Release, Encoder!GivesUp, FreeIsFree, WorkerOwns, EncoderTypes
    <2>3. CASE Encoder!MapInput
      <3>1. nvenc'.at = "submit" /\ nvenc'.slot = nvenc.slot
        BY <2>3 DEF Encoder!MapInput, Encoder!Goes, EncoderTypes
      <3> QED BY <2>3, <3>1 DEF Encoder!MapInput, WorkerOwns
    <2>4. CASE Encoder!Rejected
      <3>1. nvenc.at = "submit" /\ nvenc'.at = "close"
        BY <2>4 DEF Encoder!Rejected, Encoder!GivesUp, EncoderTypes
      <3>2. nvenc.slot \in slotSet /\ slots[nvenc.slot] = "submitted" /\ hardware[nvenc.slot] # "encoding"
        BY <3>1 DEF WorkerOwns, AtWorker
      <3> QED BY <2>4, <3>1, <3>2 DEF Encoder!Rejected
    <2> QED BY <2>1, <2>2, <2>3, <2>4
  <1>3. /\ slots' \in [slotSet -> {"free", "converted", "submitted"}]
        /\ \A i \in slotSet : slots'[i] = IF i = s THEN to ELSE slots[i]
    BY <1>2 DEF EncoderTypes
  <1>4. /\ nvenc' \in [at : NvencPlaces, slot : Holder, failed : BOOLEAN, patience : Nat]
        /\ telemetry' \in [errors : Nat, abort : BOOLEAN, completed : Nat] /\ abort' \in BOOLEAN
        /\ ((abort' => abort) /\ (telemetry'.abort => telemetry.abort)) \/ nvenc'.failed
        /\ nvenc.failed => nvenc'.failed
        /\ nvenc'.at = "close" => nvenc'.failed
    <2>1. CASE Encoder!Acquire
      BY <2>1 DEF Encoder!Acquire, EncoderTypes, NvencPlaces, Holder
    <2>2. CASE Encoder!Release
      BY <2>2 DEF Encoder!Release, Encoder!GivesUp, Encoder!None, EncoderTypes, NvencPlaces, Holder
    <2>3. CASE Encoder!MapInput
      BY <2>3 DEF Encoder!MapInput, Encoder!Goes, EncoderTypes, NvencPlaces, Holder
    <2>4. CASE Encoder!Rejected
      BY <2>4 DEF Encoder!Rejected, Encoder!GivesUp, Encoder!None, EncoderTypes, NvencPlaces, Holder
    <2> QED BY <2>1, <2>2, <2>3, <2>4
  <1>5. EncoderTypes'
    BY <1>1, <1>2, <1>3, <1>4 DEF EncoderTypes
  <1>6. /\ \A k \in 1 .. Len(submitted) : IsFrame(k) => submitted[k].slot # s
        /\ AtThread => thread.slot # s
    BY <1>1, <1>2 DEF QueueOwns, ThreadOwns, WorkerOwns, AtWorker
  <1>7. FreeIsFree'
    BY <1>1, <1>2, <1>3 DEF FreeIsFree
  <1>8. QueueOwns'
    BY <1>1, <1>3, <1>6 DEF QueueOwns, IsFrame
  <1>9. ThreadOwns'
    BY <1>1, <1>3, <1>6 DEF ThreadOwns, IsFrame, AtThread
  <1>10. WorkerOwns'
    <2>1. CASE nvenc'.at = "converted"
      <3>1. nvenc'.slot = s /\ slots'[s] = "converted"
        BY <1>1, <1>2, <1>3, <2>1
      <3> QED BY <2>1, <3>1 DEF WorkerOwns, AtWorker
    <2>2. CASE nvenc'.at = "submit"
      <3>1. nvenc'.slot = s /\ slots'[s] = "submitted" /\ nvenc.at = "converted" /\ slots[s] = "converted"
        BY <1>1, <1>2, <1>3, <2>2
      <3>2. hardware[s] # "encoding"
        BY <3>1 DEF FreeIsFree
      <3>3. /\ \A k \in 1 .. Len(submitted') : submitted'[k].kind = "frame" => submitted'[k].slot # s
            /\ thread'.at \in {"frame", "write"} => thread'.slot # s
        BY <1>1, <1>6 DEF IsFrame, AtThread
      <3> QED BY <1>1, <2>2, <3>1, <3>2, <3>3 DEF WorkerOwns, AtWorker, AtThread, IsFrame
    <2>3. CASE nvenc'.at = "close"
      BY <2>3 DEF WorkerOwns, AtWorker
    <2> QED BY <1>1, <2>1, <2>2, <2>3
  <1>11. MarksAreLast'
    BY <1>1 DEF MarksAreLast, Marked, IsFrame
  <1>12. Aligned' /\ Prefixed'
    BY <1>1 DEF Aligned, Prefixed, Held, Frames, Coming, AtThread, Marked, IsFrame
  <1>13. Blame'
    <2>1. telemetry.errors > 0 => telemetry'.abort
      BY DEF Blame, Encoder!Acquire, Encoder!Release, Encoder!MapInput, Encoder!Rejected, EncoderTypes
    <2> QED BY <1>1, <1>4, <2>1 DEF Blame
  <1>14. Outcome'
    BY <1>1 DEF Outcome
  <1> QED BY <1>5, <1>7, <1>8, <1>9, <1>10, <1>11, <1>12, <1>13, <1>14

\* The encoder accepts the frame.
LEMMA FrameAccepted ==
    ASSUME EncoderInvariant, Encoder!Accepted
    PROVE  EncoderInvariant'
  <1> USE DEF EncoderInvariant
  <1> DEFINE s == nvenc.slot
  <1>1. /\ UNCHANGED <<slots, mapped, submitted, thread, telemetry, abort, channel, encoder>>
        /\ nvenc.at = "submit" /\ hardware' = [hardware EXCEPT ![s] = "encoding"]
        /\ order' = [order EXCEPT !.submitted = Append(order.submitted, s)]
        /\ nvenc' = [nvenc EXCEPT !.at = "enqueue"]
    BY DEF Encoder!Accepted, Encoder!Goes
  <1>2. /\ s \in slotSet /\ slots[s] = "submitted" /\ (AtThread => thread.slot # s)
        /\ \A k \in 1 .. Len(submitted) : IsFrame(k) => submitted[k].slot # s
    BY <1>1 DEF WorkerOwns, AtWorker
  <1>3. /\ nvenc' \in [at : NvencPlaces, slot : Holder, failed : BOOLEAN, patience : Nat]
        /\ nvenc'.at = "enqueue" /\ nvenc'.slot = s /\ nvenc'.failed = nvenc.failed
    BY <1>1 DEF EncoderTypes, NvencPlaces
  <1>4. /\ order.submitted \in Seq(slotSet) /\ order.written \in Seq(slotSet)
        /\ order' \in [submitted : Seq(slotSet), written : Seq(slotSet)]
        /\ order'.submitted = Append(order.submitted, s) /\ order'.written = order.written
    <2>1. order.submitted \in Seq(slotSet) /\ order.written \in Seq(slotSet)
      BY DEF EncoderTypes
    <2>2. Append(order.submitted, s) \in Seq(slotSet)
      BY <1>2, <2>1
    <2> QED BY <1>1, <2>1, <2>2 DEF EncoderTypes
  <1>5. /\ Len(order'.submitted) = Len(order.submitted) + 1
        /\ order'.submitted[Len(order.submitted) + 1] = s
        /\ \A k \in 1 .. Len(order.submitted) : order'.submitted[k] = order.submitted[k]
    BY <1>2, <1>4
  <1> HIDE DEF s
  <1>6. hardware' \in [slotSet -> {"idle", "encoding", "done"}]
        /\ \A i \in slotSet \ {s} : hardware'[i] = hardware[i]
    BY <1>1 DEF EncoderTypes
  <1>7. EncoderTypes'
    BY <1>1, <1>3, <1>4, <1>6 DEF EncoderTypes
  <1>8. FreeIsFree'
    BY <1>1, <1>2, <1>6 DEF FreeIsFree
  <1>9. QueueOwns'
    BY <1>1 DEF QueueOwns, IsFrame
  <1>10. ThreadOwns'
    BY <1>1, <1>2, <1>6 DEF ThreadOwns, AtThread, IsFrame
  <1>11. WorkerOwns'
    BY <1>1, <1>2, <1>3 DEF WorkerOwns, AtThread, AtWorker, IsFrame
  <1>12. MarksAreLast'
    BY <1>1, <1>3 DEF MarksAreLast, Marked, IsFrame
  <1>13. Prefixed'
    <2>1. Len(order.written) \in Nat /\ Len(order.submitted) \in Nat
      BY <1>4
    <2> QED BY <1>4, <1>5, <2>1 DEF Prefixed
  <1>14. Aligned'
    <2>1. Held' = Held /\ Frames' = Frames /\ Coming = 0 /\ Coming' = 1 /\ (AtThread' <=> AtThread)
      BY <1>1, <1>3 DEF Held, Frames, Coming, AtThread, Marked, IsFrame
    <2>2. Held \in {0, 1} /\ (AtThread => Held = 1) /\ Frames \in Int /\ Len(order.written) \in Nat
          /\ Len(order.submitted) \in Nat
      BY <1>4 DEF Held, Frames, EncoderTypes
    <2>3. CASE thread.at # "error" /\ telemetry.errors = 0
      <3>1. /\ Len(order.submitted) = Len(order.written) + Held + Frames
            /\ telemetry.completed = Len(order.written)
            /\ AtThread => thread.slot = order.submitted[Len(order.written) + 1]
            /\ \A k \in 1 .. Frames : submitted[k].slot = order.submitted[Len(order.written) + Held + k]
        BY <2>1, <2>2, <2>3 DEF Aligned
      <3>2. Frames >= 0
        BY DEF Frames, Marked, EncoderTypes
      <3>3. AtThread => thread.slot = order'.submitted[Len(order.written) + 1]
        BY <1>5, <2>2, <3>1, <3>2
      <3>4. \A k \in 1 .. Frames : submitted[k].slot = order'.submitted[Len(order.written) + Held + k]
        <4>1. ASSUME NEW k \in 1 .. Frames
              PROVE  Len(order.written) + Held + k \in 1 .. Len(order.submitted)
          BY <2>2, <3>1
        <4> QED BY <1>5, <3>1, <4>1
      <3>5. Len(order'.submitted) = Len(order.written) + Held + Frames + 1
        BY <1>5, <2>2, <3>1
      <3>6. nvenc'.slot = order'.submitted[Len(order'.submitted)]
        BY <1>3, <1>5
      <3> QED BY <1>1, <1>4, <2>1, <3>1, <3>3, <3>4, <3>5, <3>6 DEF Aligned
    <2> QED BY <1>1, <2>3 DEF Aligned
  <1>15. Blame' /\ Outcome'
    BY <1>1, <1>3 DEF Blame, Outcome
  <1> QED BY <1>7, <1>8, <1>9, <1>10, <1>11, <1>12, <1>13, <1>14, <1>15
\* Something is queued: behind frames, and by nobody who has marked the end.
LEMMA QueueGrows ==
    ASSUME EncoderInvariant, NEW c \in Command, submitted' = Append(submitted, c),
           ~Marked, thread.at \notin {"barrier", "eos"}
    PROVE  /\ submitted' \in Seq(Command) /\ Len(submitted') = Len(submitted) + 1
           /\ submitted'[Len(submitted) + 1] = c
           /\ \A k \in 1 .. Len(submitted) : submitted'[k] = submitted[k] /\ IsFrame(k)
           /\ \A k \in 1 .. Len(submitted') : k < Len(submitted') => submitted'[k].kind = "frame"
           /\ Marked' <=> c.kind # "frame"
           /\ Frames' = IF c.kind = "frame" THEN Frames + 1 ELSE Frames
           /\ Frames = Len(submitted)
  <1> USE DEF EncoderInvariant
  <1>1. submitted \in Seq(Command) /\ Len(submitted) \in Nat
    BY DEF EncoderTypes
  <1>2. /\ submitted' \in Seq(Command) /\ Len(submitted') = Len(submitted) + 1
        /\ submitted'[Len(submitted) + 1] = c
        /\ \A k \in 1 .. Len(submitted) : submitted'[k] = submitted[k]
    BY <1>1
  <1>3. \A k \in 1 .. Len(submitted) : IsFrame(k)
    <2>1. submitted # <<>> => IsFrame(Len(submitted))
      BY DEF Marked
    <2>2. \A k \in 1 .. Len(submitted) : k < Len(submitted) => IsFrame(k)
      BY DEF MarksAreLast
    <2> QED BY <1>1, <2>1, <2>2
  <1>4. submitted' # <<>>
    BY <1>1, <1>2
  <1>5. Marked' <=> c.kind # "frame"
    BY <1>2, <1>4 DEF Marked, IsFrame
  <1>6. Frames = Len(submitted)
    BY DEF Frames
  <1>7. Frames' = IF c.kind = "frame" THEN Frames + 1 ELSE Frames
    BY <1>1, <1>2, <1>5, <1>6 DEF Frames
  <1>8. \A k \in 1 .. Len(submitted') : k < Len(submitted') => submitted'[k].kind = "frame"
    BY <1>1, <1>2, <1>3 DEF IsFrame
  <1> QED BY <1>2, <1>3, <1>5, <1>6, <1>7, <1>8

\* A mark is queued: the barrier, or the end of the stream.
LEMMA MarkQueued ==
    ASSUME EncoderInvariant, NEW c \in Command, c.kind # "frame",
           submitted' = Append(submitted, c), ~Marked, thread.at \notin {"barrier", "eos"},
           UNCHANGED <<slots, hardware, mapped, thread, telemetry, order>>,
           nvenc.at \in {"run", "close"}, nvenc'.at \in {"drain", "eos"}
    PROVE  /\ submitted' \in Seq(Command)
           /\ FreeIsFree' /\ QueueOwns' /\ ThreadOwns' /\ WorkerOwns' /\ MarksAreLast'
           /\ Aligned' /\ Prefixed'
  <1> USE DEF EncoderInvariant
  <1>1. /\ submitted' \in Seq(Command) /\ Len(submitted') = Len(submitted) + 1
        /\ submitted'[Len(submitted) + 1] = c
        /\ \A k \in 1 .. Len(submitted) : submitted'[k] = submitted[k] /\ IsFrame(k)
        /\ \A k \in 1 .. Len(submitted') : k < Len(submitted') => submitted'[k].kind = "frame"
        /\ Marked' /\ Frames' = Frames /\ Frames = Len(submitted)
    BY QueueGrows
  <1>2. Len(submitted) \in Nat
    BY DEF EncoderTypes
  <1>3. \A k \in 1 .. Len(submitted') : submitted'[k].kind = "frame" =>
            k \in 1 .. Len(submitted) /\ submitted'[k] = submitted[k]
    BY <1>1, <1>2
  <1>4. FreeIsFree' /\ Prefixed'
    BY DEF FreeIsFree, Prefixed
  <1>5. QueueOwns'
    BY <1>1, <1>3 DEF QueueOwns, IsFrame
  <1>6. ThreadOwns' /\ WorkerOwns'
    BY <1>1, <1>3 DEF ThreadOwns, WorkerOwns, AtThread, AtWorker, IsFrame
  <1>7. MarksAreLast'
    <2>1. thread'.at \notin {"barrier", "eos"}
      OBVIOUS
    <2> QED BY <1>1, <2>1 DEF MarksAreLast, IsFrame
  <1>8. Aligned'
    <2>1. Held' = Held /\ Coming = 0 /\ Coming' = 0 /\ (AtThread' <=> AtThread)
      BY DEF Held, Coming, AtThread
    <2> QED BY <1>1, <2>1 DEF Aligned
  <1> QED BY <1>1, <1>4, <1>5, <1>6, <1>7, <1>8

\* The frame is queued for the thread, or orphaned with it.
LEMMA FrameQueued ==
    ASSUME Encoder!EncoderAssumption, EncoderInvariant, Encoder!Enqueue
    PROVE  EncoderInvariant'
  <1> USE DEF EncoderInvariant
  <1>1. /\ UNCHANGED <<slots, hardware, mapped, thread, channel, encoder, order>>
        /\ nvenc.at = "enqueue"
    BY DEF Encoder!Enqueue
  <1>2. CASE thread.at = "gone"
    <2>1. /\ abort' = TRUE /\ telemetry' = [telemetry EXCEPT !.abort = TRUE] /\ UNCHANGED submitted
          /\ nvenc' = [nvenc EXCEPT !.at = "close", !.slot = "none", !.failed = TRUE]
      BY <1>2 DEF Encoder!Enqueue, Encoder!GivesUp, Encoder!None
    <2>2. telemetry.errors > 0 /\ submitted = <<>> /\ channel.open
      BY <1>1, <1>2 DEF Blame
    <2>3. /\ nvenc' \in [at : NvencPlaces, slot : Holder, failed : BOOLEAN, patience : Nat]
          /\ nvenc'.at = "close" /\ nvenc'.failed
      BY <2>1 DEF EncoderTypes, NvencPlaces, Holder
    <2>4. /\ telemetry' \in [errors : Nat, abort : BOOLEAN, completed : Nat]
          /\ telemetry'.errors = telemetry.errors /\ telemetry'.abort
      BY <2>1 DEF EncoderTypes
    <2>5. EncoderTypes'
      BY <1>1, <2>1, <2>3, <2>4 DEF EncoderTypes
    <2>6. FreeIsFree' /\ Prefixed'
      BY <1>1 DEF FreeIsFree, Prefixed
    <2>7. QueueOwns' /\ ThreadOwns' /\ WorkerOwns'
      BY <1>1, <1>2, <2>1, <2>2, <2>3 DEF QueueOwns, ThreadOwns, WorkerOwns, AtThread, AtWorker
    <2>8. MarksAreLast'
      BY <1>1, <1>2, <2>1, <2>2 DEF MarksAreLast, Marked
    <2>9. Aligned'
      <3>1. telemetry'.errors # 0
        BY <2>2, <2>4 DEF EncoderTypes
      <3> QED BY <3>1 DEF Aligned
    <2>10. Blame' /\ Outcome'
      BY <1>1, <1>2, <2>1, <2>2, <2>3, <2>4 DEF Blame, Outcome
    <2> QED BY <2>5, <2>6, <2>7, <2>8, <2>9, <2>10
  <1>3. CASE thread.at # "gone"
    <2> DEFINE s == nvenc.slot
    <2>1. /\ submitted' = Append(submitted, [kind |-> "frame", slot |-> s])
          /\ UNCHANGED <<abort, telemetry>>
          /\ nvenc' = [nvenc EXCEPT !.at = "run", !.slot = "none"]
      BY <1>3 DEF Encoder!Enqueue, Encoder!Frame, Encoder!None
    <2>2. /\ s \in slotSet /\ slots[s] = "submitted" /\ (AtThread => thread.slot # s)
          /\ \A k \in 1 .. Len(submitted) : IsFrame(k) => submitted[k].slot # s
      BY <1>1 DEF WorkerOwns, AtWorker
    <2>3. [kind |-> "frame", slot |-> s] \in Command
      BY <2>2 DEF Command, Holder
    <2>4. ~Marked /\ thread.at \notin {"barrier", "eos"}
      BY <1>1 DEF MarksAreLast
    <2>5. /\ submitted' \in Seq(Command) /\ Len(submitted') = Len(submitted) + 1
          /\ submitted'[Len(submitted) + 1].kind = "frame" /\ submitted'[Len(submitted) + 1].slot = s
          /\ \A k \in 1 .. Len(submitted) : submitted'[k] = submitted[k] /\ IsFrame(k)
          /\ \A k \in 1 .. Len(submitted') : k < Len(submitted') => submitted'[k].kind = "frame"
          /\ ~Marked' /\ Frames' = Frames + 1 /\ Frames = Len(submitted)
      BY <2>1, <2>3, <2>4, QueueGrows
    <2>6. Len(submitted) \in Nat
      BY DEF EncoderTypes
    <2>7. \A k \in 1 .. Len(submitted') : k = Len(submitted) + 1 \/ k \in 1 .. Len(submitted)
      BY <2>5, <2>6
    <2>8. /\ nvenc' \in [at : NvencPlaces, slot : Holder, failed : BOOLEAN, patience : Nat]
          /\ nvenc'.at = "run" /\ nvenc'.failed = nvenc.failed
      BY <2>1 DEF EncoderTypes, NvencPlaces, Holder
    <2> HIDE DEF s
    <2>9. EncoderTypes'
      BY <1>1, <2>1, <2>5, <2>8 DEF EncoderTypes
    <2>10. FreeIsFree' /\ Prefixed'
      BY <1>1 DEF FreeIsFree, Prefixed
    <2>11. QueueOwns'
      BY <1>1, <2>2, <2>5, <2>6, <2>7 DEF QueueOwns, IsFrame
    <2>12. ThreadOwns'
      BY <1>1, <2>2, <2>5, <2>7 DEF ThreadOwns, AtThread, IsFrame
    <2>13. WorkerOwns'
      BY <2>8 DEF WorkerOwns, AtWorker
    <2>14. MarksAreLast'
      BY <1>1, <2>4, <2>5 DEF MarksAreLast, IsFrame
    <2>15. Aligned'
      <3>1. Held' = Held /\ Coming = 1 /\ Coming' = 0 /\ (AtThread' <=> AtThread)
        BY <1>1, <2>8 DEF Held, Coming, AtThread
      <3>2. CASE thread.at # "error" /\ telemetry.errors = 0
        <4>1. /\ Len(order.submitted) = Len(order.written) + Held + Frames + 1
              /\ telemetry.completed = Len(order.written)
              /\ AtThread => thread.slot = order.submitted[Len(order.written) + 1]
              /\ \A k \in 1 .. Frames : submitted[k].slot = order.submitted[Len(order.written) + Held + k]
              /\ s = order.submitted[Len(order.submitted)]
          BY <1>1, <3>1, <3>2 DEF Aligned, s
        <4>2. Len(order.written) \in Nat /\ Held \in Nat
          BY DEF EncoderTypes, Held
        <4>4. Len(order.submitted) = Len(order.written) + Held + (Frames + 1)
          <5>1. Frames \in Nat
            BY <2>5, <2>6
          <5>2. ASSUME NEW w \in Nat, NEW h \in Nat, NEW f \in Nat
                PROVE  w + h + f + 1 = w + h + (f + 1)
            OBVIOUS
          <5> QED BY <4>1, <4>2, <5>1, <5>2
        <4>3. \A k \in 1 .. Frames + 1 :
                submitted'[k].slot = order.submitted[Len(order.written) + Held + k]
          <5>1. submitted'[Frames + 1].slot = order.submitted[Len(order.submitted)]
            BY <2>5, <2>6, <4>1
          <5>2. \A k \in 1 .. Frames : submitted'[k] = submitted[k]
            BY <2>5
          <5>3. SUFFICES ASSUME NEW k \in 1 .. Frames + 1
                         PROVE  submitted'[k].slot = order.submitted[Len(order.written) + Held + k]
            OBVIOUS
          <5>4. CASE k = Frames + 1
            BY <4>4, <5>1, <5>4
          <5>5. CASE k # Frames + 1
            <6>1. k \in 1 .. Frames
              BY <2>5, <2>6, <5>5
            <6> QED BY <4>1, <5>2, <6>1
          <5> QED BY <5>4, <5>5
        <4>5. nvenc'.at # "enqueue" /\ Len(order.written) + Held + (Frames + 1) + 0 = Len(order.submitted)
          BY <2>5, <2>6, <2>8, <4>2, <4>4
        <4> QED BY <1>1, <2>1, <2>5, <3>1, <4>1, <4>3, <4>5 DEF Aligned
      <3> QED BY <1>1, <2>1, <3>2 DEF Aligned
    <2>16. Blame' /\ Outcome'
      BY <1>1, <1>3, <2>1, <2>8 DEF Blame, Outcome
    <2> QED BY <2>9, <2>10, <2>11, <2>12, <2>13, <2>14, <2>15, <2>16
  <1> QED BY <1>2, <1>3
\* The worker drains the queue.
LEMMA QueueDrained ==
    ASSUME EncoderInvariant, Encoder!DrainBegins \/ Encoder!DrainEnds
    PROVE  EncoderInvariant'
  <1> USE DEF EncoderInvariant
  <1>1. CASE Encoder!DrainBegins
    <2>1. /\ UNCHANGED <<slots, hardware, mapped, thread, telemetry, abort, channel, encoder, order>>
          /\ nvenc.at = "run" /\ nvenc' = [nvenc EXCEPT !.at = "drain"]
          /\ submitted' = IF thread.at = "gone" THEN submitted
                          ELSE Append(submitted, [kind |-> "barrier", slot |-> "none"])
      BY <1>1 DEF Encoder!DrainBegins, Encoder!Goes, Encoder!Barrier, Encoder!None
    <2>2. /\ nvenc' \in [at : NvencPlaces, slot : Holder, failed : BOOLEAN, patience : Nat]
          /\ nvenc'.at = "drain" /\ nvenc'.failed = nvenc.failed
      BY <2>1 DEF EncoderTypes, NvencPlaces
    <2>3. ~Marked /\ thread.at \notin {"barrier", "eos"}
      BY <2>1 DEF MarksAreLast
    <2>4. /\ submitted' \in Seq(Command)
          /\ FreeIsFree' /\ QueueOwns' /\ ThreadOwns' /\ WorkerOwns' /\ MarksAreLast'
          /\ Aligned' /\ Prefixed'
      <3>1. CASE thread.at = "gone"
        <4>1. UNCHANGED submitted
          BY <2>1, <3>1
        <4>2. FreeIsFree' /\ QueueOwns' /\ ThreadOwns' /\ WorkerOwns' /\ Aligned' /\ Prefixed'
          BY <2>1, <2>2, <4>1, NothingMoves
        <4>3. MarksAreLast'
          BY <2>1, <2>2, <4>1 DEF MarksAreLast, Marked, IsFrame
        <4> QED BY <4>1, <4>2, <4>3 DEF EncoderTypes
      <3>2. CASE thread.at # "gone"
        <4>1. [kind |-> "barrier", slot |-> "none"] \in Command
          BY DEF Command, Holder
        <4> QED BY <2>1, <2>2, <2>3, <3>2, <4>1, MarkQueued
      <3> QED BY <3>1, <3>2
    <2>5. EncoderTypes'
      BY <2>1, <2>2, <2>4 DEF EncoderTypes
    <2>6. Blame' /\ Outcome'
      BY <2>1, <2>2 DEF Blame, Outcome
    <2> QED BY <2>4, <2>5, <2>6
  <1>2. CASE Encoder!DrainEnds
    <2>1. UNCHANGED <<slots, hardware, mapped, submitted, encoder, order>> /\ nvenc.at = "drain"
      BY <1>2 DEF Encoder!DrainEnds
    <2>2. /\ nvenc' \in [at : NvencPlaces, slot : Holder, failed : BOOLEAN, patience : Nat]
          /\ nvenc'.at \in {"run", "close"} /\ (nvenc.failed => nvenc'.failed)
          /\ nvenc'.at = "close" => nvenc'.failed
      <3>1. \/ nvenc' = [nvenc EXCEPT !.at = "run"]
            \/ nvenc' = [nvenc EXCEPT !.at = "close", !.slot = "none", !.failed = TRUE]
        BY <1>2 DEF Encoder!DrainEnds, Encoder!Goes, Encoder!GivesUp, Encoder!None
      <3>2. CASE nvenc' = [nvenc EXCEPT !.at = "run"]
        BY <3>2 DEF EncoderTypes, NvencPlaces
      <3>3. CASE nvenc' = [nvenc EXCEPT !.at = "close", !.slot = "none", !.failed = TRUE]
        BY <3>3 DEF EncoderTypes, NvencPlaces, Holder
      <3> QED BY <3>1, <3>2, <3>3
    <2>3. CASE /\ thread.at = "barrier" /\ thread' = [thread EXCEPT !.at = "receive"]
               /\ UNCHANGED <<abort, telemetry, channel>>
      <3>1. /\ thread' \in [at : ThreadPlaces, slot : Holder] /\ thread'.at = "receive"
        BY <2>3 DEF EncoderTypes, ThreadPlaces
      <3>2. FreeIsFree' /\ QueueOwns' /\ ThreadOwns' /\ WorkerOwns' /\ Aligned' /\ Prefixed'
        BY <2>1, <2>2, <2>3, <3>1, NothingMoves
      <3>3. MarksAreLast'
        BY <2>1, <2>3, <3>1 DEF MarksAreLast, Marked, IsFrame
      <3>4. EncoderTypes'
        BY <2>1, <2>2, <2>3, <3>1 DEF EncoderTypes
      <3>5. Blame' /\ Outcome'
        BY <2>1, <2>2, <2>3, <3>1 DEF Blame, Outcome
      <3> QED BY <3>2, <3>3, <3>4, <3>5
    <2>4. CASE /\ UNCHANGED thread /\ nvenc' = [nvenc EXCEPT !.at = "close", !.slot = "none", !.failed = TRUE]
               /\ abort' = TRUE /\ telemetry' = [telemetry EXCEPT !.abort = TRUE]
               /\ channel' = [channel EXCEPT !.cancelled = TRUE]
      <3>1. /\ telemetry' \in [errors : Nat, abort : BOOLEAN, completed : Nat]
            /\ telemetry'.errors = telemetry.errors /\ telemetry'.completed = telemetry.completed
            /\ telemetry'.abort
        BY <2>4 DEF EncoderTypes
      <3>2. /\ channel' \in [open : BOOLEAN, eos : BOOLEAN, ack : BOOLEAN, cancelled : BOOLEAN]
            /\ channel'.open = channel.open
        BY <2>4 DEF EncoderTypes
      <3>3. nvenc'.at = "close" /\ nvenc'.failed
        BY <2>4 DEF EncoderTypes
      <3>4. FreeIsFree' /\ QueueOwns' /\ ThreadOwns' /\ WorkerOwns' /\ Aligned' /\ Prefixed'
        BY <2>1, <2>4, <3>1, <3>3, NothingMoves
      <3>5. MarksAreLast'
        BY <2>1, <2>4, <3>3 DEF MarksAreLast, Marked, IsFrame
      <3>6. EncoderTypes'
        BY <2>1, <2>2, <2>4, <3>1, <3>2 DEF EncoderTypes
      <3>7. Blame' /\ Outcome'
        BY <2>1, <2>4, <3>1, <3>2, <3>3 DEF Blame, Outcome
      <3> QED BY <3>4, <3>5, <3>6, <3>7
    <2> QED BY <1>2, <2>3, <2>4
            DEF Encoder!DrainEnds, Encoder!ThreadGoes, Encoder!GivesUp, Encoder!None
  <1> QED BY <1>1, <1>2

\* A frame is encoded.
LEMMA FrameEncoded ==
    ASSUME EncoderInvariant, Encoder!Encoded
    PROVE  EncoderInvariant'
  <1> USE DEF EncoderInvariant
  <1>1. UNCHANGED <<slots, mapped, submitted, thread, telemetry, nvenc, abort, channel, encoder, order>>
    BY DEF Encoder!Encoded
  <1>2. /\ hardware' \in [slotSet -> {"idle", "encoding", "done"}]
        /\ \A s \in slotSet : hardware'[s] = hardware[s] \/ hardware'[s] = "done"
    BY DEF Encoder!Encoded, EncoderTypes
  <1>3. EncoderTypes'
    BY <1>1, <1>2 DEF EncoderTypes
  <1>4. FreeIsFree' /\ QueueOwns'
    BY <1>1, <1>2 DEF FreeIsFree, QueueOwns, IsFrame
  <1>5. ThreadOwns' /\ WorkerOwns'
    BY <1>1, <1>2 DEF ThreadOwns, WorkerOwns, AtThread, AtWorker, IsFrame
  <1>6. MarksAreLast' /\ Aligned' /\ Prefixed'
    BY <1>1 DEF MarksAreLast, Aligned, Prefixed, Held, Frames, Coming, AtThread, Marked, IsFrame
  <1>7. Blame' /\ Outcome'
    BY <1>1 DEF Blame, Outcome, Encoder!AllFree
  <1> QED BY <1>3, <1>4, <1>5, <1>6, <1>7

\* The thread takes what is first in the queue.
LEMMA ThreadReceives ==
    ASSUME EncoderInvariant, Encoder!Receive
    PROVE  EncoderInvariant'
  <1> USE DEF EncoderInvariant
  <1>1. /\ UNCHANGED <<slots, hardware, mapped, telemetry, nvenc, abort, channel, encoder, order>>
        /\ thread.at = "receive" /\ submitted # <<>> /\ submitted' = Tail(submitted)
        /\ thread' = [at |-> submitted[1].kind, slot |-> submitted[1].slot]
    BY DEF Encoder!Receive, EncoderTypes
  <1>2. submitted \in Seq(Command) /\ Len(submitted) \in Nat /\ Len(submitted) >= 1
    BY <1>1 DEF EncoderTypes
  <1>3. /\ submitted' \in Seq(Command) /\ Len(submitted') = Len(submitted) - 1
        /\ \A k \in 1 .. Len(submitted') : submitted'[k] = submitted[k + 1]
        /\ submitted[1] \in Command
    BY <1>1, <1>2
  <1>4. /\ thread' \in [at : ThreadPlaces, slot : Holder] /\ thread'.at \in {"frame", "barrier", "eos"}
        /\ (thread'.at = "frame" <=> IsFrame(1)) /\ thread'.slot = submitted[1].slot
    BY <1>1, <1>3 DEF Command, ThreadPlaces, IsFrame
  <1>5. EncoderTypes'
    BY <1>1, <1>3, <1>4 DEF EncoderTypes
  <1>6. FreeIsFree' /\ Prefixed'
    BY <1>1 DEF FreeIsFree, Prefixed
  <1>7. \A k \in 1 .. Len(submitted') : k + 1 \in 1 .. Len(submitted) /\ k + 1 # 1
                                       /\ (submitted'[k].kind = "frame" <=> IsFrame(k + 1))
    BY <1>2, <1>3 DEF IsFrame
  <1>8. QueueOwns'
    <2>1. \A k \in 1 .. Len(submitted') : submitted'[k].kind = "frame" =>
            submitted'[k].slot \in slotSet /\ slots[submitted'[k].slot] = "submitted"
      BY <1>3, <1>7 DEF QueueOwns
    <2>2. ASSUME NEW j \in 1 .. Len(submitted'), NEW k \in 1 .. Len(submitted'),
                 submitted'[j].kind = "frame", submitted'[k].kind = "frame",
                 submitted'[j].slot = submitted'[k].slot
          PROVE  j = k
      <3>1. j + 1 = k + 1
        BY <1>3, <1>7, <2>2 DEF QueueOwns
      <3> QED BY <3>1
    <2> QED BY <1>1, <2>1, <2>2 DEF QueueOwns, IsFrame
  <1>9. thread'.at = "frame" =>
            /\ thread'.slot \in slotSet /\ slots[thread'.slot] = "submitted"
            /\ \A k \in 1 .. Len(submitted') : submitted'[k].kind = "frame" => submitted'[k].slot # thread'.slot
    <2>1. 1 \in 1 .. Len(submitted)
      BY <1>2
    <2> QED BY <1>3, <1>4, <1>7, <2>1 DEF QueueOwns
  <1>10. ThreadOwns'
    BY <1>1, <1>4, <1>9 DEF ThreadOwns, AtThread, IsFrame
  <1>11. WorkerOwns'
    <2>1. nvenc.at \in {"submit", "enqueue"} =>
            \A k \in 1 .. Len(submitted) : IsFrame(k) => submitted[k].slot # nvenc.slot
      BY DEF WorkerOwns, AtWorker
    <2>2. 1 \in 1 .. Len(submitted)
      BY <1>2
    <2>3. nvenc.at \in {"submit", "enqueue"} =>
            /\ thread'.at = "frame" => thread'.slot # nvenc.slot
            /\ \A k \in 1 .. Len(submitted') : submitted'[k].kind = "frame" => submitted'[k].slot # nvenc.slot
      BY <1>3, <1>4, <1>7, <2>1, <2>2
    <2> QED BY <1>1, <1>4, <2>3 DEF WorkerOwns, AtWorker, AtThread, IsFrame
  <1>12. IsFrame(1) \/ (Len(submitted) = 1 /\ Marked)
    <2>1. ~IsFrame(1) => ~(1 < Len(submitted))
      <3>1. 1 \in 1 .. Len(submitted)
        BY <1>2
      <3>2. \A k \in 1 .. Len(submitted) : k < Len(submitted) => IsFrame(k)
        BY DEF MarksAreLast
      <3> QED BY <3>1, <3>2
    <2>2. CASE ~IsFrame(1)
      <3>1. ~(1 < Len(submitted))
        BY <2>1, <2>2
      <3>2. Len(submitted) = 1
        <4>1. ASSUME NEW n \in Nat, n >= 1, ~(1 < n) PROVE n = 1
          BY <4>1
        <4> QED BY <1>2, <3>1, <4>1
      <3> QED BY <1>1, <2>2, <3>2 DEF Marked, IsFrame
    <2> QED BY <2>2
  <1>13. Marked' => Marked
    <2>1. Len(submitted') \in Nat
      BY <1>2, <1>3
    <2>2. submitted' # <<>> => Len(submitted') \in 1 .. Len(submitted') /\ Len(submitted') + 1 = Len(submitted)
      BY <1>2, <1>3, <2>1
    <2> QED BY <1>1, <1>7, <2>2 DEF Marked, IsFrame
  <1>14. Marked /\ IsFrame(1) => Marked'
    <2>1. Marked /\ IsFrame(1) => Len(submitted) # 1
      BY DEF Marked
    <2>2. Len(submitted) # 1 => submitted' # <<>> /\ Len(submitted') \in 1 .. Len(submitted')
                                /\ Len(submitted') + 1 = Len(submitted)
      BY <1>2, <1>3
    <2> QED BY <1>7, <2>1, <2>2 DEF Marked, IsFrame
  <1>15. MarksAreLast'
    <2>1. \A k \in 1 .. Len(submitted') : k < Len(submitted') => submitted'[k].kind = "frame"
      <3>1. \A k \in 1 .. Len(submitted') : k < Len(submitted') => k + 1 < Len(submitted)
        BY <1>2, <1>3
      <3> QED BY <1>7, <3>1 DEF MarksAreLast
    <2>2. thread'.at \in {"barrier", "eos"} => submitted' = <<>> /\ Marked
      BY <1>2, <1>3, <1>4, <1>12
    <2> QED BY <1>1, <1>13, <2>1, <2>2 DEF MarksAreLast, IsFrame
  <1>16. Aligned'
    <2>1. Held = 0 /\ Held' = (IF IsFrame(1) THEN 1 ELSE 0) /\ Coming' = Coming /\ (AtThread' <=> IsFrame(1))
      BY <1>1, <1>4 DEF Held, AtThread, Coming
    <2>2. IsFrame(1) => Frames' = Frames - 1
      BY <1>2, <1>3, <1>13, <1>14 DEF Frames
    <2>3. ~IsFrame(1) => Frames' = 0 /\ Frames = 0
      <3>1. CASE ~IsFrame(1)
        <4>1. submitted' = <<>>
          BY <1>2, <1>3, <1>12, <3>1
        <4>2. ~Marked'
          BY <4>1 DEF Marked
        <4> QED BY <1>2, <1>3, <1>12, <3>1, <4>2 DEF Frames
      <3> QED BY <3>1
    <2>4. Frames \in Nat /\ (IsFrame(1) => Frames >= 1)
      <3>1. Marked /\ IsFrame(1) => Len(submitted) # 1
        BY DEF Marked
      <3>2. CASE Marked
        <4>1. Frames = Len(submitted) - 1
          BY <3>2 DEF Frames
        <4> QED BY <1>2, <3>1, <3>2, <4>1
      <3>3. CASE ~Marked
        <4>1. Frames = Len(submitted)
          BY <3>3 DEF Frames
        <4> QED BY <1>2, <4>1
      <3> QED BY <3>2, <3>3
    <2>5. CASE telemetry.errors = 0
      <3>1. /\ Len(order.submitted) = Len(order.written) + 0 + Frames + Coming
            /\ telemetry.completed = Len(order.written)
            /\ \A k \in 1 .. Frames : submitted[k].slot = order.submitted[Len(order.written) + 0 + k]
            /\ nvenc.at = "enqueue" => nvenc.slot = order.submitted[Len(order.submitted)]
        BY <1>1, <2>1, <2>5 DEF Aligned
      <3>2. Len(order.written) \in Nat /\ Coming \in Nat
        BY DEF EncoderTypes, Coming
      <3>3. ASSUME NEW w \in Nat, NEW f \in Nat, NEW c \in Nat
            PROVE  w + 0 + f + c = w + f + c /\ w + 1 + (f - 1) + c = w + f + c
        OBVIOUS
      <3>4. Len(order.submitted) = Len(order.written) + Held' + Frames' + Coming
        <4>1. CASE IsFrame(1)
          <5>1. Held' = 1 /\ Frames' = Frames - 1
            BY <2>1, <2>2, <4>1
          <5> QED BY <2>4, <3>1, <3>2, <3>3, <5>1
        <4>2. CASE ~IsFrame(1)
          <5>1. Held' = 0 /\ Frames' = 0 /\ Frames = 0
            BY <2>1, <2>3, <4>2
          <5> QED BY <3>1, <5>1
        <4> QED BY <4>1, <4>2
      <3>5. IsFrame(1) => submitted[1].slot = order.submitted[Len(order.written) + 1]
        <4>1. CASE IsFrame(1)
          <5>1. 1 \in 1 .. Frames
            BY <2>4, <4>1
          <5>2. submitted[1].slot = order.submitted[Len(order.written) + 0 + 1]
            BY <3>1, <5>1
          <5>3. Len(order.written) + 0 + 1 = Len(order.written) + 1
            BY <3>2
          <5> QED BY <5>2, <5>3
        <4> QED BY <4>1
      <3>6. ASSUME NEW k \in 1 .. Frames'
            PROVE  submitted'[k].slot = order.submitted[Len(order.written) + Held' + k]
        <4>1. IsFrame(1)
          BY <2>3, <3>6
        <4>2. k \in Nat /\ k + 1 \in 1 .. Frames /\ Held' = 1
          BY <2>1, <2>2, <2>4, <4>1
        <4>3. submitted[k + 1].slot = order.submitted[Len(order.written) + 0 + (k + 1)]
          BY <3>1, <4>2
        <4>4. ASSUME NEW w \in Nat, NEW n \in Nat PROVE w + 0 + (n + 1) = w + 1 + n
          OBVIOUS
        <4>5. k \in 1 .. Len(submitted')
          BY <1>2, <1>3, <2>2, <4>1, <4>2 DEF Frames
        <4> QED BY <1>3, <3>2, <4>2, <4>3, <4>4, <4>5
      <3> QED BY <1>1, <1>4, <2>1, <3>1, <3>4, <3>5, <3>6 DEF Aligned
    <2> QED BY <1>1, <2>5 DEF Aligned
  <1>17. Blame' /\ Outcome'
    BY <1>1, <1>4 DEF Blame, Outcome, Encoder!AllFree
  <1> QED BY <1>5, <1>6, <1>8, <1>10, <1>11, <1>15, <1>16, <1>17
\* The thread stops waiting: for an answer nobody hears, for a frame, for the driver, for
\* the end of the stream or for another command.
LEMMA ThreadWaits ==
    ASSUME EncoderInvariant,
           \/ Encoder!BarrierUnheard \/ Encoder!FrameLate \/ Encoder!DriverFails
           \/ Encoder!EosDone \/ Encoder!Flush
    PROVE  EncoderInvariant'
  <1> USE DEF EncoderInvariant
  <1>1. UNCHANGED <<slots, hardware, mapped, submitted, telemetry, nvenc, abort, encoder, order>>
    BY DEF Encoder!BarrierUnheard, Encoder!FrameLate, Encoder!DriverFails, Encoder!EosDone,
           Encoder!Flush
  <1>2. /\ channel' \in [open : BOOLEAN, eos : BOOLEAN, ack : BOOLEAN, cancelled : BOOLEAN]
        /\ channel'.open = channel.open
    <2>1. UNCHANGED channel \/ channel' = [channel EXCEPT !.ack = TRUE]
      BY DEF Encoder!BarrierUnheard, Encoder!FrameLate, Encoder!DriverFails, Encoder!EosDone,
             Encoder!Flush
    <2> QED BY <2>1 DEF EncoderTypes
  <1>3. /\ thread.at \notin {"error", "gone"}
        /\ \/ thread' = [thread EXCEPT !.at = "error"]
           \/ thread.at \notin {"frame", "write"} /\ thread' = [thread EXCEPT !.at = "receive"]
           \/ /\ thread.at = "receive" /\ thread' = [at |-> "gone", slot |-> "none"]
              /\ submitted = <<>> /\ ~channel.open
    BY DEF Encoder!BarrierUnheard, Encoder!FrameLate, Encoder!DriverFails, Encoder!EosDone,
           Encoder!Flush, Encoder!ThreadGoes, Encoder!None
  <1>4. /\ thread' \in [at : ThreadPlaces, slot : Holder] /\ thread'.at \in {"error", "receive", "gone"}
        /\ thread.at \in {"frame", "write"} => thread'.at = "error"
        /\ thread'.at = "gone" => submitted = <<>> /\ ~channel.open
    <2>1. CASE thread' = [thread EXCEPT !.at = "error"]
      BY <2>1 DEF EncoderTypes, ThreadPlaces
    <2>2. CASE thread.at \notin {"frame", "write"} /\ thread' = [thread EXCEPT !.at = "receive"]
      BY <2>2 DEF EncoderTypes, ThreadPlaces
    <2>3. CASE /\ thread.at = "receive" /\ thread' = [at |-> "gone", slot |-> "none"]
               /\ submitted = <<>> /\ ~channel.open
      BY <2>3 DEF ThreadPlaces, Holder
    <2> QED BY <1>3, <2>1, <2>2, <2>3
  <1>5. FreeIsFree' /\ QueueOwns' /\ ThreadOwns' /\ WorkerOwns' /\ Aligned' /\ Prefixed'
    BY <1>1, <1>3, <1>4, NothingMoves
  <1>6. EncoderTypes'
    BY <1>1, <1>2, <1>4 DEF EncoderTypes
  <1>7. MarksAreLast'
    BY <1>1, <1>4 DEF MarksAreLast, Marked, IsFrame
  <1>8. Blame'
    BY <1>1, <1>2, <1>3, <1>4 DEF Blame
  <1>9. Outcome'
    BY <1>1, <1>3 DEF Outcome, Encoder!AllFree
  <1> QED BY <1>5, <1>6, <1>7, <1>8, <1>9

\* The thread sees that its frame is encoded.
LEMMA FrameSeen ==
    ASSUME EncoderInvariant, Encoder!FrameDone
    PROVE  EncoderInvariant'
  <1> USE DEF EncoderInvariant
  <1> DEFINE s == thread.slot
  <1>1. /\ UNCHANGED <<slots, mapped, submitted, telemetry, nvenc, abort, channel, encoder, order>>
        /\ thread.at = "frame" /\ thread' = [thread EXCEPT !.at = "write"]
        /\ hardware' = [hardware EXCEPT ![s] = "idle"]
    BY DEF Encoder!FrameDone, Encoder!ThreadGoes
  <1>2. /\ thread' \in [at : ThreadPlaces, slot : Holder] /\ thread'.at = "write" /\ thread'.slot = s
    BY <1>1 DEF EncoderTypes, ThreadPlaces
  <1>3. s \in slotSet
    BY <1>1 DEF ThreadOwns, AtThread
  <1>4. /\ hardware' \in [slotSet -> {"idle", "encoding", "done"}] /\ hardware'[s] = "idle"
        /\ \A i \in slotSet : hardware'[i] = hardware[i] \/ hardware'[i] = "idle"
    BY <1>1, <1>3 DEF EncoderTypes
  <1>5. EncoderTypes'
    BY <1>1, <1>2, <1>4 DEF EncoderTypes
  <1>6. FreeIsFree' /\ QueueOwns'
    BY <1>1, <1>4 DEF FreeIsFree, QueueOwns, IsFrame
  <1>7. ThreadOwns'
    BY <1>1, <1>2, <1>4 DEF ThreadOwns, AtThread, IsFrame
  <1>8. WorkerOwns'
    BY <1>1, <1>2, <1>4 DEF WorkerOwns, AtThread, AtWorker, IsFrame
  <1>9. MarksAreLast' /\ Prefixed'
    BY <1>1, <1>2 DEF MarksAreLast, Prefixed, Marked, IsFrame
  <1>10. Aligned'
    <2>1. AtThread /\ AtThread' /\ Held' = Held /\ Frames' = Frames /\ Coming' = Coming
      BY <1>1, <1>2 DEF AtThread, Held, Frames, Coming, Marked, IsFrame
    <2> QED BY <1>1, <1>2, <2>1 DEF Aligned
  <1>11. Blame' /\ Outcome'
    BY <1>1, <1>2 DEF Blame, Outcome, Encoder!AllFree
  <1> QED BY <1>5, <1>6, <1>7, <1>8, <1>9, <1>10, <1>11

\* A count of the telemetry changes, and a list grows by its last element.
LEMMA CountsKeep ==
    ASSUME NEW t \in [errors : Nat, abort : BOOLEAN, completed : Nat], NEW n \in Nat, NEW u
    PROVE  /\ u = [t EXCEPT !.completed = n] =>
                /\ u \in [errors : Nat, abort : BOOLEAN, completed : Nat]
                /\ u.errors = t.errors /\ u.abort = t.abort /\ u.completed = n
           /\ u = [t EXCEPT !.errors = n, !.abort = TRUE] =>
                /\ u \in [errors : Nat, abort : BOOLEAN, completed : Nat]
                /\ u.errors = n /\ u.abort = TRUE
  OBVIOUS

LEMMA LastIsNew ==
    ASSUME NEW S, NEW q \in Seq(S), NEW x \in S
    PROVE  /\ Append(q, x) \in Seq(S) /\ Len(Append(q, x)) = Len(q) + 1
           /\ Append(q, x)[Len(q) + 1] = x
           /\ \A k \in 1 .. Len(q) : Append(q, x)[k] = q[k]
  OBVIOUS

\* The output of the frame is written and its slot is free again.
LEMMA FrameWritten ==
    ASSUME EncoderInvariant, Encoder!Written
    PROVE  EncoderInvariant'
  <1> USE DEF EncoderInvariant
  <1> DEFINE s == thread.slot
  <1>1. /\ UNCHANGED <<hardware, submitted, nvenc, abort, channel, encoder>> /\ thread.at = "write"
        /\ mapped' = mapped \ {s} /\ slots' = [slots EXCEPT ![s] = "free"]
        /\ telemetry' = [telemetry EXCEPT !.completed = telemetry.completed + 1]
        /\ \/ thread' = [thread EXCEPT !.at = "receive"]
              /\ order' = [order EXCEPT !.written = Append(order.written, s)]
           \/ thread' = [thread EXCEPT !.at = "error"] /\ UNCHANGED order
    BY DEF Encoder!Written, Encoder!ThreadGoes
  <1>2. /\ s \in slotSet /\ slots[s] = "submitted" /\ hardware[s] # "encoding" /\ AtThread /\ Held = 1
        /\ \A k \in 1 .. Len(submitted) : IsFrame(k) => submitted[k].slot # s
        /\ AtWorker => nvenc.slot # s
    BY <1>1 DEF ThreadOwns, WorkerOwns, AtThread, Held
  <1>3. /\ thread' \in [at : ThreadPlaces, slot : Holder] /\ thread'.at \in {"receive", "error"}
        /\ thread'.at = "receive" => order' = [order EXCEPT !.written = Append(order.written, s)]
        /\ thread'.at = "error" => UNCHANGED order
    <2>1. CASE /\ thread' = [thread EXCEPT !.at = "receive"]
               /\ order' = [order EXCEPT !.written = Append(order.written, s)]
      BY <2>1 DEF EncoderTypes, ThreadPlaces
    <2>2. CASE thread' = [thread EXCEPT !.at = "error"] /\ UNCHANGED order
      BY <2>2 DEF EncoderTypes, ThreadPlaces
    <2> QED BY <1>1, <2>1, <2>2
  <1>4. /\ telemetry' \in [errors : Nat, abort : BOOLEAN, completed : Nat]
        /\ telemetry'.errors = telemetry.errors /\ telemetry'.abort = telemetry.abort
        /\ telemetry'.completed = telemetry.completed + 1
    <2>1. telemetry \in [errors : Nat, abort : BOOLEAN, completed : Nat]
      BY DEF EncoderTypes
    <2>2. telemetry.completed + 1 \in Nat
      BY <2>1
    <2> QED BY <1>1, <2>1, <2>2, CountsKeep
  <1>5. /\ slots' \in [slotSet -> {"free", "converted", "submitted"}] /\ slots'[s] = "free"
        /\ \A i \in slotSet \ {s} : slots'[i] = slots[i]
    BY <1>1, <1>2 DEF EncoderTypes
  <1>6. mapped' \subseteq slotSet /\ s \notin mapped' /\ mapped' \subseteq mapped
    BY <1>1 DEF EncoderTypes
  <1>7. telemetry.errors = 0
    BY <1>1 DEF Blame, EncoderTypes
  <1>8. /\ order.submitted \in Seq(slotSet) /\ order.written \in Seq(slotSet)
        /\ Len(order.submitted) \in Nat /\ Len(order.written) \in Nat
    BY DEF EncoderTypes
  <1>9. thread'.at = "receive" =>
          /\ order' \in [submitted : Seq(slotSet), written : Seq(slotSet)]
          /\ order'.submitted = order.submitted /\ order'.written = Append(order.written, s)
    <2> DEFINE w == Append(order.written, s)
    <2>1. w \in Seq(slotSet)
      BY <1>2, <1>8, LastIsNew
    <2>2. order \in [submitted : Seq(slotSet), written : Seq(slotSet)]
      BY DEF EncoderTypes
    <2>3. thread'.at = "receive" => order' = [order EXCEPT !.written = w]
      BY <1>3
    <2> HIDE DEF w
    <2>4. thread'.at = "receive" =>
            /\ order' \in [submitted : Seq(slotSet), written : Seq(slotSet)]
            /\ order'.submitted = order.submitted /\ order'.written = w
      BY <2>1, <2>2, <2>3
    <2> QED BY <2>4 DEF w
  <1>10. thread'.at = "receive" =>
          /\ Len(order'.written) = Len(order.written) + 1
          /\ order'.written[Len(order.written) + 1] = s
          /\ \A k \in 1 .. Len(order.written) : order'.written[k] = order.written[k]
    <2>1. /\ Len(Append(order.written, s)) = Len(order.written) + 1
          /\ Append(order.written, s)[Len(order.written) + 1] = s
          /\ \A k \in 1 .. Len(order.written) : Append(order.written, s)[k] = order.written[k]
      BY <1>2, <1>8, LastIsNew
    <2>2. thread'.at = "receive" => order'.written = Append(order.written, s)
      BY <1>9
    <2> QED BY <2>1, <2>2
  <1> HIDE DEF s
  <1>11. EncoderTypes'
    BY <1>1, <1>3, <1>4, <1>5, <1>6, <1>9 DEF EncoderTypes
  <1>12. FreeIsFree'
    BY <1>1, <1>2, <1>5, <1>6 DEF FreeIsFree
  <1>13. QueueOwns'
    BY <1>1, <1>2, <1>5 DEF QueueOwns, IsFrame
  <1>14. ThreadOwns'
    BY <1>3 DEF ThreadOwns, AtThread
  <1>15. WorkerOwns'
    <2>1. nvenc.at = "converted" => nvenc.slot # s
      BY <1>2 DEF WorkerOwns
    <2> QED BY <1>1, <1>2, <1>3, <1>5, <2>1 DEF WorkerOwns, AtWorker, AtThread, IsFrame
  <1>16. MarksAreLast'
    BY <1>1, <1>3 DEF MarksAreLast, Marked, IsFrame
  <1>17. /\ Frames' = Frames /\ Coming' = Coming /\ Held' = 0 /\ ~AtThread'
         /\ Frames \in Nat /\ Coming \in Nat
    <2>1. ~AtThread'
      BY <1>3 DEF AtThread
    <2>2. Frames \in Nat
      <3>1. submitted \in Seq(Command)
        BY DEF EncoderTypes
      <3>2. Marked => Len(submitted) # 0
        BY <3>1 DEF Marked
      <3>3. Len(submitted) \in Nat
        BY <3>1
      <3> QED BY <3>2, <3>3 DEF Frames
    <2> QED BY <1>1, <2>1, <2>2 DEF Frames, Coming, Held, Marked, IsFrame
  <1>18. /\ Len(order.submitted) = Len(order.written) + 1 + Frames + Coming
         /\ telemetry.completed = Len(order.written)
         /\ s = order.submitted[Len(order.written) + 1]
         /\ \A k \in 1 .. Frames : submitted[k].slot = order.submitted[Len(order.written) + 1 + k]
         /\ nvenc.at = "enqueue" => nvenc.slot = order.submitted[Len(order.submitted)]
    BY <1>1, <1>2, <1>7 DEF Aligned, s
  <1>19. Len(order.written) + 1 <= Len(order.submitted)
    <2>1. ASSUME NEW w \in Nat, NEW f \in Nat, NEW c \in Nat PROVE w + 1 <= w + 1 + f + c
      OBVIOUS
    <2> QED BY <1>8, <1>17, <1>18, <2>1
  <1>20. Prefixed'
    <2>1. CASE thread'.at = "receive"
      <3>1. ASSUME NEW k \in 1 .. Len(order'.written)
            PROVE  order'.written[k] = order'.submitted[k]
        <4>1. CASE k = Len(order.written) + 1
          BY <1>9, <1>10, <1>18, <2>1, <4>1
        <4>2. CASE k # Len(order.written) + 1
          <5>1. k \in 1 .. Len(order.written)
            BY <1>8, <1>10, <2>1, <4>2
          <5> QED BY <1>9, <1>10, <2>1, <5>1 DEF Prefixed
        <4> QED BY <4>1, <4>2
      <3> QED BY <1>9, <1>10, <1>19, <2>1, <3>1 DEF Prefixed
    <2>2. CASE thread'.at = "error"
      BY <1>3, <2>2 DEF Prefixed
    <2> QED BY <1>3, <2>1, <2>2
  <1>21. Aligned'
    <2>1. CASE thread'.at = "receive"
      <3>1. ASSUME NEW w \in Nat, NEW f \in Nat, NEW c \in Nat
            PROVE  w + 1 + f + c = (w + 1) + 0 + f + c /\ w + 1 + f = (w + 1) + 0 + f
        OBVIOUS
      <3>2. Len(order.submitted) = (Len(order.written) + 1) + 0 + Frames + Coming
        BY <1>8, <1>17, <1>18, <3>1
      <3>3. ASSUME NEW k \in 1 .. Frames
            PROVE  submitted[k].slot = order.submitted[(Len(order.written) + 1) + 0 + k]
        <4>1. k \in Nat
          BY <1>17
        <4>2. (Len(order.written) + 1) + 0 + k = Len(order.written) + 1 + k
          BY <1>8, <4>1
        <4> QED BY <1>18, <4>2
      <3> QED BY <1>1, <1>4, <1>9, <1>10, <1>17, <1>18, <2>1, <3>2, <3>3 DEF Aligned
    <2>2. CASE thread'.at = "error"
      BY <2>2 DEF Aligned
    <2> QED BY <1>3, <2>1, <2>2
  <1>22. Blame'
    BY <1>1, <1>3, <1>4, <1>7 DEF Blame
  <1>23. Outcome'
    <2>1. Encoder!AllFree => Encoder!AllFree'
      BY <1>5 DEF Encoder!AllFree
    <2> QED BY <1>1, <1>3, <1>4, <2>1 DEF Outcome
  <1> QED BY <1>11, <1>12, <1>13, <1>14, <1>15, <1>16, <1>20, <1>21, <1>22, <1>23

\* The thread records its error and ends; what was queued is dropped.
LEMMA ErrorRecorded ==
    ASSUME EncoderInvariant, Encoder!RecordError
    PROVE  EncoderInvariant'
  <1> USE DEF EncoderInvariant
  <1>1. /\ UNCHANGED <<slots, hardware, mapped, nvenc, abort, channel, encoder, order>>
        /\ thread.at = "error" /\ thread' = [at |-> "gone", slot |-> "none"] /\ submitted' = <<>>
        /\ telemetry' = [telemetry EXCEPT !.errors = telemetry.errors + 1, !.abort = TRUE]
    BY DEF Encoder!RecordError, Encoder!None
  <1>2. /\ telemetry' \in [errors : Nat, abort : BOOLEAN, completed : Nat]
        /\ telemetry'.errors > 0 /\ telemetry'.errors # 0 /\ telemetry'.abort
    <2>1. telemetry \in [errors : Nat, abort : BOOLEAN, completed : Nat]
      BY DEF EncoderTypes
    <2>2. telemetry.errors + 1 \in Nat /\ telemetry.errors + 1 > 0 /\ telemetry.errors + 1 # 0
      BY <2>1
    <2> QED BY <1>1, <2>1, <2>2, CountsKeep
  <1>3. /\ thread' \in [at : ThreadPlaces, slot : Holder] /\ thread'.at = "gone"
    BY <1>1 DEF ThreadPlaces, Holder
  <1>4. EncoderTypes'
    BY <1>1, <1>2, <1>3 DEF EncoderTypes
  <1>5. FreeIsFree' /\ Prefixed'
    BY <1>1 DEF FreeIsFree, Prefixed
  <1>6. QueueOwns' /\ ThreadOwns' /\ MarksAreLast'
    BY <1>1, <1>3 DEF QueueOwns, ThreadOwns, MarksAreLast, AtThread, Marked
  <1>7. WorkerOwns'
    BY <1>1, <1>3 DEF WorkerOwns, AtThread, AtWorker
  <1>8. Aligned' /\ Blame'
    BY <1>1, <1>2, <1>3 DEF Aligned, Blame
  <1>9. Outcome'
    BY <1>1, <1>2, <1>3 DEF Outcome
  <1> QED BY <1>4, <1>5, <1>6, <1>7, <1>8, <1>9
\* The encoder is closed: the end of the stream, the sender, and the thread.
LEMMA EosQueued ==
    ASSUME EncoderInvariant, Encoder!SubmitEos
    PROVE  EncoderInvariant'
  <1> USE DEF EncoderInvariant
  <1>1. /\ UNCHANGED <<slots, hardware, mapped, thread, telemetry, channel, encoder, order>>
        /\ nvenc.at = "close" /\ ~abort /\ telemetry.errors = 0 /\ ~telemetry.abort
    BY DEF Encoder!SubmitEos, Encoder!Healthy
  <1>2. ~Marked /\ thread.at \notin {"barrier", "eos"}
    BY <1>1 DEF MarksAreLast
  <1>3. CASE /\ thread.at # "gone" /\ submitted' = Append(submitted, [kind |-> "eos", slot |-> "none"])
             /\ nvenc' = [nvenc EXCEPT !.at = "eos"] /\ UNCHANGED abort
    <2>1. /\ nvenc' \in [at : NvencPlaces, slot : Holder, failed : BOOLEAN, patience : Nat]
          /\ nvenc'.at = "eos" /\ nvenc'.failed = nvenc.failed
      BY <1>3 DEF EncoderTypes, NvencPlaces
    <2>2. [kind |-> "eos", slot |-> "none"] \in Command
      BY DEF Command, Holder
    <2>3. /\ submitted' \in Seq(Command)
          /\ FreeIsFree' /\ QueueOwns' /\ ThreadOwns' /\ WorkerOwns' /\ MarksAreLast'
          /\ Aligned' /\ Prefixed'
      BY <1>1, <1>2, <1>3, <2>1, <2>2, MarkQueued
    <2>4. EncoderTypes'
      BY <1>1, <1>3, <2>1, <2>3 DEF EncoderTypes
    <2>5. Blame' /\ Outcome'
      BY <1>1, <1>3, <2>1 DEF Blame, Outcome
    <2> QED BY <2>3, <2>4, <2>5
  <1>4. CASE /\ abort' = TRUE /\ UNCHANGED submitted
             /\ nvenc' = [nvenc EXCEPT !.at = "stop", !.failed = TRUE]
    <2>1. /\ nvenc' \in [at : NvencPlaces, slot : Holder, failed : BOOLEAN, patience : Nat]
          /\ nvenc'.at = "stop" /\ nvenc'.failed
      BY <1>4 DEF EncoderTypes, NvencPlaces
    <2>2. FreeIsFree' /\ QueueOwns' /\ ThreadOwns' /\ WorkerOwns' /\ Aligned' /\ Prefixed'
      BY <1>1, <1>4, <2>1, NothingMoves
    <2>3. EncoderTypes'
      BY <1>1, <1>4, <2>1 DEF EncoderTypes
    <2>4. MarksAreLast'
      BY <1>1, <1>2, <1>4 DEF MarksAreLast, Marked, IsFrame
    <2>5. Blame' /\ Outcome'
      BY <1>1, <1>4, <2>1 DEF Blame, Outcome
    <2> QED BY <2>2, <2>3, <2>4, <2>5
  <1> QED BY <1>3, <1>4
          DEF Encoder!SubmitEos, Encoder!Eos, Encoder!None, Encoder!Goes, Encoder!Aborts

LEMMA CloseGoesOn ==
    ASSUME EncoderInvariant, Encoder!Finish \/ Encoder!SkipEos \/ Encoder!EosEnds
    PROVE  EncoderInvariant'
  <1> USE DEF EncoderInvariant
  <1>1. /\ UNCHANGED <<slots, hardware, mapped, submitted, thread, telemetry, channel, encoder, order>>
        /\ \/ nvenc.at = "run" /\ nvenc' = [nvenc EXCEPT !.at = "close"] /\ UNCHANGED abort
           \/ /\ nvenc.at = "close" /\ nvenc' = [nvenc EXCEPT !.at = "stop"] /\ UNCHANGED abort
              /\ abort \/ telemetry.errors # 0 \/ telemetry.abort
           \/ /\ nvenc.at = "eos" /\ nvenc' = [nvenc EXCEPT !.at = "stop"] /\ UNCHANGED abort
              /\ Encoder!AllFree
           \/ /\ nvenc.at = "eos" /\ nvenc' = [nvenc EXCEPT !.at = "stop", !.failed = TRUE]
              /\ abort' = TRUE
    BY DEF Encoder!Finish, Encoder!SkipEos, Encoder!EosEnds, Encoder!Goes, Encoder!Aborts,
           Encoder!Healthy
  <1>2. /\ nvenc' \in [at : NvencPlaces, slot : Holder, failed : BOOLEAN, patience : Nat]
        /\ nvenc.at \in {"run", "close", "eos"} /\ nvenc'.at \in {"close", "stop"}
        /\ nvenc.at = "run" <=> nvenc'.at = "close"
        /\ nvenc.failed => nvenc'.failed
        /\ abort' \in BOOLEAN /\ (abort => abort') /\ (abort' => abort \/ nvenc'.failed)
        /\ nvenc'.at = "stop" /\ ~abort' =>
              Encoder!AllFree \/ telemetry.errors # 0 \/ telemetry.abort
    <2>1. CASE UNCHANGED abort /\ nvenc' = [nvenc EXCEPT !.at = "close"] /\ nvenc.at = "run"
      BY <2>1 DEF EncoderTypes, NvencPlaces
    <2>2. CASE /\ UNCHANGED abort /\ nvenc' = [nvenc EXCEPT !.at = "stop"] /\ nvenc.at \in {"close", "eos"}
               /\ Encoder!AllFree \/ abort \/ telemetry.errors # 0 \/ telemetry.abort
      BY <2>2 DEF EncoderTypes, NvencPlaces
    <2>3. CASE /\ nvenc.at = "eos" /\ nvenc' = [nvenc EXCEPT !.at = "stop", !.failed = TRUE]
               /\ abort' = TRUE
      BY <2>3 DEF EncoderTypes, NvencPlaces
    <2> QED BY <1>1, <2>1, <2>2, <2>3
  <1>3. FreeIsFree' /\ QueueOwns' /\ ThreadOwns' /\ WorkerOwns' /\ Aligned' /\ Prefixed'
    BY <1>1, <1>2, NothingMoves
  <1>4. EncoderTypes'
    BY <1>1, <1>2 DEF EncoderTypes
  <1>5. MarksAreLast'
    BY <1>1, <1>2 DEF MarksAreLast, Marked, IsFrame
  <1>6. Blame'
    BY <1>1, <1>2 DEF Blame
  <1>7. Outcome'
    <2>1. telemetry.errors # 0 => telemetry.abort
      BY DEF Blame, EncoderTypes
    <2> QED BY <1>1, <1>2, <2>1 DEF Outcome, Encoder!AllFree
  <1> QED BY <1>3, <1>4, <1>5, <1>6, <1>7

LEMMA SenderDropped ==
    ASSUME EncoderInvariant, Encoder!DropSender
    PROVE  EncoderInvariant'
  <1> USE DEF EncoderInvariant
  <1>1. /\ UNCHANGED <<slots, hardware, mapped, submitted, thread, encoder, order>>
        /\ nvenc.at = "stop" /\ nvenc' = [nvenc EXCEPT !.at = "join"]
        /\ abort' = (abort \/ telemetry.abort)
        /\ telemetry' = [telemetry EXCEPT !.abort = abort']
        /\ channel' = [channel EXCEPT !.open = FALSE, !.cancelled = channel.cancelled \/ abort']
    BY DEF Encoder!DropSender, Encoder!Goes
  <1>2. /\ nvenc' \in [at : NvencPlaces, slot : Holder, failed : BOOLEAN, patience : Nat]
        /\ nvenc'.at = "join" /\ nvenc'.failed = nvenc.failed
    BY <1>1 DEF EncoderTypes, NvencPlaces
  <1>3. abort' \in BOOLEAN
    BY <1>1 DEF EncoderTypes
  <1>4. /\ telemetry' \in [errors : Nat, abort : BOOLEAN, completed : Nat]
        /\ telemetry'.errors = telemetry.errors /\ telemetry'.completed = telemetry.completed
        /\ telemetry'.abort = abort'
    BY <1>1, <1>3 DEF EncoderTypes
  <1>5. /\ channel' \in [open : BOOLEAN, eos : BOOLEAN, ack : BOOLEAN, cancelled : BOOLEAN]
        /\ channel'.open = FALSE
    <2>1. (channel.cancelled \/ abort') \in BOOLEAN
      OBVIOUS
    <2> QED BY <1>1, <2>1 DEF EncoderTypes
  <1>6. FreeIsFree' /\ QueueOwns' /\ ThreadOwns' /\ WorkerOwns' /\ Aligned' /\ Prefixed'
    BY <1>1, <1>2, <1>4, NothingMoves
  <1>7. EncoderTypes'
    BY <1>1, <1>2, <1>3, <1>4, <1>5 DEF EncoderTypes
  <1>8. MarksAreLast'
    BY <1>1, <1>2 DEF MarksAreLast, Marked, IsFrame
  <1>9. Blame'
    <2>1. telemetry.errors > 0 => telemetry.abort /\ thread.at = "gone"
      BY DEF Blame
    <2> QED BY <1>1, <1>2, <1>4, <1>5, <2>1 DEF Blame
  <1>10. Outcome'
    BY <1>1, <1>2, <1>4 DEF Outcome, Encoder!AllFree
  <1> QED BY <1>6, <1>7, <1>8, <1>9, <1>10

LEMMA ThreadJoined ==
    ASSUME EncoderInvariant, Encoder!JoinLate \/ Encoder!Join
    PROVE  EncoderInvariant'
  <1> USE DEF EncoderInvariant
  <1>1. /\ UNCHANGED <<slots, hardware, mapped, submitted, thread, order>> /\ nvenc.at = "join"
        /\ encoder \notin {"cleaned", "destroyed"}
    BY DEF Encoder!JoinLate, Encoder!Join, Outcome
  <1>2. CASE Encoder!JoinLate
    <2>1. PICK at \in {"closed", "join"}, n \in Nat :
            nvenc' = [nvenc EXCEPT !.patience = n, !.failed = TRUE, !.at = at]
      <3>1. nvenc.patience - 1 \in Nat
        BY <1>2 DEF Encoder!JoinLate, EncoderTypes
      <3> QED BY <1>2, <3>1 DEF Encoder!JoinLate
    <2>2. /\ abort' = TRUE /\ telemetry' = [telemetry EXCEPT !.abort = TRUE]
          /\ channel' = [channel EXCEPT !.cancelled = TRUE]
          /\ encoder' \in {"retained", encoder}
      BY <1>2 DEF Encoder!JoinLate
    <2>3. /\ nvenc' \in [at : NvencPlaces, slot : Holder, failed : BOOLEAN, patience : Nat]
          /\ nvenc'.at \in {"closed", "join"} /\ nvenc'.failed
      BY <2>1 DEF EncoderTypes, NvencPlaces
    <2>4. /\ telemetry' \in [errors : Nat, abort : BOOLEAN, completed : Nat]
          /\ telemetry'.errors = telemetry.errors /\ telemetry'.completed = telemetry.completed
          /\ telemetry'.abort
      BY <2>2 DEF EncoderTypes
    <2>5. /\ channel' \in [open : BOOLEAN, eos : BOOLEAN, ack : BOOLEAN, cancelled : BOOLEAN]
          /\ channel'.open = channel.open
      BY <2>2 DEF EncoderTypes
    <2>6. FreeIsFree' /\ QueueOwns' /\ ThreadOwns' /\ WorkerOwns' /\ Aligned' /\ Prefixed'
      BY <1>1, <2>3, <2>4, NothingMoves
    <2>7. EncoderTypes'
      BY <1>1, <2>2, <2>3, <2>4, <2>5 DEF EncoderTypes
    <2>8. MarksAreLast'
      BY <1>1, <2>3 DEF MarksAreLast, Marked, IsFrame
    <2>9. Blame'
      BY <1>1, <2>3, <2>4, <2>5 DEF Blame
    <2>10. Outcome'
      BY <1>1, <2>2, <2>3 DEF Outcome
    <2> QED BY <2>6, <2>7, <2>8, <2>9, <2>10
  <1>3. CASE Encoder!Join
    <2>1. /\ UNCHANGED <<telemetry, abort, channel>> /\ thread.at = "gone"
          /\ encoder' = IF ~abort /\ ~telemetry.abort THEN "cleaned" ELSE "destroyed"
          /\ nvenc' = [nvenc EXCEPT !.at = "closed", !.failed = nvenc.failed \/ telemetry.errors > 0]
      BY <1>3 DEF Encoder!Join, Encoder!CleanupSafe
    <2>2. /\ nvenc' \in [at : NvencPlaces, slot : Holder, failed : BOOLEAN, patience : Nat]
          /\ nvenc'.at = "closed" /\ nvenc'.failed = (nvenc.failed \/ telemetry.errors > 0)
      <3>1. (nvenc.failed \/ telemetry.errors > 0) \in BOOLEAN
        OBVIOUS
      <3> QED BY <2>1, <3>1 DEF EncoderTypes, NvencPlaces
    <2>3. FreeIsFree' /\ QueueOwns' /\ ThreadOwns' /\ WorkerOwns' /\ Aligned' /\ Prefixed'
      BY <1>1, <2>1, <2>2, NothingMoves
    <2>4. EncoderTypes'
      BY <1>1, <2>1, <2>2 DEF EncoderTypes
    <2>5. MarksAreLast'
      BY <1>1, <2>2 DEF MarksAreLast, Marked, IsFrame
    <2>6. Blame'
      BY <1>1, <2>1, <2>2 DEF Blame
    <2>7. Outcome'
      <3>1. ~nvenc'.failed => ~abort /\ ~telemetry.abort /\ telemetry.errors = 0
        BY <2>2 DEF Blame, EncoderTypes
      <3> QED BY <1>1, <2>1, <2>2, <3>1 DEF Outcome, Encoder!AllFree
    <2> QED BY <2>3, <2>4, <2>5, <2>6, <2>7
  <1> QED BY <1>2, <1>3

LEMMA EncoderKeeps == Encoder!EncoderAssumption /\ EncoderInvariant /\ Encoder!Next => EncoderInvariant'
  <1> SUFFICES ASSUME Encoder!EncoderAssumption, EncoderInvariant, Encoder!Next
               PROVE  EncoderInvariant'
    OBVIOUS
  <1>1. CASE Encoder!Worker
    BY <1>1, SlotGoes, FrameAccepted, FrameQueued, QueueDrained, CloseGoesOn DEF Encoder!Worker
  <1>2. CASE Encoder!Thread
    BY <1>2, ThreadReceives, ThreadWaits, FrameSeen, FrameWritten, ErrorRecorded DEF Encoder!Thread
  <1>3. CASE Encoder!Closer
    BY <1>3, EosQueued, CloseGoesOn, SenderDropped, ThreadJoined DEF Encoder!Closer
  <1> QED BY <1>1, <1>2, <1>3, FrameEncoded DEF Encoder!Next
\* The slots of the queue are a part of the ring, and are counted.
LEMMA FramesFit ==
    ASSUME NEW S, IsFiniteSet(S), NEW n \in Nat, NEW f \in [1 .. n -> S],
           \A j, k \in 1 .. n : f[j] = f[k] => j = k
    PROVE  n <= Cardinality(S)
  <1>1. f \in Injection(1 .. n, S)
    BY DEF Injection, IsInjective
  <1>2. Cardinality(1 .. n) <= Cardinality(S)
    BY <1>1, FS_Injection
  <1>3. Cardinality(1 .. n) = n
    BY FS_Interval
  <1> QED BY <1>2, <1>3

LEMMA SlotsCounted ==
    ASSUME NEW S
    PROVE  /\ Encoder!IsFiniteSet(S) <=> IsFiniteSet(S)
           /\ Encoder!Cardinality(S) = Cardinality(S)
  <1>1. Encoder!IsFiniteSet(S) <=> IsFiniteSet(S)
    BY DEF IsFiniteSet, Encoder!IsFiniteSet
  <1>2. Encoder!Cardinality(S) = Cardinality(S)
    BY DEF Cardinality, Encoder!Cardinality
  <1> QED BY <1>1, <1>2

LEMMA QueueFits ==
    ASSUME Encoder!EncoderAssumption, EncoderInvariant
    PROVE  Len(submitted) <= Encoder!Capacity
  <1>1. submitted \in Seq(Command) /\ Len(submitted) \in Nat
    BY DEF EncoderInvariant, EncoderTypes
  <1>2. IsFiniteSet(slotSet) /\ Encoder!Cardinality(slotSet) = Cardinality(slotSet)
    BY SlotsCounted DEF Encoder!EncoderAssumption
  <1>3. Cardinality(slotSet) \in Nat
    BY <1>2, FS_CardinalityType
  <1>4. CASE Len(submitted) <= 1
    BY <1>1, <1>2, <1>3, <1>4 DEF Encoder!Capacity
  <1>5. CASE Len(submitted) > 1
    <2> DEFINE n == Len(submitted) - 1
    <2> DEFINE f == [k \in 1 .. n |-> submitted[k].slot]
    <2>1. n \in Nat
      BY <1>1, <1>5
    <2>2. \A k \in 1 .. n : k \in 1 .. Len(submitted) /\ k < Len(submitted)
      BY <1>1
    <2>3. \A k \in 1 .. n : IsFrame(k)
      BY <2>2 DEF EncoderInvariant, MarksAreLast
    <2>4. f \in [1 .. n -> slotSet]
      BY <2>2, <2>3 DEF EncoderInvariant, QueueOwns
    <2>5. \A j, k \in 1 .. n : f[j] = f[k] => j = k
      BY <2>2, <2>3 DEF EncoderInvariant, QueueOwns
    <2> HIDE DEF f, n
    <2>6. n <= Cardinality(slotSet)
      BY <1>2, <2>1, <2>4, <2>5, FramesFit
    <2>7. Len(submitted) = n + 1
      BY <1>1 DEF n
    <2>8. ASSUME NEW c \in Nat, NEW m \in Nat, m <= c PROVE m + 1 <= c + 2
      BY <2>8
    <2> QED BY <1>2, <1>3, <2>1, <2>6, <2>7, <2>8 DEF Encoder!Capacity
  <1>6. Len(submitted) <= 1 \/ Len(submitted) > 1
    BY <1>1
  <1> QED BY <1>4, <1>5, <1>6

\* What is written is the beginning of what was submitted.
LEMMA PrefixIsSubSeq ==
    ASSUME NEW S, NEW q \in Seq(S), NEW r \in Seq(S), Len(r) <= Len(q),
           \A k \in 1 .. Len(r) : r[k] = q[k]
    PROVE  r = SubSeq(q, 1, Len(r)) /\ (Len(r) = Len(q) => r = q)
  <1>1. Len(r) \in Nat /\ Len(q) \in Nat
    OBVIOUS
  <1>2. r = [k \in 1 .. Len(r) |-> r[k]] /\ q = [k \in 1 .. Len(q) |-> q[k]]
    OBVIOUS
  <1>3. SubSeq(q, 1, Len(r)) = [k \in 1 .. Len(r) |-> q[k]]
    OBVIOUS
  <1> QED BY <1>1, <1>2, <1>3

LEMMA EncoderSuffices ==
    Encoder!EncoderAssumption /\ EncoderInvariant => Encoder!EncoderIsSound
  <1> SUFFICES ASSUME Encoder!EncoderAssumption, EncoderInvariant PROVE Encoder!EncoderIsSound
    OBVIOUS
  <1> USE DEF EncoderInvariant
  <1>1. Encoder!SlotsAreOwned
    <2>1. \A s \in slotSet : slots[s] = "free" => s \notin mapped /\ hardware[s] # "encoding"
      BY DEF FreeIsFree
    <2>2. \A s \in Encoder!Queued : slots[s] = "submitted" /\ (AtThread => s # thread.slot)
      BY DEF Encoder!Queued, QueueOwns, ThreadOwns, IsFrame
    <2>3. \A s \in Encoder!InThread : AtThread /\ s = thread.slot
      BY DEF Encoder!InThread, AtThread
    <2>4. \A s \in Encoder!InThread : slots[s] = "submitted"
      BY <2>3 DEF ThreadOwns
    <2>5. Encoder!Queued \cap Encoder!InThread = {}
      BY <2>2, <2>3
    <2>6. \A i, j \in 1 .. Len(submitted) :
            submitted[i].kind = "frame" /\ submitted[i] = submitted[j] => i = j
      BY DEF QueueOwns, IsFrame
    <2> QED BY <2>1, <2>2, <2>4, <2>5, <2>6, QueueFits DEF Encoder!SlotsAreOwned
  <1>2. order.submitted \in Seq(slotSet) /\ order.written \in Seq(slotSet)
    BY DEF EncoderTypes
  <1>3. /\ Len(order.written) <= Len(order.submitted)
        /\ \A k \in 1 .. Len(order.written) : order.written[k] = order.submitted[k]
    BY DEF Prefixed
  <1>4. Encoder!OutputIsInOrder
    BY <1>2, <1>3, PrefixIsSubSeq DEF Encoder!OutputIsInOrder
  <1>5. encoder = "cleaned" =>
          /\ telemetry.errors = 0 /\ thread.at = "gone" /\ nvenc.at = "closed" /\ Encoder!AllFree
          /\ submitted = <<>>
    <2>1. ASSUME encoder = "cleaned" PROVE ~telemetry.abort /\ ~abort /\ thread.at = "gone" /\ nvenc.at = "closed"
      BY <2>1 DEF Outcome
    <2>2. ~telemetry.abort => telemetry.errors = 0
      BY DEF Blame, EncoderTypes
    <2> QED BY <2>1, <2>2 DEF Outcome, Blame
  <1>6. Encoder!CleanupIsSafe
    <2>1. encoder \in {"cleaned", "destroyed"} => thread.at = "gone"
      BY DEF Outcome
    <2>2. Encoder!AllFree => \A s \in slotSet : hardware[s] # "encoding"
      BY DEF Encoder!AllFree, FreeIsFree
    <2> QED BY <1>5, <2>1, <2>2 DEF Encoder!CleanupIsSafe
  <1>7. Encoder!FinishIsComplete
    <2>1. SUFFICES ASSUME nvenc.at = "closed", ~nvenc.failed
                   PROVE  /\ order.written = order.submitted
                          /\ telemetry.completed = Len(order.submitted)
                          /\ encoder = "cleaned" /\ Encoder!AllFree /\ mapped = {}
      BY DEF Encoder!FinishIsComplete
    <2>2. encoder = "cleaned"
      BY <2>1 DEF Outcome
    <2>3. Held = 0 /\ Frames = 0 /\ Coming = 0
      BY <1>5, <2>1, <2>2 DEF Held, Frames, Coming, AtThread, Marked
    <2>4. /\ Len(order.submitted) = Len(order.written) + Held + Frames + Coming
          /\ telemetry.completed = Len(order.written)
      BY <1>5, <2>2 DEF Aligned
    <2>5. Len(order.submitted) = Len(order.written)
      BY <1>2, <2>3, <2>4
    <2>6. order.written = order.submitted
      BY <1>2, <1>3, <2>5, PrefixIsSubSeq
    <2>7. mapped = {}
      BY <1>5, <2>2 DEF Encoder!AllFree, FreeIsFree, EncoderTypes
    <2> QED BY <1>5, <2>2, <2>4, <2>5, <2>6, <2>7
  <1> QED BY <1>1, <1>4, <1>6, <1>7 DEF Encoder!EncoderIsSound

-----------------------------------------------------------------------------
(* The worker of the recording, its source and its ticks. *)

Shot == [at : Nat, size : Sizes \cup {"tiny"}, fits : BOOLEAN]
OneShot == {q \in Seq(Shot) : Len(q) <= 1}
SourceType == [attached : BOOLEAN, closed : BOOLEAN, size : Sizes, generation : Nat,
               handoff : OneShot, pending : OneShot, last : Nat]
CfrType == [tick : Nat, latest : Nat, pending : BOOLEAN, discards : Nat]
CountsType == [admitted : Nat, replaced : Nat, discards : Nat, copies : Nat, arrived : Nat]
ConverterType == [size : Sizes, populated : BOOLEAN, free : Nat]
PicturePlaces == {"top", "attach", "attached", "submit", "receive", "finished", "failed"}
PictureType == [at : PicturePlaces, stopAt : Nat \cup {-1}, next : Nat, batch : Nat,
                failed : {"no", "late", "windows"}]
Evidence == [generation : Nat, latest : Nat, stale : BOOLEAN]
ControlType == [stop : Nat \cup {-1}, ended : BOOLEAN, evidence : Evidence,
                request : SUBSET Evidence]

PictureTypes ==
    /\ time \in Nat /\ cfr \in CfrType /\ source \in SourceType /\ counts \in CountsType
    /\ converter \in ConverterType /\ resize \in SUBSET Sizes
    /\ picture \in PictureType /\ control \in ControlType /\ shown \in Seq(Nat)

\* What is counted is what was done; the first frame is the only one that waits to be
\* shown while the worker does something else.
Waiting(s) == Len(s.handoff) + Len(s.pending)
CountsAgree ==
    /\ counts.admitted = counts.copies + counts.replaced + counts.discards + Waiting(source)
    /\ cfr.discards = counts.replaced
    /\ counts.copies <= cfr.tick + 1
    /\ cfr.pending => cfr.tick = 0

\* The ticks that were shown are in order, and so is the frame that the next one shows.
TicksGoUp ==
    /\ Len(shown) = cfr.tick
    /\ \A k \in 1 .. Len(shown) : shown[k] <= Picture!Deadline(k - 1) /\ shown[k] <= cfr.latest
    /\ \A k \in 1 .. Len(shown) : k > 1 => shown[k - 1] <= shown[k]
    /\ cfr.latest <= Picture!Deadline(cfr.tick)
    /\ source.pending # <<>> => source.pending[1].at > cfr.latest

\* The snapshot holds an image, of the size of the source unless it is to be resized.
SizesAgree ==
    /\ converter.populated
    /\ ~source.attached => source.handoff = <<>> /\ source.pending = <<>>
    /\ picture.at = "attach" => ~source.attached
    /\ source.attached /\ resize = {} /\ picture.at \notin {"attached", "failed", "finished"} =>
        converter.size = source.size

\* The stop that the worker has seen, and the ticks before it.
StopsAgree ==
    /\ control.stop # -1 => control.stop <= time
    /\ picture.stopAt # -1 => control.stop # -1 /\ control.stop <= picture.stopAt
    /\ cfr.tick > 0 => Picture!Deadline(cfr.tick - 1) <= time
    /\ cfr.tick > 0 /\ picture.stopAt # -1 => Picture!Deadline(cfr.tick - 1) <= picture.stopAt
    /\ picture.at = "finished" =>
        picture.stopAt # -1 /\ Picture!Deadline(cfr.tick) >= picture.stopAt

\* The evidence, and a request that was made of it, are not newer than what was shown.
EvidenceIsOld ==
    \A r \in control.request \cup {control.evidence} :
        r.latest <= cfr.latest /\ (r.stale => r.latest < cfr.latest)

SessionInvariant ==
    /\ PictureTypes /\ CountsAgree /\ TicksGoUp /\ SizesAgree /\ StopsAgree /\ EvidenceIsOld

\* What the next tick waits for, and a place that holds a frame at most.
LEMMA DeadlineGrows ==
    ASSUME Picture!SessionAssumption, NEW k \in Nat
    PROVE  /\ Picture!Deadline(k) \in Nat
           /\ Picture!Deadline(k) <= Picture!Deadline(k + 1)
  <1>1. Period \in Nat
    BY DEF Picture!SessionAssumption
  <1>2. k * Period \in Nat /\ (k + 1) * Period = k * Period + Period
    BY <1>1
  <1> QED BY <1>1, <1>2 DEF Picture!Deadline

LEMMA ShotsCounted ==
    /\ <<>> \in OneShot /\ Len(<<>>) = 0
    /\ \A f \in Shot : <<f>> \in OneShot /\ Len(<<f>>) = 1 /\ <<f>>[1] = f /\ <<f>> # <<>>
    /\ \A q \in OneShot : /\ q = <<>> => Len(q) = 0
                          /\ q # <<>> => Len(q) = 1 /\ q[1] \in Shot
  <1>1. <<>> \in OneShot /\ Len(<<>>) = 0
    BY DEF OneShot
  <1>2. ASSUME NEW f \in Shot
        PROVE  <<f>> \in OneShot /\ Len(<<f>>) = 1 /\ <<f>>[1] = f /\ <<f>> # <<>>
    BY DEF OneShot
  <1>3. ASSUME NEW q \in OneShot, q # <<>> PROVE Len(q) = 1 /\ q[1] \in Shot
    <2>1. q \in Seq(Shot) /\ Len(q) \in Nat /\ Len(q) <= 1 /\ Len(q) # 0
      BY <1>3 DEF OneShot
    <2>2. ASSUME NEW n \in Nat, n <= 1, n # 0 PROVE n = 1
      BY <2>2
    <2>3. Len(q) = 1
      BY <2>1, <2>2
    <2> QED BY <2>1, <2>3
  <1> QED BY <1>1, <1>2, <1>3

LEMMA WaitingIs ==
    ASSUME NEW s \in SourceType
    PROVE  /\ Waiting(s) = (IF s.handoff = <<>> THEN 0 ELSE 1) + (IF s.pending = <<>> THEN 0 ELSE 1)
           /\ Waiting(s) \in Nat
  <1>1. s.handoff \in OneShot /\ s.pending \in OneShot
    BY DEF SourceType
  <1>2. /\ Len(s.handoff) = IF s.handoff = <<>> THEN 0 ELSE 1
        /\ Len(s.pending) = IF s.pending = <<>> THEN 0 ELSE 1
    BY <1>1, ShotsCounted
  <1> QED BY <1>2 DEF Waiting

LEMMA SessionInitially == Picture!SessionAssumption /\ Picture!Init => SessionInvariant
  <1> SUFFICES ASSUME Picture!SessionAssumption, Picture!Init PROVE SessionInvariant
    OBVIOUS
  <1>1. PICK s \in Sizes :
          /\ source = [attached |-> TRUE, closed |-> FALSE, size |-> s, generation |-> 0,
                       handoff |-> <<>>, pending |-> <<>>, last |-> 0]
          /\ converter = [size |-> s, populated |-> TRUE, free |-> Ring]
    <2>1. (CHOOSE size \in Sizes : TRUE) \in Sizes
      BY DEF Picture!SessionAssumption
    <2> QED BY <2>1 DEF Picture!Init
  <1>2. /\ time = 0 /\ cfr = [tick |-> 0, latest |-> 0, pending |-> TRUE, discards |-> 0]
        /\ counts = [admitted |-> 1, replaced |-> 0, discards |-> 0, copies |-> 1, arrived |-> 0]
        /\ resize = {} /\ shown = <<>>
        /\ picture = [at |-> "top", stopAt |-> -1, next |-> 0, batch |-> 0, failed |-> "no"]
        /\ control = [stop |-> -1, ended |-> FALSE, request |-> {},
                      evidence |-> [generation |-> 0, latest |-> 0, stale |-> FALSE]]
    BY DEF Picture!Init, Picture!Never
  <1>3. PictureTypes
    <2>1. source \in SourceType
      BY <1>1, ShotsCounted DEF SourceType
    <2>2. converter \in ConverterType
      BY <1>1 DEF ConverterType, Picture!SessionAssumption
    <2>3. cfr \in CfrType /\ counts \in CountsType
      BY <1>2 DEF CfrType, CountsType
    <2>4. picture \in PictureType
      BY <1>2 DEF PictureType, PicturePlaces
    <2>5. control \in ControlType
      BY <1>2 DEF ControlType, Evidence
    <2>6. time \in Nat /\ resize \in SUBSET Sizes /\ shown \in Seq(Nat)
      BY <1>2
    <2> QED BY <2>1, <2>2, <2>3, <2>4, <2>5, <2>6 DEF PictureTypes
  <1>4. CountsAgree
    <2>1. Waiting(source) = 0
      BY <1>1 DEF Waiting
    <2> QED BY <1>2, <2>1 DEF CountsAgree
  <1>5. TicksGoUp
    <2>1. Picture!Deadline(0) \in Nat
      BY DeadlineGrows
    <2> QED BY <1>1, <1>2, <2>1 DEF TicksGoUp
  <1>6. SizesAgree
    BY <1>1, <1>2 DEF SizesAgree
  <1>7. StopsAgree
    BY <1>2 DEF StopsAgree
  <1>8. EvidenceIsOld
    BY <1>2 DEF EvidenceIsOld
  <1> QED BY <1>3, <1>4, <1>5, <1>6, <1>7, <1>8 DEF SessionInvariant

\* The world outside of the worker: time, the service, the encoder, the operating system.
LEMMA WorldGoesOn ==
    ASSUME Picture!SessionAssumption, SessionInvariant,
           \/ Picture!Tick \/ Picture!Stop \/ Picture!GameEnds \/ Picture!AskRecovery
           \/ Picture!WindowsFails \/ Picture!Completes \/ Picture!TargetCloses
    PROVE  SessionInvariant'
  <1> USE DEF SessionInvariant
  <1>1. CASE Picture!Tick
    <2>1. time' = time + 1 /\ UNCHANGED <<cfr, source, counts, converter, resize, picture, control, shown>>
      BY <1>1 DEF Picture!Tick
    <2>2. PictureTypes'
      BY <2>1 DEF PictureTypes
    <2>3. CountsAgree' /\ TicksGoUp' /\ SizesAgree' /\ EvidenceIsOld'
      BY <2>1 DEF CountsAgree, TicksGoUp, SizesAgree, EvidenceIsOld, Waiting
    <2>4. time \in Nat /\ time <= time'
      BY <2>1 DEF PictureTypes
    <2>5. control.stop # -1 => control.stop \in Nat
      BY DEF PictureTypes, ControlType
    <2>6. cfr.tick > 0 => Picture!Deadline(cfr.tick - 1) \in Nat
      <3>1. cfr.tick > 0 => cfr.tick - 1 \in Nat
        BY DEF PictureTypes, CfrType
      <3> QED BY <3>1, DeadlineGrows
    <2>7. control.stop # -1 => control.stop <= time'
      BY <2>1, <2>4, <2>5 DEF StopsAgree
    <2>8. cfr.tick > 0 => Picture!Deadline(cfr.tick - 1) <= time'
      BY <2>1, <2>4, <2>6 DEF StopsAgree
    <2>9. StopsAgree'
      BY <2>1, <2>7, <2>8 DEF StopsAgree
    <2> QED BY <2>2, <2>3, <2>9
  <1>2. CASE Picture!Stop \/ Picture!GameEnds \/ Picture!AskRecovery
    <2>1. /\ UNCHANGED <<time, cfr, source, counts, converter, resize, picture, shown>>
          /\ \/ control.stop = -1 /\ control' = [control EXCEPT !.stop = time]
             \/ control' = [control EXCEPT !.ended = TRUE]
             \/ control' = [control EXCEPT !.request = {control.evidence}]
      BY <1>2 DEF Picture!Stop, Picture!GameEnds, Picture!AskRecovery, Picture!Never
    <2>2. /\ control' \in ControlType
          /\ control'.stop = control.stop \/ (control'.stop = time /\ control.stop = -1)
          /\ control'.request \cup {control'.evidence} \subseteq control.request \cup {control.evidence}
      <3>1. control \in ControlType /\ time \in Nat
        BY DEF PictureTypes
      <3>2. CASE control.stop = -1 /\ control' = [control EXCEPT !.stop = time]
        BY <3>1, <3>2 DEF ControlType
      <3>3. CASE control' = [control EXCEPT !.ended = TRUE]
        BY <3>1, <3>3 DEF ControlType
      <3>4. CASE control' = [control EXCEPT !.request = {control.evidence}]
        BY <3>1, <3>4 DEF ControlType
      <3> QED BY <2>1, <3>2, <3>3, <3>4
    <2>3. PictureTypes'
      BY <2>1, <2>2 DEF PictureTypes
    <2>4. CountsAgree' /\ TicksGoUp' /\ SizesAgree'
      BY <2>1 DEF CountsAgree, TicksGoUp, SizesAgree, Waiting
    <2>5. StopsAgree'
      BY <2>1, <2>2 DEF StopsAgree, PictureTypes
    <2>6. EvidenceIsOld'
      BY <2>1, <2>2 DEF EvidenceIsOld
    <2> QED BY <2>3, <2>4, <2>5, <2>6
  <1>3. CASE Picture!WindowsFails
    <2>1. /\ UNCHANGED <<time, cfr, source, counts, converter, resize, control, shown>>
          /\ picture' = [picture EXCEPT !.at = "failed", !.failed = "windows"]
      BY <1>3 DEF Picture!WindowsFails, Picture!Fails
    <2>2. picture' \in PictureType /\ picture'.at = "failed" /\ picture'.stopAt = picture.stopAt
      BY <2>1 DEF PictureTypes, PictureType, PicturePlaces
    <2>3. PictureTypes'
      BY <2>1, <2>2 DEF PictureTypes
    <2>4. CountsAgree' /\ TicksGoUp' /\ EvidenceIsOld'
      BY <2>1 DEF CountsAgree, TicksGoUp, EvidenceIsOld, Waiting
    <2>5. SizesAgree' /\ StopsAgree'
      BY <2>1, <2>2 DEF SizesAgree, StopsAgree
    <2> QED BY <2>3, <2>4, <2>5
  <1>4. CASE Picture!Completes
    <2>1. /\ UNCHANGED <<time, cfr, source, counts, resize, picture, control, shown>>
          /\ converter' = [converter EXCEPT !.free = converter.free + 1]
      BY <1>4 DEF Picture!Completes
    <2>2. /\ converter' \in ConverterType /\ converter'.size = converter.size
          /\ converter'.populated = converter.populated
      <3>1. converter \in ConverterType /\ converter.free + 1 \in Nat
        BY DEF PictureTypes, ConverterType
      <3> QED BY <2>1, <3>1 DEF ConverterType
    <2>3. PictureTypes'
      BY <2>1, <2>2 DEF PictureTypes
    <2>4. CountsAgree' /\ TicksGoUp' /\ EvidenceIsOld' /\ StopsAgree'
      BY <2>1 DEF CountsAgree, TicksGoUp, EvidenceIsOld, StopsAgree, Waiting
    <2>5. SizesAgree'
      BY <2>1, <2>2 DEF SizesAgree
    <2> QED BY <2>3, <2>4, <2>5
  <1>5. CASE Picture!TargetCloses
    <2>1. /\ UNCHANGED <<time, cfr, counts, converter, resize, picture, control, shown>>
          /\ source' = [source EXCEPT !.closed = TRUE]
      BY <1>5 DEF Picture!TargetCloses
    <2>2. /\ source' \in SourceType /\ source'.handoff = source.handoff
          /\ source'.pending = source.pending /\ source'.attached = source.attached
          /\ source'.size = source.size
      BY <2>1 DEF PictureTypes, SourceType
    <2>3. PictureTypes'
      BY <2>1, <2>2 DEF PictureTypes
    <2>4. CountsAgree' /\ TicksGoUp' /\ SizesAgree'
      BY <2>1, <2>2 DEF CountsAgree, TicksGoUp, SizesAgree, Waiting
    <2>5. StopsAgree' /\ EvidenceIsOld'
      BY <2>1 DEF StopsAgree, EvidenceIsOld
    <2> QED BY <2>3, <2>4, <2>5
  <1> QED BY <1>1, <1>2, <1>3, <1>4, <1>5

\* A frame arrives.
LEMMA FrameComes ==
    ASSUME Picture!SessionAssumption, SessionInvariant, Picture!FrameArrives
    PROVE  SessionInvariant'
  <1> USE DEF SessionInvariant
  <1>1. /\ UNCHANGED <<time, cfr, converter, resize, picture, control, shown>> /\ source.attached
    BY DEF Picture!FrameArrives
  <1>2. PICK at \in {source.last} \cup {t \in source.last .. time : t >= time - MaxLag},
             size \in Sizes \cup {"tiny"}, fits \in BOOLEAN :
          IF source.handoff = <<>>
          THEN /\ source' = [source EXCEPT !.last = at,
                                 !.handoff = <<[at |-> at, size |-> size, fits |-> fits]>>]
               /\ counts' = [counts EXCEPT !.arrived = counts.arrived + 1,
                                           !.admitted = counts.admitted + 1]
          ELSE /\ source' = [source EXCEPT !.last = at]
               /\ counts' = [counts EXCEPT !.arrived = counts.arrived + 1]
    BY DEF Picture!FrameArrives, Picture!Tiny
  <1>3. source \in SourceType /\ counts \in CountsType /\ time \in Nat
    BY DEF PictureTypes
  <1>4. at \in Nat
    BY <1>2, <1>3 DEF SourceType
  <1> DEFINE f == [at |-> at, size |-> size, fits |-> fits]
  <1>5. f \in Shot
    BY <1>4 DEF Shot
  <1> HIDE DEF f
  <1>6. counts.arrived + 1 \in Nat /\ counts.admitted + 1 \in Nat
    BY <1>3 DEF CountsType
  <1>7. /\ source' \in SourceType /\ source'.attached = source.attached
        /\ source'.pending = source.pending /\ source'.size = source.size
        /\ source'.handoff = IF source.handoff = <<>> THEN <<f>> ELSE source.handoff
    <2>1. <<f>> \in OneShot
      BY <1>5, ShotsCounted
    <2>2. CASE source.handoff = <<>>
      <3>1. source' = [source EXCEPT !.last = at, !.handoff = <<f>>]
        BY <1>2, <2>2 DEF f
      <3> QED BY <1>3, <1>4, <2>1, <2>2, <3>1 DEF SourceType
    <2>3. CASE source.handoff # <<>>
      BY <1>2, <1>3, <1>4, <2>3 DEF SourceType
    <2> QED BY <2>2, <2>3
  <1>8. /\ counts' \in CountsType /\ counts'.copies = counts.copies
        /\ counts'.replaced = counts.replaced /\ counts'.discards = counts.discards
        /\ counts'.admitted = IF source.handoff = <<>> THEN counts.admitted + 1 ELSE counts.admitted
    <2>1. CASE source.handoff = <<>>
      <3>1. counts' = [counts EXCEPT !.arrived = counts.arrived + 1,
                                     !.admitted = counts.admitted + 1]
        BY <1>2, <2>1
      <3> QED BY <1>3, <1>6, <2>1, <3>1 DEF CountsType
    <2>2. CASE source.handoff # <<>>
      <3>1. counts' = [counts EXCEPT !.arrived = counts.arrived + 1]
        BY <1>2, <2>2
      <3> QED BY <1>3, <1>6, <2>2, <3>1 DEF CountsType
    <2> QED BY <2>1, <2>2
  <1>9. PictureTypes'
    BY <1>1, <1>7, <1>8 DEF PictureTypes
  <1>10. CountsAgree'
    <2>1. Waiting(source) \in Nat
          /\ Waiting(source') = IF source.handoff = <<>> THEN Waiting(source) + 1 ELSE Waiting(source)
      <3>1. /\ Waiting(source) \in Nat
            /\ Waiting(source) = (IF source.handoff = <<>> THEN 0 ELSE 1)
                                  + (IF source.pending = <<>> THEN 0 ELSE 1)
            /\ Waiting(source') = (IF source'.handoff = <<>> THEN 0 ELSE 1)
                                  + (IF source'.pending = <<>> THEN 0 ELSE 1)
        BY <1>3, <1>7, WaitingIs
      <3>2. source'.handoff # <<>> /\ source'.pending = source.pending
        BY <1>5, <1>7, ShotsCounted
      <3> QED BY <3>1, <3>2
    <2>2. counts.copies \in Nat /\ counts.replaced \in Nat /\ counts.discards \in Nat
      BY <1>3 DEF CountsType
    <2>3. ASSUME NEW a \in Nat, NEW b \in Nat, NEW c \in Nat, NEW w \in Nat
          PROVE  (a + b + c + w) + 1 = a + b + c + (w + 1)
      OBVIOUS
    <2>4. counts.admitted = counts.copies + counts.replaced + counts.discards + Waiting(source)
      BY DEF CountsAgree
    <2>5. counts'.admitted = counts.copies + counts.replaced + counts.discards + Waiting(source')
      BY <1>8, <2>1, <2>2, <2>3, <2>4
    <2> QED BY <1>1, <1>8, <2>5 DEF CountsAgree
  <1>11. TicksGoUp'
    BY <1>1, <1>7 DEF TicksGoUp
  <1>12. SizesAgree'
    BY <1>1, <1>7 DEF SizesAgree
  <1>13. StopsAgree' /\ EvidenceIsOld'
    BY <1>1 DEF StopsAgree, EvidenceIsOld
  <1> QED BY <1>9, <1>10, <1>11, <1>12, <1>13
\* What the turn of the worker comes to.
LEMMA ChosenIs ==
    ASSUME PictureTypes, NEW w \in PictureType, NEW c, c = Picture!Chosen(w)
    PROVE  /\ c \in PictureType /\ c.stopAt = w.stopAt
           /\ c.at \in {"finished", "failed", "submit", "receive"}
           /\ c.at = "finished" => w.stopAt # -1 /\ Picture!Deadline(cfr.tick) >= w.stopAt
  <1>1. CASE w.stopAt # -1 /\ Picture!Deadline(cfr.tick) >= w.stopAt
    <2>1. c = [w EXCEPT !.at = "finished"]
      BY <1>1 DEF Picture!Chosen, Picture!Never
    <2> QED BY <1>1, <2>1 DEF PictureType, PicturePlaces
  <1>2. CASE ~(w.stopAt # -1 /\ Picture!Deadline(cfr.tick) >= w.stopAt)
    <2>1. \/ c = [w EXCEPT !.at = "failed", !.failed = "late"]
          \/ c = [w EXCEPT !.at = "submit", !.batch = 0]
          \/ c = [w EXCEPT !.at = "receive", !.batch = 0]
      BY <1>2 DEF Picture!Chosen, Picture!Never
    <2>2. CASE c = [w EXCEPT !.at = "failed", !.failed = "late"]
      BY <2>2 DEF PictureType, PicturePlaces
    <2>3. CASE c = [w EXCEPT !.at = "submit", !.batch = 0]
      <3>1. "submit" \in PicturePlaces /\ 0 \in Nat
        BY DEF PicturePlaces
      <3>2. c \in PictureType
        BY <2>3, <3>1 DEF PictureType
      <3>3. c.at = "submit" /\ c.stopAt = w.stopAt
        BY <2>3 DEF PictureType
      <3> QED BY <3>2, <3>3
    <2>4. CASE c = [w EXCEPT !.at = "receive", !.batch = 0]
      <3>1. "receive" \in PicturePlaces /\ 0 \in Nat
        BY DEF PicturePlaces
      <3>2. c \in PictureType
        BY <2>4, <3>1 DEF PictureType
      <3>3. c.at = "receive" /\ c.stopAt = w.stopAt
        BY <2>4 DEF PictureType
      <3> QED BY <3>2, <3>3
    <2> QED BY <2>1, <2>2, <2>3, <2>4
  <1> QED BY <1>1, <1>2

\* A source that is left gives up the frames that it holds.
LEMMA DetachedIs ==
    ASSUME NEW s \in SourceType, NEW d, d = Picture!Detached(s)
    PROVE  /\ d \in SourceType /\ ~d.attached /\ d.handoff = <<>> /\ d.pending = <<>>
           /\ Waiting(d) = 0
  <1>1. <<>> \in OneShot
    BY ShotsCounted
  <1>2. [s EXCEPT !.handoff = <<>>, !.pending = <<>>] \in SourceType
    BY <1>1 DEF SourceType
  <1>3. /\ d \in SourceType /\ ~d.attached /\ d.handoff = <<>> /\ d.pending = <<>>
    BY <1>1, <1>2 DEF SourceType, Picture!Detached, Picture!Emptied
  <1> QED BY <1>3, WaitingIs

LEMMA SourceLeft ==
    ASSUME SessionInvariant, NEW left \in {source, Picture!Detached(source)}, Picture!Leaves(left),
           UNCHANGED <<time, cfr, converter, control, shown>>
    PROVE  /\ source' \in SourceType /\ counts' \in CountsType /\ resize' \in SUBSET Sizes
           /\ CountsAgree' /\ TicksGoUp' /\ EvidenceIsOld'
           /\ ~source'.attached => source'.handoff = <<>> /\ source'.pending = <<>>
           /\ source'.attached => UNCHANGED <<source, resize>>
  <1> USE DEF SessionInvariant
  <1>1. source \in SourceType /\ counts \in CountsType /\ resize \in SUBSET Sizes
    BY DEF PictureTypes
  <1>2. /\ source' = left
        /\ counts' = [counts EXCEPT !.discards = counts.discards + Waiting(source) - Waiting(left)]
        /\ resize' = IF left.attached THEN resize ELSE {}
    BY DEF Picture!Leaves, Picture!Held, Waiting
  <1>3. /\ left \in SourceType /\ Waiting(left) \in {0, Waiting(source)}
        /\ ~left.attached => left.handoff = <<>> /\ left.pending = <<>>
        /\ left.attached => left = source
        /\ left.pending # <<>> => left = source
    <2>1. CASE left = source
      BY <1>1, <2>1 DEF SizesAgree
    <2>2. CASE left = Picture!Detached(source)
      BY <1>1, <2>2, DetachedIs
    <2> QED BY <2>1, <2>2
  <1>4. Waiting(source) \in Nat /\ counts.discards \in Nat /\ counts.copies \in Nat /\ counts.replaced \in Nat
    BY <1>1, WaitingIs DEF CountsType
  <1> DEFINE n == counts.discards + Waiting(source) - Waiting(left)
  <1>5. /\ n \in Nat
        /\ counts.copies + counts.replaced + counts.discards + Waiting(source)
             = counts.copies + counts.replaced + n + Waiting(left)
    <2>1. ASSUME NEW a \in Nat, NEW b \in Nat, NEW d \in Nat, NEW v \in Nat, NEW w \in {0, v}
          PROVE  d + v - w \in Nat /\ a + b + d + v = a + b + (d + v - w) + w
      OBVIOUS
    <2> QED BY <1>3, <1>4, <2>1
  <1> HIDE DEF n
  <1>6. counts' = [counts EXCEPT !.discards = n]
    BY <1>2 DEF n
  <1>7. /\ counts' \in CountsType /\ counts'.copies = counts.copies /\ counts'.discards = n
        /\ counts'.replaced = counts.replaced /\ counts'.admitted = counts.admitted
    BY <1>1, <1>5, <1>6 DEF CountsType
  <1>8. CountsAgree'
    <2>1. counts'.admitted = counts.copies + counts.replaced + n + Waiting(left)
      BY <1>5, <1>7 DEF CountsAgree
    <2> QED BY <1>2, <1>7, <2>1 DEF CountsAgree
  <1>9. TicksGoUp'
    BY <1>2, <1>3 DEF TicksGoUp
  <1> QED BY <1>1, <1>2, <1>3, <1>7, <1>8, <1>9 DEF EvidenceIsOld

LEMMA TurnStops ==
    ASSUME SessionInvariant, Picture!TurnStopping
    PROVE  SessionInvariant'
  <1> USE DEF SessionInvariant
  <1>1. /\ UNCHANGED <<time, cfr, source, counts, converter, resize, control, shown>>
        /\ picture.at = "top" /\ picture' = Picture!Chosen(Picture!Seen) /\ Picture!Seen.stopAt # -1
    BY DEF Picture!TurnStopping, Picture!Never
  <1>2. picture \in PictureType /\ time \in Nat /\ control \in ControlType
    BY DEF PictureTypes
  <1>3. /\ Picture!Seen \in PictureType
        /\ \/ Picture!Seen.stopAt = picture.stopAt
           \/ Picture!Seen.stopAt = time /\ control.stop # -1 /\ picture.stopAt = -1
    <2>1. CASE picture.stopAt # -1 \/ control.stop = -1
      <3>1. Picture!Seen = picture
        BY <2>1 DEF Picture!Seen, Picture!Stopping, Picture!Never
      <3> QED BY <1>2, <3>1
    <2>2. CASE picture.stopAt = -1 /\ control.stop # -1
      <3>1. Picture!Seen = [picture EXCEPT !.stopAt = time]
        BY <2>2 DEF Picture!Seen, Picture!Stopping, Picture!Never
      <3> QED BY <1>2, <2>2, <3>1 DEF PictureType
    <2> QED BY <2>1, <2>2
  <1>4. /\ picture' \in PictureType /\ picture'.stopAt = Picture!Seen.stopAt
        /\ picture'.at \in {"finished", "failed", "submit", "receive"}
        /\ picture'.at = "finished" =>
             picture'.stopAt # -1 /\ Picture!Deadline(cfr.tick) >= picture'.stopAt
    BY <1>1, <1>3, ChosenIs
  <1>5. PictureTypes'
    BY <1>1, <1>4 DEF PictureTypes
  <1>6. CountsAgree' /\ TicksGoUp' /\ EvidenceIsOld'
    BY <1>1 DEF CountsAgree, TicksGoUp, EvidenceIsOld, Waiting
  <1>7. SizesAgree'
    BY <1>1, <1>4 DEF SizesAgree
  <1>8. StopsAgree'
    <2>1. CASE Picture!Seen.stopAt = picture.stopAt
      BY <1>1, <1>4, <2>1 DEF StopsAgree
    <2>2. CASE Picture!Seen.stopAt = time /\ control.stop # -1
      BY <1>1, <1>4, <2>2 DEF StopsAgree
    <2> QED BY <1>3, <2>1, <2>2
  <1> QED BY <1>5, <1>6, <1>7, <1>8

\* The worker takes over what it has chosen; nothing has moved but the source.
LEMMA TurnEnds ==
    ASSUME SessionInvariant, UNCHANGED <<time, cfr, converter, control, shown>>,
           picture' \in PictureType, picture'.stopAt = picture.stopAt, picture'.at # "finished" \/
             (picture'.stopAt # -1 /\ Picture!Deadline(cfr.tick) >= picture'.stopAt),
           source' \in SourceType, counts' \in CountsType, resize' \in SUBSET Sizes
    PROVE  PictureTypes' /\ StopsAgree'
  <1>1. PictureTypes'
    BY DEF PictureTypes, SessionInvariant
  <1>2. StopsAgree'
    BY DEF StopsAgree, SessionInvariant
  <1> QED BY <1>1, <1>2

LEMMA SourceRecovers ==
    ASSUME SessionInvariant, Picture!RecoverNothing \/ Picture!TryLater \/ Picture!Rebuild
    PROVE  SessionInvariant'
  <1> USE DEF SessionInvariant
  <1>1. /\ UNCHANGED <<time, cfr, converter, control, shown>> /\ picture.at = "top"
    BY DEF Picture!RecoverNothing, Picture!TryLater, Picture!Rebuild
  <1>2. picture \in PictureType /\ source \in SourceType /\ time + Retry \in Nat
    <2>1. Retry \in Nat
      BY NativeAssumption DEF Picture!SessionAssumption
    <2> QED BY <2>1 DEF PictureTypes
  <1>3. PICK left \in {source, Picture!Detached(source)} :
          /\ Picture!Leaves(left)
          /\ Picture!Rebuild => ~left.attached
    <2>1. CASE Picture!RecoverNothing \/ Picture!TryLater
      <3>1. Picture!Left \in {source, Picture!Detached(source)} /\ Picture!Leaves(Picture!Left)
        BY <2>1 DEF Picture!Left, Picture!RecoverNothing, Picture!TryLater
      <3>2. CASE ~Picture!Rebuild
        BY <3>1, <3>2
      <3>3. CASE Picture!Rebuild
        <4> DEFINE left == IF source.attached THEN Picture!Detached(source) ELSE source
        <4>1. Picture!Leaves(left)
          BY <3>3 DEF Picture!Rebuild
        <4>2. ~left.attached /\ left \in {source, Picture!Detached(source)}
          BY <1>2, DetachedIs
        <4> HIDE DEF left
        <4> QED BY <4>1, <4>2
      <3> QED BY <3>2, <3>3
    <2>2. CASE Picture!Rebuild
      <3> DEFINE left == IF source.attached THEN Picture!Detached(source) ELSE source
      <3>1. Picture!Leaves(left)
        BY <2>2 DEF Picture!Rebuild
      <3>2. ~left.attached /\ left \in {source, Picture!Detached(source)}
        BY <1>2, DetachedIs
      <3> HIDE DEF left
      <3> QED BY <3>1, <3>2
    <2> QED BY <2>1, <2>2
  <1>4. source' = left
    BY <1>3 DEF Picture!Leaves
  <1>5. /\ source' \in SourceType /\ counts' \in CountsType /\ resize' \in SUBSET Sizes
        /\ CountsAgree' /\ TicksGoUp' /\ EvidenceIsOld'
        /\ ~source'.attached => source'.handoff = <<>> /\ source'.pending = <<>>
        /\ source'.attached => UNCHANGED <<source, resize>>
    BY <1>1, <1>3, SourceLeft
  <1>6. /\ picture' \in PictureType /\ picture'.stopAt = picture.stopAt
        /\ picture'.at = "finished" =>
             picture'.stopAt # -1 /\ Picture!Deadline(cfr.tick) >= picture'.stopAt
        /\ picture'.at \in {"finished", "failed", "submit", "receive"}
             \/ (picture'.at = "attach" /\ ~source'.attached)
    <2>1. CASE Picture!RecoverNothing
      <3>1. picture' = Picture!Chosen(picture)
        BY <2>1 DEF Picture!RecoverNothing
      <3> QED BY <1>2, <3>1, ChosenIs
    <2>2. CASE Picture!TryLater
      <3> DEFINE w == [picture EXCEPT !.next = time + Retry]
      <3>1. w \in PictureType /\ w.stopAt = picture.stopAt
        BY <1>2 DEF PictureType
      <3>2. picture' = Picture!Chosen(w)
        BY <2>2 DEF Picture!TryLater
      <3> HIDE DEF w
      <3> QED BY <3>1, <3>2, ChosenIs
    <2>3. CASE Picture!Rebuild
      <3>1. picture' = [picture EXCEPT !.at = "attach", !.next = time + Retry]
        BY <2>3 DEF Picture!Rebuild
      <3>2. picture' \in PictureType /\ picture'.stopAt = picture.stopAt /\ picture'.at = "attach"
        BY <1>2, <3>1 DEF PictureType, PicturePlaces
      <3> QED BY <1>3, <1>4, <2>3, <3>2
    <2> QED BY <2>1, <2>2, <2>3
  <1>7. PictureTypes' /\ StopsAgree'
    BY <1>1, <1>5, <1>6, TurnEnds
  <1>8. SizesAgree'
    BY <1>1, <1>5, <1>6 DEF SizesAgree
  <1> QED BY <1>5, <1>7, <1>8

LEMMA SourceAttaches ==
    ASSUME SessionInvariant, Picture!Attach \/ Picture!Attached
    PROVE  SessionInvariant'
  <1> USE DEF SessionInvariant
  <1>1. /\ UNCHANGED <<time, cfr, converter, control, shown>>
    BY DEF Picture!Attach, Picture!Attached
  <1>2. picture \in PictureType /\ source \in SourceType /\ counts \in CountsType /\ resize \in SUBSET Sizes
    BY DEF PictureTypes
  <1>3. CASE Picture!Attach
    <2>1. /\ UNCHANGED <<counts, resize>> /\ picture.at = "attach" /\ ~source.attached
      BY <1>3 DEF Picture!Attach, SizesAgree
    <2>2. \/ picture' = Picture!Chosen(picture) /\ UNCHANGED source
          \/ \E s \in Sizes : picture' = Picture!Chosen(picture) /\ source' = [source EXCEPT !.size = s]
          \/ \E s \in Sizes : picture' = [picture EXCEPT !.at = "attached"]
                              /\ source' = [source EXCEPT !.attached = TRUE, !.size = s]
      BY <1>3 DEF Picture!Attach, Picture!Goes
    <2>3. /\ source' \in SourceType /\ source'.handoff = source.handoff /\ source'.pending = source.pending
          /\ source'.attached => picture' = [picture EXCEPT !.at = "attached"]
          /\ picture' \in {Picture!Chosen(picture), [picture EXCEPT !.at = "attached"]}
      <3>1. CASE picture' = Picture!Chosen(picture) /\ UNCHANGED source
        BY <1>2, <2>1, <3>1
      <3>2. CASE \E s \in Sizes : picture' = Picture!Chosen(picture) /\ source' = [source EXCEPT !.size = s]
        BY <1>2, <2>1, <3>2 DEF SourceType
      <3>3. CASE \E s \in Sizes : picture' = [picture EXCEPT !.at = "attached"]
                              /\ source' = [source EXCEPT !.attached = TRUE, !.size = s]
        BY <1>2, <2>1, <3>3 DEF SourceType
      <3> QED BY <2>2, <3>1, <3>2, <3>3
    <2>4. [picture EXCEPT !.at = "attached"] \in PictureType
      BY <1>2 DEF PictureType, PicturePlaces
    <2>5. /\ picture' \in PictureType /\ picture'.stopAt = picture.stopAt
          /\ picture'.at = "finished" =>
               picture'.stopAt # -1 /\ Picture!Deadline(cfr.tick) >= picture'.stopAt
          /\ picture'.at # "attach" /\ (source'.attached => picture'.at = "attached")
      <3>1. CASE picture' = Picture!Chosen(picture) /\ ~source'.attached
        BY <1>2, <3>1, ChosenIs
      <3>2. CASE picture' = [picture EXCEPT !.at = "attached"]
        BY <1>2, <2>4, <3>2 DEF PictureType
      <3> QED BY <2>3, <3>1, <3>2
    <2>6. PictureTypes' /\ StopsAgree'
      BY <1>1, <1>2, <2>1, <2>3, <2>5, TurnEnds
    <2>7. Waiting(source') = Waiting(source)
      BY <2>3 DEF Waiting
    <2>8. CountsAgree' /\ TicksGoUp' /\ EvidenceIsOld'
      BY <1>1, <2>1, <2>3, <2>7 DEF CountsAgree, TicksGoUp, EvidenceIsOld
    <2>9. SizesAgree'
      BY <1>1, <2>1, <2>3, <2>5 DEF SizesAgree
    <2> QED BY <2>6, <2>8, <2>9
  <1>4. CASE Picture!Attached
    <2>1. picture' = Picture!Chosen(picture)
      BY <1>4 DEF Picture!Attached
    <2>2. /\ picture' \in PictureType /\ picture'.stopAt = picture.stopAt
          /\ picture'.at = "finished" =>
               picture'.stopAt # -1 /\ Picture!Deadline(cfr.tick) >= picture'.stopAt
          /\ picture'.at # "attach"
      BY <1>2, <2>1, ChosenIs
    <2>3. CASE Picture!Gone
      <3>1. Picture!Leaves(Picture!Detached(source)) /\ source' = Picture!Detached(source)
        BY <1>4, <2>3 DEF Picture!Attached, Picture!Leaves
      <3>2. /\ source' \in SourceType /\ counts' \in CountsType /\ resize' \in SUBSET Sizes
            /\ CountsAgree' /\ TicksGoUp' /\ EvidenceIsOld'
            /\ ~source'.attached => source'.handoff = <<>> /\ source'.pending = <<>>
        BY <1>1, <3>1, SourceLeft
      <3>3. ~source'.attached
        BY <1>2, <3>1, DetachedIs
      <3>4. SizesAgree'
        BY <1>1, <2>2, <3>2, <3>3 DEF SizesAgree
      <3> QED BY <1>1, <2>2, <3>2, <3>4, TurnEnds
    <2>4. CASE ~Picture!Gone
      <3>1. /\ source' = [source EXCEPT !.generation = source.generation + 1]
            /\ resize' = {source.size} /\ UNCHANGED counts
        BY <1>4, <2>4 DEF Picture!Attached
      <3>2. /\ source' \in SourceType /\ source'.handoff = source.handoff
            /\ source'.pending = source.pending /\ source'.attached = source.attached
        <4>1. source.generation + 1 \in Nat
          BY <1>2 DEF SourceType
        <4> QED BY <1>2, <3>1, <4>1 DEF SourceType
      <3>3. resize' \in SUBSET Sizes /\ resize' # {}
        BY <1>2, <3>1 DEF SourceType
      <3>4. Waiting(source') = Waiting(source)
        BY <3>2 DEF Waiting
      <3>5. CountsAgree' /\ TicksGoUp' /\ EvidenceIsOld'
        BY <1>1, <3>1, <3>2, <3>4 DEF CountsAgree, TicksGoUp, EvidenceIsOld
      <3>6. SizesAgree'
        BY <1>1, <2>2, <3>2, <3>3 DEF SizesAgree
      <3> QED BY <1>1, <1>2, <2>2, <3>1, <3>2, <3>3, <3>5, <3>6, TurnEnds
    <2> QED BY <2>3, <2>4
  <1> QED BY <1>3, <1>4
\* A source and counts that agree with each other, and with what the ticks has discarded.
Sane(s, c, d) ==
    /\ s \in SourceType /\ c \in CountsType /\ d \in Nat
    /\ s.attached = source.attached /\ s.size = source.size
    /\ c.admitted = c.copies + c.replaced + c.discards + Waiting(s)
    /\ cfr.discards + d = c.replaced /\ c.copies = counts.copies
    /\ s.pending # <<>> => s.pending[1].at > cfr.latest
    /\ ~s.attached => s.handoff = <<>> /\ s.pending = <<>>

LEMMA SourceIsSane == SessionInvariant => Sane(source, counts, 0)
  <1> SUFFICES ASSUME SessionInvariant PROVE Sane(source, counts, 0)
    OBVIOUS
  <1> USE DEF SessionInvariant
  <1>1. cfr.discards + 0 = cfr.discards
    BY DEF PictureTypes, CfrType
  <1> QED BY <1>1 DEF Sane, PictureTypes, CountsAgree, TicksGoUp, SizesAgree

\* One that is discarded, or replaced, is no longer waiting.
LEMMA DiscardsCount ==
    ASSUME NEW c \in CountsType, NEW n \in Nat, NEW v \in Nat, NEW w \in Nat, v = w + n,
           c.admitted = c.copies + c.replaced + c.discards + v
    PROVE  /\ c.discards + n \in Nat /\ c.replaced + n \in Nat
           /\ c.admitted = c.copies + c.replaced + (c.discards + n) + w
           /\ c.admitted = c.copies + (c.replaced + n) + c.discards + w
           /\ c.copies + n \in Nat
           /\ c.admitted = (c.copies + n) + c.replaced + c.discards + w
  <1>1. c.admitted \in Nat /\ c.copies \in Nat /\ c.replaced \in Nat /\ c.discards \in Nat
    BY DEF CountsType
  <1>2. ASSUME NEW a \in Nat, NEW r \in Nat, NEW d \in Nat
        PROVE  /\ d + n \in Nat /\ r + n \in Nat
               /\ a + r + d + (w + n) = a + r + (d + n) + w
               /\ a + r + d + (w + n) = a + (r + n) + d + w
               /\ a + n \in Nat /\ a + r + d + (w + n) = (a + n) + r + d + w
    OBVIOUS
  <1> QED BY <1>1, <1>2

LEMMA CountsDiscard ==
    ASSUME NEW c \in CountsType, NEW n \in Nat, NEW k
    PROVE  /\ k = [c EXCEPT !.discards = n] =>
                /\ k \in CountsType /\ k.discards = n /\ k.copies = c.copies
                /\ k.replaced = c.replaced /\ k.admitted = c.admitted
           /\ k = [c EXCEPT !.replaced = n] =>
                /\ k \in CountsType /\ k.discards = c.discards /\ k.copies = c.copies
                /\ k.replaced = n /\ k.admitted = c.admitted
           /\ k = [c EXCEPT !.copies = n] =>
                /\ k \in CountsType /\ k.discards = c.discards /\ k.copies = n
                /\ k.replaced = c.replaced /\ k.admitted = c.admitted
  BY DEF CountsType

LEMMA ReceivedIs ==
    ASSUME SessionInvariant
    PROVE  Sane(Picture!Received.source, Picture!Received.counts, Picture!Received.discards)
  <1> USE DEF SessionInvariant
  <1>0. Sane(source, counts, 0) /\ source \in SourceType /\ counts \in CountsType /\ cfr \in CfrType
    BY SourceIsSane DEF PictureTypes
  <1>1. CASE Picture!Eligible(source.pending) \/ source.handoff = <<>>
    <2>1. Picture!Received = [source |-> source, counts |-> counts, discards |-> 0]
      BY <1>1 DEF Picture!Received
    <2> QED BY <1>0, <2>1
  <1>2. CASE ~(Picture!Eligible(source.pending) \/ source.handoff = <<>>)
    <2> DEFINE f == source.handoff[1]
    <2> DEFINE empty == [source EXCEPT !.handoff = <<>>]
    <2>1. f \in Shot /\ source.attached
      BY <1>0, <1>2, ShotsCounted DEF SourceType, SizesAgree
    <2>2. /\ empty \in SourceType /\ empty.attached = source.attached /\ empty.size = source.size
          /\ empty.pending = source.pending /\ empty.handoff = <<>>
      BY <1>0, ShotsCounted DEF SourceType
    <2>3. /\ Waiting(source) = 1 + (IF source.pending = <<>> THEN 0 ELSE 1)
          /\ Waiting(empty) = 0 + (IF source.pending = <<>> THEN 0 ELSE 1)
          /\ Waiting(empty) \in Nat /\ Waiting(source) \in Nat
      BY <1>0, <1>2, <2>2, WaitingIs
    <2>4. counts.admitted = counts.copies + counts.replaced + counts.discards + Waiting(source)
      BY DEF CountsAgree
    <2>5. CASE f.at <= cfr.latest \/ ~Picture!Displaces(f, source.pending)
      <3> DEFINE c == [counts EXCEPT !.discards = counts.discards + 1]
      <3>1. Picture!Received = [source |-> empty, counts |-> c, discards |-> 0]
        BY <1>2, <2>5 DEF Picture!Received
      <3>2. Waiting(source) = Waiting(empty) + 1
        BY <2>3
      <3>3. /\ counts.discards + 1 \in Nat
            /\ counts.admitted = counts.copies + counts.replaced + (counts.discards + 1) + Waiting(empty)
        <4> HIDE DEF empty, c, f
        <4>1. \E n \in Nat : n = 1
          OBVIOUS
        <4>2. PICK n \in Nat : n = 1
          BY <4>1
        <4>3. /\ counts.discards + n \in Nat
              /\ counts.admitted = counts.copies + counts.replaced + (counts.discards + n) + Waiting(empty)
          BY <1>0, <2>3, <2>4, <3>2, <4>2, DiscardsCount
        <4> QED BY <4>2, <4>3
      <3>4. /\ c \in CountsType /\ c.discards = counts.discards + 1 /\ c.copies = counts.copies
            /\ c.replaced = counts.replaced /\ c.admitted = counts.admitted
        BY <1>0, <3>3, CountsDiscard
      <3> HIDE DEF c, empty, f
      <3>5. Sane(empty, c, 0)
        BY <1>0, <2>1, <2>2, <3>3, <3>4 DEF Sane
      <3> QED BY <3>1, <3>5
    <2>6. CASE ~(f.at <= cfr.latest \/ ~Picture!Displaces(f, source.pending))
      <3> DEFINE s == [empty EXCEPT !.pending = <<f>>]
      <3> DEFINE n == Len(source.pending)
      <3> DEFINE c == [counts EXCEPT !.replaced = counts.replaced + n]
      <3>1. Picture!Received = [source |-> s, counts |-> c, discards |-> n]
        BY <1>2, <2>6 DEF Picture!Received
      <3>2. n = IF source.pending = <<>> THEN 0 ELSE 1
        BY <1>0, ShotsCounted DEF SourceType
      <3>3. <<f>> \in OneShot /\ <<f>> # <<>> /\ <<f>>[1] = f
        BY <2>1, ShotsCounted
      <3> HIDE DEF n, f, empty
      <3>4. /\ s \in SourceType /\ s.attached = source.attached /\ s.size = source.size
            /\ s.pending = <<f>> /\ s.handoff = <<>>
        BY <2>2, <3>3 DEF SourceType
      <3> HIDE DEF s
      <3>5. Waiting(s) = 0 + 1
        BY <3>3, <3>4, WaitingIs
      <3>6. Waiting(source) = Waiting(s) + n /\ n \in Nat /\ Waiting(s) \in Nat
        BY <2>3, <3>2, <3>5
      <3>7. /\ counts.replaced + n \in Nat
            /\ counts.admitted = counts.copies + (counts.replaced + n) + counts.discards + Waiting(s)
        BY <1>0, <2>3, <2>4, <3>6, DiscardsCount
      <3>8. /\ c \in CountsType /\ c.discards = counts.discards /\ c.copies = counts.copies
            /\ c.replaced = counts.replaced + n /\ c.admitted = counts.admitted
        BY <1>0, <3>7, CountsDiscard
      <3> HIDE DEF c
      <3>9. f.at > cfr.latest
        BY <1>0, <2>1, <2>6 DEF Shot, CfrType
      <3>10. cfr.discards = counts.replaced
        BY DEF CountsAgree
      <3>11. Sane(s, c, n)
        BY <2>1, <3>3, <3>4, <3>6, <3>7, <3>8, <3>9, <3>10 DEF Sane
      <3> QED BY <3>1, <3>11
    <2> QED BY <2>5, <2>6
  <1> QED BY <1>1, <1>2

\* What the ticks becomes when what was received has replaced something.
LEMMA ClockCounts ==
    ASSUME PictureTypes, NEW d \in Nat, NEW k, k = [cfr EXCEPT !.discards = cfr.discards + d]
    PROVE  /\ k \in CfrType /\ k.tick = cfr.tick /\ k.latest = cfr.latest /\ k.pending = cfr.pending
           /\ k.discards = cfr.discards + d
  <1>1. cfr \in CfrType
    BY DEF PictureTypes
  <1>2. cfr.discards + d \in Nat
    BY <1>1 DEF CfrType
  <1> QED BY <1>1, <1>2 DEF CfrType

LEMMA SourceReceived ==
    ASSUME SessionInvariant, Picture!ReceiveSource
    PROVE  SessionInvariant'
  <1> USE DEF SessionInvariant
  <1>1. UNCHANGED <<time, converter, resize, shown>> /\ picture' = [picture EXCEPT !.at = "top"]
        /\ picture.at \in {"receive", "submit"}
    BY DEF Picture!ReceiveSource, Picture!Goes
  <1>2. /\ picture' \in PictureType /\ picture'.at = "top" /\ picture'.stopAt = picture.stopAt
    BY <1>1 DEF PictureTypes, PictureType, PicturePlaces
  <1>3. PICK d \in Nat :
          /\ Sane(source', counts', d)
          /\ cfr' = [cfr EXCEPT !.discards = cfr.discards + d]
    <2>1. CASE UNCHANGED <<source, counts, cfr>>
      <3>1. cfr' = [cfr EXCEPT !.discards = cfr.discards + 0]
        BY <2>1 DEF PictureTypes, CfrType
      <3>2. Sane(source', counts', 0)
        BY <2>1, SourceIsSane
      <3> QED BY <3>1, <3>2
    <2>2. CASE /\ source' = Picture!Received.source /\ counts' = Picture!Received.counts
               /\ cfr' = [cfr EXCEPT !.discards = cfr.discards + Picture!Received.discards]
      <3>1. Sane(source', counts', Picture!Received.discards)
        BY <2>2, ReceivedIs
      <3>2. Picture!Received.discards \in Nat
        BY <3>1 DEF Sane
      <3> QED BY <2>2, <3>1, <3>2
    <2> QED BY <2>1, <2>2 DEF Picture!ReceiveSource
  <1>4. /\ cfr' \in CfrType /\ cfr'.tick = cfr.tick /\ cfr'.latest = cfr.latest
        /\ cfr'.pending = cfr.pending /\ cfr'.discards = cfr.discards + d
    BY <1>3, ClockCounts
  <1>5. /\ control' \in ControlType /\ control'.stop = control.stop /\ control'.request = control.request
        /\ \/ control'.evidence = control.evidence
           \/ control'.evidence.latest = cfr.latest /\ control'.evidence.stale = FALSE
    <2>1. control \in ControlType /\ source.generation \in Nat /\ cfr.latest \in Nat
      BY DEF PictureTypes, SourceType, CfrType
    <2>2. [generation |-> source.generation, latest |-> cfr.latest, stale |-> FALSE] \in Evidence
      BY <2>1 DEF Evidence
    <2>3. CASE UNCHANGED control
      BY <2>1, <2>3
    <2>4. CASE control' = [control EXCEPT !.evidence =
            [generation |-> source.generation, latest |-> cfr.latest, stale |-> FALSE]]
      BY <2>1, <2>2, <2>4 DEF ControlType
    <2> QED BY <2>3, <2>4 DEF Picture!ReceiveSource
  <1>6. PictureTypes'
    BY <1>1, <1>2, <1>3, <1>4, <1>5 DEF PictureTypes, Sane
  <1>7. CountsAgree'
    BY <1>3, <1>4 DEF CountsAgree, Sane
  <1>8. TicksGoUp'
    BY <1>1, <1>3, <1>4 DEF TicksGoUp, Sane
  <1>9. SizesAgree'
    BY <1>1, <1>2, <1>3 DEF SizesAgree, Sane
  <1>10. StopsAgree'
    BY <1>1, <1>2, <1>4, <1>5 DEF StopsAgree
  <1>11. EvidenceIsOld'
    BY <1>4, <1>5 DEF EvidenceIsOld, PictureTypes, CfrType
  <1> QED BY <1>6, <1>7, <1>8, <1>9, <1>10, <1>11
\* A tick is shown: it is the next one, and of the image that the ticks has observed.
LEMMA TickCommits ==
    ASSUME SessionInvariant, NEW ticks \in CfrType, ticks.tick = cfr.tick,
           NEW snap \in ConverterType, snap.populated, snap.free # 0, Picture!Commits(ticks, snap)
    PROVE  /\ converter' \in ConverterType /\ converter'.size = snap.size /\ converter'.populated
           /\ cfr' \in CfrType /\ cfr'.tick = cfr.tick + 1 /\ cfr'.latest = ticks.latest
           /\ ~cfr'.pending /\ cfr'.discards = ticks.discards
           /\ shown' = Append(shown, ticks.latest)
           /\ picture' \in PictureType /\ picture'.at = picture.at
           /\ picture'.stopAt = picture.stopAt
  <1>1. /\ converter' = [snap EXCEPT !.free = snap.free - 1]
        /\ cfr' = [ticks EXCEPT !.tick = ticks.tick + 1, !.pending = FALSE]
        /\ shown' = Append(shown, ticks.latest)
        /\ picture' = [picture EXCEPT !.batch = picture.batch + 1]
    BY DEF Picture!Commits
  <1>2. snap.free - 1 \in Nat
    BY DEF ConverterType
  <1>3. /\ converter' \in ConverterType /\ converter'.size = snap.size /\ converter'.populated
    BY <1>1, <1>2 DEF ConverterType
  <1>4. cfr.tick + 1 \in Nat
    BY DEF SessionInvariant, PictureTypes, CfrType
  <1>5. cfr' = [ticks EXCEPT !.tick = cfr.tick + 1, !.pending = FALSE]
    BY <1>1
  <1>6. /\ cfr' \in CfrType /\ cfr'.tick = cfr.tick + 1 /\ cfr'.latest = ticks.latest
        /\ ~cfr'.pending /\ cfr'.discards = ticks.discards
    BY <1>4, <1>5 DEF CfrType
  <1>7. picture \in PictureType /\ picture.batch + 1 \in Nat
    BY DEF SessionInvariant, PictureTypes, PictureType
  <1>8. picture' \in PictureType /\ picture'.at = picture.at /\ picture'.stopAt = picture.stopAt
    BY <1>1, <1>7 DEF PictureType
  <1> QED BY <1>1, <1>3, <1>6, <1>8

\* The image is not newer than its tick, and no older than those before it.
LEMMA TicksGrow ==
    ASSUME Picture!SessionAssumption, SessionInvariant, NEW n \in Nat, cfr.latest <= n,
           n <= Picture!Deadline(cfr.tick), shown' = Append(shown, n),
           cfr'.tick = cfr.tick + 1, cfr'.latest = n,
           source'.pending # <<>> => source'.pending[1].at > n
    PROVE  TicksGoUp' /\ shown' \in Seq(Nat)
  <1> USE DEF SessionInvariant
  <1>1. shown \in Seq(Nat) /\ cfr.tick \in Nat /\ cfr.latest \in Nat
    BY DEF PictureTypes, CfrType
  <1>2. /\ shown' \in Seq(Nat) /\ Len(shown') = Len(shown) + 1
        /\ shown'[Len(shown) + 1] = n
        /\ \A k \in 1 .. Len(shown) : shown'[k] = shown[k] /\ shown[k] \in Nat
    BY <1>1
  <1>3. Len(shown) = cfr.tick
    BY DEF TicksGoUp
  <1>4. \A k \in 1 .. cfr.tick : shown[k] <= Picture!Deadline(k - 1) /\ shown[k] <= cfr.latest
    BY <1>3 DEF TicksGoUp
  <1>5. \A k \in 1 .. cfr.tick : shown[k] <= n
    <2>1. ASSUME NEW a \in Nat, NEW b \in Nat, NEW c \in Nat, a <= b, b <= c PROVE a <= c
      BY <2>1
    <2> QED BY <1>1, <1>2, <1>3, <1>4, <2>1
  <1>6. cfr.tick + 1 - 1 = cfr.tick
    BY <1>1
  <1>7. ASSUME NEW k \in 1 .. (cfr.tick + 1)
        PROVE  shown'[k] <= Picture!Deadline(k - 1) /\ shown'[k] <= n /\ (k > 1 => shown'[k - 1] <= shown'[k])
    <2>1. CASE k = cfr.tick + 1
      <3>1. shown'[k] = n /\ k - 1 = cfr.tick
        BY <1>2, <1>3, <1>6, <2>1
      <3>2. shown'[k] <= Picture!Deadline(k - 1) /\ shown'[k] <= n
        BY <3>1
      <3>3. ASSUME k > 1 PROVE shown'[k - 1] <= shown'[k]
        <4>1. cfr.tick \in 1 .. cfr.tick
          BY <1>1, <2>1, <3>3
        <4>2. shown'[cfr.tick] <= n
          BY <1>2, <1>3, <1>5, <4>1
        <4> QED BY <3>1, <4>2
      <3> QED BY <3>2, <3>3
    <2>2. CASE k # cfr.tick + 1
      <3>1. k \in 1 .. cfr.tick
        BY <1>1, <2>2
      <3>2. shown'[k] = shown[k] /\ shown'[k] <= Picture!Deadline(k - 1) /\ shown'[k] <= n
        BY <1>2, <1>3, <1>4, <1>5, <3>1
      <3>3. ASSUME k > 1 PROVE shown'[k - 1] <= shown'[k]
        <4>1. k - 1 \in 1 .. cfr.tick
          BY <1>1, <3>1, <3>3
        <4>2. shown'[k - 1] = shown[k - 1]
          BY <1>2, <1>3, <4>1
        <4>3. shown[k - 1] <= shown[k]
          BY <1>3, <3>1, <3>3 DEF TicksGoUp
        <4> QED BY <3>2, <4>2, <4>3
      <3> QED BY <3>2, <3>3
    <2> QED BY <2>1, <2>2
  <1>8. n <= Picture!Deadline(cfr.tick + 1)
    <2>1. /\ Picture!Deadline(cfr.tick) \in Nat /\ Picture!Deadline(cfr.tick + 1) \in Nat
          /\ Picture!Deadline(cfr.tick) <= Picture!Deadline(cfr.tick + 1)
      <3>1. cfr.tick + 1 \in Nat
        BY <1>1
      <3> QED BY <1>1, <3>1, DeadlineGrows
    <2>2. ASSUME NEW b \in Nat, NEW c \in Nat, n <= b, b <= c PROVE n <= c
      BY <2>2
    <2> QED BY <2>1, <2>2
  <1>9. Len(shown') = cfr.tick + 1
    BY <1>2, <1>3
  <1> HIDE DEF SessionInvariant
  <1> QED BY <1>2, <1>7, <1>8, <1>9 DEF TicksGoUp

LEMMA TickSubmitted ==
    ASSUME Picture!SessionAssumption, SessionInvariant, picture.at = "submit", Picture!MaySubmit,
           UNCHANGED time,
           NEW ticks \in CfrType, ticks.tick = cfr.tick,
           cfr.latest <= ticks.latest, ticks.latest <= Picture!Deadline(cfr.tick),
           NEW snap \in ConverterType, snap.populated, snap.free # 0, Picture!Commits(ticks, snap),
           source' \in SourceType, counts' \in CountsType, resize' \in SUBSET Sizes,
           control' \in ControlType, control'.stop = control.stop,
           counts'.admitted = counts'.copies + counts'.replaced + counts'.discards + Waiting(source'),
           ticks.discards = counts'.replaced, counts'.copies <= counts.copies + 1,
           source'.pending # <<>> => source'.pending[1].at > ticks.latest,
           ~source'.attached => source'.handoff = <<>> /\ source'.pending = <<>>,
           source'.attached /\ resize' = {} => snap.size = source'.size,
           \A r \in control'.request \cup {control'.evidence} :
                r.latest <= ticks.latest /\ (r.stale => r.latest < ticks.latest)
    PROVE  SessionInvariant'
  <1> USE DEF SessionInvariant
  <1>1. /\ converter' \in ConverterType /\ converter'.size = snap.size /\ converter'.populated
        /\ cfr' \in CfrType /\ cfr'.tick = cfr.tick + 1 /\ cfr'.latest = ticks.latest
        /\ ~cfr'.pending /\ cfr'.discards = ticks.discards
        /\ shown' = Append(shown, ticks.latest)
        /\ picture' \in PictureType /\ picture'.at = "submit" /\ picture'.stopAt = picture.stopAt
    BY TickCommits
  <1>2. ticks.latest \in Nat
    BY DEF CfrType
  <1>3. TicksGoUp' /\ shown' \in Seq(Nat)
    BY <1>1, <1>2, TicksGrow
  <1>4. PictureTypes'
    BY <1>1, <1>3 DEF PictureTypes
  <1>5. CountsAgree'
    <2>1. counts.copies <= cfr.tick + 1 /\ counts.copies \in Nat /\ counts'.copies \in Nat /\ cfr.tick \in Nat
      BY DEF CountsAgree, PictureTypes, CountsType, CfrType
    <2>2. ASSUME NEW a \in Nat, NEW b \in Nat, NEW t \in Nat, a <= t + 1, b <= a + 1
          PROVE  b <= (t + 1) + 1
      BY <2>2
    <2>3. counts'.copies <= cfr'.tick + 1
      BY <1>1, <2>1, <2>2
    <2> QED BY <1>1, <2>3 DEF CountsAgree
  <1>6. SizesAgree'
    BY <1>1 DEF SizesAgree
  <1>7. StopsAgree'
    <2>1. /\ Picture!Deadline(cfr.tick) <= time
          /\ picture.stopAt # -1 => Picture!Deadline(cfr.tick) < picture.stopAt
      BY DEF Picture!MaySubmit, Picture!Due, Picture!Stopping, Picture!Never, PictureTypes
    <2>2. cfr'.tick - 1 = cfr.tick
      BY <1>1 DEF PictureTypes, CfrType
    <2>3. picture.stopAt # -1 => Picture!Deadline(cfr.tick) <= picture.stopAt
      <3>1. Picture!Deadline(cfr.tick) \in Nat
        BY DeadlineGrows DEF PictureTypes, CfrType
      <3> QED BY <2>1, <3>1 DEF PictureTypes, PictureType
    <2>4. picture'.at # "finished"
      BY <1>1
    <2>5. control.stop # -1 => control.stop <= time
      BY DEF StopsAgree
    <2>6. picture.stopAt # -1 => control.stop # -1 /\ control.stop <= picture.stopAt
      BY DEF StopsAgree
    <2> HIDE DEF SessionInvariant
    <2> QED BY <1>1, <2>1, <2>2, <2>3, <2>4, <2>5, <2>6 DEF StopsAgree
  <1>8. EvidenceIsOld'
    BY <1>1 DEF EvidenceIsOld
  <1> QED BY <1>3, <1>4, <1>5, <1>6, <1>7, <1>8
\* What is taken from the source is no longer in it.
LEMMA TakenIs ==
    ASSUME NEW s \in SourceType, s.pending # <<>>, NEW t, t = [s EXCEPT !.pending = <<>>]
    PROVE  /\ t \in SourceType /\ t.pending = <<>> /\ t.handoff = s.handoff
           /\ t.attached = s.attached /\ t.size = s.size
           /\ Waiting(s) = Waiting(t) + 1
  <1>1. /\ t \in SourceType /\ t.pending = <<>> /\ t.handoff = s.handoff
        /\ t.attached = s.attached /\ t.size = s.size
    BY ShotsCounted DEF SourceType
  <1>2. /\ Waiting(s) = (IF s.handoff = <<>> THEN 0 ELSE 1) + 1
        /\ Waiting(t) = (IF s.handoff = <<>> THEN 0 ELSE 1) + 0
    BY <1>1, WaitingIs
  <1>3. Waiting(s) = Waiting(t) + 1
    BY <1>2
  <1> QED BY <1>1, <1>3

\* The tick repeats the image of the one before.
LEMMA RepeatedKeeps ==
    ASSUME Picture!SessionAssumption, SessionInvariant, picture.at = "submit", Picture!MaySubmit,
           converter.free # 0, UNCHANGED <<time, control>>,
           NEW d \in Nat, NEW ticks, ticks = [cfr EXCEPT !.discards = cfr.discards + d],
           Picture!Commits(ticks, converter),
           source' \in SourceType, counts' \in CountsType, resize' \in SUBSET Sizes,
           counts'.admitted = counts'.copies + counts'.replaced + counts'.discards + Waiting(source'),
           cfr.discards + d = counts'.replaced, counts'.copies = counts.copies,
           source'.pending # <<>> => source'.pending[1].at > cfr.latest,
           source'.attached = source.attached,
           ~source'.attached => source'.handoff = <<>> /\ source'.pending = <<>>,
           resize' = {} => UNCHANGED resize /\ source'.size = source.size
    PROVE  SessionInvariant'
  <1> USE DEF SessionInvariant
  <1>1. /\ ticks \in CfrType /\ ticks.tick = cfr.tick /\ ticks.latest = cfr.latest
        /\ ticks.discards = cfr.discards + d
    BY ClockCounts
  <1>2. cfr.latest <= cfr.latest /\ cfr.latest <= Picture!Deadline(cfr.tick)
    BY DEF TicksGoUp, PictureTypes, CfrType
  <1>3. converter \in ConverterType /\ converter.populated /\ control \in ControlType
    BY DEF PictureTypes, SizesAgree
  <1>4. counts'.copies <= counts.copies + 1
    <2>1. counts.copies \in Nat
      BY DEF PictureTypes, CountsType
    <2> QED BY <2>1
  <1>5. source'.attached /\ resize' = {} => converter.size = source'.size
    BY DEF SizesAgree
  <1>6. \A r \in control'.request \cup {control'.evidence} :
                r.latest <= ticks.latest /\ (r.stale => r.latest < ticks.latest)
    BY <1>1 DEF EvidenceIsOld
  <1> HIDE DEF SessionInvariant
  <1> QED BY <1>1, <1>2, <1>3, <1>4, <1>5, <1>6, TickSubmitted

LEMMA NothingStaged ==
    ASSUME Picture!SessionAssumption, SessionInvariant, picture.at = "submit", Picture!MaySubmit,
           converter.free # 0, UNCHANGED time,
           NEW got, Sane(got.source, got.counts, got.discards),
           NEW ticks, ticks = [cfr EXCEPT !.discards = cfr.discards + got.discards],
           Picture!SubmitRepeated(got, ticks)
    PROVE  SessionInvariant'
  <1>1. /\ source' = got.source /\ counts' = got.counts /\ UNCHANGED <<resize, control>>
        /\ Picture!Commits(ticks, converter)
    BY DEF Picture!SubmitRepeated
  <1>2. resize' \in SUBSET Sizes
    BY <1>1 DEF SessionInvariant, PictureTypes
  <1>3. /\ got.discards \in Nat /\ source' \in SourceType /\ counts' \in CountsType
        /\ counts'.admitted = counts'.copies + counts'.replaced + counts'.discards + Waiting(source')
        /\ cfr.discards + got.discards = counts'.replaced /\ counts'.copies = counts.copies
        /\ source'.pending # <<>> => source'.pending[1].at > cfr.latest
        /\ source'.attached = source.attached /\ source'.size = source.size
        /\ ~source'.attached => source'.handoff = <<>> /\ source'.pending = <<>>
    BY <1>1 DEF Sane
  <1> QED BY <1>1, <1>2, <1>3, RepeatedKeeps

\* The frame is closed unused, and the pool may be made for its size.
LEMMA FrameClosed ==
    ASSUME Picture!SessionAssumption, SessionInvariant, picture.at = "submit", Picture!MaySubmit,
           converter.free # 0, UNCHANGED time,
           NEW got, Sane(got.source, got.counts, got.discards),
           NEW ticks, ticks = [cfr EXCEPT !.discards = cfr.discards + got.discards],
           got.source.pending # <<>>, Picture!SubmitResized(got.source.pending[1], got, ticks)
    PROVE  SessionInvariant'
  <1> DEFINE f == got.source.pending[1]
  <1> DEFINE taken == [got.source EXCEPT !.pending = <<>>]
  <1>1. /\ got.source \in SourceType /\ got.counts \in CountsType /\ got.discards \in Nat
        /\ got.source.attached = source.attached /\ got.source.size = source.size
        /\ got.counts.admitted = got.counts.copies + got.counts.replaced + got.counts.discards
                                 + Waiting(got.source)
        /\ cfr.discards + got.discards = got.counts.replaced /\ got.counts.copies = counts.copies
    BY DEF Sane
  <1>2. f \in Shot /\ got.source.attached
    BY <1>1, ShotsCounted DEF SourceType, Sane
  <1>3. /\ taken \in SourceType /\ taken.pending = <<>> /\ taken.attached = got.source.attached
        /\ taken.size = got.source.size /\ Waiting(got.source) = Waiting(taken) + 1
    BY <1>1, TakenIs
  <1>4. Waiting(taken) \in Nat /\ Waiting(got.source) \in Nat
    BY <1>1, <1>3, WaitingIs
  <1>5. /\ UNCHANGED control /\ Picture!Commits(ticks, converter)
        /\ \/ /\ source' = taken /\ UNCHANGED resize
              /\ counts' = [got.counts EXCEPT !.discards = got.counts.discards + 1]
           \/ /\ source' = [Picture!Emptied(taken) EXCEPT !.size = f.size]
              /\ counts' = [got.counts EXCEPT !.discards = got.counts.discards + 1 + Waiting(taken)]
              /\ resize' = {f.size} /\ f.size # "tiny"
    BY DEF Picture!SubmitResized, Picture!Held, Picture!Tiny, Waiting
  <1> HIDE DEF f, taken
  <1>6. PICK n \in Nat, w \in Nat :
          /\ Waiting(got.source) = w + n /\ Waiting(source') = w
          /\ counts' = [got.counts EXCEPT !.discards = got.counts.discards + n]
          /\ source' \in SourceType /\ resize' \in SUBSET Sizes
          /\ source'.attached = source.attached /\ source'.pending = <<>>
          /\ resize' = {} => UNCHANGED resize /\ source'.size = source.size
    <2>1. CASE /\ source' = taken /\ UNCHANGED resize
               /\ counts' = [got.counts EXCEPT !.discards = got.counts.discards + 1]
      <3>1. resize' \in SUBSET Sizes
        BY <2>1 DEF SessionInvariant, PictureTypes
      <3> QED BY <1>1, <1>3, <1>4, <2>1, <3>1
    <2>2. CASE /\ source' = [Picture!Emptied(taken) EXCEPT !.size = f.size]
               /\ counts' = [got.counts EXCEPT !.discards = got.counts.discards + 1 + Waiting(taken)]
               /\ resize' = {f.size} /\ f.size # "tiny"
      <3>1. f.size \in Sizes
        BY <1>2, <2>2 DEF Shot
      <3>2. /\ source' \in SourceType /\ source'.pending = <<>> /\ source'.attached = taken.attached
            /\ Waiting(source') = 0
        <4>1. source' = [taken EXCEPT !.handoff = <<>>, !.pending = <<>>, !.size = f.size]
          BY <1>3, <2>2 DEF Picture!Emptied, SourceType
        <4>2. <<>> \in OneShot
          BY ShotsCounted
        <4>3. /\ source' \in SourceType /\ source'.pending = <<>> /\ source'.handoff = <<>>
              /\ source'.attached = taken.attached
          BY <1>3, <3>1, <4>1, <4>2 DEF SourceType
        <4>4. Waiting(source') = 0 + 0
          BY <4>3, WaitingIs
        <4> QED BY <4>3, <4>4
      <3>3. ASSUME NEW a \in Nat, NEW b \in Nat PROVE a + 1 + b = a + (1 + b) /\ b + 1 = 0 + (1 + b) /\ 1 + b \in Nat
        OBVIOUS
      <3>4. got.counts.discards \in Nat
        BY <1>1 DEF CountsType
      <3> DEFINE n == 1 + Waiting(taken)
      <3>5. /\ n \in Nat /\ Waiting(got.source) = 0 + n
            /\ got.counts.discards + 1 + Waiting(taken) = got.counts.discards + n
        BY <1>3, <1>4, <3>3, <3>4
      <3>6. counts' = [got.counts EXCEPT !.discards = got.counts.discards + n]
        BY <2>2, <3>5
      <3> HIDE DEF n
      <3>7. resize' \in SUBSET Sizes /\ resize' # {}
        BY <2>2, <3>1
      <3> QED BY <1>1, <1>3, <3>2, <3>5, <3>6, <3>7
    <2> QED BY <1>5, <2>1, <2>2
  <1>7. /\ got.counts.discards + n \in Nat
        /\ got.counts.admitted = got.counts.copies + got.counts.replaced + (got.counts.discards + n) + w
    BY <1>1, <1>4, <1>6, DiscardsCount
  <1>8. /\ counts' \in CountsType /\ counts'.discards = got.counts.discards + n
        /\ counts'.copies = got.counts.copies /\ counts'.replaced = got.counts.replaced
        /\ counts'.admitted = got.counts.admitted
    BY <1>1, <1>6, <1>7, CountsDiscard
  <1>9. counts'.admitted = counts'.copies + counts'.replaced + counts'.discards + Waiting(source')
    BY <1>6, <1>7, <1>8
  <1>10. cfr.discards + got.discards = counts'.replaced /\ counts'.copies = counts.copies
    BY <1>1, <1>8
  <1>11. source'.attached
    BY <1>1, <1>2, <1>6
  <1> QED BY <1>1, <1>5, <1>6, <1>8, <1>9, <1>10, <1>11, RepeatedKeeps

LEMMA FreshenedIs ==
    ASSUME control \in ControlType, NEW c, c = Picture!Freshened
    PROVE  /\ c \in ControlType /\ c.stop = control.stop
           /\ \A r \in c.request \cup {c.evidence} :
                \E q \in control.request \cup {control.evidence} : r.latest = q.latest
  <1> DEFINE Old(r) == [r EXCEPT !.stale = TRUE]
  <1>1. \A r \in Evidence : Old(r) \in Evidence /\ Old(r).latest = r.latest
    BY DEF Evidence
  <1>2. c = [control EXCEPT !.evidence = Old(control.evidence), !.request = {Old(r) : r \in control.request}]
    BY DEF Picture!Freshened
  <1> HIDE DEF Old
  <1>3. control.evidence \in Evidence /\ control.request \subseteq Evidence
    BY DEF ControlType
  <1>4. {Old(r) : r \in control.request} \subseteq Evidence
    BY <1>1, <1>3
  <1>5. /\ c \in ControlType /\ c.stop = control.stop /\ c.evidence = Old(control.evidence)
        /\ c.request = {Old(r) : r \in control.request}
    BY <1>1, <1>2, <1>3, <1>4 DEF ControlType
  <1> QED BY <1>1, <1>3, <1>5
\* The frame becomes the image, after the processor was made anew for its size.
LEMMA FrameStaged ==
    ASSUME Picture!SessionAssumption, SessionInvariant, picture.at = "submit", Picture!MaySubmit,
           converter.free # 0, UNCHANGED time, cfr.tick # 0,
           NEW got, Sane(got.source, got.counts, got.discards),
           NEW ticks, ticks = [cfr EXCEPT !.discards = cfr.discards + got.discards],
           Picture!Eligible(got.source.pending),
           Picture!SubmitStaged(got.source.pending[1], got, ticks)
    PROVE  SessionInvariant'
  <1> DEFINE f == got.source.pending[1]
  <1> DEFINE taken == [got.source EXCEPT !.pending = <<>>]
  <1> DEFINE fitted == Picture!Fitting(f)
  <1>1. /\ got.source \in SourceType /\ got.counts \in CountsType /\ got.discards \in Nat
        /\ got.source.attached = source.attached /\ got.source.size = source.size
        /\ got.counts.admitted = got.counts.copies + got.counts.replaced + got.counts.discards
                                 + Waiting(got.source)
        /\ cfr.discards + got.discards = got.counts.replaced /\ got.counts.copies = counts.copies
    BY DEF Sane
  <1>2. /\ got.source.pending # <<>> /\ f.at <= Picture!Deadline(cfr.tick)
    BY DEF Picture!Eligible, Picture!Through
  <1>3. f \in Shot /\ got.source.attached /\ f.at > cfr.latest
    BY <1>1, <1>2, ShotsCounted DEF SourceType, Sane
  <1>4. /\ taken \in SourceType /\ taken.pending = <<>> /\ taken.attached = got.source.attached
        /\ taken.size = got.source.size /\ Waiting(got.source) = Waiting(taken) + 1
    BY <1>1, <1>2, TakenIs
  <1>5. Waiting(taken) \in Nat /\ Waiting(got.source) \in Nat
    BY <1>1, <1>4, WaitingIs
  <1>6. f.size = got.source.size /\ f.size # "tiny" /\ f.size \in Sizes /\ source' = taken
    <2>1. f.size = got.source.size /\ f.size # "tiny" /\ source' = taken
      BY DEF Picture!SubmitStaged, Picture!Tiny
    <2> QED BY <1>3, <2>1 DEF Shot
  <1>7. /\ ticks \in CfrType /\ ticks.tick = cfr.tick /\ ticks.latest = cfr.latest
        /\ ticks.pending = cfr.pending /\ ticks.discards = cfr.discards + got.discards
    BY <1>1, ClockCounts DEF SessionInvariant
  <1>8. converter \in ConverterType /\ converter.populated /\ resize \in SUBSET Sizes
        /\ control \in ControlType
    BY DEF SessionInvariant, PictureTypes, SizesAgree
  <1>9. resize = {} => converter.size = f.size
    BY <1>1, <1>3, <1>6 DEF SessionInvariant, SizesAgree
  <1>10. ~((resize # {} => f.fits) /\ fitted.size # f.size)
    <2>1. CASE resize # {} /\ f.fits
      <3>1. fitted.size = f.size
        BY <1>6, <1>8, <2>1 DEF Picture!Fitting, ConverterType
      <3> QED BY <3>1
    <2>2. CASE ~(resize # {} /\ f.fits)
      <3>1. fitted = converter
        BY <2>2 DEF Picture!Fitting
      <3> QED BY <1>9, <2>2, <3>1
    <2> QED BY <2>1, <2>2
  <1>11. f.at \in Nat /\ ~(f.at > Picture!Through)
    <2>1. Picture!Deadline(cfr.tick) \in Nat
      BY DeadlineGrows DEF SessionInvariant, PictureTypes, CfrType
    <2>2. f.at \in Nat
      BY <1>3 DEF Shot
    <2> HIDE DEF f
    <2> QED BY <1>2, <2>1, <2>2 DEF Picture!Through
  <1> HIDE DEF taken
  <1>12. \E n \in Nat : n = 1
    OBVIOUS
  <1>13. PICK n \in Nat : n = 1
    BY <1>12
  <1>14. /\ got.counts.discards + n \in Nat /\ got.counts.copies + n \in Nat
         /\ got.counts.admitted = got.counts.copies + got.counts.replaced
                                    + (got.counts.discards + n) + Waiting(taken)
         /\ got.counts.admitted = (got.counts.copies + n) + got.counts.replaced
                                    + got.counts.discards + Waiting(taken)
    <2> HIDE DEF f, fitted
    <2>1. Waiting(got.source) = Waiting(taken) + n
      BY <1>4, <1>13
    <2> QED BY <1>1, <1>5, <2>1, DiscardsCount
  <1>15. CASE ~f.fits
    <2>1. /\ counts' = [got.counts EXCEPT !.discards = got.counts.discards + n]
          /\ Picture!Commits(ticks, fitted) /\ UNCHANGED <<resize, control>>
      BY <1>10, <1>13, <1>15 DEF Picture!SubmitStaged
    <2>2. fitted = converter
      BY <1>15 DEF Picture!Fitting
    <2> HIDE DEF f, fitted
    <2>3. /\ counts' \in CountsType /\ counts'.discards = got.counts.discards + n
          /\ counts'.copies = got.counts.copies /\ counts'.replaced = got.counts.replaced
          /\ counts'.admitted = got.counts.admitted
      BY <1>1, <1>14, <2>1, CountsDiscard
    <2>4. counts'.admitted = counts'.copies + counts'.replaced + counts'.discards + Waiting(source')
      BY <1>6, <1>14, <2>3
    <2>5. /\ source' \in SourceType /\ source'.pending = <<>> /\ source'.attached = source.attached
          /\ source'.attached /\ source'.size = source.size
      BY <1>1, <1>3, <1>4, <1>6
    <2>6. cfr.discards + got.discards = counts'.replaced /\ counts'.copies = counts.copies
      BY <1>1, <2>3
    <2>7. Picture!Commits(ticks, converter)
      BY <2>1, <2>2
    <2>8. resize' \in SUBSET Sizes
      BY <1>8, <2>1
    <2> QED BY <1>1, <2>1, <2>3, <2>4, <2>5, <2>6, <2>7, <2>8, RepeatedKeeps
  <1>16. CASE f.fits
    <2> DEFINE seen == Picture!Observed(ticks, f.at)
    <2> DEFINE snap == [fitted EXCEPT !.populated = TRUE]
    <2>1. /\ counts' = [got.counts EXCEPT !.copies = got.counts.copies + n] /\ resize' = {}
          /\ control' = Picture!Freshened /\ Picture!Commits(seen, snap)
      BY <1>10, <1>11, <1>13, <1>16 DEF Picture!SubmitStaged
    <2>2. /\ seen \in CfrType /\ seen.tick = cfr.tick /\ seen.latest = f.at
          /\ seen.discards = cfr.discards + got.discards
      <3>1. ~ticks.pending
        BY <1>7 DEF SessionInvariant, CountsAgree
      <3>2. seen = [ticks EXCEPT !.latest = f.at, !.pending = TRUE, !.discards = ticks.discards]
        BY <3>1 DEF Picture!Observed
      <3>3. ticks.discards \in Nat
        BY <1>7 DEF CfrType
      <3> HIDE DEF seen, f
      <3> QED BY <1>7, <1>11, <3>2, <3>3 DEF CfrType
    <2>3. snap \in ConverterType /\ snap.populated /\ snap.free # 0 /\ snap.size = f.size
      <3>1. Ring \in Nat /\ Ring # 0
        BY DEF Picture!SessionAssumption
      <3>2. CASE resize # {}
        <4>1. PICK b \in BOOLEAN : fitted = [converter EXCEPT !.free = Ring, !.size = f.size, !.populated = b]
          <5>1. fitted = [converter EXCEPT !.free = Ring, !.size = f.size,
                                           !.populated = converter.populated /\ converter.size = f.size]
            BY <1>16, <3>2 DEF Picture!Fitting
          <5>2. (converter.populated /\ converter.size = f.size) \in BOOLEAN
            OBVIOUS
          <5> HIDE DEF fitted, f
          <5> QED BY <5>1, <5>2
        <4> HIDE DEF fitted, f
        <4> QED BY <1>6, <1>8, <3>1, <4>1 DEF ConverterType
      <3>3. CASE resize = {}
        <4>1. fitted = converter
          BY <3>3 DEF Picture!Fitting
        <4> HIDE DEF fitted, f
        <4> QED BY <1>8, <1>9, <3>3, <4>1 DEF ConverterType
      <3> QED BY <3>2, <3>3
    <2> HIDE DEF seen, snap, fitted, f
    <2>4. /\ counts' \in CountsType /\ counts'.discards = got.counts.discards
          /\ counts'.copies = got.counts.copies + n /\ counts'.replaced = got.counts.replaced
          /\ counts'.admitted = got.counts.admitted
      BY <1>1, <1>14, <2>1, CountsDiscard
    <2>5. counts'.admitted = counts'.copies + counts'.replaced + counts'.discards + Waiting(source')
      BY <1>6, <1>14, <2>4
    <2>6. seen.discards = counts'.replaced
      BY <1>1, <2>2, <2>4
    <2>7. counts'.copies <= counts.copies + 1
      <3>1. counts.copies + 1 \in Nat
        BY <1>1 DEF CountsType
      <3>2. counts'.copies = counts.copies + 1
        BY <1>1, <1>13, <2>4
      <3> QED BY <3>1, <3>2
    <2>8. /\ source' \in SourceType /\ source'.pending = <<>> /\ source'.attached
          /\ source'.size = f.size
      BY <1>3, <1>4, <1>6
    <2>9. control' \in ControlType /\ control'.stop = control.stop
      BY <1>8, <2>1, FreshenedIs
    <2>10. cfr.latest \in Nat /\ cfr.latest < f.at /\ cfr.latest <= f.at
      <3>1. cfr.latest \in Nat
        BY DEF SessionInvariant, PictureTypes, CfrType
      <3> QED BY <1>3, <1>11, <3>1
    <2>11. ASSUME NEW r \in control'.request \cup {control'.evidence}
           PROVE  r.latest <= seen.latest /\ (r.stale => r.latest < seen.latest)
      <3>1. PICK q \in control.request \cup {control.evidence} : r.latest = q.latest
        BY <1>8, <2>1, FreshenedIs
      <3>2. q.latest <= cfr.latest /\ q.latest \in Nat
        BY <1>8, <3>1 DEF SessionInvariant, EvidenceIsOld, ControlType, Evidence
      <3>3. ASSUME NEW a \in Nat, NEW b \in Nat, NEW c \in Nat, a <= b, b < c
            PROVE  a <= c /\ a < c
        BY <3>3
      <3> QED BY <1>11, <2>2, <2>10, <3>1, <3>2, <3>3
    <2>12. seen.latest <= Picture!Deadline(cfr.tick) /\ cfr.latest <= seen.latest
      BY <1>2, <2>2, <2>10 DEF f
    <2>13. resize' \in SUBSET Sizes
      BY <2>1
    <2> QED BY <2>1, <2>2, <2>3, <2>4, <2>5, <2>6, <2>7, <2>8, <2>9, <2>11, <2>12, <2>13, TickSubmitted
  <1> QED BY <1>15, <1>16

LEMMA TickKeeps ==
    ASSUME Picture!SessionAssumption, SessionInvariant, Picture!SubmitTick
    PROVE  SessionInvariant'
  <1> DEFINE got == IF cfr.tick = 0 THEN [source |-> source, counts |-> counts, discards |-> 0]
                    ELSE Picture!Received
  <1> DEFINE ticks_ == [cfr EXCEPT !.discards = cfr.discards + got.discards]
  <1>1. /\ picture.at = "submit" /\ Picture!MaySubmit /\ UNCHANGED time
        /\ \/ Picture!SubmitRepeated(got, ticks_)
           \/ /\ cfr.tick # 0 /\ Picture!Eligible(got.source.pending)
              /\ \/ Picture!SubmitResized(got.source.pending[1], got, ticks_)
                 \/ Picture!SubmitStaged(got.source.pending[1], got, ticks_)
    BY DEF Picture!SubmitTick
  <1>2. converter.free # 0
    BY DEF Picture!SubmitTick, Picture!HasFreeSlot, SessionInvariant, PictureTypes, ConverterType
  <1>3. Sane(got.source, got.counts, got.discards)
    BY SourceIsSane, ReceivedIs
  <1> HIDE DEF got
  <1>4. ticks_ = [cfr EXCEPT !.discards = cfr.discards + got.discards]
    OBVIOUS
  <1> HIDE DEF ticks_
  <1>5. CASE Picture!SubmitRepeated(got, ticks_)
    BY <1>1, <1>2, <1>3, <1>4, <1>5, NothingStaged
  <1>6. CASE /\ cfr.tick # 0 /\ Picture!Eligible(got.source.pending)
             /\ Picture!SubmitResized(got.source.pending[1], got, ticks_)
    <2>1. got.source.pending # <<>>
      BY <1>6 DEF Picture!Eligible
    <2> QED BY <1>1, <1>2, <1>3, <1>4, <1>6, <2>1, FrameClosed
  <1>7. CASE /\ cfr.tick # 0 /\ Picture!Eligible(got.source.pending)
             /\ Picture!SubmitStaged(got.source.pending[1], got, ticks_)
    BY <1>1, <1>2, <1>3, <1>4, <1>7, FrameStaged
  <1> QED BY <1>1, <1>5, <1>6, <1>7

LEMMA SessionKeeps == Picture!SessionAssumption /\ SessionInvariant /\ Picture!Next => SessionInvariant'
  <1> SUFFICES ASSUME Picture!SessionAssumption, SessionInvariant, Picture!Next
               PROVE  SessionInvariant'
    OBVIOUS
  <1>1. CASE Picture!World
    BY <1>1, WorldGoesOn, FrameComes DEF Picture!World
  <1>2. CASE Picture!Work
    BY <1>2, TurnStops, SourceRecovers, SourceAttaches, TickKeeps, SourceReceived
       DEF Picture!Work, Picture!Recover
  <1> QED BY <1>1, <1>2, WorldGoesOn DEF Picture!Next

LEMMA SessionSuffices == Picture!SessionAssumption /\ SessionInvariant => Picture!SessionIsSound
  <1> SUFFICES ASSUME Picture!SessionAssumption, SessionInvariant PROVE Picture!SessionIsSound
    OBVIOUS
  <1> USE DEF SessionInvariant
  <1>1. Picture!FramesAddUp
    BY DEF Picture!FramesAddUp, CountsAgree, Picture!Held, Waiting
  <1>2. Picture!TicksAreInOrder
    BY DEF Picture!TicksAreInOrder, TicksGoUp
  <1>3. Picture!NoCheckFails
    BY DEF Picture!NoCheckFails, PictureTypes, PictureType
  <1>4. Picture!StopIsExact
    <2>1. SUFFICES ASSUME picture.at = "finished"
                   PROVE  /\ Picture!Deadline(cfr.tick) >= control.stop
                          /\ cfr.tick > 0 => Picture!Deadline(cfr.tick - 1) <= picture.stopAt
      BY DEF Picture!StopIsExact
    <2>2. /\ picture.stopAt # -1 /\ Picture!Deadline(cfr.tick) >= picture.stopAt
          /\ control.stop # -1 /\ control.stop <= picture.stopAt
          /\ cfr.tick > 0 => Picture!Deadline(cfr.tick - 1) <= picture.stopAt
      BY <2>1 DEF StopsAgree
    <2>3. control.stop \in Nat /\ picture.stopAt \in Nat
      BY <2>2 DEF PictureTypes, ControlType, PictureType
    <2>4. Picture!Deadline(cfr.tick) \in Nat
      BY DeadlineGrows DEF PictureTypes, CfrType
    <2>5. ASSUME NEW a \in Nat, NEW b \in Nat, NEW c \in Nat, a <= b, c >= b PROVE c >= a
      BY <2>5
    <2> QED BY <2>2, <2>3, <2>4, <2>5
  <1> QED BY <1>1, <1>2, <1>3, <1>4 DEF Picture!SessionIsSound

\* The request that a source is left on was made of evidence that is still true.
LEMMA LeavesWhenAsked ==
    ASSUME SessionInvariant, Picture!Next, source.attached, ~source'.attached, ~source.closed,
           ~Picture!Gone
    PROVE  \E r \in control.request : ~r.stale
  <1> USE DEF SessionInvariant
  <1>1. source \in SourceType /\ control \in ControlType /\ cfr.latest \in Nat
    BY DEF PictureTypes, CfrType
  <1>2. ~(\/ Picture!Tick \/ Picture!Stop \/ Picture!GameEnds \/ Picture!AskRecovery
          \/ Picture!WindowsFails \/ Picture!Completes \/ Picture!TurnStopping)
    BY DEF Picture!Tick, Picture!Stop, Picture!GameEnds, Picture!AskRecovery,
           Picture!WindowsFails, Picture!Completes, Picture!TurnStopping
  <1>3. ~(Picture!TargetCloses \/ Picture!FrameArrives)
    BY <1>1 DEF Picture!TargetCloses, Picture!FrameArrives, SourceType
  <1>4. ~Picture!Attach
    BY DEF Picture!Attach, SizesAgree
  <1>5. ~Picture!Attached
    BY <1>1 DEF Picture!Attached, SourceType
  <1>6. ~Picture!ReceiveSource
    <2>1. Picture!Received.source.attached = source.attached
      BY ReceivedIs DEF Sane
    <2> QED BY <2>1 DEF Picture!ReceiveSource
  <1>7. ~Picture!SubmitTick
    <2> SUFFICES ASSUME Picture!SubmitTick PROVE FALSE
      OBVIOUS
    <2> DEFINE got == IF cfr.tick = 0 THEN [source |-> source, counts |-> counts, discards |-> 0]
                      ELSE Picture!Received
    <2> DEFINE ticks_ == [cfr EXCEPT !.discards = cfr.discards + got.discards]
    <2>1. \/ Picture!SubmitRepeated(got, ticks_)
          \/ Picture!SubmitResized(got.source.pending[1], got, ticks_)
          \/ Picture!SubmitStaged(got.source.pending[1], got, ticks_)
      BY DEF Picture!SubmitTick
    <2>2. got.source \in SourceType /\ got.source.attached
      BY SourceIsSane, ReceivedIs DEF Sane
    <2> HIDE DEF got, ticks_
    <2>3. ~Picture!SubmitRepeated(got, ticks_)
      BY <2>2 DEF Picture!SubmitRepeated
    <2>4. ~Picture!SubmitResized(got.source.pending[1], got, ticks_)
      BY <2>2 DEF Picture!SubmitResized, Picture!Emptied, SourceType
    <2>5. ~Picture!SubmitStaged(got.source.pending[1], got, ticks_)
      BY <2>2 DEF Picture!SubmitStaged, SourceType
    <2> QED BY <2>1, <2>3, <2>4, <2>5
  <1>8. Picture!Left = source
    BY DEF Picture!Left
  <1>9. ~(Picture!RecoverNothing \/ Picture!TryLater)
    BY <1>8 DEF Picture!RecoverNothing, Picture!TryLater, Picture!Leaves
  <1>10. Picture!Rebuild
    BY <1>2, <1>3, <1>4, <1>5, <1>6, <1>7, <1>9
       DEF Picture!Next, Picture!World, Picture!Work, Picture!Recover
  <1>11. PICK r \in control.request : r.latest = cfr.latest
    BY <1>8, <1>10 DEF Picture!Rebuild, Picture!NothingToRecover, Picture!Matching
  <1>12. ~r.stale
    BY <1>1, <1>11 DEF EvidenceIsOld
  <1> QED BY <1>11, <1>12

-----------------------------------------------------------------------------
(* The parts together. *)

nativeVars == <<part, captureVars, pictureVars, encoderVars, muxVars, queueVars, ownerVars,
                watchVars>>

PartInvariant ==
    /\ part = "capture" => CaptureInvariant
    /\ part \in {"leaving", "resizing"} => SessionInvariant
    /\ part = "encoder" => EncoderInvariant
    /\ part = "mux" => MuxInvariant
    /\ part = "lifecycle" => LifecycleInvariant
    /\ part = "watch" => WatchInvariant

LEMMA PartInitially == Init => PartInvariant
  BY NativeAssumption, CaptureInitially, SessionInitially, EncoderInitially, MuxInitially,
     LifecycleInitially, WatchInitially
     DEF Init, PartInvariant

LEMMA SessionRests == ASSUME SessionInvariant, UNCHANGED pictureVars PROVE SessionInvariant'
  BY DEF pictureVars, SessionInvariant, PictureTypes, CountsAgree, Waiting, TicksGoUp,
         SizesAgree, StopsAgree, EvidenceIsOld

LEMMA EncoderRests == ASSUME EncoderInvariant, UNCHANGED encoderVars PROVE EncoderInvariant'
  <1>1. (EncoderTypes /\ FreeIsFree /\ QueueOwns /\ ThreadOwns /\ WorkerOwns)'
    BY DEF encoderVars, EncoderInvariant, EncoderTypes, FreeIsFree, QueueOwns, ThreadOwns,
           WorkerOwns, IsFrame, AtThread, AtWorker
  <1>2. (MarksAreLast /\ Aligned /\ Prefixed)'
    BY DEF encoderVars, EncoderInvariant, MarksAreLast, Aligned, Prefixed, IsFrame, AtThread,
           Marked, Held, Frames, Coming
  <1>3. (Blame /\ Outcome)'
    BY DEF encoderVars, EncoderInvariant, Blame, Outcome, Encoder!AllFree
  <1> QED BY <1>1, <1>2, <1>3 DEF EncoderInvariant

\* A step of the engine is a step of the part that runs, or leaves that part alone.
LEMMA PartIsKept ==
    ASSUME PartInvariant, [Next]_nativeVars
    PROVE  PartInvariant'
  <1>1. part' = part
    BY DEF Next, nativeVars
  <1>2. CASE part = "capture"
    <2>1. [Capture!Next]_captureVars
      BY <1>2 DEF Next, nativeVars, PictureNext, QueueNext
    <2> QED BY <1>1, <1>2, <2>1, NativeAssumption, CaptureKeeps DEF PartInvariant
  <1>3. CASE part \in {"leaving", "resizing"}
    <2>1. Picture!Next \/ UNCHANGED pictureVars
      BY <1>3 DEF Next, nativeVars, PictureNext, QueueNext
    <2>2. SessionInvariant'
      BY <1>3, <2>1, NativeAssumption, SessionKeeps, SessionRests DEF PartInvariant
    <2> QED BY <1>1, <1>3, <2>2 DEF PartInvariant
  <1>4. CASE part = "encoder"
    <2>1. Encoder!Next \/ UNCHANGED encoderVars
      BY <1>4 DEF Next, nativeVars, PictureNext, QueueNext
    <2>2. EncoderInvariant'
      BY <1>4, <2>1, NativeAssumption, EncoderKeeps, EncoderRests DEF PartInvariant
    <2> QED BY <1>1, <1>4, <2>2 DEF PartInvariant
  <1>5. CASE part = "mux"
    <2>1. [Mux!Next]_muxVars
      BY <1>5 DEF Next, nativeVars, PictureNext, QueueNext
    <2> QED BY <1>1, <1>5, <2>1, NativeAssumption, MuxKeeps DEF PartInvariant
  <1>6. CASE part = "lifecycle"
    <2>1. [Lifecycle!Next]_ownerVars
      BY <1>6 DEF Next, nativeVars, PictureNext, QueueNext
    <2> QED BY <1>1, <1>6, <2>1, NativeAssumption, LifecycleKeeps DEF PartInvariant
  <1>7. CASE part = "watch"
    <2>1. [Watch!Next]_watchVars
      BY <1>7 DEF Next, nativeVars, PictureNext, QueueNext
    <2> QED BY <1>1, <1>7, <2>1, NativeAssumption, WatchKeeps DEF PartInvariant
  <1> QED BY <1>1, <1>2, <1>3, <1>4, <1>5, <1>6, <1>7 DEF PartInvariant

LEMMA PartInvariance == Spec => []PartInvariant
  <1>1. Init => PartInvariant
    BY PartInitially
  <1>2. PartInvariant /\ [Next]_nativeVars => PartInvariant'
    BY PartIsKept
  <1>3. Spec => Init /\ [][Next]_nativeVars
    BY DEF Spec, nativeVars
  <1> QED BY <1>1, <1>2, <1>3, PTL

\* The capture, the picture, the encoder, the pipes, the lifecycle and the watch are sound
\* for any callbacks, surfaces, sizes, slots, windows, waits and bounds: all of
\* PipelineIsSound but the queue of a sound device, whose lengths are sums over sequences.
THEOREM PipelineCorrect == Spec => [](part \notin {"packets", "rounding"} => PipelineIsSound)
  <1>1. PartInvariant => (part \notin {"packets", "rounding"} => PipelineIsSound)
    BY NativeAssumption, CaptureSuffices, SessionSuffices, EncoderSuffices, MuxSuffices,
       LifecycleSuffices, WatchSuffices
       DEF PartInvariant, PipelineIsSound
  <1> QED BY <1>1, PartInvariance, PTL

\* Only the part that runs changes its variables.
LEMMA PictureMoves ==
    ASSUME [Next]_nativeVars, pictureVars' # pictureVars
    PROVE  Picture!Next /\ part \in {"leaving", "resizing"}
  BY DEF Next, nativeVars, PictureNext, QueueNext

LEMMA MuxMoves ==
    ASSUME [Next]_nativeVars, muxVars' # muxVars
    PROVE  Mux!Next /\ part = "mux"
  BY DEF Next, nativeVars, PictureNext, QueueNext

\* The worker never tears down a source that works on an old request
\* (recover_capture matches the generation and the tick of the request), and the feeder
\* gives up the lead of the sound only for video that stood still for the whole wait
\* (the write pump of the muxer measures it from the last block that went through).
THEOREM StepsJustified == Spec => StepsAreJustified
  <1> DEFINE Stays == source.attached /\ ~source'.attached /\ ~source.closed /\ ~Picture!Gone
                      => \E r \in control.request : ~r.stale
  <1> DEFINE Escapes == feeder.at # "escaped" /\ feeder'.at = "escaped"
                        => video = "writing" /\ flow.quiet >= Second
  <1>1. ASSUME PartInvariant, [Next]_nativeVars PROVE [Stays]_Picture!vars
    <2>1. CASE source' = source
      BY <2>1
    <2>2. CASE source' # source
      <3>1. pictureVars' # pictureVars
        BY <2>2 DEF pictureVars
      <3>2. Picture!Next /\ part \in {"leaving", "resizing"}
        BY <1>1, <3>1, PictureMoves
      <3> QED BY <1>1, <3>2, LeavesWhenAsked DEF PartInvariant
    <2> QED BY <2>1, <2>2
  <1>2. ASSUME PartInvariant, [Next]_nativeVars PROVE [Escapes]_Mux!vars
    <2>1. CASE feeder' = feeder
      BY <2>1
    <2>2. CASE feeder' # feeder
      <3>1. muxVars' # muxVars
        BY <2>2 DEF muxVars
      <3>2. Mux!Next /\ part = "mux"
        BY <1>2, <3>1, MuxMoves
      <3> QED BY <1>2, <3>2, NativeAssumption, EscapesWhenStalled DEF PartInvariant
    <2> QED BY <2>1, <2>2
  <1> HIDE DEF Stays, Escapes
  <1>3. Spec => [][Next]_nativeVars
    BY DEF Spec, nativeVars
  <1>4. Spec => [][Stays]_Picture!vars /\ [][Escapes]_Mux!vars
    BY <1>1, <1>2, <1>3, PartInvariance, PTL
  <1> USE DEF Stays, Escapes
  <1> QED
    BY <1>4, PTL DEF StepsAreJustified, Picture!LiveSourceStays, Mux!EscapeIsGenuine
=============================================================================
