---------------------------- MODULE FrameCapture ----------------------------
(***************************************************************************)
(* The leaf of the native source that Windows calls back: the worker owns  *)
(* the frame pool, callbacks take surfaces from it and leave them in a     *)
(* handoff of capacity one, and the worker must know that no callback is   *)
(* inside before it recreates the pool for a new size, or closes it.       *)
(* recorder/src/native/capture.rs, and the latch of native/source.rs.      *)
(***************************************************************************)
EXTENDS Integers, Sequences, FiniteSets

CONSTANTS Callbacks,        \* the threads that Windows calls back on
          Handlers,         \* the registered handlers: of frames and of the closed target
          MaxFrames,        \* bound of a run: surfaces that the pool delivers
          MaxRecreations    \* bound of a run: resizes of the target

\* What the constants must satisfy.
CaptureAssumption ==
    /\ IsFiniteSet(Callbacks) /\ "frame" \in Handlers
    /\ MaxFrames \in Nat /\ MaxRecreations \in Nat

VARIABLES gate,       \* FrameCallbackState: reconfiguring, stopping, waiter_registered
          active,     \* ... active
          owners,     \* the handlers that still hold the state
          lock,       \* who holds wait_lock
          callback,   \* where each callback is
          releasing,  \* the thread that releases a handler is about to notify
          owner,      \* the worker: what it does, and where it is in it
          pool,       \* generation of the pool's surfaces, and whether it is open
          handoff,    \* generations of the surfaces in the channel
          pending,    \* ... and of the pending one
          tally       \* NativeWgcTelemetry, and the copies of the session

vars == <<gate, active, owners, lock, callback, releasing, owner, pool, handoff, pending, tally>>

Inside == {"inside", "taken", "sent"}
Nobody == "nobody"
Idle == active = 0
Released == Idle /\ owners = {}

\* The predicate that the worker waits for.
Quiet == IF owner.why = "release" THEN Released ELSE Idle

Init ==
    /\ gate = [reconfiguring |-> FALSE, stopping |-> FALSE, waiter |-> FALSE]
    /\ active = 0 /\ owners = {} /\ lock = Nobody
    /\ callback = [c \in Callbacks |-> [at |-> "out", generation |-> 0]]
    /\ releasing = FALSE
    /\ owner = [does |-> "start", why |-> "none", at |-> "run", woken |-> FALSE]
    /\ pool = [generation |-> 0, open |-> TRUE, attached |-> {}]
    /\ handoff = <<>> /\ pending = <<>>
    /\ tally = [arrived |-> 0, admitted |-> 0, drops |-> 0, copies |-> 0, replaced |-> 0,
                discards |-> 0, recreated |-> 0]

At(c) == callback[c].at
Goes(c, at) == callback' = [callback EXCEPT ![c].at = at]

-----------------------------------------------------------------------------
(* A callback.  Windows may call a handler as long as it holds it, also when *)
(* it has been detached.                                                     *)

Called(c) ==
    /\ At(c) = "out" /\ "frame" \in owners
    /\ active' = active + 1
    /\ Goes(c, "entered")
    /\ UNCHANGED <<gate, owners, lock, releasing, owner, pool, handoff, pending, tally>>

\* Mutant: a callback enters a pool that is about to be recreated.
GatedStopping(c) ==
    /\ At(c) = "entered"
    /\ Goes(c, IF gate.stopping THEN "leaving" ELSE "inside")
    /\ UNCHANGED <<gate, active, owners, lock, releasing, owner, pool, handoff, pending, tally>>

Gated(c) ==
    /\ At(c) = "entered"
    /\ Goes(c, IF gate.reconfiguring \/ gate.stopping THEN "leaving" ELSE "inside")
    /\ UNCHANGED <<gate, active, owners, lock, releasing, owner, pool, handoff, pending, tally>>

TakeSurface(c) ==
    /\ At(c) = "inside"
    /\ \/ tally.arrived < MaxFrames
          /\ callback' = [callback EXCEPT ![c] = [at |-> "taken", generation |-> pool.generation]]
          /\ tally' = [tally EXCEPT !.arrived = @ + 1]
       \/ Goes(c, "leaving") /\ UNCHANGED tally       \* no surface, or one of no use
    /\ UNCHANGED <<gate, active, owners, lock, releasing, owner, pool, handoff, pending>>

\* admit_frame never waits: a full handoff drops the surface.
Admit(c) ==
    /\ At(c) = "taken"
    /\ IF handoff = <<>>
       THEN handoff' = <<callback[c].generation>> /\ Goes(c, "sent") /\ UNCHANGED tally
       ELSE /\ Goes(c, "leaving") /\ tally' = [tally EXCEPT !.drops = @ + 1]
            /\ UNCHANGED handoff
    /\ UNCHANGED <<gate, active, owners, lock, releasing, owner, pool, pending>>

CountAdmitted(c) ==
    /\ At(c) = "sent"
    /\ tally' = [tally EXCEPT !.admitted = @ + 1]
    /\ Goes(c, "leaving")
    /\ UNCHANGED <<gate, active, owners, lock, releasing, owner, pool, handoff, pending>>

\* The last one out notifies; it takes the worker's mutex to do so.
Leave(c) ==
    /\ At(c) = "leaving"
    /\ active' = active - 1
    /\ Goes(c, IF active = 1 THEN "notify" ELSE "out")
    /\ UNCHANGED <<gate, owners, lock, releasing, owner, pool, handoff, pending, tally>>

Notify(c) ==
    /\ At(c) = "notify"
    /\ IF gate.waiter THEN Goes(c, "locking") ELSE Goes(c, "out")
    /\ UNCHANGED <<gate, active, owners, lock, releasing, owner, pool, handoff, pending, tally>>

Wakes == owner' = IF owner.at = "waiting" THEN [owner EXCEPT !.woken = TRUE] ELSE owner

NotifyLocked(c) ==
    /\ At(c) = "locking" /\ lock = Nobody
    /\ Wakes /\ Goes(c, "out")
    /\ UNCHANGED <<gate, active, owners, lock, releasing, pool, handoff, pending, tally>>

\* Windows lets go of a handler that is detached, or whose pool is closed.
ReleaseHandler(h) ==
    /\ h \in owners /\ ~releasing
    /\ h \notin pool.attached \/ ~pool.open
    /\ h = "frame" => \A c \in Callbacks : At(c) = "out"
    /\ owners' = owners \ {h}
    /\ releasing' = (owners' = {})
    /\ UNCHANGED <<gate, active, lock, callback, owner, pool, handoff, pending, tally>>

NotifyRelease ==
    /\ releasing
    /\ \/ ~gate.waiter /\ UNCHANGED owner
       \/ gate.waiter /\ lock = Nobody /\ Wakes
    /\ releasing' = FALSE
    /\ UNCHANGED <<gate, active, owners, lock, callback, pool, handoff, pending, tally>>

-----------------------------------------------------------------------------
(* The worker.                                                               *)

\* start_operations: a handler that cannot be registered is released at once, and
\* what was registered before it is left to shutdown.
Start ==
    /\ owner.does = "start"
    /\ \E got \in {{}, {"frame"}, Handlers} :
        /\ owners' = got
        /\ pool' = [pool EXCEPT !.attached = got]
        /\ \/ got = Handlers /\ owner' = [owner EXCEPT !.does = "record"]
           \/ owner' = [owner EXCEPT !.does = "fail"]
    /\ UNCHANGED <<gate, active, lock, callback, releasing, handoff, pending, tally>>

Running == owner.at = "run" /\ owner.does = "record"

\* receive_pending_timeout and account_pending_offer: NativeSession says when.
ReceivePending ==
    /\ Running /\ handoff # <<>>
    /\ handoff' = <<>>
    /\ \/ pending' = handoff
          /\ tally' = [tally EXCEPT !.replaced = @ + Len(pending)]
       \/ UNCHANGED pending /\ tally' = [tally EXCEPT !.discards = @ + 1]
    /\ UNCHANGED <<gate, active, owners, lock, callback, releasing, owner, pool>>

StagePending ==
    /\ Running /\ pending # <<>>
    /\ pending' = <<>>
    /\ \/ tally' = [tally EXCEPT !.copies = @ + 1]
       \/ tally' = [tally EXCEPT !.discards = @ + 1]
    /\ UNCHANGED <<gate, active, owners, lock, callback, releasing, owner, pool, handoff>>

Recreate ==
    /\ Running /\ tally.recreated < MaxRecreations
    /\ gate' = [gate EXCEPT !.reconfiguring = TRUE]
    /\ owner' = [does |-> "recreate", why |-> "idle", at |-> "lock", woken |-> FALSE]
    /\ UNCHANGED <<active, owners, lock, callback, releasing, pool, handoff, pending, tally>>

\* Each handler may refuse to be detached: the error is kept and the rest goes on.
Shutdown ==
    /\ Running \/ owner.does = "fail"
    /\ gate' = [gate EXCEPT !.stopping = TRUE]
    /\ \E kept \in SUBSET pool.attached : pool' = [pool EXCEPT !.attached = kept]
    /\ owner' = [does |-> "shutdown", why |-> "idle", at |-> "lock", woken |-> FALSE]
    /\ UNCHANGED <<active, owners, lock, callback, releasing, handoff, pending, tally>>

\* wait_for.
Register ==
    /\ owner.at = "lock" /\ lock = Nobody
    /\ lock' = "worker"
    /\ gate' = [gate EXCEPT !.waiter = TRUE]
    /\ owner' = [owner EXCEPT !.at = "check"]
    /\ UNCHANGED <<active, owners, callback, releasing, pool, handoff, pending, tally>>

Unregister(at) ==
    /\ lock' = Nobody
    /\ gate' = [gate EXCEPT !.waiter = FALSE]
    /\ owner' = [owner EXCEPT !.at = at, !.woken = FALSE]

CheckQuiet ==
    /\ owner.at = "check"
    /\ IF Quiet THEN Unregister("quiet")
       ELSE /\ lock' = Nobody /\ UNCHANGED gate
            /\ owner' = [owner EXCEPT !.at = "waiting", !.woken = FALSE]
    /\ UNCHANGED <<active, owners, callback, releasing, pool, handoff, pending, tally>>

Woken ==
    /\ owner.at = "waiting" /\ owner.woken /\ lock = Nobody
    /\ lock' = "worker"
    /\ owner' = [owner EXCEPT !.at = "check", !.woken = FALSE]
    /\ UNCHANGED <<gate, active, owners, callback, releasing, pool, handoff, pending, tally>>

\* CALLBACK_SHUTDOWN_TIMEOUT has passed: the state is looked at once more.
TimedOut ==
    /\ owner.at = "waiting" /\ lock = Nobody
    /\ Unregister(IF Quiet THEN "quiet" ELSE "late")
    /\ UNCHANGED <<active, owners, callback, releasing, pool, handoff, pending, tally>>

Drained ==
    /\ handoff' = <<>> /\ pending' = <<>>
    /\ tally' = [tally EXCEPT !.discards = @ + Len(handoff) + Len(pending),
                              !.recreated = IF owner.does = "recreate" THEN @ + 1 ELSE @]

RecreatePool ==
    /\ owner.does = "recreate" /\ owner.at = "quiet"
    /\ Drained
    /\ pool' = [pool EXCEPT !.generation = @ + 1]
    /\ owner' = [owner EXCEPT !.at = "unpause"]
    /\ UNCHANGED <<gate, active, owners, lock, callback, releasing>>

\* FrameAdmissionPause is dropped when the pool is new, and when the wait was in
\* vain: the session then ends, by way of shutdown.
Unpause ==
    /\ owner.does = "recreate" /\ owner.at \in {"unpause", "late"}
    /\ gate' = [gate EXCEPT !.reconfiguring = FALSE]
    /\ owner' = [does |-> "record", why |-> "none", at |-> "run", woken |-> FALSE]
    /\ UNCHANGED <<active, owners, lock, callback, releasing, pool, handoff, pending, tally>>

ClosePool ==
    /\ owner.does = "shutdown" /\ owner.why = "idle" /\ owner.at = "quiet"
    /\ Drained
    /\ pool' = [pool EXCEPT !.open = FALSE]
    /\ owner' = [owner EXCEPT !.why = "release", !.at = "lock"]
    /\ UNCHANGED <<gate, active, owners, lock, callback, releasing>>

\* shutdown_complete, or the latch that keeps the whole context alive.
ShutdownEnds ==
    /\ owner.does = "shutdown"
    /\ \/ owner.why = "release" /\ owner.at = "quiet" /\ owner' = [owner EXCEPT !.at = "complete"]
       \/ owner.at = "late" /\ owner' = [owner EXCEPT !.at = "retained"]
    /\ UNCHANGED <<gate, active, owners, lock, callback, releasing, pool, handoff, pending, tally>>

Callback(c) ==
    \/ Called(c) \/ Gated(c) \/ TakeSurface(c) \/ Admit(c) \/ CountAdmitted(c)
    \/ Leave(c) \/ Notify(c) \/ NotifyLocked(c)

Worker ==
    \/ Start \/ ReceivePending \/ StagePending \/ Recreate \/ Shutdown \/ Register \/ CheckQuiet
    \/ Woken \/ TimedOut \/ RecreatePool \/ Unpause \/ ClosePool \/ ShutdownEnds

Next ==
    \/ \E c \in Callbacks : Callback(c)
    \/ \E h \in Handlers : ReleaseHandler(h)
    \/ NotifyRelease
    \/ Worker

Spec == Init /\ [][Next]_vars

-----------------------------------------------------------------------------
\* While the worker recreates the pool, and once it closes it, no callback is
\* inside: one that passed the gate would touch a pool that goes away.
PoolIsQuiet ==
    \/ owner.does = "recreate" /\ owner.at \in {"quiet", "unpause"}
    \/ owner.does = "shutdown" /\ (owner.why = "release" \/ owner.at = "quiet")
    => \A c \in Callbacks : At(c) \notin Inside

\* A surface of an earlier pool is never left for the session to convert.
SurfacesAreCurrent ==
    \A k \in 1 .. Len(handoff \o pending) : (handoff \o pending)[k] = pool.generation

\* Nobody forgets the worker: when what it waits for is so, it is woken, or one
\* who will see that it waits has still to look.
NoWakeupIsLost ==
    owner.at = "waiting" /\ Quiet =>
        owner.woken \/ releasing \/ \E c \in Callbacks : At(c) \in {"notify", "locking"}

\* Every surface that was admitted is copied, replaced, discarded or still held,
\* as finish of the session demands; a callback may be about to count one.
SurfacesAddUp ==
    tally.admitted + Cardinality({c \in Callbacks : At(c) = "sent"})
        = tally.copies + tally.replaced + tally.discards + Len(handoff) + Len(pending)

\* The context is given up only when no callback can come back to it.
CompletionIsFinal == owner.at = "complete" => Released /\ handoff \o pending = <<>>

CaptureIsSound ==
    PoolIsQuiet /\ SurfacesAreCurrent /\ NoWakeupIsLost /\ SurfacesAddUp /\ CompletionIsFinal
=============================================================================
