------------------------------- MODULE Autostart -------------------------------
(***************************************************************************)
(* The configuration that the apps and the recorder of a user share, and   *)
(* the Run entry that starts the recorder at login (app config.rs and      *)
(* autostart.rs, recorder config.rs, config_lock.rs and login.rs).         *)
(*                                                                         *)
(* Every writer reads the file under a lock of its own name, changes only  *)
(* its fields and replaces the file whole.  A change of the login setting  *)
(* writes and verifies the registry first and then the file; when any of   *)
(* it fails the lock is gone, for it went with the transaction that was    *)
(* to be committed, and the old registration is put back if the value is   *)
(* still the one that was meant.                                           *)
(*                                                                         *)
(* A writer is a process: its commands are serialised by a mutex of its    *)
(* own.  A file that cannot be parsed, and the fields that no command      *)
(* changes, are left out.                                                  *)
(***************************************************************************)
EXTENDS Naturals, Functions

CONSTANTS
    Writers,      \* processes
    Kinds,        \* what they do, a subset of AllKinds
    MaxOps,       \* bound: commands of each
    MaxTroubles   \* bound: writes that fail, crashes, and registrations of others

Settings == {"storage", "hevc"}
AllKinds == Settings \cup {"create", "status", "on", "off"}

AutostartAssumption ==
    /\ Writers # {} /\ "nobody" \notin Writers /\ Kinds \subseteq AllKinds
    /\ MaxOps \in Nat /\ MaxTroubles \in Nat

VARIABLES
    file,       \* config.toml: its fields, or Nothing
    lock,       \* the process that has config.toml.lock, or "nobody"
    registry,   \* the Run entry, and who wrote it last
    op,         \* [Writers -> the command of each: where it is, what it read]
    ops,        \* [Writers -> commands it has begun]
    saved,      \* history: each field as the last change of it that was answered left it
    before,     \* history: the registration at first, or as last saved
    torn,       \* history: registration and preference may differ, as was answered
    troubles

vars == <<file, lock, registry, op, ops, saved, before, torn, troubles>>

\* Config::default.  A field is changed to another value each time.
Default == [storage |-> 0, hevc |-> 0, autostart |-> TRUE]
Nothing == [storage |-> 0, hevc |-> 0]
Idle == [at |-> "idle", kind |-> "status", doc |-> Default, prior |-> "absent",
         settled |-> TRUE]

Init ==
    /\ file \in {Nothing, Default}
    /\ lock = "nobody"
    /\ registry \in [value : {"absent", "ours", "foreign"}, author : {"other"}]
    /\ op = [w \in Writers |-> Idle] /\ ops = [w \in Writers |-> 0]
    /\ saved = Default /\ before = registry.value /\ torn = FALSE
    /\ troubles = 0

------------------------------------------------------------------------------

At(w, here) == op[w].at = here
Go(w, there) == op' = [op EXCEPT ![w].at = there]
Unlock(w) == lock' = IF lock = w THEN "nobody" ELSE lock
historyVars == <<saved, before, torn>>
Trouble == troubles < MaxTroubles /\ troubles' = troubles + 1

\* The command ends, or a failed change goes on to show what is there now.
Finish(w) == op' = [op EXCEPT ![w] = Idle]
Reread(w) == op' = [op EXCEPT ![w] = [Idle EXCEPT !.at = "locking"]]

Start(w) ==
    /\ At(w, "idle") /\ ops[w] < MaxOps
    /\ ops' = [ops EXCEPT ![w] = @ + 1]
    /\ \E kind \in Kinds : op' = [op EXCEPT ![w] = [Idle EXCEPT !.at = "locking", !.kind = kind]]
    /\ UNCHANGED <<file, lock, registry, historyVars, troubles>>

\* Mutant: the file is read without the lock.
AcquireUnlocked(w) ==
    /\ At(w, "locking")
    /\ op' = [op EXCEPT ![w].at = "open", ![w].doc = IF file = Nothing THEN Default ELSE file]
    /\ UNCHANGED <<file, lock, registry, ops, historyVars, troubles>>
\* ConfigMutation::open: the latest file, or the defaults, is read under the lock.
Acquire(w) ==
    /\ At(w, "locking") /\ lock = "nobody"
    /\ lock' = w
    /\ op' = [op EXCEPT ![w].at = "open", ![w].doc = IF file = Nothing THEN Default ELSE file]
    /\ UNCHANGED <<file, registry, ops, historyVars, troubles>>
\* The lock is not free for two seconds.
Busy(w) ==
    /\ At(w, "locking") /\ lock # "nobody"
    /\ IF op[w].kind \in {"on", "off"} THEN Reread(w) ELSE Finish(w)
    /\ UNCHANGED <<file, lock, registry, ops, historyVars, troubles>>

\* autostart::read, and load_or_create of a file that exists.
Look(w) ==
    /\ At(w, "open")
    /\ op[w].kind \in {"status", "create"} /\ (op[w].kind = "create" => file # Nothing)
    /\ Unlock(w) /\ Finish(w)
    /\ UNCHANGED <<file, registry, ops, historyVars, troubles>>

\* patch: the document as it was read, but for one field.
Patched(w) ==
    LET doc == op[w].doc IN
    CASE op[w].kind \in Settings -> [doc EXCEPT ![op[w].kind] = @ + 1]
      [] op[w].kind \in {"on", "off"} -> [doc EXCEPT !.autostart = op[w].kind = "on"]
      [] OTHER -> doc
Changed(w) == IF op[w].kind \in Settings THEN {op[w].kind}
              ELSE IF op[w].kind \in {"on", "off"} THEN {"autostart"} ELSE {}

\* commit: the file is replaced whole, or it is not; either way the lock goes.
Save(w) ==
    /\ file' = Patched(w)
    /\ saved' = [f \in DOMAIN saved |->
                    IF f \notin Changed(w) THEN saved[f]
                    ELSE IF f = "autostart" THEN op[w].kind = "on" ELSE saved[f] + 1]
    /\ Unlock(w)
Commit(w) ==
    /\ At(w, "open")
    /\ op[w].kind \in Settings \cup {"create"} /\ (op[w].kind = "create" => file = Nothing)
    /\ \/ Save(w) /\ UNCHANGED troubles
       \/ Trouble /\ Unlock(w) /\ UNCHANGED <<file, saved>>
    /\ Finish(w)
    /\ UNCHANGED <<registry, ops, before, torn>>

------------------------------------------------------------------------------
(* update_owned: the registry and the file.                                *)

Intended(w) == IF op[w].kind = "on" THEN "ours" ELSE "absent"

\* A foreign entry is left alone.  What is noted is settled unless a failed change
\* of another process may still be undone, which takes no lock.
Undecided(w) == op[w].at \in {"failed", "undoing"}
NotePrior(w) ==
    /\ At(w, "open") /\ op[w].kind \in {"on", "off"}
    /\ IF registry.value = "foreign"
       THEN Unlock(w) /\ Reread(w)
       ELSE /\ op' = [op EXCEPT ![w].at = "noted", ![w].prior = registry.value,
                                ![w].settled = \A v \in Writers : ~Undecided(v)]
            /\ UNCHANGED lock
    /\ UNCHANGED <<file, registry, ops, historyVars, troubles>>

\* An error drops the transaction, and the lock with it, before anything is undone.
Fail(w) == Unlock(w) /\ Go(w, "failed")

Register(w) ==
    /\ At(w, "noted")
    /\ \/ /\ registry' = [value |-> Intended(w), author |-> w]
          /\ Go(w, "written") /\ UNCHANGED <<lock, troubles>>
       \/ Trouble /\ Fail(w) /\ UNCHANGED registry
    /\ UNCHANGED <<file, ops, historyVars>>
Verify(w) ==
    /\ At(w, "written")
    /\ IF registry.value = Intended(w) THEN Go(w, "verified") /\ UNCHANGED lock ELSE Fail(w)
    /\ UNCHANGED <<file, registry, ops, historyVars, troubles>>
Persist(w) ==
    /\ At(w, "verified")
    /\ \/ /\ Save(w) /\ Finish(w)
          /\ before' = Intended(w) /\ UNCHANGED troubles
       \/ Trouble /\ Fail(w) /\ UNCHANGED <<file, saved, before>>
    /\ UNCHANGED <<registry, ops, torn>>

\* A value that is not the intended one is another's; the answer says that the two
\* may differ.
CompareBack(w) ==
    /\ At(w, "failed")
    /\ IF registry.value = Intended(w) THEN Go(w, "undoing") /\ UNCHANGED torn
                                       ELSE Reread(w) /\ torn' = TRUE
    /\ UNCHANGED <<file, lock, registry, ops, saved, before, troubles>>
\* Another process has made this registration since, or what is put back was never
\* more than the failed change of another process.
UndoesAnother(w) ==
    ~op[w].settled \/ (op[w].prior # registry.value /\ registry.author # w)
Undo(w) ==
    /\ At(w, "undoing")
    /\ \/ /\ registry' = [value |-> op[w].prior, author |-> w]
          /\ torn' = (torn \/ UndoesAnother(w)) /\ UNCHANGED troubles
       \/ Trouble /\ torn' = TRUE /\ UNCHANGED registry
    /\ Reread(w)
    /\ UNCHANGED <<file, lock, ops, saved, before>>

------------------------------------------------------------------------------

\* Another program, or an installer, changes the entry; a process ends at any time
\* and its lock is released.
OthersRegister ==
    /\ Trouble
    /\ \E value \in {"absent", "ours", "foreign"} \ {registry.value} :
          registry' = [value |-> value, author |-> "other"]
    /\ torn' = TRUE
    /\ UNCHANGED <<file, lock, op, ops, saved, before>>
Crash(w) ==
    /\ Trouble
    /\ ~At(w, "idle") /\ Finish(w) /\ Unlock(w)
    /\ torn' = (torn \/ op[w].at \in {"written", "verified", "failed", "undoing"})
    /\ UNCHANGED <<file, registry, ops, saved, before>>

Writer(w) ==
    \/ Start(w) \/ Acquire(w) \/ Busy(w) \/ Look(w) \/ Commit(w)
    \/ NotePrior(w) \/ Register(w) \/ Verify(w) \/ Persist(w) \/ CompareBack(w) \/ Undo(w)
Next == (\E w \in Writers : Writer(w) \/ Crash(w)) \/ OthersRegister

Spec == Init /\ [][Next]_vars

------------------------------------------------------------------------------
(* Properties.                                                             *)

\* Two processes that change different settings keep both changes, and the creation
\* of the file loses none: each field is what was last saved of it.
NothingIsLost == file # Nothing => file = saved

\* A login setting is changed in the registry and in the file or in neither, unless
\* the answer said otherwise, a process died halfway or another program interfered.
BothOrNeither ==
    ~torn /\ (\A w \in Writers : op[w].at \in {"idle", "locking", "open"})
        => registry.value = before

AutostartIsSound == NothingIsLost /\ BothOrNeither
=============================================================================
