-------------------------- MODULE LibraryAuthority --------------------------
(***************************************************************************)
(* What the library coordinator promises about the token that authorizes   *)
(* reads and mutations: a snapshot's token becomes the selection at most   *)
(* once, only while nothing is selected, and never comes back after it was *)
(* revoked or its refresh was superseded; shutdown ends all authority.     *)
(***************************************************************************)
EXTENDS Naturals

CONSTANT Tokens   \* positive naturals; 0 stands for no selection

VARIABLES
    selection,    \* the token that authorizes commands, or 0
    spent,        \* tokens that can no longer become the selection
    closed        \* the app is shutting down

vars == <<selection, spent, closed>>

Init == selection = 0 /\ spent = {} /\ closed = FALSE

Grant(t) ==
    /\ ~closed /\ selection = 0 /\ t \notin spent
    /\ selection' = t
    /\ spent' = spent \cup {t}
    /\ UNCHANGED closed

\* A refresh, mutation or change of root ends the authority; refreshes
\* overtaken by it spend their tokens.
Revoke ==
    /\ selection' = 0
    /\ spent \subseteq spent' /\ spent' \subseteq Tokens
    /\ UNCHANGED closed

\* A refresh is overtaken or given up.
Spend ==
    /\ spent \subseteq spent' /\ spent' \subseteq Tokens
    /\ UNCHANGED <<selection, closed>>

Close ==
    /\ closed' = TRUE
    /\ selection' = 0
    /\ spent \subseteq spent' /\ spent' \subseteq Tokens

Next == (\E t \in Tokens : Grant(t)) \/ Revoke \/ Spend \/ Close

Spec == Init /\ [][Next]_vars

=============================================================================
