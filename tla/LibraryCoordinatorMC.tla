------------------------ MODULE LibraryCoordinatorMC ------------------------
(***************************************************************************)
(* Model checking of LibraryCoordinator: the concrete command subsets of   *)
(* the runs, and the symmetry of its calls.                                *)
(***************************************************************************)
EXTENDS LibraryCoordinator, TLC

\* Refreshes alone.
RefreshKinds == {"refresh"}

\* The app starts with one used library at most, and nothing saved in it;
\* the other roots are filled by the recorder, exports and mutations.
UsedRoot == CHOOSE r \in Roots : TRUE
MCInit ==
    /\ Init
    /\ \A i \in Items : disk[UsedRoot][i] # "saved"
    /\ \A r \in Roots \ {UsedRoot} : disk[r] = NoView

MCSpec == MCInit /\ [][Next]_vars

\* The calls are interchangeable.
CallSymmetry == Permutations(Calls)

=============================================================================
