-------------------------- MODULE MCTripSyncMutex --------------------------
(* TripSyncMutex for TLC: jobs are model values, interchangeable.          *)
EXTENDS TripSyncRefinement, TLC

Symmetry == Permutations(Jobs)
=============================================================================
