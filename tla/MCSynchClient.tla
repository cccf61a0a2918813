--------------------------- MODULE MCSynchClient ---------------------------
(* TLC instances of SynchClient. *)
EXTENDS SynchClient, TLC

\* Two semaphores: one that starts with a unit, one that starts empty.
MCInitialCount == [s \in Semaphores |-> IF s = "mutex" THEN 1 ELSE 0]

Symmetry == Permutations(Threads)

=============================================================================
