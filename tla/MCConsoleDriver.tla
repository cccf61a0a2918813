--------------------------- MODULE MCConsoleDriver ---------------------------
(* TLC instance of ConsoleDriver. *)
EXTENDS ConsoleDriver, TLC

MCInitialCount == [s \in Semaphores |-> 0]

Symmetry == Permutations(Threads)

=============================================================================
