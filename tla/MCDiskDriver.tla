---------------------------- MODULE MCDiskDriver ----------------------------
(* TLC instances of DiskDriver. *)
EXTENDS DiskDriver, TLC

MCInitialCount == [s \in Semaphores |-> 0]
MCDiskLock == [d \in Disks |-> IF d = "disk" THEN "lock disk" ELSE "lock swap"]
MCDiskSem == [d \in Disks |-> IF d = "disk" THEN "sem disk" ELSE "sem swap"]

\* One thread has the swap disk to itself and the others share the other disk,
\* or all share it.
Loner == CHOOSE t \in Threads : TRUE
MCUses == {[t \in Threads |-> IF t = Loner THEN {"swap"} ELSE {"disk"}], [t \in Threads |-> {"disk"}]}

=============================================================================
