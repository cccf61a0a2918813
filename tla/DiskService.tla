---------------------------- MODULE DiskService ----------------------------
(***************************************************************************)
(* What drivers/drvDisk.h promises of a synchronous disk: each disk serves *)
(* one request at a time, a request is performed once, and its caller      *)
(* leaves only after the device has announced the end of that very         *)
(* request.                                                                *)
(***************************************************************************)
CONSTANTS Threads, Disks, Sectors, Data, None

VARIABLES
  serving,  \* the thread each disk serves, or None
  done,     \* whether the device has announced the end of the request
  mem,      \* the contents of the disks
  buffer    \* the data each thread last read or wrote

serviceVars == <<serving, done, mem, buffer>>

ServiceInit ==
  /\ serving = [d \in Disks |-> None]
  /\ done = [d \in Disks |-> FALSE]
  /\ mem \in [Disks -> [Sectors -> Data]]
  /\ buffer \in [Threads -> Data]

StartRead(t, d, sector) ==
  /\ serving[d] = None
  /\ serving' = [serving EXCEPT ![d] = t]
  /\ buffer' = [buffer EXCEPT ![t] = mem[d][sector]]
  /\ UNCHANGED <<done, mem>>

StartWrite(t, d, sector, v) ==
  /\ serving[d] = None
  /\ serving' = [serving EXCEPT ![d] = t]
  /\ mem' = [mem EXCEPT ![d][sector] = v]
  /\ buffer' = [buffer EXCEPT ![t] = v]
  /\ UNCHANGED done

Complete(d) ==
  /\ serving[d] # None
  /\ ~done[d]
  /\ done' = [done EXCEPT ![d] = TRUE]
  /\ UNCHANGED <<serving, mem, buffer>>

Leave(t, d) ==
  /\ serving[d] = t
  /\ done[d]
  /\ serving' = [serving EXCEPT ![d] = None]
  /\ done' = [done EXCEPT ![d] = FALSE]
  /\ UNCHANGED <<mem, buffer>>

ServiceNext ==
  \E d \in Disks :
    \/ Complete(d)
    \/ \E t \in Threads :
         \/ Leave(t, d)
         \/ \E sector \in Sectors :
              \/ StartRead(t, d, sector)
              \/ \E v \in Data : StartWrite(t, d, sector, v)

ServiceSpec == ServiceInit /\ [][ServiceNext]_serviceVars

=============================================================================
