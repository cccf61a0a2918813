------------------------ MODULE ConsoleDriverProofs ------------------------
(***************************************************************************)
(* The safety properties of the console driver for every number of         *)
(* threads, every keyboard without the byte 0xFF, strings and inputs of    *)
(* any length, and with or without the placeholders of the skeleton.       *)
(***************************************************************************)
EXTENDS ConsoleDriver, SynchProofs, SequenceTheorems

---------------------------------------------------------------------------
(* The inductive invariant *)

PutLoop == {"put", "put_wait"}
GetLoop == {"get_start", "get_wait", "get_char"}
Labels == {"user", "put_acquire", "put", "put_wait",
           "get_acquire", "get_start", "get_wait", "get_char"}

\* A thread sleeps only in the call its pc tells.
WaitsForOwn ==
  \A t \in Threads :
    /\ pc[t] = "put_acquire" => waitOn[t] \in {None, MutexPut}
    /\ pc[t] = "get_acquire" => waitOn[t] \in {None, MutexGet}
    /\ pc[t] = "put_wait" => waitOn[t] = Put
    /\ pc[t] = "get_wait" => waitOn[t] = Get
    /\ pc[t] \in {"user", "put", "get_start", "get_char"} => waitOn[t] = None

\* PutString: one thread at a time is in its loop.
PutHeld == \A t \in Threads : pc[t] \in PutLoop => owner[MutexPut] = t

\* The units of put and the write interrupts are those of the one thread
\* that waits for its character to be displayed.
PutCounted ==
  /\ count[Put] + pendingWrite <= 1
  /\ putBusy <=> pendingWrite = 1
  /\ count[Put] + pendingWrite = 1 <=> \E t \in Threads : pc[t] = "put_wait"

\* The characters counted by the loop are on the screen.
PutProgress ==
  \A t \in Threads :
    /\ pc[t] = "put_acquire" => done[t] = 0
    /\ pc[t] \in PutLoop => done[t] <= Len(screen)

PutInv == PutHeld /\ PutCounted /\ PutProgress /\ StringsWhole

\* GetString: one thread at a time is in its loop.
GetHeld == \A t \in Threads : pc[t] \in GetLoop => owner[MutexGet] = t

\* A call of GetString begins with no character, and in its loop has one to go.
GetProgress ==
  \A t \in Threads :
    /\ pc[t] \in {"get_acquire", "get_start"} => done[t] = 0
    /\ pc[t] \in {"get_wait", "get_char"} => done[t] < size[t]

\* CharsCounted, without the cardinality: a thread past P has a claim on the
\* character in the device, otherwise the semaphore has the unit of it.
Claimed ==
  /\ (\E t \in Threads : pc[t] = "get_char") => count[Get] = 0 /\ incoming # EOF
  /\ (\A t \in Threads : pc[t] # "get_char") =>
       count[Get] = IF incoming = EOF THEN 0 ELSE 1

\* While a thread waits for a character the console is polled.
Polled ==
  \A t \in Threads : pc[t] \in {"get_wait", "get_char"} => intState /\ pendingRead > 0

\* CharsInOrder, character by character.
Ordered ==
  /\ taken = Len(received) + (IF incoming = EOF THEN 0 ELSE 1)
  /\ \A i \in 1..Len(received) : received[i] = typed[i]
  /\ incoming # EOF => incoming = typed[taken]

GetInv == GetHeld /\ GetProgress /\ Claimed /\ Polled /\ Ordered

\* When the simulator stops by itself or on an ASSERT, every thread is stuck in
\* Acquire: no character is on its way to the screen and no reader is polled for.
StopsOnlyAtLocks ==
  machine \in {"halted", "assert"} =>
    \A t \in Threads : pc[t] \in {"put_acquire", "get_acquire"}

IInv ==
  /\ TypeOK
  /\ KernelInv
  /\ WaitsForOwn
  /\ PutInv
  /\ GetInv
  /\ StopsOnlyAtLocks

\* The types of the state, one fact per variable.
LEMMA Typed ==
  ASSUME TypeOK
  PROVE  /\ waitOn \in [Threads -> Objects \cup {None}]
         /\ count \in [Semaphores -> Nat]
         /\ count[Put] \in Nat /\ count[Get] \in Nat
         /\ is_free \in [Locks -> BOOLEAN]
         /\ owner \in [Locks -> Threads \cup {None}]
         /\ pc \in [Threads -> Labels]
         /\ size \in [Threads -> 0..MaxString]
         /\ done \in [Threads -> 0..MaxString]
         /\ pendingWrite \in Nat
         /\ pendingRead \in Nat
         /\ putBusy \in BOOLEAN
         /\ intState \in BOOLEAN
BY ConsoleAssumption DEF TypeOK, SynchTypeOK, Labels

\* The objects of the driver are four different ones.
LEMMA ConsoleObjects ==
  /\ Put \in Semaphores /\ Get \in Semaphores /\ Put # Get
  /\ MutexPut \in Locks /\ MutexGet \in Locks /\ MutexPut # MutexGet
  /\ None \notin {Put, Get, MutexPut, MutexGet}
  /\ Semaphores \cap Locks = {}
BY ConsoleAssumption, ObjectsAssumption

\* A lock that some thread owns is busy.
LEMMA OwnedBusy ==
  ASSUME KernelInv, NEW t \in Threads, NEW l \in Locks, owner[l] = t
  PROVE  ~is_free[l]
BY ThreadsAssumption DEF KernelInv, LockQueues

\* Before a character is sent the device is ready and put has no unit.
LEMMA PutFindsReady ==
  ASSUME TypeOK, PutInv, NEW t \in Threads, pc[t] = "put"
  PROVE  ~putBusy /\ pendingWrite = 0 /\ count[Put] = 0
<1>1. \A u \in Threads : pc[u] # "put_wait"
  BY DEF PutInv, PutHeld, PutLoop
<1>2. /\ count[Put] + pendingWrite <= 1
      /\ count[Put] + pendingWrite # 1
      /\ putBusy <=> pendingWrite = 1
  BY <1>1 DEF PutInv, PutCounted
<1>3. count[Put] \in Nat /\ pendingWrite \in Nat
  BY Typed
<1> QED BY <1>2, <1>3

\* A thread past get->P() finds a character, and no other claims it.
LEMMA GetFindsChar ==
  ASSUME GetInv, NEW t \in Threads, pc[t] = "get_char"
  PROVE  incoming # EOF /\ count[Get] = 0 /\ \A u \in Threads : pc[u] = "get_char" => u = t
BY DEF GetInv, GetHeld, GetLoop, Claimed

---------------------------------------------------------------------------
(* The kernel and the types *)

\* Every step of the driver is a step of the kernel.
LEMMA StepKernel ==
  ASSUME [Next]_vars
  PROVE  KernelStep
<1> USE ConsoleObjects
<1>1. ASSUME NEW t \in Threads, NEW n, CallPut(t, n) \/ CallGet(t, n)
      PROVE  KernelStep
  BY <1>1 DEF CallPut, CallGet, Call, KernelStep
<1>2. ASSUME NEW t \in Threads, PutAcquire(t) \/ PutWait(t) \/ PutEnd(t)
      PROVE  KernelStep
  BY <1>2 DEF PutAcquire, PutWait, PutEnd, KernelStep
<1>3. ASSUME NEW t \in Threads, PutNext(t)
      PROVE  KernelStep
  BY <1>3 DEF PutNext, KernelStep
<1>4. ASSUME NEW t \in Threads, GetAcquire(t) \/ GetStart(t) \/ GetWait(t)
      PROVE  KernelStep
  BY <1>4 DEF GetAcquire, GetStart, GetWait, GetP, KernelStep
<1>5. ASSUME NEW t \in Threads, GetNext(t) \/ GetNothing(t) \/ YieldCPU(t)
      PROVE  KernelStep
  BY <1>5 DEF GetNext, GetNothing, GetEnd, GetP, YieldCPU, KernelStep
<1>6. CASE WriteDone \/ CheckCharAvail
  BY <1>6 DEF WriteDone, PutAChar, CheckCharAvail, GetAChar, KernelStep
<1>7. ASSUME NEW c, Type(c)
      PROVE  KernelStep
  BY <1>7 DEF Type, KernelStep
<1>8. CASE IdleDispatch \/ IdleHalt
  BY <1>8 DEF IdleDispatch, IdleHalt, KernelStep
<1>9. CASE Stopped \/ UNCHANGED vars
  BY <1>9 DEF Stopped, KernelStep, vars
<1> QED BY <1>1, <1>2, <1>3, <1>4, <1>5, <1>6, <1>7, <1>8, <1>9 DEF Next, ThreadStep

\* The steps that leave the calls and the device alone.
LEMMA QuietStep ==
  ASSUME \/ \E t \in Threads : YieldCPU(t)
         \/ IdleDispatch \/ IdleHalt \/ Stopped \/ UNCHANGED vars
  PROVE  UNCHANGED <<waitOn, count, owner, consoleVars>>
BY DEF YieldCPU, Yield, IdleDispatch, Dispatch, IdleHalt, Halt, Stopped, vars,
       synchVars, objectVars

\* The state of the calls and of the device stays typed.
LEMMA StepType ==
  ASSUME TypeOK, KernelInv, GetProgress, [Next]_vars
  PROVE  TypeOK'
<1> DEFINE Calls == /\ pc' \in [Threads -> Labels]
                    /\ size' \in [Threads -> 0..MaxString]
                    /\ done' \in [Threads -> 0..MaxString]
           Output == /\ putBusy' \in BOOLEAN
                     /\ pendingWrite' \in Nat
                     /\ screen' \in Seq(Threads)
           Input == /\ incoming' \in Keys \cup {EOF}
                    /\ intState' \in BOOLEAN
                    /\ pendingRead' \in Nat
                    /\ typed' \in Seq(Keys)
                    /\ taken' \in 0..Len(typed')
                    /\ received' \in Seq(Keys \cup {EOF})
<1> USE Typed, ConsoleAssumption
<1>1. /\ screen \in Seq(Threads)
      /\ incoming \in Keys \cup {EOF}
      /\ typed \in Seq(Keys)
      /\ taken \in 0..Len(typed)
      /\ received \in Seq(Keys \cup {EOF})
  BY DEF TypeOK
<1>2. ASSUME UNCHANGED inputVars
      PROVE  Input
  BY <1>1, <1>2 DEF inputVars
<1>3. ASSUME UNCHANGED outputVars
      PROVE  Output
  BY <1>1, <1>3 DEF outputVars
<1>4. ASSUME UNCHANGED callVars
      PROVE  Calls
  BY <1>4 DEF callVars
<1>5. ASSUME UNCHANGED <<size, done>>, NEW t \in Threads, NEW a \in Labels,
             pc' = pc \/ pc' = [pc EXCEPT ![t] = a]
      PROVE  Calls
  BY <1>5
<1>6. ASSUME NEW t \in Threads, NEW n \in 0..MaxString, CallPut(t, n) \/ CallGet(t, n)
      PROVE  Calls /\ Input /\ Output
  <2>1. /\ size' = [size EXCEPT ![t] = n]
        /\ done' = [done EXCEPT ![t] = 0]
        /\ \E a \in Labels : pc' = [pc EXCEPT ![t] = a]
    BY <1>6 DEF CallPut, CallGet, Call, goto, Labels
  <2>2. 0 \in 0..MaxString
    OBVIOUS
  <2>3. Calls
    <3>1. pc' \in [Threads -> Labels]
      BY <2>1
    <3> QED BY <2>1, <2>2, <3>1
  <2> QED BY <1>2, <1>3, <1>6, <2>3 DEF CallPut, CallGet, Call
<1>7. ASSUME NEW t \in Threads, PutAcquire(t) \/ PutWait(t) \/ PutEnd(t)
      PROVE  Calls /\ Input /\ Output
  <2>1. Calls
    BY <1>5, <1>7 DEF PutAcquire, PutWait, PutEnd, goto, Labels
  <2> QED BY <1>2, <1>3, <1>7, <2>1 DEF PutAcquire, PutWait, PutEnd
<1>8. ASSUME NEW t \in Threads, PutNext(t)
      PROVE  Calls /\ Input /\ Output
  <2>1. CASE UNCHANGED consoleVars
    BY <1>2, <1>3, <1>4, <2>1 DEF consoleVars
  <2>2. CASE ~UNCHANGED consoleVars
    <3>1. /\ PutChar(t)
          /\ done[t] < size[t]
          /\ done' = [done EXCEPT ![t] = @ + 1]
          /\ UNCHANGED <<size, inputVars>>
          /\ pc' = [pc EXCEPT ![t] = "put_wait"] \/ pc' = [pc EXCEPT ![t] = "put"]
      BY <1>8, <2>2 DEF PutNext, goto
    <3>2. done[t] + 1 \in 0..MaxString
      BY <3>1
    <3>3. Calls
      BY <3>1, <3>2 DEF Labels
    <3>4. Output
      BY <1>1, <3>1 DEF PutChar
    <3> QED BY <1>2, <3>1, <3>3, <3>4
  <2> QED BY <2>1, <2>2
<1>9. ASSUME NEW t \in Threads, GetAcquire(t) \/ GetWait(t)
      PROVE  Calls /\ Input /\ Output
  <2>1. Calls
    BY <1>5, <1>9 DEF GetAcquire, GetWait, goto, Labels
  <2> QED BY <1>2, <1>3, <1>9, <2>1 DEF GetAcquire, GetWait
<1>10. ASSUME NEW t \in Threads, GetStart(t)
       PROVE  Calls /\ Input /\ Output
  <2>1. Calls
    BY <1>5, <1>10 DEF GetStart, GetP, goto, Labels
  <2>2. Input
    BY <1>1, <1>10 DEF GetStart, EnableInterrupt
  <2> QED BY <1>3, <1>10, <2>1, <2>2 DEF GetStart
<1>18. ASSUME NEW t \in Threads, GetNothing(t)
        PROVE  Calls /\ Input /\ Output
  <2>1. Calls
    <3>1. UNCHANGED <<size, done>> /\ pc' = [pc EXCEPT ![t] = "user"]
      BY <1>18 DEF GetNothing, GetEnd, goto
    <3>2. "user" \in Labels
      BY DEF Labels
    <3> QED BY <1>5, <3>1, <3>2
  <2>2. Input
    <3>1. intState' \in BOOLEAN
      BY <1>18 DEF GetNothing, GetEnd, DisableInterrupt
    <3>2. pendingRead' \in Nat
      BY <1>18 DEF GetNothing
    <3>3. UNCHANGED <<incoming, typed, taken, received>>
      BY <1>18 DEF GetNothing
    <3> QED BY <1>1, <3>1, <3>2, <3>3
  <2> QED BY <1>3, <1>18, <2>1, <2>2 DEF GetNothing
<1>11. ASSUME NEW t \in Threads, GetNext(t)
       PROVE  Calls /\ Input /\ Output
  <2>1. done[t] + 1 \in 0..MaxString
    <3>1. done[t] < size[t]
      BY <1>11 DEF GetNext, GetProgress, GetLoop
    <3> QED BY <3>1
  <2>2. /\ done' = [done EXCEPT ![t] = @ + 1]
        /\ UNCHANGED <<size, outputVars>>
        /\ \E a \in Labels : pc' = [pc EXCEPT ![t] = a]
    BY <1>11 DEF GetNext, GetEnd, GetP, goto, Labels
  <2>3. Calls
    <3>1. pc' \in [Threads -> Labels]
      BY <2>2
    <3> QED BY <2>1, <2>2, <3>1
  <2>4. Input
    <3>1. received' \in Seq(Keys \cup {EOF})
      BY <1>1, <1>11 DEF GetNext
    <3> QED BY <1>1, <1>11, <3>1 DEF GetNext, GetEnd, GetChar, DisableInterrupt
  <2> QED BY <1>3, <2>2, <2>3, <2>4
<1>12. ASSUME WriteDone
       PROVE  Calls /\ Input /\ Output
  <2>1. Output
    <3>1. /\ pendingWrite \in Nat /\ pendingWrite > 0
          /\ pendingWrite' = pendingWrite - 1
          /\ putBusy' = FALSE /\ screen' = screen
      BY <1>12 DEF WriteDone
    <3>2. pendingWrite' \in Nat
      BY ONLY <3>1
    <3> QED BY <1>1, <3>1, <3>2
  <2> QED BY <1>2, <1>4, <1>12, <2>1 DEF WriteDone
<1>13. ASSUME CheckCharAvail
       PROVE  Calls /\ Input /\ Output
  <2>1. pendingRead' \in Nat /\ UNCHANGED <<intState, typed, received>>
    BY <1>13 DEF CheckCharAvail
  <2>2. incoming' \in Keys \cup {EOF} /\ taken' \in 0..Len(typed)
    <3>1. CASE ~CharAvail
      BY <1>1, <1>13, <3>1 DEF CheckCharAvail
    <3>2. CASE CharAvail
      <4>1. taken + 1 \in 1..Len(typed) /\ Len(typed) \in Nat
        BY <1>1, <3>2 DEF CharAvail, PollFile
      <4>2. typed[taken + 1] \in Keys
        BY <1>1, <4>1
      <4> QED BY <1>13, <3>2, <4>1, <4>2 DEF CheckCharAvail
    <3> QED BY <3>1, <3>2
  <2>3. Input
    BY <1>1, <2>1, <2>2
  <2> QED BY <1>3, <1>4, <1>13, <2>3 DEF CheckCharAvail
<1>14. ASSUME NEW c \in Keys, Type(c)
       PROVE  Calls /\ Input /\ Output
  <2>1. /\ typed' = Append(typed, c)
        /\ UNCHANGED <<callVars, outputVars, incoming, intState, pendingRead, taken, received>>
    BY <1>14 DEF Type
  <2>2. typed' \in Seq(Keys) /\ Len(typed') = Len(typed) + 1 /\ Len(typed) \in Nat
    BY <1>1, <2>1
  <2>3. taken' \in 0..Len(typed')
    BY <1>1, <2>1, <2>2
  <2> QED BY <1>1, <1>3, <1>4, <2>1, <2>2, <2>3
<1>15. ASSUME \/ \E t \in Threads : YieldCPU(t)
              \/ IdleDispatch \/ IdleHalt \/ Stopped \/ UNCHANGED vars
       PROVE  Calls /\ Input /\ Output
  BY <1>2, <1>3, <1>4, <1>15, QuietStep DEF consoleVars
<1> HIDE DEF Calls, Input, Output
<1>16. Calls /\ Input /\ Output
  BY <1>6, <1>7, <1>8, <1>9, <1>10, <1>18, <1>11, <1>12, <1>13, <1>14, <1>15
     DEF Next, ThreadStep
<1>17. SynchTypeOK'
  BY StepKernel, KernelInvariant DEF KernelInv
<1> QED BY <1>16, <1>17 DEF Calls, Input, Output, TypeOK, Labels

---------------------------------------------------------------------------
(* The calls *)

\* A turn of the loop of PutString sends its character and sleeps.
LEMMA PutSends ==
  ASSUME TypeOK, PutInv, NEW t \in Threads, PutNext(t)
  PROVE  /\ pc[t] = "put" /\ done[t] < size[t]
         /\ ~putBusy /\ pendingWrite = 0 /\ count[Put] = 0
         /\ PutChar(t)
         /\ P(t, Put)
         /\ done' = [done EXCEPT ![t] = @ + 1]
         /\ pc' = [pc EXCEPT ![t] = "put_wait"]
         /\ UNCHANGED <<size, inputVars>>
<1>1. ~putBusy /\ pendingWrite = 0 /\ count[Put] = 0
  BY PutFindsReady DEF PutNext
<1> QED BY <1>1 DEF PutNext, goto

\* get->P(), from its call or from the return of its Sleep.
LEMMA GetSleepsOrTakes ==
  ASSUME NEW t \in Threads,
         GetP(t) \/ (GetWait(t) /\ TypeOK)
  PROVE  /\ P(t, Get)
         /\ count[Get] = 0 => pc' = [pc EXCEPT ![t] = "get_wait"]
         /\ count[Get] # 0 => pc' = [pc EXCEPT ![t] = "get_char"]
<1>1. CASE GetP(t)
  BY <1>1 DEF GetP, goto
<1>2. CASE GetWait(t) /\ TypeOK
  <2>1. pc[t] = "get_wait" /\ pc \in [Threads -> Labels]
    BY <1>2, Typed DEF GetWait
  <2>2. pc = [pc EXCEPT ![t] = "get_wait"]
    BY <2>1
  <2> QED BY <1>2, <2>2 DEF GetWait, goto
<1> QED BY <1>1, <1>2

\* A thread sleeps in the call its pc tells.
LEMMA StepWaitsForOwn ==
  ASSUME TypeOK, PutInv, WaitsForOwn, [Next]_vars
  PROVE  WaitsForOwn'
<1> USE Typed, ConsoleObjects
<1> DEFINE Fits(u) ==
      /\ pc[u] = "put_acquire" => waitOn[u] \in {None, MutexPut}
      /\ pc[u] = "get_acquire" => waitOn[u] \in {None, MutexGet}
      /\ pc[u] = "put_wait" => waitOn[u] = Put
      /\ pc[u] = "get_wait" => waitOn[u] = Get
      /\ pc[u] \in {"user", "put", "get_start", "get_char"} => waitOn[u] = None
<1>1. ASSUME NEW t \in Threads, NEW a, NEW o,
             pc' = [pc EXCEPT ![t] = a] \/ (pc' = pc /\ pc[t] = a),
             waitOn' = [waitOn EXCEPT ![t] = o] \/ (waitOn' = waitOn /\ waitOn[t] = o),
             \/ a = "put_acquire" /\ o \in {None, MutexPut}
             \/ a = "get_acquire" /\ o \in {None, MutexGet}
             \/ a = "put_wait" /\ o = Put
             \/ a = "get_wait" /\ o = Get
             \/ a \in {"user", "put", "get_start", "get_char"} /\ o = None
      PROVE  WaitsForOwn'
  <2>1. pc'[t] = a /\ waitOn'[t] = o
    BY <1>1
  <2>2. \A u \in Threads : u # t => pc'[u] = pc[u] /\ waitOn'[u] = waitOn[u]
    BY <1>1
  <2>3. Fits(t)'
    BY <1>1, <2>1
  <2> QED BY <2>2, <2>3 DEF WaitsForOwn
<1>2. ASSUME NEW t \in Threads, NEW n, CallPut(t, n) \/ CallGet(t, n)
      PROVE  WaitsForOwn'
  BY <1>1, <1>2 DEF CallPut, CallGet, Call, AtCall, goto, synchVars
<1>3. ASSUME NEW t \in Threads, PutAcquire(t)
      PROVE  WaitsForOwn'
  BY <1>1, <1>3, AcquireEffect DEF PutAcquire, goto
<1>4. ASSUME NEW t \in Threads, PutNext(t)
      PROVE  WaitsForOwn'
  BY <1>1, <1>4, PutSends, PEffect
<1>5. ASSUME NEW t \in Threads, PutWait(t)
      PROVE  WaitsForOwn'
  BY <1>1, <1>5, PEffect DEF PutWait, goto
<1>6. ASSUME NEW t \in Threads, PutEnd(t)
      PROVE  WaitsForOwn'
  BY <1>1, <1>6, ReleaseEffect DEF PutEnd, goto, TypeOK
<1>7. ASSUME NEW t \in Threads, GetAcquire(t)
      PROVE  WaitsForOwn'
  BY <1>1, <1>7, AcquireEffect DEF GetAcquire, goto
<1>8. ASSUME NEW t \in Threads, GetP(t) \/ GetWait(t)
      PROVE  WaitsForOwn'
  BY <1>1, <1>8, PEffect, GetSleepsOrTakes
<1>9. ASSUME NEW t \in Threads, GetStart(t) \/ GetNext(t) \/ GetNothing(t)
      PROVE  WaitsForOwn'
  BY <1>1, <1>8, <1>9, ReleaseEffect DEF GetStart, GetNext, GetNothing, GetEnd, goto, TypeOK
<1>10. ASSUME UNCHANGED <<waitOn, pc>>
       PROVE  WaitsForOwn'
  BY <1>10 DEF WaitsForOwn
<1>11. ASSUME WriteDone \/ CheckCharAvail
       PROVE  WaitsForOwn'
  BY <1>10, <1>11, VEffect DEF WriteDone, PutAChar, CheckCharAvail, GetAChar,
                              synchVars, callVars
<1>12. ASSUME NEW c, Type(c)
       PROVE  WaitsForOwn'
  BY <1>10, <1>12 DEF Type, synchVars, callVars
<1>13. ASSUME \/ \E t \in Threads : YieldCPU(t)
              \/ IdleDispatch \/ IdleHalt \/ Stopped \/ UNCHANGED vars
       PROVE  WaitsForOwn'
  BY <1>10, <1>13, QuietStep DEF consoleVars, callVars
<1> QED BY <1>2, <1>3, <1>4, <1>5, <1>6, <1>7, <1>8, <1>9, <1>11, <1>12, <1>13
        DEF Next, ThreadStep

---------------------------------------------------------------------------
(* PutString *)

PutLabels == PutLoop \cup {"put_acquire"}

\* A step outside PutString.
PutSame ==
  /\ \A u \in Threads : pc[u] \in PutLabels \/ pc'[u] \in PutLabels =>
       pc'[u] = pc[u] /\ done'[u] = done[u]
  /\ count'[Put] = count[Put]
  /\ owner'[MutexPut] = owner[MutexPut]
  /\ UNCHANGED outputVars

\* It leaves the invariant of PutString alone.
LEMMA PutSamePreserves ==
  ASSUME PutInv, PutSame
  PROVE  PutInv'
<1> USE DEF PutLabels, PutLoop
<1>1. PutHeld'
  BY DEF PutInv, PutSame, PutHeld
<1>2. PutCounted'
  BY DEF PutInv, PutSame, PutCounted, outputVars
<1>3. PutProgress'
  BY DEF PutInv, PutSame, PutProgress, outputVars
<1>4. StringsWhole'
  BY DEF PutInv, PutSame, StringsWhole, outputVars
<1> QED BY <1>1, <1>2, <1>3, <1>4 DEF PutInv

\* The thread that takes the lock starts its string.
LEMMA PutAcquirePreserves ==
  ASSUME TypeOK, KernelInv, PutInv, NEW t \in Threads, PutAcquire(t)
  PROVE  PutInv'
<1> USE Typed, ConsoleObjects
<1>1. CASE ~is_free[MutexPut]
  <2>1. PutSame
    BY <1>1, AcquireEffect DEF PutAcquire, PutSame
  <2> QED BY <2>1, PutSamePreserves
<1>2. CASE is_free[MutexPut]
  <2>1. /\ pc[t] = "put_acquire" /\ done[t] = 0
        /\ pc' = [pc EXCEPT ![t] = "put"]
        /\ owner' = [owner EXCEPT ![MutexPut] = t]
        /\ UNCHANGED <<count, done, putBusy, pendingWrite, screen>>
    BY <1>2, AcquireEffect DEF PutAcquire, goto, PutInv, PutProgress, outputVars
  <2>2. \A u \in Threads : pc[u] \notin PutLoop
    BY <1>2, OwnedBusy DEF PutInv, PutHeld
  <2>3. pc'[t] = "put" /\ \A u \in Threads : u # t => pc'[u] = pc[u]
    BY <2>1
  <2>4. \A u \in Threads : pc'[u] \in PutLoop => u = t
    BY <2>2, <2>3
  <2>5. PutHeld'
    BY <2>1, <2>4 DEF PutHeld
  <2>6. PutCounted'
    BY <2>1, <2>2, <2>3 DEF PutInv, PutCounted, PutLoop
  <2>7. Len(screen) \in Nat
    BY DEF TypeOK
  <2>8. PutProgress'
    BY <2>1, <2>3, <2>4, <2>7 DEF PutInv, PutProgress, PutLoop
  <2>9. StringsWhole'
    BY <2>1, <2>4 DEF StringsWhole, PutLoop
  <2> QED BY <2>5, <2>6, <2>8, <2>9 DEF PutInv
<1> QED BY <1>1, <1>2

\* A character follows the characters of the same string.
LEMMA PutNextPreserves ==
  ASSUME TypeOK, PutInv, NEW t \in Threads, PutNext(t)
  PROVE  PutInv'
<1>1. /\ pc[t] = "put"
      /\ pendingWrite = 0 /\ count[Put] = 0
      /\ screen' = Append(screen, t)
      /\ putBusy' = TRUE
      /\ pendingWrite' = 1
      /\ UNCHANGED <<count, owner>>
      /\ done' = [done EXCEPT ![t] = @ + 1]
      /\ pc' = [pc EXCEPT ![t] = "put_wait"]
  <2>1. /\ pc[t] = "put"
        /\ pendingWrite = 0 /\ count[Put] = 0
        /\ PutChar(t) /\ P(t, Put)
        /\ done' = [done EXCEPT ![t] = @ + 1]
        /\ pc' = [pc EXCEPT ![t] = "put_wait"]
    BY PutSends
  <2>2. UNCHANGED <<count, owner>>
    BY <2>1, PEffect
  <2> QED BY <2>1, <2>2 DEF PutChar
<1>2. /\ pc'[t] = "put_wait"
      /\ done[t] \in Nat
      /\ done'[t] = done[t] + 1
      /\ \A u \in Threads : u # t => pc'[u] = pc[u] /\ done'[u] = done[u]
  BY <1>1, Typed
<1>3. \A u \in Threads : u # t => pc[u] \notin PutLoop /\ pc'[u] \notin PutLoop
  BY <1>1, <1>2 DEF PutInv, PutHeld, PutLoop
<1>4. /\ screen \in Seq(Threads)
      /\ Len(screen) \in Nat
      /\ Len(screen') = Len(screen) + 1
      /\ screen'[Len(screen) + 1] = t
      /\ \A i \in 1..Len(screen) : screen'[i] = screen[i]
  BY <1>1 DEF TypeOK
<1>5. /\ done[t] <= Len(screen)
      /\ \A i \in 0..(done[t] - 1) : screen[Len(screen) - i] = t
  BY <1>1 DEF PutInv, PutProgress, StringsWhole, PutLoop
<1>6. PutHeld'
  BY <1>1, <1>2, <1>3 DEF PutInv, PutHeld, PutLoop
<1>7. PutCounted'
  BY <1>1, <1>2 DEF PutCounted
<1>8. PutProgress'
  <2>1. done'[t] <= Len(screen')
    BY <1>2, <1>4, <1>5
  <2>2. \A u \in Threads : pc'[u] = "put_acquire" => u # t /\ done'[u] = 0
    BY <1>2 DEF PutInv, PutProgress
  <2> QED BY <1>2, <1>3, <2>1, <2>2 DEF PutProgress
<1>9. StringsWhole'
  <2>1. ASSUME NEW i \in 0..(done'[t] - 1)
        PROVE  screen'[Len(screen') - i] = t
    <3>1. CASE i = 0
      BY <1>4, <3>1
    <3>2. CASE i # 0
      <4>1. /\ i - 1 \in 0..(done[t] - 1)
            /\ Len(screen) - (i - 1) \in 1..Len(screen)
            /\ Len(screen') - i = Len(screen) - (i - 1)
        BY <1>2, <1>4, <1>5, <3>2
      <4>2. screen[Len(screen) - (i - 1)] = t
        BY <1>5, <4>1
      <4> QED BY <1>4, <4>1, <4>2
    <3> QED BY <3>1, <3>2
  <2> QED BY <1>3, <2>1 DEF StringsWhole, PutLoop
<1> QED BY <1>6, <1>7, <1>8, <1>9 DEF PutInv

\* The caller goes on when its character is displayed.
LEMMA PutWaitPreserves ==
  ASSUME TypeOK, PutInv, NEW t \in Threads, PutWait(t)
  PROVE  PutInv'
<1> USE Typed, ConsoleObjects
<1>1. CASE count[Put] = 0
  <2>1. PutSame
    BY <1>1, PEffect DEF PutWait, PutSame
  <2> QED BY <2>1, PutSamePreserves
<1>2. CASE count[Put] # 0
  <2>1. /\ pc[t] = "put_wait"
        /\ pc' = [pc EXCEPT ![t] = "put"]
        /\ count' = [count EXCEPT ![Put] = @ - 1]
        /\ UNCHANGED <<done, owner, putBusy, pendingWrite, screen>>
    BY <1>2, PEffect DEF PutWait, goto, outputVars
  <2>2. pc'[t] = "put" /\ \A u \in Threads : u # t => pc'[u] = pc[u]
    BY <2>1
  <2>3. \A u \in Threads : u # t => pc[u] \notin PutLoop
    BY <2>1 DEF PutInv, PutHeld, PutLoop
  <2>4. count[Put] = 1 /\ pendingWrite = 0 /\ ~putBusy
    <3>1. count[Put] + pendingWrite <= 1 /\ (putBusy <=> pendingWrite = 1)
      BY DEF PutInv, PutCounted
    <3>2. \A a, b \in Nat : a # 0 /\ a + b <= 1 => a = 1 /\ b = 0
      OBVIOUS
    <3> QED BY <1>2, <3>1, <3>2
  <2>5. count'[Put] = 0
    BY <2>1, <2>4
  <2>6. PutCounted'
    BY <2>1, <2>2, <2>3, <2>4, <2>5 DEF PutCounted, PutLoop
  <2>7. PutHeld'
    BY <2>1, <2>2, <2>3 DEF PutInv, PutHeld, PutLoop
  <2>8. PutProgress'
    BY <2>1, <2>2 DEF PutInv, PutProgress, PutLoop
  <2>9. StringsWhole'
    BY <2>1, <2>2 DEF PutInv, StringsWhole, PutLoop
  <2> QED BY <2>6, <2>7, <2>8, <2>9 DEF PutInv
<1> QED BY <1>1, <1>2

\* The end of the string gives the screen to the next caller.
LEMMA PutEndPreserves ==
  ASSUME TypeOK, PutInv, NEW t \in Threads, PutEnd(t)
  PROVE  PutInv'
<1>1. /\ pc[t] = "put"
      /\ pc' = [pc EXCEPT ![t] = "user"]
      /\ UNCHANGED <<count, done, putBusy, pendingWrite, screen>>
  BY ReleaseEffect, ConsoleObjects DEF PutEnd, goto, outputVars, TypeOK
<1>2. pc'[t] = "user" /\ \A u \in Threads : u # t => pc'[u] = pc[u]
  BY <1>1, Typed
<1>3. \A u \in Threads : u # t => pc[u] \notin PutLoop
  BY <1>1 DEF PutInv, PutHeld, PutLoop
<1>4. \A u \in Threads : pc'[u] \notin PutLoop
  BY <1>2, <1>3 DEF PutLoop
<1>5. PutHeld' /\ StringsWhole'
  BY <1>4 DEF PutHeld, StringsWhole, PutLoop
<1>6. PutCounted'
  BY <1>1, <1>2 DEF PutInv, PutCounted
<1>7. PutProgress'
  BY <1>1, <1>2, <1>4 DEF PutInv, PutProgress
<1> QED BY <1>5, <1>6, <1>7 DEF PutInv

\* The interrupt turns the busy device into a unit of put.
LEMMA WriteDonePreserves ==
  ASSUME TypeOK, PutInv, WriteDone
  PROVE  PutInv'
<1>1. /\ pendingWrite > 0
      /\ pendingWrite' = pendingWrite - 1
      /\ putBusy' = FALSE
      /\ count' = [count EXCEPT ![Put] = @ + 1]
      /\ UNCHANGED <<owner, pc, done, screen>>
  BY VEffect DEF WriteDone, PutAChar, callVars
<1>2. /\ count[Put] + pendingWrite <= 1
      /\ count[Put] + pendingWrite = 1 <=> \E t \in Threads : pc[t] = "put_wait"
  BY DEF PutInv, PutCounted
<1>3. \A a, b \in Nat : b > 0 /\ a + b <= 1 => b = 1 /\ a = 0
  OBVIOUS
<1>4. pendingWrite = 1 /\ count[Put] = 0
  BY <1>1, <1>2, <1>3, Typed
<1>5. pendingWrite' = 0 /\ count'[Put] = 1
  BY <1>1, <1>4, Typed, ConsoleObjects
<1>6. PutCounted'
  BY <1>1, <1>2, <1>4, <1>5 DEF PutCounted
<1>7. PutHeld' /\ PutProgress' /\ StringsWhole'
  BY <1>1 DEF PutInv, PutHeld, PutProgress, StringsWhole
<1> QED BY <1>6, <1>7 DEF PutInv

\* Every step preserves the invariant of PutString.
LEMMA StepPut ==
  ASSUME TypeOK, KernelInv, PutInv, [Next]_vars
  PROVE  PutInv'
<1> USE Typed, ConsoleObjects
<1>1. ASSUME NEW t \in Threads, NEW n \in 0..MaxString, CallPut(t, n)
      PROVE  PutInv'
  <2>1. /\ pc[t] = "user"
        /\ pc' = [pc EXCEPT ![t] = "put_acquire"]
        /\ done' = [done EXCEPT ![t] = 0]
        /\ UNCHANGED <<count, owner, putBusy, pendingWrite, screen>>
    BY <1>1 DEF CallPut, Call, goto, synchVars, objectVars, outputVars
  <2>2. /\ pc'[t] = "put_acquire" /\ done'[t] = 0
        /\ \A u \in Threads : u # t => pc'[u] = pc[u] /\ done'[u] = done[u]
    BY <2>1
  <2>3. PutHeld'
    BY <2>1, <2>2 DEF PutInv, PutHeld, PutLoop
  <2>4. PutCounted'
    BY <2>1, <2>2 DEF PutInv, PutCounted
  <2>5. PutProgress'
    BY <2>1, <2>2 DEF PutInv, PutProgress, PutLoop
  <2>6. StringsWhole'
    BY <2>1, <2>2 DEF PutInv, StringsWhole
  <2> QED BY <2>3, <2>4, <2>5, <2>6 DEF PutInv
<1>2. ASSUME NEW t \in Threads, NEW n, CallGet(t, n)
      PROVE  PutSame
  BY <1>2 DEF CallGet, Call, goto, synchVars, objectVars, PutSame, PutLabels, PutLoop
<1>3. ASSUME NEW t \in Threads, GetAcquire(t)
      PROVE  PutSame
  BY <1>3, AcquireEffect DEF GetAcquire, goto, PutSame, PutLabels, PutLoop
<1>4. ASSUME NEW t \in Threads, GetStart(t) \/ GetWait(t)
      PROVE  PutSame
  <2>1. /\ P(t, Get) /\ pc[t] \in GetLoop
        /\ pc' = [pc EXCEPT ![t] = "get_wait"] \/ pc' = [pc EXCEPT ![t] = "get_char"]
        /\ UNCHANGED <<done, outputVars>>
    BY <1>4, GetSleepsOrTakes DEF GetStart, GetWait, GetLoop
  <2>2. count'[Put] = count[Put] /\ owner' = owner
    BY <2>1, PEffect
  <2> QED BY <2>1, <2>2 DEF PutSame, PutLabels, PutLoop, GetLoop
<1>5. ASSUME NEW t \in Threads, GetNext(t)
      PROVE  PutSame
  <2>1. /\ GetEnd(t) \/ GetP(t)
        /\ pc[t] = "get_char"
        /\ done' = [done EXCEPT ![t] = @ + 1]
        /\ UNCHANGED outputVars
    BY <1>5 DEF GetNext
  <2>2. \E a \in {"user", "get_wait", "get_char"} : pc' = [pc EXCEPT ![t] = a]
    BY <2>1 DEF GetEnd, GetP, goto
  <2>3. count'[Put] = count[Put] /\ owner'[MutexPut] = owner[MutexPut]
    BY <2>1, PEffect, ReleaseEffect DEF GetEnd, GetP, TypeOK
  <2>4. \A u \in Threads : u # t => pc'[u] = pc[u] /\ done'[u] = done[u]
    BY <2>1, <2>2
  <2>5. pc'[t] \notin PutLabels
    BY <2>2 DEF PutLabels, PutLoop
  <2> QED BY <2>1, <2>3, <2>4, <2>5 DEF PutSame, PutLabels, PutLoop
<1>10. ASSUME NEW t \in Threads, GetNothing(t)
       PROVE  PutSame
  <2>1. /\ GetEnd(t) /\ pc[t] = "get_start"
        /\ pc' = [pc EXCEPT ![t] = "user"]
        /\ UNCHANGED <<done, outputVars>>
    BY <1>10 DEF GetNothing, GetEnd, goto
  <2>2. count'[Put] = count[Put] /\ owner'[MutexPut] = owner[MutexPut]
    BY <2>1, ReleaseEffect DEF GetEnd, TypeOK
  <2> QED BY <2>1, <2>2 DEF PutSame, PutLabels, PutLoop
<1>6. ASSUME CheckCharAvail
      PROVE  PutSame
  BY <1>6, VEffect DEF CheckCharAvail, GetAChar, PutSame, callVars, synchVars, objectVars
<1>7. ASSUME NEW c, Type(c)
      PROVE  PutSame
  BY <1>7 DEF Type, PutSame, callVars, synchVars, objectVars
<1>8. ASSUME \/ \E t \in Threads : YieldCPU(t)
             \/ IdleDispatch \/ IdleHalt \/ Stopped \/ UNCHANGED vars
      PROVE  PutSame
  BY <1>8, QuietStep DEF PutSame, consoleVars, callVars
<1>9. ASSUME PutSame
      PROVE  PutInv'
  BY <1>9, PutSamePreserves
<1> QED BY <1>1, <1>2, <1>3, <1>4, <1>5, <1>10, <1>6, <1>7, <1>8, <1>9, PutAcquirePreserves,
           PutNextPreserves, PutWaitPreserves, PutEndPreserves, WriteDonePreserves
        DEF Next, ThreadStep

---------------------------------------------------------------------------
(* GetString *)

GetLabels == GetLoop \cup {"get_acquire"}

\* A step outside GetString and the input of the device.
GetSame ==
  /\ \A u \in Threads : pc[u] \in GetLabels \/ pc'[u] \in GetLabels =>
       pc'[u] = pc[u] /\ done'[u] = done[u] /\ size'[u] = size[u]
  /\ count'[Get] = count[Get]
  /\ owner'[MutexGet] = owner[MutexGet]
  /\ UNCHANGED inputVars

\* It leaves the invariant of GetString alone.
LEMMA GetSamePreserves ==
  ASSUME GetInv, GetSame
  PROVE  GetInv'
<1> USE DEF GetLabels, GetLoop, inputVars
<1>1. GetHeld' /\ GetProgress'
  BY DEF GetInv, GetSame, GetHeld, GetProgress
<1>2. Claimed'
  <2>1. \A u \in Threads : pc'[u] = "get_char" <=> pc[u] = "get_char"
    BY DEF GetSame
  <2> QED BY <2>1 DEF GetInv, GetSame, Claimed
<1>3. Polled' /\ Ordered'
  BY DEF GetInv, GetSame, Polled, Ordered
<1> QED BY <1>1, <1>2, <1>3 DEF GetInv

\* The thread that takes the lock has its size.
LEMMA GetAcquirePreserves ==
  ASSUME TypeOK, KernelInv, GetInv, NEW t \in Threads, GetAcquire(t)
  PROVE  GetInv'
<1> USE Typed, ConsoleObjects
<1>1. CASE ~is_free[MutexGet]
  <2>1. GetSame
    BY <1>1, AcquireEffect DEF GetAcquire, GetSame
  <2> QED BY <2>1, GetSamePreserves
<1>2. CASE is_free[MutexGet]
  <2>1. /\ pc[t] = "get_acquire"
        /\ pc' = [pc EXCEPT ![t] = "get_start"]
        /\ owner' = [owner EXCEPT ![MutexGet] = t]
        /\ UNCHANGED <<count, done, size, inputVars>>
    BY <1>2, AcquireEffect DEF GetAcquire, goto
  <2>2. \A u \in Threads : pc[u] \notin GetLoop
    BY <1>2, OwnedBusy DEF GetInv, GetHeld
  <2>3. pc'[t] = "get_start" /\ \A u \in Threads : u # t => pc'[u] = pc[u]
    BY <2>1
  <2>4. GetHeld'
    BY <2>1, <2>2, <2>3 DEF GetHeld
  <2>5. GetProgress'
    BY <2>1, <2>3 DEF GetInv, GetProgress, GetLoop
  <2>6. Claimed'
    BY <2>1, <2>2, <2>3 DEF GetInv, Claimed, GetLoop, inputVars
  <2>7. Polled'
    BY <2>1, <2>2, <2>3 DEF Polled, GetLoop
  <2>8. Ordered'
    BY <2>1 DEF GetInv, Ordered, inputVars
  <2> QED BY <2>4, <2>5, <2>6, <2>7, <2>8 DEF GetInv
<1> QED BY <1>1, <1>2

\* P takes the unit of the character in the device, or sleeps while the
\* console is polled.
LEMMA GetPPreserves ==
  ASSUME TypeOK, GetInv, NEW t \in Threads, GetStart(t) \/ GetWait(t)
  PROVE  GetInv'
<1> USE Typed, ConsoleObjects
<1>1. /\ P(t, Get)
      /\ pc[t] \in {"get_start", "get_wait"}
      /\ count[Get] = 0 => pc' = [pc EXCEPT ![t] = "get_wait"]
      /\ count[Get] # 0 => pc' = [pc EXCEPT ![t] = "get_char"]
      /\ UNCHANGED <<done, size, incoming, typed, taken, received>>
  BY GetSleepsOrTakes DEF GetStart, GetWait, inputVars
<1>2. /\ count[Get] = 0 => pc'[t] = "get_wait" /\ count'[Get] = 0
      /\ count[Get] # 0 => pc'[t] = "get_char" /\ count'[Get] = count[Get] - 1
      /\ UNCHANGED owner
      /\ \A u \in Threads : u # t => pc'[u] = pc[u]
  BY <1>1, PEffect
<1>3. \A u \in Threads : u # t => pc[u] \notin GetLoop
  BY <1>1 DEF GetInv, GetHeld, GetLoop
<1>4. GetHeld'
  BY <1>1, <1>2, <1>3 DEF GetInv, GetHeld, GetLoop
<1>5. GetProgress'
  <2>1. done[t] < size[t]
    BY DEF GetStart, GetWait, GetInv, GetProgress
  <2> QED BY <1>1, <1>2, <2>1 DEF GetInv, GetProgress
<1>6. Claimed'
  <2>1. \A u \in Threads : pc[u] # "get_char"
    BY <1>1, <1>3 DEF GetLoop
  <2>2. count[Get] = IF incoming = EOF THEN 0 ELSE 1
    BY <2>1 DEF GetInv, Claimed
  <2>3. CASE count[Get] = 0
    <3>1. \A u \in Threads : pc'[u] # "get_char"
      BY <1>2, <2>1, <2>3
    <3> QED BY <1>1, <1>2, <2>2, <2>3, <3>1 DEF Claimed
  <2>4. CASE count[Get] # 0
    <3>1. pc'[t] = "get_char" /\ incoming # EOF /\ count'[Get] = 0
      BY <1>2, <2>2, <2>4
    <3> QED BY <1>1, <3>1 DEF Claimed
  <2> QED BY <2>3, <2>4
<1>7. Polled'
  <2>1. intState' /\ pendingRead' > 0
    <3>1. CASE GetStart(t)
      BY <3>1 DEF GetStart, EnableInterrupt
    <3>2. CASE GetWait(t)
      BY <3>2 DEF GetWait, inputVars, GetInv, Polled
    <3> QED BY <3>1, <3>2
  <2> QED BY <2>1 DEF Polled
<1>8. Ordered'
  BY <1>1 DEF GetInv, Ordered
<1> QED BY <1>4, <1>5, <1>6, <1>7, <1>8 DEF GetInv

\* A reader without a buffer leaves the character in the device to the next.
LEMMA GetNothingPreserves ==
  ASSUME TypeOK, GetInv, NEW t \in Threads, GetNothing(t)
  PROVE  GetInv'
<1> USE Typed, ConsoleObjects
<1>1. /\ pc[t] = "get_start" /\ pc' = [pc EXCEPT ![t] = "user"]
      /\ Release(t, MutexGet)
      /\ UNCHANGED <<done, size, incoming, typed, taken, received>>
  BY DEF GetNothing, GetEnd, goto
<1>2. count' = count
  BY <1>1, ReleaseEffect DEF TypeOK
<1>3. pc'[t] = "user" /\ \A u \in Threads : u # t => pc'[u] = pc[u] /\ pc[u] \notin GetLoop
  BY <1>1 DEF GetInv, GetHeld, GetLoop
<1>4. GetHeld' /\ Polled'
  BY <1>3 DEF GetHeld, Polled, GetLoop
<1>5. GetProgress'
  BY <1>1, <1>3 DEF GetInv, GetProgress
<1>6. Claimed'
  <2>1. \A u \in Threads : pc[u] # "get_char" /\ pc'[u] # "get_char"
    BY <1>1, <1>3 DEF GetLoop
  <2> QED BY <1>1, <1>2, <2>1 DEF GetInv, Claimed
<1>7. Ordered'
  BY <1>1 DEF GetInv, Ordered
<1> QED BY <1>4, <1>5, <1>6, <1>7 DEF GetInv

\* The reader takes the character it has a claim on, and ends or asks for the
\* next one.
LEMMA GetNextPreserves ==
  ASSUME TypeOK, GetInv, NEW t \in Threads, GetNext(t)
  PROVE  GetInv'
<1> USE Typed, ConsoleObjects
<1>1. /\ pc[t] = "get_char" /\ incoming # EOF /\ count[Get] = 0
      /\ \A u \in Threads : u # t => pc[u] \notin GetLoop
      /\ owner[MutexGet] = t
      /\ intState /\ pendingRead > 0
      /\ done[t] < size[t]
  BY GetFindsChar DEF GetNext, GetInv, GetHeld, GetLoop, Polled, GetProgress
<1>2. /\ incoming' = EOF
      /\ received' = Append(received, incoming)
      /\ done' = [done EXCEPT ![t] = @ + 1]
      /\ UNCHANGED <<size, pendingRead, typed, taken>>
  BY DEF GetNext, GetChar
<1>3. \/ pc' = [pc EXCEPT ![t] = "user"] /\ count' = count
      \/ /\ done[t] + 1 # size[t]
         /\ pc' = [pc EXCEPT ![t] = "get_wait"] /\ count' = count /\ owner' = owner
         /\ UNCHANGED intState
  <2>1. CASE done[t] + 1 = size[t] \/ incoming = NewLine
    BY <2>1, ReleaseEffect DEF GetNext, GetEnd, goto, TypeOK
  <2>2. CASE ~(done[t] + 1 = size[t] \/ incoming = NewLine)
    <3>1. GetP(t) /\ UNCHANGED intState
      BY <2>2 DEF GetNext
    <3> QED BY <1>1, <2>2, <3>1, GetSleepsOrTakes, PEffect
  <2> QED BY <2>1, <2>2
<1>4. /\ pc'[t] \in {"user", "get_wait"}
      /\ \A u \in Threads : u # t => pc'[u] = pc[u] /\ done'[u] = done[u]
      /\ done'[t] = done[t] + 1
      /\ count'[Get] = 0
  BY <1>1, <1>2, <1>3
<1>5. GetHeld'
  BY <1>1, <1>3, <1>4 DEF GetHeld, GetLoop
<1>6. GetProgress'
  <2>1. pc'[t] = "get_wait" => done[t] + 1 # size[t]
    BY <1>3
  <2>2. pc'[t] = "get_wait" => done'[t] < size'[t]
    BY <1>1, <1>2, <1>4, <2>1
  <2>3. \A u \in Threads : u # t /\ pc'[u] = "get_acquire" => done'[u] = 0
    BY <1>2, <1>4 DEF GetInv, GetProgress
  <2> QED BY <1>1, <1>4, <2>2, <2>3 DEF GetProgress, GetLoop
<1>7. Claimed'
  <2>1. \A u \in Threads : pc'[u] # "get_char"
    BY <1>1, <1>4 DEF GetLoop
  <2> QED BY <1>2, <1>4, <2>1 DEF Claimed
<1>8. Polled'
  <2>1. \A u \in Threads : pc'[u] \in {"get_wait", "get_char"} => u = t /\ pc'[t] = "get_wait"
    BY <1>1, <1>4 DEF GetLoop
  <2> QED BY <1>1, <1>2, <1>3, <2>1 DEF Polled
<1>9. Ordered'
  <2>1. /\ received \in Seq(Keys \cup {EOF}) /\ Len(received) \in Nat
        /\ Len(received') = Len(received) + 1
        /\ received'[Len(received) + 1] = incoming
        /\ \A i \in 1..Len(received) : received'[i] = received[i]
    BY <1>2 DEF TypeOK
  <2>2. /\ taken = Len(received) + 1
        /\ incoming = typed[taken]
        /\ \A i \in 1..Len(received) : received[i] = typed[i]
    BY <1>1 DEF GetInv, Ordered
  <2>3. \A i \in 1..(Len(received) + 1) : i \in 1..Len(received) \/ i = Len(received) + 1
    BY <2>1
  <2>4. \A i \in 1..Len(received') : received'[i] = typed'[i]
    BY <1>2, <2>1, <2>2, <2>3
  <2> QED BY <1>2, <2>1, <2>2, <2>4 DEF Ordered
<1> QED BY <1>5, <1>6, <1>7, <1>8, <1>9 DEF GetInv

\* A poll puts a character and its unit where there was none.
LEMMA PollPreserves ==
  ASSUME TypeOK, GetInv, CheckCharAvail
  PROVE  GetInv'
<1> USE Typed, ConsoleObjects
<1>1. /\ pendingRead > 0
      /\ pendingRead' = IF intState THEN pendingRead ELSE pendingRead - 1
      /\ UNCHANGED <<pc, size, done, intState, typed, received>>
  BY DEF CheckCharAvail, callVars
<1>2. Polled'
  BY <1>1 DEF GetInv, Polled
<1>3. CASE ~CharAvail
  <2>1. UNCHANGED <<incoming, taken, count, owner>>
    BY <1>3 DEF CheckCharAvail, synchVars, objectVars
  <2>2. GetHeld' /\ GetProgress' /\ Claimed' /\ Ordered'
    BY <1>1, <2>1 DEF GetInv, GetHeld, GetProgress, Claimed, Ordered
  <2> QED BY <1>2, <2>2 DEF GetInv
<1>4. CASE CharAvail
  <2>1. /\ incoming = EOF /\ taken < Len(typed)
        /\ incoming' = typed[taken + 1]
        /\ taken' = taken + 1
        /\ count' = [count EXCEPT ![Get] = @ + 1]
        /\ UNCHANGED owner
    BY <1>4, VEffect DEF CheckCharAvail, CharAvail, PollFile, GetAChar
  <2>2. typed \in Seq(Keys) /\ taken \in 0..Len(typed) /\ Len(typed) \in Nat
    BY DEF TypeOK
  <2>3. taken + 1 \in 1..Len(typed)
    BY <2>1, <2>2
  <2>4. incoming' # EOF
    BY <2>1, <2>2, <2>3, ConsoleAssumption
  <2>5. \A u \in Threads : pc[u] # "get_char"
    BY <2>1 DEF GetInv, Claimed
  <2>6. count[Get] = 0
    BY <2>1, <2>5 DEF GetInv, Claimed
  <2>7. Claimed'
    BY <1>1, <2>1, <2>4, <2>5, <2>6 DEF Claimed
  <2>8. Ordered'
    <3>1. taken = Len(received) /\ \A i \in 1..Len(received) : received[i] = typed[i]
      <4>1. received \in Seq(Keys \cup {EOF}) /\ Len(received) \in Nat
        BY DEF TypeOK
      <4> QED BY <2>1, <4>1 DEF GetInv, Ordered
    <3> QED BY <1>1, <2>1, <2>4, <3>1 DEF Ordered
  <2>9. GetHeld' /\ GetProgress'
    BY <1>1, <2>1 DEF GetInv, GetHeld, GetProgress
  <2> QED BY <1>2, <2>7, <2>8, <2>9 DEF GetInv
<1> QED BY <1>3, <1>4

\* What is typed comes after what was read.
LEMMA TypePreserves ==
  ASSUME TypeOK, GetInv, NEW c \in Keys, Type(c)
  PROVE  GetInv'
<1>1. /\ typed' = Append(typed, c)
      /\ UNCHANGED <<pc, size, done, count, owner, incoming, intState, pendingRead,
                     taken, received>>
  BY DEF Type, callVars, synchVars, objectVars
<1>2. GetHeld' /\ GetProgress' /\ Claimed' /\ Polled'
  BY <1>1 DEF GetInv, GetHeld, GetProgress, Claimed, Polled
<1>3. /\ typed \in Seq(Keys) /\ Len(typed) \in Nat
      /\ taken \in 0..Len(typed)
      /\ received \in Seq(Keys \cup {EOF}) /\ Len(received) \in Nat
  BY DEF TypeOK
<1>4. \A i \in 1..Len(typed) : typed'[i] = typed[i]
  BY <1>1, <1>3
<1>5. /\ taken = Len(received) + (IF incoming = EOF THEN 0 ELSE 1)
      /\ \A i \in 1..Len(received) : received[i] = typed[i]
      /\ incoming # EOF => incoming = typed[taken]
  BY DEF GetInv, Ordered
<1>6. \A i \in 1..Len(received) : i \in 1..Len(typed)
  BY <1>3, <1>5
<1>7. incoming # EOF => taken \in 1..Len(typed)
  BY <1>3, <1>5
<1>8. Ordered'
  BY <1>1, <1>4, <1>5, <1>6, <1>7 DEF Ordered
<1> QED BY <1>2, <1>8 DEF GetInv

\* Every step preserves the invariant of GetString.
LEMMA StepGet ==
  ASSUME TypeOK, KernelInv, PutInv, GetInv, [Next]_vars
  PROVE  GetInv'
<1> USE Typed, ConsoleObjects
<1>1. ASSUME NEW t \in Threads, NEW n \in 0..MaxString, CallGet(t, n)
      PROVE  GetInv'
  <2>1. /\ pc[t] = "user"
        /\ pc' = [pc EXCEPT ![t] = "get_acquire"]
        /\ size' = [size EXCEPT ![t] = n]
        /\ done' = [done EXCEPT ![t] = 0]
        /\ UNCHANGED <<count, owner, inputVars>>
    BY <1>1 DEF CallGet, Call, goto, synchVars, objectVars
  <2>2. /\ pc'[t] = "get_acquire" /\ done'[t] = 0 /\ size'[t] = n
        /\ \A u \in Threads : u # t =>
             pc'[u] = pc[u] /\ done'[u] = done[u] /\ size'[u] = size[u]
    BY <2>1
  <2>3. GetHeld'
    BY <2>1, <2>2 DEF GetInv, GetHeld, GetLoop
  <2>4. GetProgress'
    BY <2>2 DEF GetInv, GetProgress
  <2>5. Claimed'
    BY <2>1, <2>2 DEF GetInv, Claimed, inputVars
  <2>6. Polled' /\ Ordered'
    BY <2>1, <2>2 DEF GetInv, Polled, Ordered, inputVars
  <2> QED BY <2>3, <2>4, <2>5, <2>6 DEF GetInv
<1>2. ASSUME NEW t \in Threads, NEW n, CallPut(t, n)
      PROVE  GetSame
  BY <1>2 DEF CallPut, Call, goto, synchVars, objectVars, GetSame, GetLabels, GetLoop
<1>3. ASSUME NEW t \in Threads, PutAcquire(t)
      PROVE  GetSame
  BY <1>3, AcquireEffect DEF PutAcquire, goto, GetSame, GetLabels, GetLoop
<1>4. ASSUME NEW t \in Threads, PutNext(t)
      PROVE  GetSame
  <2>1. /\ P(t, Put) /\ pc[t] = "put"
        /\ pc' = [pc EXCEPT ![t] = "put_wait"]
        /\ done' = [done EXCEPT ![t] = @ + 1]
        /\ UNCHANGED <<size, inputVars>>
    BY <1>4, PutSends
  <2>2. count'[Get] = count[Get] /\ owner' = owner
    BY <2>1, PEffect
  <2> QED BY <2>1, <2>2 DEF GetSame, GetLabels, GetLoop
<1>5. ASSUME NEW t \in Threads, PutWait(t)
      PROVE  GetSame
  BY <1>5, PEffect DEF PutWait, goto, GetSame, GetLabels, GetLoop
<1>6. ASSUME NEW t \in Threads, PutEnd(t)
      PROVE  GetSame
  BY <1>6, ReleaseEffect DEF PutEnd, goto, GetSame, GetLabels, GetLoop, TypeOK
<1>7. ASSUME WriteDone
      PROVE  GetSame
  BY <1>7, VEffect DEF WriteDone, PutAChar, GetSame, callVars
<1>8. ASSUME \/ \E t \in Threads : YieldCPU(t)
             \/ IdleDispatch \/ IdleHalt \/ Stopped \/ UNCHANGED vars
      PROVE  GetSame
  BY <1>8, QuietStep DEF GetSame, consoleVars, callVars
<1>9. ASSUME GetSame
      PROVE  GetInv'
  BY <1>9, GetSamePreserves
<1> QED BY <1>1, <1>2, <1>3, <1>4, <1>5, <1>6, <1>7, <1>8, <1>9, GetAcquirePreserves,
           GetPPreserves, GetNothingPreserves, GetNextPreserves, PollPreserves, TypePreserves
        DEF Next, ThreadStep

---------------------------------------------------------------------------
(* How the machine stops *)

\* The machine goes on, or the placeholder ends the program.
Going == machine' \in {"on", "exit"}

\* No step of a thread and no interrupt stops the machine: the ASSERTs of
\* Console::PutChar and of Lock::Release hold.
LEMMA StepGoes ==
  ASSUME IInv, Next, ~IdleHalt, ~Stopped
  PROVE  Going
<1> USE Typed, ConsoleObjects
<1>1. TypeOK /\ PutInv /\ GetInv /\ SynchTypeOK
  BY DEF IInv, TypeOK
<1>2. ASSUME NEW t \in Threads, NEW n, CallPut(t, n) \/ CallGet(t, n)
      PROVE  Going
  BY <1>2 DEF CallPut, CallGet, Call, AtCall, Running, synchVars, Going
<1>3. ASSUME NEW t \in Threads, PutAcquire(t) \/ GetAcquire(t)
      PROVE  Going
  BY <1>3, AcquireEffect DEF PutAcquire, GetAcquire, Going
<1>4. ASSUME NEW t \in Threads, PutNext(t)
      PROVE  Going
  <2>1. P(t, Put)
    BY <1>1, <1>4, PutSends
  <2> QED BY <2>1, PEffect DEF Going
<1>5. ASSUME NEW t \in Threads, PutWait(t) \/ GetStart(t) \/ GetWait(t)
      PROVE  Going
  BY <1>5, PEffect DEF PutWait, GetStart, GetWait, GetP, Going
<1>6. ASSUME NEW t \in Threads, PutEnd(t)
      PROVE  Going
  <2>1. owner[MutexPut] = t
    BY <1>1, <1>6 DEF PutEnd, PutInv, PutHeld, PutLoop
  <2> QED BY <1>1, <1>6, <2>1, ReleaseEffect DEF PutEnd, Going
<1>7. ASSUME NEW t \in Threads, GetNext(t) \/ GetNothing(t)
      PROVE  Going
  <2>1. owner[MutexGet] = t
    BY <1>1, <1>7 DEF GetNext, GetNothing, GetInv, GetHeld, GetLoop
  <2>2. GetEnd(t) \/ GetP(t)
    BY <1>7 DEF GetNext, GetNothing
  <2> QED BY <1>1, <2>1, <2>2, ReleaseEffect, PEffect DEF GetEnd, GetP, Going
<1>8. ASSUME NEW t \in Threads, YieldCPU(t)
      PROVE  Going
  BY <1>8 DEF YieldCPU, Yield, SwitchTo, ReturnOrExit, AtCall, Running, Going
<1>9. CASE WriteDone \/ CheckCharAvail
  BY <1>9, VEffect DEF WriteDone, CheckCharAvail, PutAChar, GetAChar, InterruptsTaken,
                       synchVars, Going
<1>10. ASSUME NEW c, Type(c)
       PROVE  Going
  BY <1>10 DEF Type, synchVars, Going
<1>11. CASE IdleDispatch
  BY <1>11 DEF IdleDispatch, Dispatch, SwitchTo, ReturnOrExit, Going
<1> QED BY <1>2, <1>3, <1>4, <1>5, <1>6, <1>7, <1>8, <1>9, <1>10, <1>11
        DEF Next, ThreadStep

\* When nothing is ready and no interrupt is pending, everybody is in Acquire.
LEMMA HaltAtLocks ==
  ASSUME IInv, IdleHalt, NEW t \in Threads
  PROVE  pc[t] \in {"put_acquire", "get_acquire"}
<1> USE Typed, ConsoleObjects
<1>1. /\ TypeOK /\ KernelInv /\ WaitsForOwn
      /\ idle /\ readyList = <<>>
      /\ pendingRead = 0 /\ pendingWrite = 0
  BY DEF IInv, IdleHalt, Halt
<1>2. \/ waitOn[t] \in Semaphores /\ count[waitOn[t]] = 0
      \/ waitOn[t] \in Locks
  BY <1>1, AllBlocked
<1>3. pc[t] \notin {"user", "put", "get_start", "get_char"}
  BY <1>1, <1>2, ObjectsAssumption DEF WaitsForOwn
<1>4. pc[t] # "put_wait"
  <2>1. SUFFICES ASSUME pc[t] = "put_wait"
                 PROVE  FALSE
    OBVIOUS
  <2>2. count[Put] = 0
    BY <1>1, <1>2, <2>1 DEF WaitsForOwn
  <2>3. count[Put] + pendingWrite = 1
    BY <2>1 DEF IInv, PutInv, PutCounted
  <2> QED BY <1>1, <2>2, <2>3
<1>5. pc[t] # "get_wait"
  BY <1>1 DEF IInv, GetInv, Polled
<1> QED BY <1>1, <1>3, <1>4, <1>5 DEF Labels

\* The machine stops only with every thread in Acquire.
LEMMA StepStops ==
  ASSUME IInv, [Next]_vars
  PROVE  StopsOnlyAtLocks'
<1>1. CASE Next /\ ~IdleHalt /\ ~Stopped
  BY <1>1, StepGoes DEF Going, StopsOnlyAtLocks
<1>2. CASE IdleHalt
  <2>1. UNCHANGED pc
    BY <1>2 DEF IdleHalt, consoleVars, callVars
  <2> QED BY <1>2, <2>1, HaltAtLocks DEF StopsOnlyAtLocks
<1>3. CASE Stopped \/ UNCHANGED vars
  BY <1>3 DEF IInv, StopsOnlyAtLocks, Stopped, vars, synchVars, consoleVars, callVars
<1> QED BY <1>1, <1>2, <1>3

---------------------------------------------------------------------------
(* The theorems *)

\* The initial states satisfy the invariant: the semaphores of the driver have
\* no unit and the device is empty (DriverConsole::DriverConsole,
\* Console::Console).
LEMMA InitInvariant == Init => IInv
<1> SUFFICES ASSUME Init PROVE IInv
  OBVIOUS
<1> USE ConsoleAssumption
<1>1. KernelInv /\ SynchTypeOK
  BY KernelInit DEF Init, KernelInv
<1>2. /\ machine = "on"
      /\ waitOn = [t \in Threads |-> None]
      /\ count[Get] = 0 /\ count[Put] = 0
      /\ pc = [t \in Threads |-> "user"]
  BY DEF Init, SynchInit, NewSemaphores
<1>3. TypeOK
  <2>1. typed \in Seq(Keys) /\ Len(typed) = 0
    BY DEF Init
  <2>2. screen \in Seq(Threads) /\ received \in Seq(Keys \cup {EOF})
    BY DEF Init
  <2>3. size \in [Threads -> 0..MaxString] /\ done \in [Threads -> 0..MaxString]
    BY DEF Init
  <2>4. taken \in 0..Len(typed)
    BY <2>1 DEF Init
  <2>5. /\ putBusy \in BOOLEAN /\ intState \in BOOLEAN
        /\ pendingWrite \in Nat /\ pendingRead \in Nat
        /\ incoming \in Keys \cup {EOF}
    BY DEF Init
  <2>6. pc \in [Threads -> Labels]
    BY <1>2 DEF Labels
  <2> QED BY <1>1, <2>1, <2>2, <2>3, <2>4, <2>5, <2>6 DEF TypeOK, Labels
<1>4. WaitsForOwn /\ StopsOnlyAtLocks
  BY <1>2 DEF WaitsForOwn, StopsOnlyAtLocks
<1>5. PutInv
  BY <1>2 DEF Init, PutInv, PutHeld, PutCounted, PutProgress, StringsWhole, PutLoop
<1>6. GetHeld /\ GetProgress /\ Claimed /\ Polled
  BY <1>2 DEF Init, GetHeld, GetProgress, Claimed, Polled, GetLoop
<1>7. Ordered
  <2>1. Len(received) = 0 /\ taken = 0 /\ incoming = EOF
    BY DEF Init
  <2> QED BY <2>1 DEF Ordered
<1> QED BY <1>1, <1>3, <1>4, <1>5, <1>6, <1>7 DEF IInv, GetInv

\* Every step preserves it.
LEMMA StepInvariant == IInv /\ [Next]_vars => IInv'
<1> SUFFICES ASSUME IInv, [Next]_vars PROVE IInv'
  OBVIOUS
<1>1. TypeOK /\ KernelInv /\ WaitsForOwn /\ PutInv /\ GetInv
  BY DEF IInv
<1>2. KernelInv'
  BY <1>1, StepKernel, KernelInvariant
<1>3. TypeOK'
  BY <1>1, StepType DEF GetInv
<1>4. WaitsForOwn' /\ PutInv' /\ GetInv'
  BY <1>1, StepWaitsForOwn, StepPut, StepGet
<1> QED BY <1>2, <1>3, <1>4, StepStops DEF IInv

\* The inductive invariant of the driver holds in every reachable state.
THEOREM Invariant == Spec => []IInv
BY InitInvariant, StepInvariant, PTL DEF Spec

\* The state of the driver and of the console stays well formed.
THEOREM TypeCorrect == Spec => []TypeOK
<1>1. IInv => TypeOK
  BY DEF IInv
<1> QED BY <1>1, Invariant, PTL

\* The ASSERT(putBusy == false) of Console::PutChar never fails, for any
\* number of writers.
THEOREM PutWhenReadyCorrect == Spec => []PutWhenReady
<1>1. IInv => PutWhenReady
  BY PutFindsReady DEF IInv, PutWhenReady
<1> QED BY <1>1, Invariant, PTL

\* The characters of one PutString are never mixed with those of another.
THEOREM StringsWholeCorrect == Spec => []StringsWhole
<1>1. IInv => StringsWhole
  BY DEF IInv, PutInv
<1> QED BY <1>1, Invariant, PTL

\* A reader past get->P() finds a character in the device, and there is a unit
\* of get for a character nobody has a claim on.
THEOREM CharsCountedCorrect == Spec => []CharsCounted
<1>1. IInv => CharsCounted
  <2> SUFFICES ASSUME IInv PROVE CharsCounted
    OBVIOUS
  <2> DEFINE Claims == {t \in Threads : pc[t] = "get_char"}
  <2>1. GetInv /\ count[Get] \in Nat
    BY Typed DEF IInv
  <2>2. CASE Claims = {}
    <3>1. Cardinality(Claims) = 0
      BY <2>2, FS_EmptySet
    <3>2. count[Get] = IF incoming = EOF THEN 0 ELSE 1
      BY <2>1, <2>2 DEF GetInv, Claimed
    <3> QED BY <3>1, <3>2 DEF CharsCounted
  <2>3. CASE Claims # {}
    <3>1. PICK t \in Threads : pc[t] = "get_char"
      BY <2>3
    <3>2. /\ incoming # EOF /\ count[Get] = 0
          /\ Claims = {t}
      BY <2>1, <3>1, GetFindsChar
    <3>3. Cardinality(Claims) = 1
      BY <3>2, FS_Singleton
    <3> QED BY <3>2, <3>3 DEF CharsCounted
  <2> QED BY <2>2, <2>3
<1> QED BY <1>1, Invariant, PTL

\* Every character typed is received once and in order, however many readers
\* and polls there are.
THEOREM CharsInOrderCorrect == Spec => []CharsInOrder
<1>1. IInv => CharsInOrder
  <2> SUFFICES ASSUME IInv PROVE CharsInOrder
    OBVIOUS
  <2> DEFINE buffer == IF incoming = EOF THEN <<>> ELSE <<incoming>>
             all == received \o buffer
             n == Len(received)
  <2>1. /\ received \in Seq(Keys \cup {EOF}) /\ n \in Nat
        /\ typed \in Seq(Keys) /\ Len(typed) \in Nat /\ taken \in 0..Len(typed)
        /\ incoming \in Keys \cup {EOF}
    BY DEF IInv, TypeOK
  <2>2. /\ taken = n + (IF incoming = EOF THEN 0 ELSE 1)
        /\ \A i \in 1..n : received[i] = typed[i]
        /\ incoming # EOF => incoming = typed[taken]
    BY DEF IInv, GetInv, Ordered
  <2>3. /\ buffer \in Seq(Keys \cup {EOF})
        /\ Len(buffer) = IF incoming = EOF THEN 0 ELSE 1
        /\ incoming # EOF => buffer[1] = incoming
    <3>1. CASE incoming = EOF
      BY <3>1
    <3>2. CASE incoming # EOF
      BY <2>1, <3>2
    <3> QED BY <3>1, <3>2
  <2>4. /\ all \in Seq(Keys \cup {EOF})
        /\ Len(all) = taken
        /\ \A i \in 1..n : all[i] = received[i]
        /\ incoming # EOF => all[n + 1] = incoming
    <3> HIDE DEF buffer
    <3>1. all \in Seq(Keys \cup {EOF})
      BY <2>1, <2>3
    <3>2. Len(all) = n + Len(buffer)
      BY <2>1, <2>3, ConcatProperties
    <3>3. \A i \in 1..(n + Len(buffer)) :
            all[i] = IF i <= n THEN received[i] ELSE buffer[i - n]
      BY <2>1, <2>3, ConcatProperties
    <3> HIDE DEF all
    <3>4. \A i \in 1..n : all[i] = received[i]
      BY <2>1, <2>3, <3>3
    <3>5. incoming # EOF => all[n + 1] = incoming
      <4> SUFFICES ASSUME incoming # EOF PROVE all[n + 1] = incoming
        OBVIOUS
      <4>1. n + 1 \in 1..(n + Len(buffer)) /\ ~(n + 1 <= n) /\ n + 1 - n = 1
        BY <2>1, <2>3
      <4> QED BY <2>3, <3>3, <4>1
    <3> QED BY <2>2, <2>3, <3>1, <3>2, <3>4, <3>5
  <2>5. /\ SubSeq(typed, 1, taken) \in Seq(Keys)
        /\ Len(SubSeq(typed, 1, taken)) = taken
        /\ \A i \in 1..taken : SubSeq(typed, 1, taken)[i] = typed[i]
    BY <2>1
  <2> HIDE DEF buffer, all
  <2>6. ASSUME NEW i \in 1..taken
        PROVE  all[i] = typed[i]
    <3>1. CASE i \in 1..n
      BY <2>2, <2>4, <3>1
    <3>2. CASE i \notin 1..n
      <4>1. incoming # EOF /\ i = n + 1 /\ taken = n + 1
        BY <2>1, <2>2, <3>2
      <4> QED BY <2>2, <2>4, <4>1
    <3> QED BY <3>1, <3>2
  <2>7. SubSeq(typed, 1, taken) \in Seq(Keys \cup {EOF})
    BY <2>5
  <2>8. all = SubSeq(typed, 1, taken)
    BY <2>4, <2>5, <2>6, <2>7, SeqEqual
  <2> QED BY <2>8 DEF CharsInOrder, all, buffer
<1> QED BY <1>1, Invariant, PTL

\* Interrupt::Halt strands neither a writer nor a reader: when the machine
\* stops, every thread is queued at a lock that Lock::Release did not free.
THEOREM StopsCorrect == Spec => []StopsOnlyAtLocks
<1>1. IInv => StopsOnlyAtLocks
  BY DEF IInv
<1> QED BY <1>1, Invariant, PTL

---------------------------------------------------------------------------
(* The driver implements the abstract console *)

\* One thread writes, and one reads.
LEMMA OneEach ==
  ASSUME PutHeld, GetHeld, NEW t \in Threads, NEW u \in Threads
  PROVE  (Writing(t) /\ Writing(u) => t = u) /\ (Reading(t) /\ Reading(u) => t = u)
BY DEF PutHeld, GetHeld, PutLoop, GetLoop, Writing, Reading

\* The writer and the reader the abstract console sees, and what they have to do.
LEMMA Users ==
  ASSUME PutHeld, GetHeld
  PROVE  /\ \A t \in Threads : Writing(t) => writerBar = t /\ left(writerBar) = size[t] - done[t]
         /\ (\A t \in Threads : ~Writing(t)) => writerBar = None /\ left(writerBar) = 0
         /\ \A t \in Threads : Reading(t) => readerBar = t /\ left(readerBar) = size[t] - done[t]
         /\ (\A t \in Threads : ~Reading(t)) => readerBar = None /\ left(readerBar) = 0
<1>1. ASSUME NEW t \in Threads, Writing(t)
      PROVE  writerBar = t
  <2>1. (CHOOSE u \in Threads : Writing(u)) = t
    BY <1>1, OneEach
  <2> QED BY <1>1, <2>1 DEF writerBar
<1>2. ASSUME NEW t \in Threads, Reading(t)
      PROVE  readerBar = t
  <2>1. (CHOOSE u \in Threads : Reading(u)) = t
    BY <1>2, OneEach
  <2> QED BY <1>2, <2>1 DEF readerBar
<1>3. /\ (\A t \in Threads : ~Writing(t)) => writerBar = None
      /\ (\A t \in Threads : ~Reading(t)) => readerBar = None
  BY DEF writerBar, readerBar
<1>4. \A t \in Threads : t # None
  BY ThreadsAssumption
<1> QED BY <1>1, <1>2, <1>3, <1>4 DEF left

\* The same in the next state.
LEMMA UsersNext ==
  ASSUME PutHeld', GetHeld'
  PROVE  /\ \A t \in Threads : Writing(t)' => writerBar' = t /\ left(writerBar)' = size'[t] - done'[t]
         /\ (\A t \in Threads : ~Writing(t)') => writerBar' = None /\ left(writerBar)' = 0
         /\ \A t \in Threads : Reading(t)' => readerBar' = t /\ left(readerBar)' = size'[t] - done'[t]
         /\ (\A t \in Threads : ~Reading(t)') => readerBar' = None /\ left(readerBar)' = 0
<1>1. ASSUME NEW t \in Threads, Writing(t)'
      PROVE  writerBar' = t
  <2>1. \A u \in Threads : Writing(u)' => u = t
    BY <1>1 DEF PutHeld, PutLoop, Writing
  <2>2. (CHOOSE u \in Threads : Writing(u)') = t
    BY <1>1, <2>1
  <2> QED BY <1>1, <2>2 DEF writerBar
<1>2. ASSUME NEW t \in Threads, Reading(t)'
      PROVE  readerBar' = t
  <2>1. \A u \in Threads : Reading(u)' => u = t
    BY <1>2 DEF GetHeld, GetLoop, Reading
  <2>2. (CHOOSE u \in Threads : Reading(u)') = t
    BY <1>2, <2>1
  <2> QED BY <1>2, <2>2 DEF readerBar
<1>3. /\ (\A t \in Threads : ~Writing(t)') => writerBar' = None
      /\ (\A t \in Threads : ~Reading(t)') => readerBar' = None
  BY DEF writerBar, readerBar
<1>4. \A t \in Threads : t # None
  BY ThreadsAssumption
<1> QED BY <1>1, <1>2, <1>3, <1>4 DEF left

\* A step that leaves the call of the writer, or of the reader, as it is.
LEMMA SameUsers ==
  ASSUME PutHeld, GetHeld, PutHeld', GetHeld'
  PROVE  /\ (\A u \in Threads : /\ Writing(u)' <=> Writing(u)
                                /\ Writing(u) => size'[u] = size[u] /\ done'[u] = done[u])
              => writerBar' = writerBar /\ left(writerBar)' = left(writerBar)
         /\ (\A u \in Threads : /\ Reading(u)' <=> Reading(u)
                                /\ Reading(u) => size'[u] = size[u] /\ done'[u] = done[u])
              => readerBar' = readerBar /\ left(readerBar)' = left(readerBar)
<1>1. ASSUME \A u \in Threads : /\ Writing(u)' <=> Writing(u)
                                /\ Writing(u) => size'[u] = size[u] /\ done'[u] = done[u]
      PROVE  writerBar' = writerBar /\ left(writerBar)' = left(writerBar)
  <2>1. CASE \E t \in Threads : Writing(t)
    <3>1. PICK t \in Threads : Writing(t)
      BY <2>1
    <3>2. Writing(t)' /\ size'[t] = size[t] /\ done'[t] = done[t]
      BY <1>1, <3>1
    <3> QED BY <3>1, <3>2, Users, UsersNext
  <2>2. CASE \A t \in Threads : ~Writing(t)
    <3>1. \A t \in Threads : ~Writing(t)'
      BY <1>1, <2>2
    <3> QED BY <2>2, <3>1, Users, UsersNext
  <2> QED BY <2>1, <2>2
<1>2. ASSUME \A u \in Threads : /\ Reading(u)' <=> Reading(u)
                                /\ Reading(u) => size'[u] = size[u] /\ done'[u] = done[u]
      PROVE  readerBar' = readerBar /\ left(readerBar)' = left(readerBar)
  <2>1. CASE \E t \in Threads : Reading(t)
    <3>1. PICK t \in Threads : Reading(t)
      BY <2>1
    <3>2. Reading(t)' /\ size'[t] = size[t] /\ done'[t] = done[t]
      BY <1>2, <3>1
    <3> QED BY <3>1, <3>2, Users, UsersNext
  <2>2. CASE \A t \in Threads : ~Reading(t)
    <3>1. \A t \in Threads : ~Reading(t)'
      BY <1>2, <2>2
    <3> QED BY <2>2, <3>1, Users, UsersNext
  <2> QED BY <2>1, <2>2
<1> QED BY <1>1, <1>2

Output == <<writerBar, left(writerBar), putBusy, screen>>
Input == <<readerBar, left(readerBar), typed, received>>

\* The abstract console starts with nobody at it.
LEMMA InitService == Init => Service!ServiceInit
<1> SUFFICES ASSUME Init PROVE Service!ServiceInit
  OBVIOUS
<1>1. \A t \in Threads : ~Writing(t) /\ ~Reading(t)
  BY DEF Init, Writing, Reading
<1>2. PutHeld /\ GetHeld
  BY InitInvariant DEF IInv, PutInv, GetInv
<1>3. writerBar = None /\ left(writerBar) = 0 /\ readerBar = None /\ left(readerBar) = 0
  BY <1>1, <1>2, Users
<1> QED BY <1>3 DEF Init, Service!ServiceInit

\* The lock of PutString lets its string begin.
LEMMA BeginPutStep ==
  ASSUME IInv, IInv', NEW t \in Threads, PutAcquire(t), is_free[MutexPut]
  PROVE  Service!ServiceNext
<1>1. /\ TypeOK /\ KernelInv /\ PutHeld /\ GetHeld /\ PutHeld' /\ GetHeld' /\ PutProgress
  BY DEF IInv, PutInv, GetInv
<1>2. /\ pc[t] = "put_acquire" /\ pc' = [pc EXCEPT ![t] = "put"]
      /\ UNCHANGED <<size, done, inputVars, outputVars>>
  BY DEF PutAcquire, goto
<1>3. pc \in [Threads -> Labels] /\ size[t] \in 0..MaxString /\ done[t] = 0
  BY <1>1, <1>2, Typed DEF PutProgress
<1>4. \A u \in Threads : ~Writing(u)
  BY <1>1, ConsoleObjects, OwnedBusy DEF PutHeld, PutLoop, Writing
<1>5. Writing(t)'
  BY <1>2, <1>3 DEF Writing
<1>6. writerBar = None /\ writerBar' = t /\ left(writerBar)' = size[t]
  <2>1. size'[t] - done'[t] = size[t]
    BY <1>2, <1>3
  <2> QED BY <1>1, <1>4, <1>5, <2>1, Users, UsersNext
<1>7. UNCHANGED Input
  <2>1. \A u \in Threads : Reading(u)' <=> Reading(u)
    BY <1>2, <1>3 DEF Reading
  <2> QED BY <1>1, <1>2, <2>1, SameUsers DEF Input, inputVars
<1>8. Service!BeginPut(t, size[t])
  BY <1>2, <1>6, <1>7 DEF Service!BeginPut, Service!input, Input, outputVars
<1> QED BY <1>3, <1>8 DEF Service!ServiceNext

\* A turn of the loop of PutString sends a character.
LEMMA SendStep ==
  ASSUME IInv, IInv', NEW t \in Threads, PutNext(t)
  PROVE  Service!ServiceNext
<1>1. /\ TypeOK /\ PutInv /\ PutHeld /\ GetHeld /\ PutHeld' /\ GetHeld'
  BY DEF IInv, PutInv, GetInv
<1>2. /\ pc[t] = "put" /\ done[t] < size[t] /\ ~putBusy
      /\ screen' = Append(screen, t) /\ putBusy' = TRUE
      /\ done' = [done EXCEPT ![t] = @ + 1]
      /\ pc' = [pc EXCEPT ![t] = "put_wait"]
      /\ UNCHANGED <<size, inputVars>>
  BY <1>1, PutSends DEF PutChar
<1>3. /\ pc \in [Threads -> Labels] /\ size[t] \in Nat /\ done[t] \in Nat
      /\ done \in [Threads -> 0..MaxString]
  BY <1>1, Typed, ConsoleAssumption
<1>4. Writing(t) /\ Writing(t)'
  BY <1>2, <1>3 DEF Writing
<1>5. /\ writerBar = t /\ writerBar' = t
      /\ left(writerBar) = size[t] - done[t] /\ left(writerBar)' = size'[t] - done'[t]
  BY <1>1, <1>4, Users, UsersNext
<1>6. left(writerBar) > 0 /\ left(writerBar)' = left(writerBar) - 1
  BY <1>2, <1>3, <1>5
<1>7. UNCHANGED Input
  <2>1. \A u \in Threads : /\ Reading(u)' <=> Reading(u)
                           /\ Reading(u) => size'[u] = size[u] /\ done'[u] = done[u]
    BY <1>2, <1>3 DEF Reading
  <2> QED BY <1>1, <1>2, <2>1, SameUsers DEF Input, inputVars
<1>8. Service!Send(t)
  BY <1>2, <1>5, <1>6, <1>7 DEF Service!Send, Service!input, Input
<1> QED BY <1>8 DEF Service!ServiceNext

\* The interrupt of the device tells that the character is displayed.
LEMMA DisplayedStep ==
  ASSUME IInv, IInv', WriteDone
  PROVE  Service!ServiceNext
<1>1. /\ TypeOK /\ PutCounted /\ PutHeld /\ GetHeld /\ PutHeld' /\ GetHeld'
  BY DEF IInv, PutInv, GetInv
<1>2. /\ pendingWrite > 0 /\ putBusy' = FALSE
      /\ UNCHANGED <<callVars, inputVars, screen>>
  BY DEF WriteDone
<1>3. putBusy
  <2>1. count[Put] \in Nat /\ pendingWrite \in Nat
    BY <1>1, Typed
  <2>2. count[Put] + pendingWrite <= 1 /\ (putBusy <=> pendingWrite = 1)
    BY <1>1 DEF PutCounted
  <2> QED BY <1>2, <2>1, <2>2
<1>4. UNCHANGED <<writerBar, left(writerBar), readerBar, left(readerBar)>>
  BY <1>1, <1>2, SameUsers DEF callVars, Writing, Reading
<1>5. Service!Displayed
  BY <1>2, <1>3, <1>4 DEF Service!Displayed, Service!input, inputVars
<1> QED BY <1>5 DEF Service!ServiceNext

\* PutString ends with its string displayed.
LEMMA EndPutStep ==
  ASSUME IInv, IInv', NEW t \in Threads, PutEnd(t)
  PROVE  Service!ServiceNext
<1>1. /\ TypeOK /\ PutInv /\ PutHeld /\ GetHeld /\ PutHeld' /\ GetHeld'
  BY DEF IInv, PutInv, GetInv
<1>2. /\ pc[t] = "put" /\ done[t] = size[t] /\ pc' = [pc EXCEPT ![t] = "user"]
      /\ UNCHANGED <<size, done, inputVars, outputVars>>
  BY DEF PutEnd, goto
<1>3. pc \in [Threads -> Labels] /\ size[t] \in Nat
  BY <1>1, Typed, ConsoleAssumption
<1>4. ~putBusy
  BY <1>1, <1>2, PutFindsReady
<1>5. Writing(t)
  BY <1>2 DEF Writing
<1>6. \A u \in Threads : ~Writing(u)'
  BY <1>1, <1>2, <1>3, <1>5, OneEach DEF Writing
<1>7. writerBar = t /\ left(writerBar) = 0 /\ writerBar' = None /\ left(writerBar)' = 0
  BY <1>1, <1>2, <1>3, <1>5, <1>6, Users, UsersNext
<1>8. UNCHANGED Input
  <2>1. \A u \in Threads : Reading(u)' <=> Reading(u)
    BY <1>2, <1>3 DEF Reading
  <2> QED BY <1>1, <1>2, <2>1, SameUsers DEF Input, inputVars
<1>9. Service!EndPut(t)
  BY <1>2, <1>4, <1>7, <1>8 DEF Service!EndPut, Service!input, Input, outputVars
<1> QED BY <1>9 DEF Service!ServiceNext

\* The lock of GetString lets the reading begin.
LEMMA BeginGetStep ==
  ASSUME IInv, IInv', NEW t \in Threads, GetAcquire(t), is_free[MutexGet]
  PROVE  Service!ServiceNext
<1>1. /\ TypeOK /\ KernelInv /\ PutHeld /\ GetHeld /\ PutHeld' /\ GetHeld' /\ GetProgress
  BY DEF IInv, PutInv, GetInv
<1>2. /\ pc[t] = "get_acquire" /\ pc' = [pc EXCEPT ![t] = "get_start"]
      /\ UNCHANGED <<size, done, inputVars, outputVars>>
  BY DEF GetAcquire, goto
<1>3. /\ pc \in [Threads -> Labels] /\ size[t] \in 0..MaxString /\ done[t] \in 0..MaxString
      /\ done[t] = 0
  BY <1>1, <1>2, Typed DEF GetProgress
<1>4. \A u \in Threads : ~Reading(u)
  BY <1>1, ConsoleObjects, OwnedBusy DEF GetHeld, GetLoop, Reading
<1>5. Reading(t)'
  BY <1>2, <1>3 DEF Reading
<1>6. PICK n \in 0..MaxString : n = size[t] - done[t]
  BY <1>3, ConsoleAssumption
<1>7. readerBar = None /\ readerBar' = t /\ left(readerBar)' = n
  <2>1. size'[t] - done'[t] = n
    BY <1>2, <1>6
  <2> QED BY <1>1, <1>4, <1>5, <2>1, Users, UsersNext
<1>8. UNCHANGED Output
  <2>1. \A u \in Threads : Writing(u)' <=> Writing(u)
    BY <1>2, <1>3 DEF Writing
  <2> QED BY <1>1, <1>2, <2>1, SameUsers DEF Output, outputVars
<1>9. Service!BeginGet(t, n)
  BY <1>2, <1>7, <1>8 DEF Service!BeginGet, Service!output, Output, inputVars
<1> QED BY <1>9 DEF Service!ServiceNext

\* A GetString without a buffer ends.
LEMMA EndGetStep ==
  ASSUME IInv, IInv', NEW t \in Threads, GetNothing(t)
  PROVE  Service!ServiceNext
<1>1. /\ TypeOK /\ PutHeld /\ GetHeld /\ PutHeld' /\ GetHeld' /\ GetProgress
  BY DEF IInv, PutInv, GetInv
<1>2. /\ pc[t] = "get_start" /\ size[t] = 0 /\ pc' = [pc EXCEPT ![t] = "user"]
      /\ UNCHANGED <<size, done, typed, received, outputVars>>
  BY DEF GetNothing, GetEnd, goto
<1>3. pc \in [Threads -> Labels] /\ done[t] = 0
  BY <1>1, <1>2, Typed DEF GetProgress
<1>4. Reading(t) /\ size[t] - done[t] = 0
  BY <1>2, <1>3 DEF Reading
<1>5. readerBar = t /\ left(readerBar) = 0
  BY <1>1, <1>4, Users
<1>6. \A u \in Threads : ~Reading(u)'
  BY <1>1, <1>2, <1>3, <1>4, OneEach DEF Reading
<1>7. readerBar' = None /\ left(readerBar)' = 0
  BY <1>1, <1>6, UsersNext
<1>8. UNCHANGED Output
  <2>1. \A u \in Threads : Writing(u)' <=> Writing(u)
    BY <1>2, <1>3 DEF Writing
  <2> QED BY <1>1, <1>2, <2>1, SameUsers DEF Output, outputVars
<1>9. Service!EndGet(t)
  BY <1>2, <1>5, <1>7, <1>8 DEF Service!EndGet, Service!output, Output
<1> QED BY <1>9 DEF Service!ServiceNext

\* Console::GetChar delivers the next character typed.
LEMMA ReceiveStep ==
  ASSUME IInv, IInv', NEW t \in Threads, GetNext(t)
  PROVE  Service!ServiceNext
<1>1. /\ TypeOK /\ PutHeld /\ GetInv /\ GetHeld /\ PutHeld' /\ GetHeld' /\ GetProgress /\ Ordered
  BY DEF IInv, PutInv, GetInv
<1>2. /\ pc[t] = "get_char"
      /\ received' = Append(received, incoming)
      /\ done' = [done EXCEPT ![t] = @ + 1]
      /\ UNCHANGED <<size, typed, outputVars>>
      /\ IF done[t] + 1 = size[t] \/ incoming = NewLine
         THEN pc' = [pc EXCEPT ![t] = "user"]
         ELSE \E l \in {"get_wait", "get_char"} : pc' = [pc EXCEPT ![t] = l]
  BY DEF GetNext, GetEnd, GetP, goto
<1>3. /\ pc \in [Threads -> Labels] /\ size[t] \in Nat /\ done[t] \in Nat
      /\ done \in [Threads -> 0..MaxString] /\ done[t] < size[t]
  BY <1>1, <1>2, Typed, ConsoleAssumption DEF GetProgress, GetLoop
<1>4. PICK k \in Nat : /\ k = Len(received) /\ k < Len(typed) /\ incoming = typed[k + 1]
  <2>1. incoming # EOF
    BY <1>1, <1>2, GetFindsChar
  <2>2. Len(received) \in Nat /\ Len(typed) \in Nat /\ taken \in 0..Len(typed)
    BY <1>1 DEF TypeOK
  <2>3. taken = Len(received) + 1 /\ incoming = typed[taken]
    BY <1>1, <2>1 DEF Ordered
  <2> QED BY <2>2, <2>3
<1>5. Reading(t)
  BY <1>2 DEF Reading
<1>6. PICK m \in Nat : m = size[t] - done[t] /\ m > 0
  BY <1>3
<1>7. readerBar = t /\ left(readerBar) = m
  BY <1>1, <1>5, <1>6, Users
<1>8. UNCHANGED Output
  <2>1. \A u \in Threads : /\ Writing(u)' <=> Writing(u)
                           /\ Writing(u) => size'[u] = size[u] /\ done'[u] = done[u]
    BY <1>2, <1>3 DEF Writing
  <2> QED BY <1>1, <1>2, <2>1, SameUsers DEF Output, outputVars
<1>9. IF incoming = NewLine \/ m = 1
      THEN readerBar' = None /\ left(readerBar)' = 0
      ELSE readerBar' = t /\ left(readerBar)' = m - 1
  <2>1. done[t] + 1 = size[t] <=> m = 1
    BY <1>3, <1>6
  <2>2. CASE incoming = NewLine \/ m = 1
    <3>1. pc' = [pc EXCEPT ![t] = "user"]
      BY <1>2, <2>1, <2>2
    <3>2. \A u \in Threads : ~Reading(u)'
      BY <1>1, <1>3, <1>5, <3>1, OneEach DEF Reading
    <3> QED BY <1>1, <2>2, <3>2, UsersNext
  <2>3. CASE ~(incoming = NewLine \/ m = 1)
    <3>1. Reading(t)'
      BY <1>2, <1>3, <2>1, <2>3 DEF Reading
    <3>2. size'[t] - done'[t] = m - 1
      BY <1>2, <1>3, <1>6
    <3> QED BY <1>1, <2>3, <3>1, <3>2, UsersNext
  <2> QED BY <2>2, <2>3
<1>10. Service!Receive(t)
  BY <1>2, <1>4, <1>6, <1>7, <1>8, <1>9 DEF Service!Receive, Service!output, Output
<1> QED BY <1>10 DEF Service!ServiceNext

\* A key is pressed.
LEMMA TypingStep ==
  ASSUME IInv, IInv', NEW c \in Keys, Type(c)
  PROVE  Service!ServiceNext
<1>1. /\ PutHeld /\ GetHeld /\ PutHeld' /\ GetHeld'
  BY DEF IInv, PutInv, GetInv
<1>2. typed' = Append(typed, c) /\ UNCHANGED <<callVars, outputVars, received>>
  BY DEF Type
<1>3. UNCHANGED <<writerBar, left(writerBar), readerBar, left(readerBar)>>
  BY <1>1, <1>2, SameUsers DEF callVars, Writing, Reading
<1>4. Service!Typing(c)
  BY <1>2, <1>3 DEF Service!Typing, Service!output, outputVars
<1> QED BY <1>4 DEF Service!ServiceNext

\* Every other step is invisible to the callers.
LEMMA SilentStep ==
  ASSUME IInv, IInv',
         \/ \E t \in Threads : \/ \E n \in 0..MaxString : CallPut(t, n)
                               \/ \E n \in 0..MaxString : CallGet(t, n)
                               \/ PutAcquire(t) /\ ~is_free[MutexPut]
                               \/ GetAcquire(t) /\ ~is_free[MutexGet]
                               \/ PutWait(t) \/ GetStart(t) \/ GetWait(t) \/ YieldCPU(t)
         \/ CheckCharAvail \/ IdleDispatch \/ IdleHalt \/ Stopped \/ UNCHANGED vars
  PROVE  UNCHANGED <<Output, Input>>
<1>1. /\ TypeOK /\ PutHeld /\ GetHeld /\ PutHeld' /\ GetHeld'
      /\ pc \in [Threads -> Labels] /\ size \in [Threads -> 0..MaxString]
      /\ done \in [Threads -> 0..MaxString]
  BY Typed DEF IInv, PutInv, GetInv
<1>2. SUFFICES /\ UNCHANGED <<outputVars, typed, received>>
               /\ \A u \in Threads : /\ Writing(u)' <=> Writing(u)
                                     /\ Reading(u)' <=> Reading(u)
                                     /\ Writing(u) \/ Reading(u) =>
                                          size'[u] = size[u] /\ done'[u] = done[u]
  BY <1>1, SameUsers DEF Output, Input, outputVars
<1>3. ASSUME NEW t \in Threads, NEW n, NEW label \in {"put_acquire", "get_acquire"},
             Call(t, label, n)
      PROVE  /\ UNCHANGED <<outputVars, typed, received>>
             /\ \A u \in Threads : /\ Writing(u)' <=> Writing(u)
                                   /\ Reading(u)' <=> Reading(u)
                                   /\ Writing(u) \/ Reading(u) =>
                                        size'[u] = size[u] /\ done'[u] = done[u]
  <2>1. /\ pc[t] = "user" /\ pc' = [pc EXCEPT ![t] = label]
        /\ size' = [size EXCEPT ![t] = n] /\ done' = [done EXCEPT ![t] = 0]
        /\ UNCHANGED <<outputVars, typed, received>>
    BY <1>3 DEF Call, goto, inputVars
  <2>2. \A u \in Threads : u # t => pc'[u] = pc[u] /\ size'[u] = size[u] /\ done'[u] = done[u]
    BY <1>1, <2>1
  <2>3. pc'[t] = label
    BY <1>1, <2>1
  <2> QED BY <1>3, <2>1, <2>2, <2>3 DEF Writing, Reading
<1>4. ASSUME NEW t \in Threads, UNCHANGED <<outputVars, typed, received, size, done>>,
             pc' = pc \/ \E l \in Labels : pc' = [pc EXCEPT ![t] = l]
                          /\ ((pc[t] \in PutLoop /\ l \in PutLoop) \/ (pc[t] \in GetLoop /\ l \in GetLoop))
      PROVE  /\ UNCHANGED <<outputVars, typed, received>>
             /\ \A u \in Threads : /\ Writing(u)' <=> Writing(u)
                                   /\ Reading(u)' <=> Reading(u)
                                   /\ Writing(u) \/ Reading(u) =>
                                        size'[u] = size[u] /\ done'[u] = done[u]
  BY <1>1, <1>4 DEF Writing, Reading, PutLoop, GetLoop
<1>5. ASSUME NEW t \in Threads, PutWait(t) \/ GetStart(t) \/ GetWait(t)
      PROVE  /\ UNCHANGED <<outputVars, typed, received, size, done>>
             /\ pc' = pc \/ \E l \in Labels : pc' = [pc EXCEPT ![t] = l]
                  /\ ((pc[t] \in PutLoop /\ l \in PutLoop) \/ (pc[t] \in GetLoop /\ l \in GetLoop))
  <2>1. UNCHANGED <<outputVars, typed, received, size, done>>
    BY <1>5 DEF PutWait, GetStart, GetWait, inputVars
  <2>2. CASE PutWait(t)
    <3>1. pc[t] \in PutLoop /\ "put" \in PutLoop /\ "put" \in Labels
      BY <2>2 DEF PutWait, PutLoop, Labels
    <3>2. pc' = pc \/ pc' = [pc EXCEPT ![t] = "put"]
      BY <2>2 DEF PutWait, goto
    <3>3. CASE pc' = pc
      BY <2>1, <3>3
    <3>4. CASE pc' = [pc EXCEPT ![t] = "put"]
      <4>1. \E l \in Labels : pc' = [pc EXCEPT ![t] = l] /\ l \in PutLoop
        BY <3>1, <3>4
      <4> QED BY <2>1, <3>1, <4>1
    <3> QED BY <3>2, <3>3, <3>4
  <2>3. CASE GetStart(t)
    BY <2>3 DEF GetStart, GetP, goto, GetLoop, Labels
  <2>4. CASE GetWait(t)
    <3>1. pc[t] \in GetLoop /\ "get_char" \in GetLoop /\ "get_char" \in Labels
      BY <2>4 DEF GetWait, GetLoop, Labels
    <3>2. pc' = pc \/ pc' = [pc EXCEPT ![t] = "get_char"]
      BY <2>4 DEF GetWait, goto
    <3>3. CASE pc' = pc
      BY <2>1, <3>3
    <3>4. CASE pc' = [pc EXCEPT ![t] = "get_char"]
      <4>1. \E l \in Labels : pc' = [pc EXCEPT ![t] = l] /\ l \in GetLoop
        BY <3>1, <3>4
      <4> QED BY <2>1, <3>1, <4>1
    <3> QED BY <3>2, <3>3, <3>4
  <2> QED BY <1>5, <2>1, <2>2, <2>3, <2>4
<1>6. ASSUME NEW t \in Threads,
             (PutAcquire(t) /\ ~is_free[MutexPut]) \/ (GetAcquire(t) /\ ~is_free[MutexGet])
      PROVE  UNCHANGED <<outputVars, typed, received, size, done, pc>>
  BY <1>6 DEF PutAcquire, GetAcquire, inputVars
<1>7. ASSUME \/ \E t \in Threads : YieldCPU(t)
             \/ IdleDispatch \/ IdleHalt \/ Stopped \/ UNCHANGED vars
      PROVE  UNCHANGED <<outputVars, typed, received, size, done, pc>>
  BY <1>7, QuietStep DEF consoleVars, callVars, inputVars
<1>8. ASSUME CheckCharAvail
      PROVE  UNCHANGED <<outputVars, typed, received, size, done, pc>>
  BY <1>8 DEF CheckCharAvail, callVars
<1>9. ASSUME UNCHANGED <<outputVars, typed, received, size, done, pc>>
      PROVE  /\ UNCHANGED <<outputVars, typed, received>>
             /\ \A u \in Threads : /\ Writing(u)' <=> Writing(u)
                                   /\ Reading(u)' <=> Reading(u)
                                   /\ Writing(u) \/ Reading(u) =>
                                        size'[u] = size[u] /\ done'[u] = done[u]
  BY <1>9 DEF Writing, Reading
<1>10. CASE \E t \in Threads : \/ \E n \in 0..MaxString : CallPut(t, n)
                               \/ \E n \in 0..MaxString : CallGet(t, n)
  BY <1>3, <1>10 DEF CallPut, CallGet
<1>11. CASE \E t \in Threads : PutWait(t) \/ GetStart(t) \/ GetWait(t)
  BY <1>4, <1>5, <1>11
<1> QED BY <1>6, <1>7, <1>8, <1>9, <1>10, <1>11

\* Seen from its callers the driver is a console on which strings are written and
\* read one at a time, whole and in order: the driver implements ConsoleService,
\* for any number of threads and strings of any length.
THEOREM ServiceCorrect == Spec => ImplementsService
<1>1. IInv /\ IInv' /\ [Next]_vars => [Service!ServiceNext]_(Service!serviceVars)
  <2> SUFFICES ASSUME IInv, IInv', [Next]_vars
               PROVE  Service!ServiceNext \/ UNCHANGED <<Output, Input>>
    BY DEF Service!serviceVars, Service!output, Service!input, Output, Input
  <2>1. ASSUME NEW t \in Threads, PutAcquire(t) \/ GetAcquire(t)
        PROVE  Service!ServiceNext \/ UNCHANGED <<Output, Input>>
    BY <2>1, BeginPutStep, BeginGetStep, SilentStep
  <2>2. ASSUME NEW t \in Threads, PutNext(t) \/ PutEnd(t) \/ GetNext(t) \/ GetNothing(t)
        PROVE  Service!ServiceNext
    BY <2>2, SendStep, EndPutStep, ReceiveStep, EndGetStep
  <2>3. CASE WriteDone \/ \E c \in Keys : Type(c)
    BY <2>3, DisplayedStep, TypingStep
  <2>4. CASE \/ \E t \in Threads : \/ \E n \in 0..MaxString : CallPut(t, n)
                                   \/ \E n \in 0..MaxString : CallGet(t, n)
                                   \/ PutWait(t) \/ GetStart(t) \/ GetWait(t) \/ YieldCPU(t)
             \/ CheckCharAvail \/ IdleDispatch \/ IdleHalt \/ Stopped \/ UNCHANGED vars
    BY <2>4, SilentStep
  <2> QED BY <2>1, <2>2, <2>3, <2>4 DEF Next, ThreadStep
<1> QED BY <1>1, InitService, Invariant, PTL
        DEF Spec, ImplementsService, Service!ServiceSpec

=============================================================================
