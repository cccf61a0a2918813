---------------------------- MODULE SynchProofs ----------------------------
(***************************************************************************)
(* Facts about the queues of module Synch and about each kind of step its  *)
(* operators take, for every number of threads, semaphores and locks.  The *)
(* proofs about the clients of Synch cite them.                            *)
(***************************************************************************)
EXTENDS Synch, FiniteSetTheorems, TLAPS

---------------------------------------------------------------------------
(* Queues *)

\* The threads of a queue are threads.
LEMMA ElemsSubset ==
  ASSUME NEW S, NEW q \in Seq(S)
  PROVE  Elems(q) \subseteq S
BY DEF Elems

\* An empty queue has no thread.
LEMMA ElemsEmpty ==
  ASSUME NEW S, NEW q \in Seq(S)
  PROVE  Elems(q) = {} <=> q = <<>>
<1>1. ASSUME q # <<>> PROVE q[1] \in Elems(q)
  BY <1>1 DEF Elems
<1>2. ASSUME q = <<>> PROVE Elems(q) = {}
  BY <1>2 DEF Elems
<1> QED BY <1>1, <1>2

\* What List::Append does to the threads of a queue.
LEMMA ElemsAppend ==
  ASSUME NEW S, NEW q \in Seq(S), NEW x \in S
  PROVE  /\ Append(q, x) \in Seq(S)
         /\ Elems(Append(q, x)) = Elems(q) \cup {x}
<1> DEFINE a == Append(q, x)
<1>1. /\ a \in Seq(S)
      /\ Len(a) = Len(q) + 1
      /\ \A i \in 1..Len(q) : a[i] = q[i]
      /\ a[Len(q) + 1] = x
  OBVIOUS
<1> HIDE DEF a
<1>2. Len(q) \in Nat
  OBVIOUS
<1>3. \A i : i \in 1..Len(a) <=> i \in 1..Len(q) \/ i = Len(q) + 1
  BY <1>1, <1>2
<1>4. Elems(a) \subseteq Elems(q) \cup {x}
  BY <1>1, <1>3 DEF Elems
<1>5. Elems(q) \cup {x} \subseteq Elems(a)
  BY <1>1, <1>3, <1>2 DEF Elems
<1> QED BY <1>1, <1>4, <1>5 DEF a

\* A new thread keeps a queue free of duplicates.
LEMMA NoDupAppend ==
  ASSUME NEW S, NEW q \in Seq(S), NEW x \in S, NoDup(q), x \notin Elems(q)
  PROVE  NoDup(Append(q, x))
<1> DEFINE a == Append(q, x)
<1>1. /\ Len(a) = Len(q) + 1
      /\ \A i \in 1..Len(q) : a[i] = q[i]
      /\ a[Len(q) + 1] = x
      /\ Len(q) \in Nat
  OBVIOUS
<1> HIDE DEF a
<1>2. \A i \in 1..Len(a) : i \in 1..Len(q) \/ i = Len(q) + 1
  BY <1>1
<1>3. \A i \in 1..Len(q) : q[i] # x
  BY DEF Elems
<1>4. NoDup(a)
  BY <1>1, <1>2, <1>3 DEF NoDup
<1> QED BY <1>4 DEF a

\* What List::Remove does to a queue without duplicates.
LEMMA ElemsTail ==
  ASSUME NEW S, NEW q \in Seq(S), q # <<>>, NoDup(q)
  PROVE  /\ Head(q) \in S
         /\ Head(q) \in Elems(q)
         /\ Tail(q) \in Seq(S)
         /\ Elems(Tail(q)) = Elems(q) \ {Head(q)}
         /\ NoDup(Tail(q))
<1> DEFINE r == Tail(q)
<1>1. /\ Len(q) \in Nat \ {0}
      /\ Head(q) = q[1]
      /\ Head(q) \in S
      /\ r \in Seq(S)
      /\ Len(r) = Len(q) - 1
      /\ \A i \in 1..Len(r) : r[i] = q[i + 1]
  OBVIOUS
<1> HIDE DEF r
<1>2. Head(q) \in Elems(q)
  BY <1>1 DEF Elems
<1>3. \A i \in 1..Len(r) : i + 1 \in 1..Len(q) /\ i + 1 # 1
  BY <1>1
<1>4. \A j \in 1..Len(q) : j = 1 \/ (j - 1 \in 1..Len(r) /\ (j - 1) + 1 = j)
  BY <1>1
<1>5. Elems(r) \subseteq Elems(q) \ {Head(q)}
  <2>1. SUFFICES ASSUME NEW i \in 1..Len(r)
                 PROVE  r[i] \in Elems(q) /\ r[i] # q[1]
    BY <1>1 DEF Elems
  <2>2. r[i] = q[i + 1] /\ i + 1 \in 1..Len(q) /\ i + 1 # 1 /\ 1 \in 1..Len(q)
    BY <1>1, <1>3
  <2> QED BY <2>2 DEF Elems, NoDup
<1>6. Elems(q) \ {Head(q)} \subseteq Elems(r)
  <2>1. SUFFICES ASSUME NEW j \in 1..Len(q), q[j] # q[1]
                 PROVE  q[j] \in Elems(r)
    BY <1>1 DEF Elems
  <2>2. j - 1 \in 1..Len(r) /\ r[j - 1] = q[j]
    BY <2>1, <1>1, <1>4
  <2> QED BY <2>2 DEF Elems
<1>7. NoDup(r)
  <2>1. SUFFICES ASSUME NEW i \in 1..Len(r), NEW j \in 1..Len(r), r[i] = r[j]
                 PROVE  i = j
    BY DEF NoDup
  <2>2. q[i + 1] = q[j + 1] /\ i + 1 \in 1..Len(q) /\ j + 1 \in 1..Len(q)
    BY <2>1, <1>1, <1>3
  <2>3. i + 1 = j + 1
    BY <2>2 DEF NoDup
  <2> QED BY <2>3
<1> QED BY <1>1, <1>2, <1>5, <1>6, <1>7 DEF r

---------------------------------------------------------------------------
(* The steps of the kernel, as far as the places of the threads go *)

\* The part of the type invariant that OnePlace needs.
PlacesType ==
  /\ g_current_thread \in Threads
  /\ readyList \in Seq(Threads)
  /\ idle \in BOOLEAN
  /\ waitOn \in [Threads -> Objects \cup {None}]
  /\ wait_queue \in [Objects -> Seq(Threads)]

\* A thread queues up on an object and sleeps.
Block(t, o) ==
  /\ Running(t)
  /\ waitOn[t] \in {None, o}
  /\ wait_queue' = [wait_queue EXCEPT ![o] = Append(@, t)]
  /\ waitOn' = [waitOn EXCEPT ![t] = o]
  /\ Sleep

\* A thread's P or Acquire returns.
Return(t) ==
  /\ Running(t)
  /\ waitOn' = [waitOn EXCEPT ![t] = None]
  /\ UNCHANGED <<schedVars, wait_queue>>

\* The first waiter of an object is made ready.
Wake(o) ==
  /\ wait_queue[o] # <<>>
  /\ WakeFirst(o)
  /\ UNCHANGED <<g_current_thread, idle, waitOn>>

\* Queueing up and going to sleep (Semaphore::P, Lock::Acquire) leaves every
\* thread in one place.
LEMMA BlockOnePlace ==
  ASSUME PlacesType, OnePlace, NEW t \in Threads, NEW o \in Objects, Block(t, o)
  PROVE  PlacesType' /\ OnePlace'
<1> DEFINE R == Elems(readyList)
           Q(p) == Elems(wait_queue[p])
<1>1. /\ t = g_current_thread
      /\ idle = FALSE
      /\ ~Parked(t)
  BY DEF Block, Running, Parked, PlacesType
<1>2. t \notin R /\ \A p \in Objects : t \notin Q(p)
  BY <1>1 DEF OnePlace
<1>3. /\ wait_queue' \in [Objects -> Seq(Threads)]
      /\ Elems(wait_queue'[o]) = Q(o) \cup {t}
      /\ NoDup(wait_queue'[o])
      /\ \A p \in Objects : p # o => wait_queue'[p] = wait_queue[p]
  <2>1. wait_queue[o] \in Seq(Threads) /\ NoDup(wait_queue[o])
    BY DEF PlacesType, OnePlace
  <2>2. wait_queue'[o] = Append(wait_queue[o], t)
    BY DEF Block, PlacesType
  <2>3. /\ wait_queue'[o] \in Seq(Threads)
        /\ Elems(wait_queue'[o]) = Q(o) \cup {t}
    BY <2>1, <2>2, ElemsAppend
  <2>4. NoDup(wait_queue'[o])
    BY <2>1, <2>2, <1>2, NoDupAppend
  <2> QED BY <2>3, <2>4 DEF Block, PlacesType
<1>4. /\ waitOn' \in [Threads -> Objects \cup {None}]
      /\ waitOn'[t] = o
      /\ \A u \in Threads : u # t => waitOn'[u] = waitOn[u]
  BY DEF Block, PlacesType
<1>5. \A p \in Objects : NoDup(wait_queue'[p])
  BY <1>3 DEF OnePlace
<1>6. \A p \in Objects : \A u \in Elems(wait_queue'[p]) :
         u \in Threads /\ waitOn'[u] = p /\ u \notin R
  <2>1. \A p \in Objects : Q(p) \subseteq Threads
    BY ElemsSubset DEF PlacesType
  <2>2. \A p \in Objects : \A u \in Q(p) : u # t /\ waitOn[u] = p /\ u \notin R
    BY <1>2 DEF OnePlace
  <2>3. \A p \in Objects : \A u \in Elems(wait_queue'[p]) :
           u \in Q(p) \/ (u = t /\ p = o)
    BY <1>3
  <2> HIDE DEF R, Q
  <2> QED BY <2>1, <2>2, <2>3, <1>2, <1>4
<1>7. \A u \in Threads : u # t => u \in R \/ \E p \in Objects : u \in Q(p)
  BY <1>1 DEF OnePlace, Parked
<1>8. \A p \in Objects : Q(p) \subseteq Elems(wait_queue'[p])
  BY <1>3
<1>9. CASE readyList = <<>>
  <2>1. /\ idle' = TRUE
        /\ g_current_thread' = g_current_thread
        /\ readyList' = readyList
    BY <1>9 DEF Block, Sleep
  <2>2. R = {}
    BY <1>9, ElemsEmpty DEF PlacesType
  <2>3. \A u \in Threads : \E p \in Objects : u \in Elems(wait_queue'[p])
    BY <2>2, <1>3, <1>7, <1>8
  <2>4. \A u \in Threads : Parked(u)'
    BY <2>1 DEF Parked
  <2> QED BY <1>3, <1>4, <1>5, <1>6, <2>1, <2>2, <2>3, <2>4
          DEF OnePlace, PlacesType
<1>10. CASE readyList # <<>>
  <2> DEFINE h == Head(readyList)
  <2>1. /\ g_current_thread' = h
        /\ readyList' = Tail(readyList)
        /\ idle' = FALSE
    BY <1>1, <1>10 DEF Block, Sleep, SwitchTo
  <2>2. readyList \in Seq(Threads) /\ NoDup(readyList)
    BY DEF PlacesType, OnePlace
  <2>3. /\ h \in Threads
        /\ h \in R
        /\ readyList' \in Seq(Threads)
        /\ Elems(readyList') = R \ {h}
        /\ NoDup(readyList')
    BY <2>1, <2>2, <1>10, ElemsTail
  <2> HIDE DEF h, R, Q
  <2>4. \A u : Parked(u)' <=> u # h
    BY <2>1 DEF Parked
  <2>5. \A p \in Objects : \A u \in Elems(wait_queue'[p]) : u # h
    BY <1>6, <2>3
  <2>6. \A u \in Threads : u # h =>
           u \in Elems(readyList') \/ \E p \in Objects : u \in Elems(wait_queue'[p])
    BY <1>3, <1>7, <1>8, <2>3
  <2> QED BY <1>3, <1>4, <1>5, <1>6, <2>1, <2>3, <2>4, <2>5, <2>6
          DEF OnePlace, PlacesType
<1> QED BY <1>9, <1>10

\* So does the return from P or Acquire.
LEMMA ReturnOnePlace ==
  ASSUME PlacesType, OnePlace, NEW t \in Threads, Return(t)
  PROVE  PlacesType' /\ OnePlace'
<1>1. ~Parked(t)
  BY DEF Return, Running, Parked
<1>2. \A p \in Objects : t \notin Elems(wait_queue[p])
  BY <1>1 DEF OnePlace
<1>3. /\ waitOn' \in [Threads -> Objects \cup {None}]
      /\ \A u \in Threads : u # t => waitOn'[u] = waitOn[u]
  BY DEF Return, PlacesType
<1>4. \A p \in Objects : Elems(wait_queue[p]) \subseteq Threads
  BY ElemsSubset DEF PlacesType
<1>5. UNCHANGED <<g_current_thread, idle, readyList, wait_queue>>
  BY DEF Return, schedVars
<1>6. \A u : Parked(u)' <=> Parked(u)
  BY <1>5 DEF Parked
<1> QED BY <1>2, <1>3, <1>4, <1>5, <1>6 DEF OnePlace, PlacesType

\* So does waking the first waiter (Semaphore::V, Lock::Release): it moves
\* from the wait queue to the ready list.
LEMMA WakeOnePlace ==
  ASSUME PlacesType, OnePlace, NEW o \in Objects, Wake(o)
  PROVE  PlacesType' /\ OnePlace'
<1> DEFINE h == Head(wait_queue[o])
<1>1. wait_queue[o] \in Seq(Threads) /\ wait_queue[o] # <<>> /\ NoDup(wait_queue[o])
  BY DEF PlacesType, OnePlace, Wake
<1>2. /\ wait_queue'[o] = Tail(wait_queue[o])
      /\ \A p \in Objects : p # o => wait_queue'[p] = wait_queue[p]
      /\ wait_queue' = [wait_queue EXCEPT ![o] = Tail(@)]
      /\ readyList' = Append(readyList, h)
      /\ UNCHANGED <<g_current_thread, idle, waitOn>>
  BY DEF Wake, WakeFirst, PlacesType
<1>3. /\ h \in Threads
      /\ h \in Elems(wait_queue[o])
      /\ wait_queue'[o] \in Seq(Threads)
      /\ Elems(wait_queue'[o]) = Elems(wait_queue[o]) \ {h}
      /\ NoDup(wait_queue'[o])
  BY <1>1, <1>2, ElemsTail
<1> HIDE DEF h
<1>4. wait_queue' \in [Objects -> Seq(Threads)]
  BY <1>2, <1>3 DEF PlacesType
<1>5. h \notin Elems(readyList) /\ Parked(h)
      /\ \A p \in Objects : p # o => h \notin Elems(wait_queue[p])
  BY <1>3 DEF OnePlace
<1>6. readyList \in Seq(Threads) /\ NoDup(readyList)
  BY DEF PlacesType, OnePlace
<1>7. /\ readyList' \in Seq(Threads)
      /\ Elems(readyList') = Elems(readyList) \cup {h}
      /\ NoDup(readyList')
  BY <1>2, <1>3, <1>5, <1>6, ElemsAppend, NoDupAppend
<1>8. \A u : Parked(u)' <=> Parked(u)
  BY <1>2 DEF Parked
<1>9. \A p \in Objects : NoDup(wait_queue'[p])
  BY <1>2, <1>3 DEF OnePlace
<1>10. \A p \in Objects : \A u \in Elems(wait_queue'[p]) :
          waitOn'[u] = p /\ u \notin Elems(readyList') /\ Parked(u)'
  BY <1>2, <1>3, <1>5, <1>7, <1>8 DEF OnePlace
<1>11. \A u \in Elems(readyList') : Parked(u)'
  BY <1>5, <1>7, <1>8 DEF OnePlace
<1>12. \A u \in Threads : Parked(u)' =>
         u \in Elems(readyList') \/ \E p \in Objects : u \in Elems(wait_queue'[p])
  BY <1>2, <1>3, <1>7, <1>8 DEF OnePlace
<1> QED BY <1>2, <1>4, <1>7, <1>9, <1>10, <1>11, <1>12 DEF OnePlace, PlacesType

\* So does a yield: the running thread changes places with the first ready
\* one (Thread::Yield).
LEMMA YieldOnePlace ==
  ASSUME PlacesType, OnePlace, NEW t \in Threads, Yield(t)
  PROVE  PlacesType' /\ OnePlace'
<1> DEFINE h == Head(readyList)
<1>1. /\ g_current_thread = t
      /\ idle = FALSE
      /\ UNCHANGED <<idle, waitOn, wait_queue>>
      /\ g_current_thread' = h
      /\ readyList' = Append(Tail(readyList), t)
      /\ readyList # <<>>
  BY DEF Yield, AtCall, Running, SwitchTo, objectVars, PlacesType
<1>2. readyList \in Seq(Threads) /\ NoDup(readyList)
  BY DEF PlacesType, OnePlace
<1>3. /\ h \in Threads
      /\ h \in Elems(readyList)
      /\ Tail(readyList) \in Seq(Threads)
      /\ Elems(Tail(readyList)) = Elems(readyList) \ {h}
      /\ NoDup(Tail(readyList))
  BY <1>1, <1>2, ElemsTail
<1> HIDE DEF h
<1>4. ~Parked(t)
  BY <1>1 DEF Parked
<1>5. t \notin Elems(readyList) /\ \A p \in Objects : t \notin Elems(wait_queue[p])
  BY <1>4 DEF OnePlace
<1>6. /\ readyList' \in Seq(Threads)
      /\ Elems(readyList') = (Elems(readyList) \ {h}) \cup {t}
      /\ NoDup(readyList')
  BY <1>1, <1>3, <1>5, ElemsAppend, NoDupAppend
<1>7. h # t /\ \A p \in Objects : h \notin Elems(wait_queue[p])
  BY <1>3, <1>5 DEF OnePlace
<1>8. \A u : Parked(u)' <=> u # h
  BY <1>1 DEF Parked
<1>9. \A u \in Threads : u # t =>
         u \in Elems(readyList) \/ \E p \in Objects : u \in Elems(wait_queue[p])
  BY <1>1 DEF OnePlace, Parked
<1>10. \A p \in Objects : \A u \in Elems(wait_queue[p]) :
          waitOn[u] = p /\ u \notin Elems(readyList') /\ Parked(u)'
  BY <1>5, <1>6, <1>7, <1>8 DEF OnePlace
<1>11. \A u \in Elems(readyList') : Parked(u)'
  BY <1>6, <1>7, <1>8
<1>12. \A u \in Threads : Parked(u)' =>
          u \in Elems(readyList') \/ \E p \in Objects : u \in Elems(wait_queue[p])
  BY <1>6, <1>8, <1>9
<1> QED BY <1>1, <1>3, <1>6, <1>10, <1>11, <1>12 DEF OnePlace, PlacesType

\* So does the end of the idle loop of Thread::Sleep.
LEMMA DispatchOnePlace ==
  ASSUME PlacesType, OnePlace, Dispatch
  PROVE  PlacesType' /\ OnePlace'
<1> DEFINE h == Head(readyList)
<1>1. /\ idle = TRUE
      /\ idle' = FALSE
      /\ UNCHANGED <<waitOn, wait_queue>>
      /\ g_current_thread' = h
      /\ readyList' = Tail(readyList)
      /\ readyList # <<>>
  BY DEF Dispatch, SwitchTo, objectVars, PlacesType
<1>2. readyList \in Seq(Threads) /\ NoDup(readyList)
  BY DEF PlacesType, OnePlace
<1>3. /\ h \in Threads
      /\ h \in Elems(readyList)
      /\ readyList' \in Seq(Threads)
      /\ Elems(readyList') = Elems(readyList) \ {h}
      /\ NoDup(readyList')
  BY <1>1, <1>2, ElemsTail
<1> HIDE DEF h
<1>4. \A u : Parked(u)
  BY <1>1 DEF Parked
<1>5. \A u : Parked(u)' <=> u # h
  BY <1>1 DEF Parked
<1>6. \A p \in Objects : \A u \in Elems(wait_queue[p]) :
          waitOn[u] = p /\ u \notin Elems(readyList') /\ Parked(u)'
  BY <1>3, <1>5 DEF OnePlace
<1>7. \A u \in Threads : Parked(u)' =>
          u \in Elems(readyList') \/ \E p \in Objects : u \in Elems(wait_queue[p])
  BY <1>3, <1>4, <1>5 DEF OnePlace
<1> QED BY <1>1, <1>3, <1>5, <1>6, <1>7 DEF OnePlace, PlacesType

---------------------------------------------------------------------------
(* The same steps, as far as the units of a semaphore go *)

\* NoLostWakeup for one semaphore.
Covered(s) == wait_queue[s] # <<>> => count[s] <= Cardinality(Awake(s))

\* The threads woken for a semaphore are finitely many.
LEMMA AwakeFinite ==
  ASSUME NEW o
  PROVE  IsFiniteSet(Awake(o)) /\ Cardinality(Awake(o)) \in Nat
<1>1. Awake(o) \subseteq Threads
  BY DEF Awake
<1>2. IsFiniteSet(Awake(o))
  BY <1>1, ThreadsAssumption, FS_Subset
<1> QED BY <1>2, FS_CardinalityType

\* A step that leaves a semaphore, its queue and its waiters alone.
LEMMA UntouchedCovered ==
  ASSUME NEW s, Covered(s),
         count'[s] = count[s], wait_queue'[s] = wait_queue[s],
         \A t \in Threads : waitOn'[t] = s <=> waitOn[t] = s
  PROVE  Covered(s)'
<1>1. Awake(s)' = Awake(s)
  BY DEF Awake
<1> QED BY <1>1 DEF Covered

\* A thread of P that takes a unit leaves the set of woken threads: one unit
\* less, at most one woken thread less.
LEMMA TakeCovered ==
  ASSUME NEW s, NEW t, Covered(s),
         count[s] \in Nat, count'[s] = count[s] - 1,
         wait_queue'[s] = wait_queue[s],
         \A u \in Threads : u # t => (waitOn'[u] = s <=> waitOn[u] = s),
         waitOn'[t] # s
  PROVE  Covered(s)'
<1>1. Awake(s)' = Awake(s) \ {t}
  BY DEF Awake
<1>2. IsFiniteSet(Awake(s)) /\ Cardinality(Awake(s)) \in Nat
  BY AwakeFinite
<1>3. Cardinality(Awake(s) \ {t}) \in {Cardinality(Awake(s)), Cardinality(Awake(s)) - 1}
  <2>1. CASE t \in Awake(s)
    BY <2>1, <1>2, FS_RemoveElement
  <2>2. CASE t \notin Awake(s)
    <3>1. Awake(s) \ {t} = Awake(s)
      BY <2>2
    <3> QED BY <3>1
  <2> QED BY <2>1, <2>2
<1>4. SUFFICES ASSUME wait_queue[s] # <<>>
               PROVE  count'[s] <= Cardinality(Awake(s)')
  BY DEF Covered
<1>5. count[s] <= Cardinality(Awake(s))
  BY <1>4 DEF Covered
<1>6. Cardinality(Awake(s)') \in {Cardinality(Awake(s)), Cardinality(Awake(s)) - 1}
  BY <1>1, <1>3
<1> QED BY <1>2, <1>5, <1>6

\* V adds a unit and, when a thread waits, a woken thread for it.
LEMMA WakeCovered ==
  ASSUME PlacesType, OnePlace, NEW s \in Objects, Covered(s), Wake(s),
         count[s] \in Nat, count'[s] = count[s] + 1
  PROVE  Covered(s)'
<1> DEFINE h == Head(wait_queue[s])
<1>1. /\ wait_queue[s] \in Seq(Threads)
      /\ wait_queue[s] # <<>>
      /\ NoDup(wait_queue[s])
      /\ wait_queue'[s] = Tail(wait_queue[s])
      /\ waitOn' = waitOn
  BY DEF PlacesType, OnePlace, Wake, WakeFirst
<1>2. /\ h \in Threads
      /\ h \in Elems(wait_queue[s])
      /\ Elems(wait_queue'[s]) = Elems(wait_queue[s]) \ {h}
  BY <1>1, ElemsTail
<1> HIDE DEF h
<1>3. waitOn[h] = s
  BY <1>2 DEF OnePlace
<1>4. Awake(s)' = Awake(s) \cup {h} /\ h \notin Awake(s)
  BY <1>1, <1>2, <1>3 DEF Awake
<1>5. IsFiniteSet(Awake(s)) /\ Cardinality(Awake(s)) \in Nat
  BY AwakeFinite
<1>6. Cardinality(Awake(s) \cup {h}) = Cardinality(Awake(s)) + 1
  BY <1>4, <1>5, FS_AddElement
<1> QED BY <1>1, <1>4, <1>5, <1>6 DEF Covered

\* When nothing runs and nothing is ready, every thread is in the queue of
\* the object it waits for, and nobody is awake.
LEMMA AllQueued ==
  ASSUME PlacesType, OnePlace, idle, readyList = <<>>
  PROVE  /\ \A t \in Threads :
              waitOn[t] \in Objects /\ t \in Elems(wait_queue[waitOn[t]])
         /\ \A o \in Objects : Awake(o) = {}
<1>1. Elems(readyList) = {}
  BY ElemsEmpty DEF PlacesType
<1>2. \A t \in Threads : \E o \in Objects : t \in Elems(wait_queue[o])
  BY <1>1 DEF OnePlace, Parked
<1>3. \A t \in Threads :
         waitOn[t] \in Objects /\ t \in Elems(wait_queue[waitOn[t]])
  BY <1>2 DEF OnePlace
<1> QED BY <1>3 DEF Awake

---------------------------------------------------------------------------
(* The steps of the kernel under any client *)

\* A step that calls one operation of the kernel, or none.  The clients of
\* Synch take no other steps, so that what is shown here holds in all of them.
KernelStep ==
  \/ \E t \in Threads, s \in Semaphores : P(t, s)
  \/ \E s \in Semaphores : V(s)
  \/ \E t \in Threads, l \in Locks : Acquire(t, l) \/ Release(t, l)
  \/ \E t \in Threads : Yield(t)
  \/ Dispatch
  \/ \E deleted : Halt(deleted)
  \/ machine' = "assert" /\ UNCHANGED <<schedVars, waitOn, objectVars>>
  \/ UNCHANGED synchVars

\* What a step does to the places of the threads.
PlacesStep ==
  \/ \E t \in Threads, o \in Objects : Block(t, o)
  \/ \E t \in Threads : Return(t)
  \/ \E o \in Objects : Wake(o)
  \/ \E t \in Threads : Yield(t)
  \/ Dispatch
  \/ UNCHANGED <<g_current_thread, readyList, idle, waitOn, wait_queue>>

\* Every operation of the kernel moves the threads in one of these ways.
LEMMA KernelPlaces ==
  ASSUME KernelStep
  PROVE  PlacesStep
<1>1. ASSUME NEW t \in Threads, NEW s \in Semaphores, P(t, s)
      PROVE  PlacesStep
  <2>1. Block(t, s) \/ Return(t)
    BY <1>1 DEF P, PBlock, PTake, Block, Return
  <2> QED BY <2>1 DEF PlacesStep, Objects
<1>2. ASSUME NEW s \in Semaphores, V(s)
      PROVE  PlacesStep
  <2>1. CASE wait_queue[s] # <<>>
    <3>1. Wake(s)
      BY <1>2, <2>1 DEF V, Wake
    <3> QED BY <3>1 DEF PlacesStep, Objects
  <2>2. CASE wait_queue[s] = <<>>
    BY <1>2, <2>2 DEF V, PlacesStep
  <2> QED BY <2>1, <2>2
<1>3. ASSUME NEW t \in Threads, NEW l \in Locks, Acquire(t, l)
      PROVE  PlacesStep
  <2>1. Block(t, l) \/ Return(t)
    BY <1>3 DEF Acquire, AcquireBlock, AcquireTake, Block, Return
  <2> QED BY <2>1 DEF PlacesStep, Objects
<1>4. ASSUME NEW t \in Threads, NEW l \in Locks, Release(t, l)
      PROVE  PlacesStep
  <2>1. CASE owner[l] = t /\ wait_queue[l] # <<>>
    <3>1. Wake(l)
      BY <1>4, <2>1 DEF Release, ReleaseHeld, Wake
    <3> QED BY <3>1 DEF PlacesStep, Objects
  <2>2. CASE ~(owner[l] = t /\ wait_queue[l] # <<>>)
    BY <1>4, <2>2 DEF Release, ReleaseHeld, PlacesStep
  <2> QED BY <2>1, <2>2
<1>5. ASSUME (\E t \in Threads : Yield(t)) \/ Dispatch
      PROVE  PlacesStep
  BY <1>5 DEF PlacesStep
<1>6. ASSUME NEW deleted, Halt(deleted)
      PROVE  PlacesStep
  BY <1>6 DEF Halt, PlacesStep, schedVars, objectVars
<1>7. ASSUME UNCHANGED <<schedVars, waitOn, objectVars>>
      PROVE  PlacesStep
  BY <1>7 DEF PlacesStep, schedVars, objectVars
<1> QED BY <1>1, <1>2, <1>3, <1>4, <1>5, <1>6, <1>7 DEF KernelStep, synchVars

\* No operation puts a thread in two places, or in none.
LEMMA KernelOnePlace ==
  ASSUME SynchTypeOK, OnePlace, KernelStep
  PROVE  PlacesType' /\ OnePlace'
<1>1. PlacesType
  BY DEF SynchTypeOK, PlacesType
<1>2. PlacesStep
  BY KernelPlaces
<1>3. CASE UNCHANGED <<g_current_thread, readyList, idle, waitOn, wait_queue>>
  BY <1>1, <1>3 DEF PlacesType, OnePlace, Parked
<1> QED BY <1>1, <1>2, <1>3, BlockOnePlace, ReturnOnePlace, WakeOnePlace,
           YieldOnePlace, DispatchOnePlace DEF PlacesStep

\* The counts stay natural numbers, and a lock is owned by a thread or by none.
LEMMA KernelType ==
  ASSUME SynchTypeOK, OnePlace, KernelStep
  PROVE  SynchTypeOK'
<1> DEFINE Rest == /\ count' \in [Semaphores -> Nat]
                   /\ is_free' \in [Locks -> BOOLEAN]
                   /\ owner' \in [Locks -> Threads \cup {None}]
                   /\ machine' \in {"on", "halted", "exit", "assert"}
<1>1. /\ count \in [Semaphores -> Nat]
      /\ is_free \in [Locks -> BOOLEAN]
      /\ owner \in [Locks -> Threads \cup {None}]
      /\ machine \in {"on", "halted", "exit", "assert"}
  BY DEF SynchTypeOK
<1>2. ASSUME NEW t \in Threads, NEW s \in Semaphores, P(t, s)
      PROVE  Rest
  BY <1>1, <1>2 DEF P, PBlock, PTake, Sleep, SwitchTo, ReturnOrExit
<1>3. ASSUME NEW s \in Semaphores, V(s)
      PROVE  Rest
  BY <1>1, <1>3 DEF V, ReturnOrExit
<1>4. ASSUME NEW t \in Threads, NEW l \in Locks, Acquire(t, l)
      PROVE  Rest
  <2>1. CASE AcquireBlock(t, l)
    BY <1>1, <1>4, <2>1 DEF Acquire, AcquireBlock, Sleep, SwitchTo, ReturnOrExit
  <2>2. CASE AcquireTake(t, l)
    BY <1>1, <1>4, <2>2 DEF Acquire, AcquireTake, ReturnOrExit
  <2> QED BY <1>4, <2>1, <2>2 DEF Acquire
<1>5. ASSUME NEW t \in Threads, NEW l \in Locks, Release(t, l)
      PROVE  Rest
  BY <1>1, <1>5 DEF Release, ReleaseHeld, ReturnOrExit
<1>6. ASSUME (\E t \in Threads : Yield(t)) \/ Dispatch
      PROVE  Rest
  BY <1>1, <1>6 DEF Yield, Dispatch, SwitchTo, ReturnOrExit, objectVars
<1>7. ASSUME NEW deleted, Halt(deleted)
      PROVE  Rest
  BY <1>1, <1>7 DEF Halt, objectVars
<1>8. ASSUME UNCHANGED objectVars, machine' \in {machine, "assert"}
      PROVE  Rest
  BY <1>1, <1>8 DEF objectVars
<1> HIDE DEF Rest
<1>9. Rest
  BY <1>2, <1>3, <1>4, <1>5, <1>6, <1>7, <1>8 DEF KernelStep, synchVars
<1>10. PlacesType'
  BY KernelOnePlace
<1> QED BY <1>9, <1>10 DEF Rest, PlacesType, SynchTypeOK

\* The strengthening of LockQueues that is preserved: Lock::Release frees a
\* lock only when nobody waits for it.
BusyWhileQueued == \A l \in Locks : wait_queue[l] # <<>> => ~is_free[l]

\* The locks stay consistent with their queues and their owners.
LEMMA KernelLocks ==
  ASSUME SynchTypeOK, BusyWhileQueued, LockQueues, KernelStep
  PROVE  BusyWhileQueued' /\ LockQueues'
<1> DEFINE Owned == \A l \in Locks : owner[l] = None <=> is_free[l]
<1> USE ThreadsAssumption, ObjectsAssumption
<1>1. Owned
  BY DEF LockQueues
<1>2. SUFFICES BusyWhileQueued' /\ Owned'
  BY DEF LockQueues, BusyWhileQueued
<1>3. /\ wait_queue \in [Objects -> Seq(Threads)]
      /\ is_free \in [Locks -> BOOLEAN]
      /\ owner \in [Locks -> Threads \cup {None}]
  BY DEF SynchTypeOK
<1>4. \A l \in Locks : l \in Objects /\ l \notin Semaphores
  BY DEF Objects
<1> DEFINE Kept == /\ \A l \in Locks : wait_queue'[l] = wait_queue[l]
                   /\ UNCHANGED <<is_free, owner>>
<1>5. ASSUME Kept
      PROVE  BusyWhileQueued' /\ Owned'
  BY <1>1, <1>5 DEF BusyWhileQueued
<1>6. ASSUME NEW s \in Semaphores, V(s)
      PROVE  Kept
  BY <1>3, <1>4, <1>6 DEF V, WakeFirst
<1>7. ASSUME NEW t \in Threads, NEW s \in Semaphores, P(t, s)
      PROVE  Kept
  BY <1>3, <1>4, <1>7 DEF P, PBlock, PTake
<1>8. ASSUME NEW t \in Threads, NEW l \in Locks, Acquire(t, l)
      PROVE  BusyWhileQueued' /\ Owned'
  <2>1. CASE AcquireBlock(t, l)
    <3>1. /\ ~is_free[l]
          /\ \A k \in Locks : k # l => wait_queue'[k] = wait_queue[k]
          /\ UNCHANGED <<is_free, owner>>
      BY <1>3, <1>4, <2>1 DEF AcquireBlock
    <3> QED BY <1>1, <3>1 DEF BusyWhileQueued
  <2>2. CASE AcquireTake(t, l)
    <3>1. /\ is_free[l]
          /\ is_free' = [is_free EXCEPT ![l] = FALSE]
          /\ owner' = [owner EXCEPT ![l] = t]
          /\ UNCHANGED wait_queue
      BY <2>2 DEF AcquireTake
    <3>2. BusyWhileQueued'
      BY <1>3, <3>1 DEF BusyWhileQueued
    <3>3. Owned'
      BY <1>1, <1>3, <3>1
    <3> QED BY <3>2, <3>3
  <2> QED BY <1>8, <2>1, <2>2 DEF Acquire
<1>9. ASSUME NEW t \in Threads, NEW l \in Locks, Release(t, l)
      PROVE  BusyWhileQueued' /\ Owned'
  <2>1. CASE owner[l] # t
    <3>1. Kept
      BY <1>9, <2>1 DEF Release
    <3> QED BY <1>5, <3>1
  <2>2. CASE owner[l] = t /\ wait_queue[l] # <<>>
    <3>1. /\ ~is_free[l]
          /\ \A k \in Locks : k # l => wait_queue'[k] = wait_queue[k]
          /\ UNCHANGED <<is_free, owner>>
      BY <1>1, <1>3, <1>4, <1>9, <2>2 DEF Release, ReleaseHeld, WakeFirst
    <3> QED BY <1>1, <3>1 DEF BusyWhileQueued
  <2>3. CASE owner[l] = t /\ wait_queue[l] = <<>>
    <3>1. /\ is_free' = [is_free EXCEPT ![l] = TRUE]
          /\ owner' = [owner EXCEPT ![l] = None]
          /\ UNCHANGED wait_queue
      BY <1>9, <2>3 DEF Release, ReleaseHeld
    <3>2. BusyWhileQueued'
      BY <1>3, <2>3, <3>1 DEF BusyWhileQueued
    <3>3. Owned'
      BY <1>1, <1>3, <3>1
    <3> QED BY <3>2, <3>3
  <2> QED BY <2>1, <2>2, <2>3
<1>10. ASSUME \/ \E t \in Threads : Yield(t)
              \/ Dispatch
              \/ \E deleted : Halt(deleted)
              \/ UNCHANGED objectVars
       PROVE  Kept
  BY <1>10 DEF Yield, Dispatch, Halt, objectVars
<1> HIDE DEF Kept, Owned
<1> QED BY <1>5, <1>6, <1>7, <1>8, <1>9, <1>10 DEF KernelStep, synchVars

\* No operation leaves a unit unmatched while threads are queued.
LEMMA KernelWakeups ==
  ASSUME SynchTypeOK, OnePlace, NoLostWakeup, KernelStep
  PROVE  NoLostWakeup'
<1> USE ObjectsAssumption
<1>1. /\ PlacesType
      /\ count \in [Semaphores -> Nat]
      /\ wait_queue \in [Objects -> Seq(Threads)]
      /\ waitOn \in [Threads -> Objects \cup {None}]
  BY DEF SynchTypeOK, PlacesType
<1>2. SUFFICES ASSUME NEW r \in Semaphores
               PROVE  Covered(r)'
  BY DEF NoLostWakeup, Covered
<1>3. Covered(r) /\ r \in Objects /\ r \notin Locks /\ r # None /\ count[r] \in Nat
  BY <1>1 DEF NoLostWakeup, Covered, Objects
<1> DEFINE Untouched == /\ count'[r] = count[r]
                        /\ wait_queue'[r] = wait_queue[r]
                        /\ \A t \in Threads : waitOn'[t] = r <=> waitOn[t] = r
<1>4. ASSUME Untouched
      PROVE  Covered(r)'
  BY <1>3, <1>4, UntouchedCovered
<1>5. ASSUME NEW t \in Threads, NEW s \in Semaphores, P(t, s)
      PROVE  Covered(r)'
  <2>1. waitOn[t] \in {None, s}
    BY <1>5 DEF P
  <2>2. CASE PBlock(t, s) /\ s = r
    <3>1. Awake(r)' \subseteq Threads
      BY DEF Awake
    <3>2. Cardinality(Awake(r)') \in Nat
      BY <3>1, ThreadsAssumption, FS_Subset, FS_CardinalityType
    <3>3. count'[r] = 0
      BY <1>1, <2>2 DEF PBlock
    <3> QED BY <3>2, <3>3 DEF Covered
  <2>3. CASE PTake(t, s) /\ s = r
    <3>1. /\ count'[r] = count[r] - 1
          /\ wait_queue'[r] = wait_queue[r]
          /\ \A u \in Threads : u # t => (waitOn'[u] = r <=> waitOn[u] = r)
          /\ waitOn'[t] # r
      BY <1>1, <1>3, <2>3 DEF PTake
    <3> QED BY <1>3, <3>1, TakeCovered
  <2>4. CASE s # r
    <3>1. Untouched
      BY <1>1, <1>3, <1>5, <2>1, <2>4 DEF P, PBlock, PTake
    <3> QED BY <1>4, <3>1
  <2> QED BY <1>5, <2>2, <2>3, <2>4 DEF P
<1>6. ASSUME NEW s \in Semaphores, V(s)
      PROVE  Covered(r)'
  <2>1. CASE s # r
    <3>1. Untouched
      BY <1>1, <1>3, <1>6, <2>1 DEF V, WakeFirst, Objects
    <3> QED BY <1>4, <3>1
  <2>2. CASE s = r /\ wait_queue[r] = <<>>
    BY <1>6, <2>2 DEF V, Covered
  <2>3. CASE s = r /\ wait_queue[r] # <<>>
    <3>1. Wake(r) /\ count'[r] = count[r] + 1
      BY <1>1, <1>6, <2>3 DEF V, Wake
    <3> QED BY <1>1, <1>3, <3>1, WakeCovered
  <2> QED BY <2>1, <2>2, <2>3
<1>7. ASSUME NEW t \in Threads, NEW l \in Locks, Acquire(t, l)
      PROVE  Untouched
  <2>1. waitOn[t] \in {None, l} /\ UNCHANGED count
    BY <1>7 DEF Acquire
  <2>2. CASE AcquireBlock(t, l)
    BY <1>1, <1>3, <2>1, <2>2 DEF AcquireBlock
  <2>3. CASE AcquireTake(t, l)
    BY <1>1, <1>3, <2>1, <2>3 DEF AcquireTake
  <2> QED BY <1>7, <2>2, <2>3 DEF Acquire
<1>8. ASSUME NEW t \in Threads, NEW l \in Locks, Release(t, l)
      PROVE  Untouched
  BY <1>1, <1>3, <1>8 DEF Release, ReleaseHeld, WakeFirst, Objects
<1>9. ASSUME \/ \E t \in Threads : Yield(t)
             \/ Dispatch
             \/ \E deleted : Halt(deleted)
             \/ UNCHANGED <<waitOn, objectVars>>
       PROVE  Untouched
  BY <1>9 DEF Yield, Dispatch, Halt, objectVars
<1> HIDE DEF Untouched
<1> QED BY <1>4, <1>5, <1>6, <1>7, <1>8, <1>9 DEF KernelStep, synchVars

---------------------------------------------------------------------------
(* The invariant of the kernel *)

KernelInv ==
  /\ SynchTypeOK
  /\ OnePlace
  /\ NoLostWakeup
  /\ BusyWhileQueued
  /\ LockQueues

\* The kernel starts in its invariant (system.cc creates the objects before
\* the threads run).
LEMMA KernelInit == SynchInit => KernelInv
<1> SUFFICES ASSUME SynchInit PROVE KernelInv
  OBVIOUS
<1> USE ThreadsAssumption, ObjectsAssumption, InitialCountAssumption
<1>1. /\ g_current_thread \in Threads
      /\ readyList \in [1..(Cardinality(Threads) - 1) -> Threads \ {g_current_thread}]
      /\ NoDup(readyList)
      /\ Elems(readyList) = Threads \ {g_current_thread}
      /\ idle = FALSE
      /\ waitOn = [t \in Threads |-> None]
      /\ count = InitialCount
      /\ wait_queue = [o \in Objects |-> <<>>]
      /\ is_free = [l \in Locks |-> TRUE]
      /\ owner = [l \in Locks |-> None]
      /\ machine = "on"
  BY DEF SynchInit, NewSemaphores, NewLocks
<1>2. readyList \in Seq(Threads)
  <2>1. Cardinality(Threads) \in Nat /\ Cardinality(Threads) # 0
    BY <1>1, FS_CardinalityType, FS_EmptySet
  <2>2. Cardinality(Threads) - 1 \in Nat
    BY <2>1
  <2>3. readyList \in [1..(Cardinality(Threads) - 1) -> Threads]
    BY <1>1
  <2> QED BY <2>2, <2>3
<1>3. SynchTypeOK
  <2>1. /\ waitOn \in [Threads -> Objects \cup {None}]
        /\ wait_queue \in [Objects -> Seq(Threads)]
        /\ count \in [Semaphores -> Nat]
    BY <1>1
  <2>2. /\ is_free \in [Locks -> BOOLEAN]
        /\ owner \in [Locks -> Threads \cup {None}]
    BY <1>1
  <2> QED BY <1>1, <1>2, <2>1, <2>2 DEF SynchTypeOK
<1>4. \A o \in Objects : wait_queue[o] = <<>> /\ Elems(wait_queue[o]) = {}
  BY <1>1 DEF Elems
<1>5. OnePlace
  BY <1>1, <1>4 DEF OnePlace, NoDup, Parked
<1>6. NoLostWakeup /\ BusyWhileQueued
  BY <1>4 DEF NoLostWakeup, BusyWhileQueued, Objects
<1>7. LockQueues
  BY <1>1, <1>4 DEF LockQueues, Objects
<1> QED BY <1>3, <1>5, <1>6, <1>7 DEF KernelInv

\* Every operation preserves it, whoever calls it and whenever.
LEMMA KernelInvariant ==
  ASSUME KernelInv, KernelStep
  PROVE  KernelInv'
<1>1. /\ SynchTypeOK
      /\ OnePlace
      /\ NoLostWakeup
      /\ BusyWhileQueued
      /\ LockQueues
  BY DEF KernelInv
<1> QED BY <1>1, KernelType, KernelOnePlace, KernelWakeups, KernelLocks DEF KernelInv

\* When nothing runs and nothing is ready, every thread waits for a unit that
\* is not there or for a busy lock.
LEMMA AllBlocked ==
  ASSUME KernelInv, idle, readyList = <<>>, NEW t \in Threads
  PROVE  \/ waitOn[t] \in Semaphores /\ count[waitOn[t]] = 0
         \/ waitOn[t] \in Locks /\ ~is_free[waitOn[t]]
<1>1. /\ PlacesType
      /\ OnePlace
      /\ count \in [Semaphores -> Nat]
  BY DEF KernelInv, SynchTypeOK, PlacesType
<1>2. /\ waitOn[t] \in Objects /\ t \in Elems(wait_queue[waitOn[t]])
      /\ \A o \in Objects : Awake(o) = {}
  BY <1>1, AllQueued
<1>3. wait_queue[waitOn[t]] # <<>>
  BY <1>1, <1>2, ElemsEmpty DEF PlacesType
<1>4. ASSUME NEW s \in Semaphores, wait_queue[s] # <<>>
      PROVE  count[s] = 0
  <2>1. count[s] <= Cardinality(Awake(s)) /\ count[s] \in Nat
    BY <1>1, <1>4 DEF KernelInv, NoLostWakeup
  <2>2. Cardinality(Awake(s)) = 0
    BY <1>2, FS_EmptySet DEF Objects
  <2> QED BY <2>1, <2>2
<1>5. waitOn[t] \in Locks => ~is_free[waitOn[t]]
  BY <1>3 DEF KernelInv, BusyWhileQueued
<1> QED BY <1>2, <1>3, <1>4, <1>5 DEF Objects

---------------------------------------------------------------------------
(* What the operations do to the objects, for the drivers' proofs *)

\* Semaphore::P sleeps when it finds no unit and takes one when it does.
LEMMA PEffect ==
  ASSUME NEW t, NEW s, P(t, s)
  PROVE  /\ count[s] = 0 => /\ waitOn' = [waitOn EXCEPT ![t] = s]
                            /\ UNCHANGED count
         /\ count[s] # 0 => /\ waitOn' = [waitOn EXCEPT ![t] = None]
                            /\ count' = [count EXCEPT ![s] = @ - 1]
         /\ UNCHANGED <<is_free, owner>>
         /\ machine' \in {"on", "exit"}
BY DEF P, PBlock, PTake, Running, Sleep, SwitchTo, ReturnOrExit

\* Semaphore::V adds a unit.
LEMMA VEffect ==
  ASSUME NEW s, V(s)
  PROVE  /\ count' = [count EXCEPT ![s] = @ + 1]
         /\ UNCHANGED <<waitOn, is_free, owner>>
         /\ machine' \in {machine, "exit"}
BY DEF V, ReturnOrExit

\* Lock::Acquire sleeps when the lock is busy and takes it when it is free.
LEMMA AcquireEffect ==
  ASSUME NEW t, NEW l, Acquire(t, l)
  PROVE  /\ ~is_free[l] => /\ waitOn' = [waitOn EXCEPT ![t] = l]
                           /\ UNCHANGED owner
         /\ is_free[l] => /\ waitOn' = [waitOn EXCEPT ![t] = None]
                          /\ owner' = [owner EXCEPT ![l] = t]
         /\ UNCHANGED count
         /\ machine' \in {"on", "exit"}
BY DEF Acquire, AcquireBlock, AcquireTake, Running, Sleep, SwitchTo, ReturnOrExit

\* Lock::Release by the owner changes no other lock, and its ASSERT holds.
LEMMA ReleaseEffect ==
  ASSUME SynchTypeOK, NEW t \in Threads, NEW l \in Locks, Release(t, l)
  PROVE  /\ waitOn[t] = None
         /\ UNCHANGED <<waitOn, count>>
         /\ \A k \in Locks : k # l => owner'[k] = owner[k]
         /\ owner[l] = t => machine' \in {"on", "exit"}
BY DEF Release, ReleaseHeld, AtCall, Running, ReturnOrExit, SynchTypeOK

=============================================================================
