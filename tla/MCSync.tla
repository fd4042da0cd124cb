------------------------------- MODULE MCSync -------------------------------
(***************************************************************************)
(* The synchronization primitives of win/thread.c for TLC.  They share no  *)
(* state, so one run explores them one at a time: primitive says which one *)
(* the threads of this behaviour use, the others stay as they were made.   *)
(* The condition variable comes with one waker that broadcasts and several *)
(* waiters, and with one that signals and a single waiter.                 *)
(* At the end, the proofs about RwLock and Once, and that these and what   *)
(* Barrier proves of itself hold in the composition.                       *)
(***************************************************************************)
EXTENDS RwLock, FiniteSetTheorems, TLAPS

CONSTANTS
  MaxRounds, MaxOnce,   \* bounds of Barrier and Once
  Waker,                \* the thread that wakes the waiters, all in Threads
  OneWaiter,            \* the waiter that is signalled
  MaxSignals            \* bound: signals it is sent

VARIABLES
  primitive,
  b_mutex, count, turnstile1, turnstile2, b_pc, serial_thread, entered, left, destroyed,
  c_mutex, waiters_count, signal_event, broadcast_event, c_pc, result, gen, seen,
  s_mutex, s_count, s_signal, s_broadcast, s_pc, s_result, s_gen, s_seen,
  ran, event, signaled, o_pc, runs, finished, calls

barrierVars == <<b_mutex, count, turnstile1, turnstile2, b_pc, serial_thread, entered,
                 left, destroyed>>
broadcastVars == <<c_mutex, waiters_count, signal_event, broadcast_event, c_pc, result,
                   gen, seen>>
signalVars == <<s_mutex, s_count, s_signal, s_broadcast, s_pc, s_result, s_gen, s_seen>>
onceVars == <<ran, event, signaled, o_pc, runs, finished, calls>>
syncVars == <<primitive, vars, barrierVars, broadcastVars, signalVars, onceVars>>

B == INSTANCE Barrier WITH mutex <- b_mutex, pc <- b_pc, Destroyer <- "joined"
C == INSTANCE CondVar WITH mutex <- c_mutex, pc <- c_pc, Waiters <- Threads,
                           Wakes <- "broadcast", MaxGen <- 1
S == INSTANCE CondVar WITH mutex <- s_mutex, waiters_count <- s_count,
                           signal_event <- s_signal, broadcast_event <- s_broadcast,
                           pc <- s_pc, result <- s_result, gen <- s_gen, seen <- s_seen,
                           Waiters <- {OneWaiter}, Wakes <- "signal", MaxGen <- MaxSignals
O == INSTANCE Once WITH pc <- o_pc, MaxCalls <- MaxOnce

ASSUME SyncAssumption ==
  B!BarrierAssumption /\ C!CondAssumption /\ S!CondAssumption /\ O!OnceAssumption

SyncInit ==
  /\ primitive \in {"rwlock", "barrier", "broadcast", "signal", "once"}
  /\ Init /\ B!Init /\ C!Init /\ S!Init /\ O!Init

\* The threads have made all the calls their bounds allow.
Finished ==
  \/ primitive = "barrier" /\ destroyed
  \/ primitive = "broadcast" /\ gen = 1 /\ \A t \in C!Actors : c_pc[t] = "out"
  \/ primitive = "signal" /\ s_gen = MaxSignals /\ \A t \in S!Actors : s_pc[t] = "out"
  \/ primitive = "once" /\ \A t \in Threads : calls[t] = MaxOnce /\ o_pc[t] = "out"

\* A step of one primitive leaves the others alone.
Only(p, others) == primitive = p /\ UNCHANGED <<primitive, others>>

OnRwLock == Only("rwlock", <<barrierVars, broadcastVars, signalVars, onceVars>>)
OnBarrier == Only("barrier", <<vars, broadcastVars, signalVars, onceVars>>)
OnBroadcast == Only("broadcast", <<vars, barrierVars, signalVars, onceVars>>)
OnSignal == Only("signal", <<vars, barrierVars, broadcastVars, onceVars>>)
OnOnce == Only("once", <<vars, barrierVars, broadcastVars, signalVars>>)

SyncNext ==
  \/ OnRwLock /\ Next
  \/ OnBarrier /\ B!Next
  \/ OnBroadcast /\ C!Next
  \/ OnSignal /\ S!Next
  \/ OnOnce /\ O!Next
  \/ Finished /\ UNCHANGED syncVars

\* The fairness of the modules, for the primitive that is used.
SyncSpec ==
  /\ SyncInit /\ [][SyncNext]_syncVars
  /\ \A t \in Threads : /\ SF_syncVars(OnBarrier /\ B!uv_barrier_wait(t))
                        /\ SF_syncVars(OnBroadcast /\ C!WaiterStep(t))
                        /\ WF_syncVars(OnOnce /\ O!Inside(t))
  /\ SF_syncVars(OnBroadcast /\ C!WakerStep)
  /\ SF_syncVars(OnSignal /\ S!WakerStep)
  /\ SF_syncVars(OnSignal /\ S!WaiterStep(OneWaiter))

-----------------------------------------------------------------------------
(* The properties of the modules, under the names they have there.         *)

\* Nobody leaves a round of uv_barrier_wait before everybody has entered it
\* (thread.c:640-664).
Together == B!Together

\* uv_once runs the callback once and returns after it (threading.rst:81).
OnceAndBefore == O!OnceAndBefore

\* Nobody waits for ever: not at the barrier when all the others come
\* (thread.c:640-664), not for a broadcast, which reaches all sleeping waiters,
\* nor for a signal to a single one (thread.c:441-559), nor in uv_once
\* (thread.c:49-88).
AllGoOn ==
  /\ B!EveryoneLeaves
  /\ C!NoLostWakeup /\ S!NoLostWakeup
  /\ O!AllReturn
-----------------------------------------------------------------------------
(* uv_rwlock_t is correct for any finite number of threads.                *)

\* The threads that the reader count counts are finitely many.
LEMMA CountedFinite ==
  /\ IsFiniteSet(Counted)
  /\ Cardinality(Counted) \in Nat
  /\ Cardinality(Counted) = 0 <=> Counted = {}
  BY ThreadsAssumption, FS_Subset, FS_CardinalityType, FS_EmptySet DEF Counted

\* A thread that starts to count makes the count one more.
LEMMA CountOneMore ==
  ASSUME NEW A, IsFiniteSet(A), NEW t, t \notin A
  PROVE  Cardinality(A \cup {t}) = Cardinality(A) + 1
  BY FS_AddElement

\* A thread that stops to count makes the count one less.
LEMMA CountOneLess ==
  ASSUME NEW A, IsFiniteSet(A), NEW t \in A
  PROVE  Cardinality(A \ {t}) = Cardinality(A) - 1
  BY FS_RemoveElement

\* Nobody holds the lock at first.
LEMMA InitIInv == Init => IInv
<1> SUFFICES ASSUME Init PROVE IInv
  OBVIOUS
<1>1. Readers = {} /\ Writers = {} /\ Counted = {}
  BY DEF Init, Readers, Writers, Counted
<1> QED
  BY <1>1, FS_EmptySet
  DEF Init, IInv, TypeOK, Pcs, Exclusive, SemaphoreHeld, FirstLocks

\* Every step of every thread keeps the strengthened invariant.
LEMMA NextIInv == IInv /\ [Next]_vars => IInv'
<1> SUFFICES ASSUME IInv, [Next]_vars PROVE IInv'
  OBVIOUS
<1> USE DEF IInv
<1>0. IsFiniteSet(Counted) /\ Cardinality(Counted) \in Nat
      /\ (Cardinality(Counted) = 0 <=> Counted = {})
  BY CountedFinite
<1>1. ASSUME NEW t \in Threads, Request(t) PROVE IInv'
  <2>1. Readers' = Readers /\ Writers' = Writers /\ Counted' = Counted
    BY <1>1 DEF Request, Goto, TypeOK, Readers, Writers, Counted
  <2>2. TypeOK'
    BY <1>1 DEF Request, Goto, TypeOK, Pcs
  <2>3. FirstLocks'
    BY <1>1, <2>1 DEF Request, Goto, TypeOK, FirstLocks
  <2> QED
    BY <1>1, <2>1, <2>2, <2>3 DEF Request, Exclusive, SemaphoreHeld
<1>2. ASSUME NEW t \in Threads, uv_rwlock_rdlock(t) PROVE IInv'
  <2>1. Writers' = Writers /\ t \notin Counted /\ Counted' = Counted \cup {t}
    BY <1>2 DEF uv_rwlock_rdlock, Goto, TypeOK, Writers, Counted
  <2>2. Cardinality(Counted') = Cardinality(Counted) + 1
    BY <1>0, <2>1, CountOneMore
  <2>3. TypeOK'
    BY <1>2 DEF uv_rwlock_rdlock, Goto, TypeOK, Pcs
  <2>4. CASE num_readers + 1 = 1
    <3>1. Readers' = Readers
      BY <1>2, <2>4 DEF uv_rwlock_rdlock, IsFirst, Goto, TypeOK, Readers
    <3>2. Readers = {}
      BY <1>0, <2>4 DEF TypeOK, SemaphoreHeld, Readers, Counted
    <3>3. FirstLocks'
      BY <1>2, <2>4, <3>1, <3>2
      DEF uv_rwlock_rdlock, IsFirst, Goto, TypeOK, FirstLocks
    <3> QED
      BY <1>2, <2>1, <2>2, <2>3, <3>1, <3>3
      DEF uv_rwlock_rdlock, Exclusive, SemaphoreHeld
  <2>5. CASE num_readers + 1 # 1
    <3>1. Readers' = Readers \cup {t}
      BY <1>2, <2>5 DEF uv_rwlock_rdlock, IsFirst, Goto, TypeOK, Readers
    <3>2. Readers # {}
      <4>1. num_readers # 0
        BY <2>5 DEF TypeOK
      <4>2. PICK u \in Counted : TRUE
        BY <4>1, <1>0 DEF SemaphoreHeld
      <4>3. pc[u] # "first_reader"
        BY <1>2, <4>2 DEF uv_rwlock_rdlock, FirstLocks, Counted
      <4> QED
        BY <4>2, <4>3 DEF Counted, Readers
    <3>3. FirstLocks'
      BY <1>2, <2>5 DEF uv_rwlock_rdlock, IsFirst, Goto, TypeOK, FirstLocks
    <3> QED
      BY <1>2, <2>1, <2>2, <2>3, <3>1, <3>2, <3>3
      DEF uv_rwlock_rdlock, Exclusive, SemaphoreHeld
  <2> QED
    BY <2>4, <2>5
<1>3. ASSUME NEW t \in Threads, FirstReaderEnters(t) PROVE IInv'
  <2>1. Writers' = Writers /\ Counted' = Counted /\ Readers' = Readers \cup {t}
    BY <1>3 DEF FirstReaderEnters, Goto, TypeOK, Writers, Counted, Readers
  <2>2. TypeOK' /\ write_semaphore = 1 /\ write_semaphore' = 0
    BY <1>3 DEF FirstReaderEnters, Goto, TypeOK, Pcs
  <2>3. Writers = {}
    BY <2>2 DEF SemaphoreHeld
  <2>4. FirstLocks'
    BY <1>3 DEF FirstReaderEnters, Goto, TypeOK, FirstLocks
  <2> QED
    BY <1>3, <2>1, <2>2, <2>3, <2>4 DEF FirstReaderEnters, Exclusive, SemaphoreHeld
<1>4. ASSUME NEW t \in Threads, uv_rwlock_tryrdlock(t) PROVE IInv'
  <2>1. /\ Writers' = Writers /\ Readers' = Readers \cup {t}
        /\ t \notin Counted /\ Counted' = Counted \cup {t}
    BY <1>4 DEF uv_rwlock_tryrdlock, Goto, TypeOK, Writers, Counted, Readers
  <2>2. Cardinality(Counted') = Cardinality(Counted) + 1
    BY <1>0, <2>1, CountOneMore
  <2>3. TypeOK'
    BY <1>4 DEF uv_rwlock_tryrdlock, Goto, TypeOK, Pcs
  <2>4. FirstLocks'
    BY <1>4 DEF uv_rwlock_tryrdlock, Goto, TypeOK, FirstLocks
  <2>5. num_readers' = Cardinality(Counted')
    BY <1>4, <2>2 DEF uv_rwlock_tryrdlock, SemaphoreHeld
  <2>6. Writers = {} /\ write_semaphore' = 0
    <3>1. CASE num_readers = 0
      BY <1>4, <3>1 DEF uv_rwlock_tryrdlock, TypeOK, SemaphoreHeld
    <3>2. CASE num_readers # 0
      <4>1. PICK u \in Counted : TRUE
        BY <3>2, <1>0 DEF SemaphoreHeld
      <4>2. u \in Readers
        BY <1>4, <4>1 DEF uv_rwlock_tryrdlock, FirstLocks, Counted, Readers
      <4> QED
        BY <1>4, <3>2, <4>2 DEF uv_rwlock_tryrdlock, SemaphoreHeld, Exclusive
    <3> QED
      BY <3>1, <3>2
  <2> QED
    BY <2>1, <2>3, <2>4, <2>5, <2>6 DEF Exclusive, SemaphoreHeld
<1>5. ASSUME NEW t \in Threads, uv_rwlock_rdunlock(t) PROVE IInv'
  <2>1. /\ Writers' = Writers /\ Readers' = Readers \ {t} /\ t \in Readers
        /\ t \in Counted /\ Counted' = Counted \ {t}
    BY <1>5 DEF uv_rwlock_rdunlock, Goto, TypeOK, Writers, Counted, Readers
  <2>2. Cardinality(Counted') = Cardinality(Counted) - 1
    BY <1>0, <2>1, CountOneLess
  <2>3. num_readers' = Cardinality(Counted') /\ num_readers # 0
    BY <1>5, <1>0, <2>1, <2>2 DEF uv_rwlock_rdunlock, SemaphoreHeld
  <2>4. Counted = Readers
    BY <1>5 DEF uv_rwlock_rdunlock, FirstLocks, Counted, Readers
  <2>5. Writers = {} /\ write_semaphore = 0
    BY <2>1 DEF Exclusive, SemaphoreHeld
  <2>6. num_readers' = 0 <=> Readers' = {}
    <3>1. IsFiniteSet(Counted')
      BY <1>0, <2>1, FS_RemoveElement
    <3> QED
      BY <3>1, <2>1, <2>3, <2>4, FS_EmptySet
  <2>7. write_semaphore' = IF Readers' = {} THEN 1 ELSE 0
    BY <1>5, <2>5, <2>6 DEF uv_rwlock_rdunlock, IsLast
  <2>8. TypeOK'
    BY <1>5, <2>3, <2>7 DEF uv_rwlock_rdunlock, Goto, TypeOK, Pcs
  <2>9. FirstLocks'
    BY <1>5 DEF uv_rwlock_rdunlock, Goto, TypeOK, FirstLocks
  <2> QED
    BY <2>1, <2>3, <2>5, <2>7, <2>8, <2>9 DEF Exclusive, SemaphoreHeld
<1>6. ASSUME NEW t \in Threads, uv_rwlock_wrlock(t) PROVE IInv'
  <2>1. Writers' = Writers \cup {t} /\ Readers' = Readers /\ Counted' = Counted
    BY <1>6 DEF uv_rwlock_wrlock, Goto, TypeOK, Writers, Counted, Readers
  <2>2. TypeOK' /\ write_semaphore = 1 /\ write_semaphore' = 0
    BY <1>6 DEF uv_rwlock_wrlock, Goto, TypeOK, Pcs
  <2>3. Writers = {} /\ Readers = {}
    BY <2>2 DEF SemaphoreHeld
  <2>4. FirstLocks'
    BY <1>6, <2>1 DEF uv_rwlock_wrlock, Goto, TypeOK, FirstLocks
  <2> QED
    BY <1>6, <2>1, <2>2, <2>3, <2>4 DEF uv_rwlock_wrlock, Exclusive, SemaphoreHeld
<1>7. ASSUME NEW t \in Threads, uv_rwlock_wrunlock(t) PROVE IInv'
  <2>1. /\ Writers' = Writers \ {t} /\ t \in Writers
        /\ Readers' = Readers /\ Counted' = Counted
    BY <1>7 DEF uv_rwlock_wrunlock, Goto, TypeOK, Writers, Counted, Readers
  <2>2. Writers' = {} /\ Readers = {} /\ write_semaphore = 0
    BY <2>1 DEF Exclusive, SemaphoreHeld
  <2>3. TypeOK'
    BY <1>7, <2>2 DEF uv_rwlock_wrunlock, Goto, TypeOK, Pcs
  <2>4. FirstLocks'
    BY <1>7, <2>1 DEF uv_rwlock_wrunlock, Goto, TypeOK, FirstLocks
  <2> QED
    BY <1>7, <2>1, <2>2, <2>3, <2>4 DEF uv_rwlock_wrunlock, Exclusive, SemaphoreHeld
<1>8. CASE UNCHANGED vars
  BY <1>8
  DEF vars, TypeOK, Exclusive, SemaphoreHeld, FirstLocks, Readers, Writers, Counted
<1> QED
  BY <1>1, <1>2, <1>3, <1>4, <1>5, <1>6, <1>7, <1>8 DEF Next

\* The strengthened invariant holds in every reachable state.
LEMMA Inductive == Spec => []IInv
  BY InitIInv, NextIInv, PTL DEF Spec

\* uv_rwlock_t keeps writers alone, with any number of threads that lock, try
\* and unlock in any order.
THEOREM WritersAlone == Spec => []Exclusive
<1>1. IInv => Exclusive
  BY DEF IInv
<1> QED
  BY <1>1, Inductive, PTL

\* The semaphore is released when nobody holds the lock, and only then: no
\* unlock is forgotten and none raises the semaphore above its maximum.
THEOREM SemaphoreExact == Spec => [](TypeOK /\ SemaphoreHeld)
<1>1. IInv => TypeOK /\ SemaphoreHeld
  BY DEF IInv
<1> QED
  BY <1>1, Inductive, PTL

-----------------------------------------------------------------------------
(* uv_once is correct for any set of threads and any number of calls.      *)

\* No thread has called uv_once yet.
LEMMA OnceInit == O!Init => O!IInv
BY DEF O!Init, O!IInv

\* Every step of every thread keeps the invariant.
LEMMA OnceNext == O!IInv /\ [O!Next]_(O!vars) => O!IInv'
<1> SUFFICES ASSUME O!IInv, [O!Next]_(O!vars) PROVE O!IInv'
  OBVIOUS
<1> USE DEF O!IInv, O!Goto
<1>1. ASSUME NEW t \in Threads, O!uv_once(t) PROVE O!IInv'
  BY <1>1 DEF O!uv_once
<1>2. ASSUME NEW t \in Threads, O!uv__once_inner(t) PROVE O!IInv'
  <2>1. CASE O!WonRace(t)
    BY <1>2, <2>1 DEF O!uv__once_inner, O!WonRace, O!RanBeforeCallback
  <2>2. CASE ~O!WonRace(t)
    BY <1>2, <2>2 DEF O!uv__once_inner
  <2> QED
    BY <2>1, <2>2
<1>3. ASSUME NEW t \in Threads, O!Callback(t) PROVE O!IInv'
  BY <1>3 DEF O!Callback
<1>4. ASSUME NEW t \in Threads, O!SetOnceEvent(t) PROVE O!IInv'
  BY <1>4 DEF O!SetOnceEvent, O!StaysSet
<1>5. ASSUME NEW t \in Threads, O!SetRan(t) PROVE O!IInv'
  BY <1>5 DEF O!SetRan
<1>6. ASSUME NEW t \in Threads, O!LostRace(t) PROVE O!IInv'
  BY <1>6 DEF O!LostRace
<1>7. ASSUME NEW t \in Threads, O!Return(t) PROVE O!IInv'
  BY <1>7 DEF O!Return
<1>8. CASE UNCHANGED O!vars
  BY <1>8 DEF O!vars
<1> QED
  BY <1>1, <1>2, <1>3, <1>4, <1>5, <1>6, <1>7, <1>8 DEF O!Next, O!Inside

\* uv_once calls back once, however many threads race for it and however often
\* they call, and no call returns before the callback has (thread.c:49-88).
THEOREM RunsOnceBefore == O!Spec => []OnceAndBefore
<1>1. O!IInv => OnceAndBefore
  BY DEF O!IInv, OnceAndBefore, O!OnceAndBefore
<1> QED
  BY <1>1, OnceInit, OnceNext, PTL DEF O!Spec

-----------------------------------------------------------------------------
(* What is proved of the primitives holds in the composition.              *)

\* Writers are alone and the semaphore is exact (thread.c:224-331).
THEOREM LockStaysExclusive == SyncSpec => [](Exclusive /\ SemaphoreHeld)
<1>1. SyncInit => IInv
  BY InitIInv DEF SyncInit
<1>2. IInv /\ [SyncNext]_syncVars => IInv'
  <2> SUFFICES ASSUME IInv, [SyncNext]_syncVars PROVE [Next]_vars
    BY NextIInv
  <2> QED
    BY DEF SyncNext, OnRwLock, OnBarrier, OnBroadcast, OnSignal, OnOnce, Only, syncVars
<1>3. IInv => Exclusive /\ SemaphoreHeld
  BY DEF IInv
<1> QED
  BY <1>1, <1>2, <1>3, PTL DEF SyncSpec

\* Rounds of the barrier do not mix (thread.c:640-664).
THEOREM RoundsStayApart == SyncSpec => []Together
<1>1. SyncInit => B!IInv
  BY SyncAssumption, B!InitIInv DEF SyncInit
<1>2. B!IInv /\ [SyncNext]_syncVars => B!IInv'
  <2> SUFFICES ASSUME B!IInv, [SyncNext]_syncVars PROVE B!IInv'
    OBVIOUS
  <2>1. CASE OnBarrier /\ B!Next
    BY <2>1, SyncAssumption, B!NextIInv
  <2>2. CASE UNCHANGED barrierVars
    BY <2>2, SyncAssumption, B!NextIInv DEF barrierVars, B!vars, B!semVars
  <2> QED
    BY <2>1, <2>2 DEF SyncNext, OnRwLock, OnBroadcast, OnSignal, OnOnce, Only, syncVars
<1>3. B!IInv => Together
  BY SyncAssumption, B!InvTogether DEF Together
<1> QED
  BY <1>1, <1>2, <1>3, PTL DEF SyncSpec

\* uv_once runs its callback once and returns after it (thread.c:49-88).
THEOREM InitializedOnce == SyncSpec => []OnceAndBefore
<1>1. SyncInit => O!IInv
  BY OnceInit DEF SyncInit
<1>2. O!IInv /\ [SyncNext]_syncVars => O!IInv'
  <2> SUFFICES ASSUME O!IInv, [SyncNext]_syncVars PROVE O!IInv'
    OBVIOUS
  <2>1. CASE OnOnce /\ O!Next
    BY <2>1, OnceNext
  <2>2. CASE UNCHANGED onceVars
    BY <2>2, OnceNext DEF onceVars, O!vars
  <2> QED
    BY <2>1, <2>2 DEF SyncNext, OnRwLock, OnBroadcast, OnSignal, OnBarrier, Only, syncVars
<1>3. O!IInv => OnceAndBefore
  BY DEF OnceAndBefore, O!OnceAndBefore, O!IInv
<1> QED
  BY <1>1, <1>2, <1>3, PTL DEF SyncSpec
=============================================================================
