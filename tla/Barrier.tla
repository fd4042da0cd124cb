------------------------------- MODULE Barrier ------------------------------
(***************************************************************************)
(* uv_barrier_t of win/thread.c: a mutex, a count and two semaphores, the  *)
(* turnstiles.  Every thread of Threads waits at the barrier, round after  *)
(* round.  Steps that another thread can observe apart are steps apart.    *)
(***************************************************************************)
EXTENDS Integers, FiniteSets, FiniteSetTheorems, TLAPS

CONSTANTS
  Threads,     \* as many as the barrier's n
  MaxRounds,   \* bound: times each thread waits
  Destroyer    \* who destroys it: the serial thread as it returns, or whoever
               \* knows that all threads are done

\* What the constants have to satisfy; MCSync assumes it.
BarrierAssumption ==
  /\ IsFiniteSet(Threads) /\ Threads # {}
  /\ MaxRounds \in Nat
  /\ Destroyer \in {"serial", "joined"}

n == Cardinality(Threads)

VARIABLES
  mutex,         \* the threads in the mutex: at most one
  count,
  turnstile1, turnstile2,
  pc,
  serial_thread, \* serial_thread[t]: what t's last uv_barrier_wait returned
  entered, left, \* history: how often a thread entered and left
  destroyed

semVars == <<turnstile1, turnstile2>>
vars == <<mutex, count, semVars, pc, serial_thread, entered, left, destroyed>>

Pcs == {"out", "shut2", "wait1", "post1", "again", "shut1", "wait2", "post2"}

Init ==
  /\ mutex = {} /\ count = 0
  /\ turnstile1 = 0 /\ turnstile2 = 1
  /\ pc = [t \in Threads |-> "out"]
  /\ serial_thread = [t \in Threads |-> FALSE]
  /\ entered = [t \in Threads |-> 0] /\ left = [t \in Threads |-> 0]
  /\ destroyed = FALSE

Goto(t, from, to) == pc[t] = from /\ pc' = [pc EXCEPT ![t] = to]

\* The last to arrive keeps the mutex until it has opened the first turnstile.
Arrive(t) ==
  /\ mutex = {} /\ entered[t] < MaxRounds
  /\ count' = count + 1
  /\ IF count + 1 = n THEN Goto(t, "out", "shut2") /\ mutex' = {t}
     ELSE Goto(t, "out", "wait1") /\ UNCHANGED mutex
  /\ entered' = [entered EXCEPT ![t] = @ + 1]
  /\ UNCHANGED <<semVars, serial_thread, left, destroyed>>

ShutSecond(t) ==
  /\ turnstile2 > 0
  /\ Goto(t, "shut2", "wait1")
  /\ turnstile2' = turnstile2 - 1 /\ turnstile1' = turnstile1 + 1
  /\ mutex' = {}
  /\ UNCHANGED <<count, serial_thread, entered, left, destroyed>>

Wait1(t) ==
  /\ turnstile1 > 0
  /\ Goto(t, "wait1", "post1")
  /\ turnstile1' = turnstile1 - 1
  /\ UNCHANGED <<mutex, count, turnstile2, serial_thread, entered, left, destroyed>>

Post1(t) ==
  /\ Goto(t, "post1", "again")
  /\ turnstile1' = turnstile1 + 1
  /\ UNCHANGED <<mutex, count, turnstile2, serial_thread, entered, left, destroyed>>

LastTwoLeave(c) == c <= 1

\* The serial thread is the last to pass the first turnstile.
LastLeaves(c) == c = 0

Depart(t) ==
  /\ mutex = {}
  /\ count' = count - 1
  /\ serial_thread' = [serial_thread EXCEPT ![t] = LastLeaves(count - 1)]
  /\ IF LastLeaves(count - 1) THEN Goto(t, "again", "shut1") /\ mutex' = {t}
     ELSE Goto(t, "again", "wait2") /\ UNCHANGED mutex
  /\ UNCHANGED <<semVars, entered, left, destroyed>>

LeaveFirstOpen(t) ==
  /\ Goto(t, "shut1", "wait2")
  /\ turnstile2' = turnstile2 + 1
  /\ mutex' = {}
  /\ UNCHANGED <<count, turnstile1, serial_thread, entered, left, destroyed>>

ShutFirst(t) ==
  /\ turnstile1 > 0
  /\ Goto(t, "shut1", "wait2")
  /\ turnstile1' = turnstile1 - 1 /\ turnstile2' = turnstile2 + 1
  /\ mutex' = {}
  /\ UNCHANGED <<count, serial_thread, entered, left, destroyed>>

Wait2(t) ==
  /\ turnstile2 > 0
  /\ Goto(t, "wait2", "post2")
  /\ turnstile2' = turnstile2 - 1
  /\ UNCHANGED <<mutex, count, turnstile1, serial_thread, entered, left, destroyed>>

Post2(t) ==
  /\ Goto(t, "post2", "out")
  /\ turnstile2' = turnstile2 + 1
  /\ left' = [left EXCEPT ![t] = @ + 1]
  /\ UNCHANGED <<mutex, count, turnstile1, serial_thread, entered, destroyed>>

\* After the last round, if (uv_barrier_wait(&barrier) > 0)
\* uv_barrier_destroy(&barrier), or the same after joining the others.
uv_barrier_destroy(t) ==
  /\ ~destroyed
  /\ left[t] = MaxRounds /\ serial_thread[t]
  /\ Destroyer = "joined" => \A u \in Threads : left[u] = MaxRounds
  /\ destroyed' = TRUE
  /\ UNCHANGED <<mutex, count, semVars, pc, serial_thread, entered, left>>

uv_barrier_wait(t) ==
  \/ Arrive(t) \/ ShutSecond(t) \/ Wait1(t) \/ Post1(t)
  \/ Depart(t) \/ ShutFirst(t) \/ Wait2(t) \/ Post2(t)

Next == \E t \in Threads : uv_barrier_wait(t) \/ uv_barrier_destroy(t)

Spec == Init /\ [][Next]_vars

\* Threads run.  A thread that waits for the mutex or for a semaphore others
\* pass again and again gets it at last, as Windows wakes waiters in order.
FairSpec == Spec /\ \A t \in Threads : SF_vars(uv_barrier_wait(t))

-----------------------------------------------------------------------------

\* Every variable keeps its type; no turnstile is ever opened twice.
TypeOK ==
  /\ mutex \in SUBSET Threads /\ count \in 0..n
  /\ turnstile1 \in 0..1 /\ turnstile2 \in 0..1
  /\ pc \in [Threads -> Pcs]
  /\ serial_thread \in [Threads -> BOOLEAN]
  /\ entered \in [Threads -> Nat] /\ left \in [Threads -> Nat]
  /\ destroyed \in BOOLEAN

\* Nobody passes the barrier's k-th round before everybody has entered it,
\* and a fast thread that comes back does not steal a slow one's place
\* (thread.c:640-664).
Together == \A t, u \in Threads : left[t] <= entered[u]

\* Who waits at the barrier gets past it when all the others come.
EveryoneLeaves ==
  \A t \in Threads : \A k \in 1..MaxRounds :
    (entered[t] >= k) ~> (left[t] >= k)

\* threading.rst:150-156: the serializer may destroy the barrier as soon as
\* uv_barrier_wait returns, so nobody may still be using it.
DestroyedIsUnused == destroyed => \A t \in Threads : pc[t] = "out"

-----------------------------------------------------------------------------
(* The proof, for any number of threads and rounds.                        *)

\* The threads count counts: they came in and have not been counted out.
InsidePcs == {"shut2", "wait1", "post1", "again"}
Inside == {t \in Threads : pc[t] \in InsidePcs}

\* The rounds t had begun before the one that gathers now.
Round(t) == IF pc[t] \in InsidePcs THEN entered[t] - 1 ELSE entered[t]

\* Who keeps the mutex over a wait for a turnstile is alone.
Shutting == {t \in Threads : pc[t] \in {"shut1", "shut2"}}

CountOK ==
  /\ count = Cardinality(Inside)
  /\ mutex = Shutting
  /\ \A t, u \in Shutting : t = u
  /\ \A t \in Threads : entered[t] = IF pc[t] = "out" THEN left[t] ELSE left[t] + 1

\* A turnstile is open or somebody is passing it.
Passed(turnstile, pcPost) ==
  /\ \A t, u \in Threads : pc[t] = pcPost /\ pc[u] = pcPost => t = u
  /\ turnstile = IF \E t \in Threads : pc[t] = pcPost THEN 0 ELSE 1

\* The first turnstile is shut: the next round gathers in front of it while
\* the last one goes out through the second.
Gathering ==
  /\ turnstile1 = 0
  /\ \A t \in Threads : pc[t] \in {"out", "shut2", "wait1", "wait2", "post2"}
  /\ Passed(turnstile2, "post2")
  /\ \A t \in Threads : pc[t] = "shut2" => Inside = Threads
  /\ \A t, u \in Threads : Round(t) = Round(u)

\* The second turnstile is shut: everybody is inside, in the same round, and
\* goes from the first turnstile to the second.
Passing ==
  /\ turnstile2 = 0
  /\ \A t \in Threads : pc[t] \in {"wait1", "post1", "again", "wait2", "shut1"}
  /\ Passed(turnstile1, "post1")
  /\ \A t \in Threads : pc[t] = "shut1" => Inside = {}
  /\ \A t, u \in Threads : entered[t] = entered[u]

IInv == TypeOK /\ CountOK /\ (Gathering \/ Passing)

\* The threads inside are finitely many.
LEMMA InsideFinite ==
  ASSUME BarrierAssumption
  PROVE  /\ IsFiniteSet(Threads) /\ n \in Nat \ {0}
         /\ IsFiniteSet(Inside) /\ Cardinality(Inside) \in 0..n
         /\ Cardinality(Inside) = 0 <=> Inside = {}
         /\ Cardinality(Inside) = n <=> Inside = Threads
<1>1. IsFiniteSet(Threads) /\ Threads # {} /\ Inside \subseteq Threads
  BY DEF BarrierAssumption, Inside
<1> QED
  BY <1>1, FS_Subset, FS_CardinalityType, FS_EmptySet DEF n

\* Coming in and going out move the count by one.
LEMMA OneMoreOrLess ==
  ASSUME NEW S, IsFiniteSet(S), NEW t
  PROVE  /\ t \notin S => Cardinality(S \cup {t}) = Cardinality(S) + 1
         /\ t \in S => Cardinality(S \ {t}) = Cardinality(S) - 1
BY FS_AddElement, FS_RemoveElement

\* Nobody has come to the barrier.
LEMMA InitIInv == ASSUME BarrierAssumption, Init PROVE IInv
<1>1. Inside = {} /\ Shutting = {}
  BY DEF Init, Inside, InsidePcs, Shutting
<1>2. TypeOK
  <2>1. n \in Nat
    BY InsideFinite
  <2>2. mutex \in SUBSET Threads /\ count \in 0..n
    BY <2>1 DEF Init
  <2>3. pc \in [Threads -> Pcs] /\ serial_thread \in [Threads -> BOOLEAN]
    BY DEF Init, Pcs
  <2>4. entered \in [Threads -> Nat] /\ left \in [Threads -> Nat]
    BY DEF Init
  <2>5. turnstile1 \in 0..1 /\ turnstile2 \in 0..1
    BY DEF Init
  <2>6. destroyed \in BOOLEAN
    BY DEF Init
  <2> QED
    BY <2>2, <2>3, <2>4, <2>5, <2>6 DEF TypeOK
<1>3. CountOK
  BY <1>1, FS_EmptySet DEF Init, CountOK
<1>4. Gathering
  BY DEF Init, Gathering, Passed, Round, InsidePcs
<1> QED
  BY <1>2, <1>3, <1>4 DEF IInv

\* A thread that comes in comes to the round that gathers.
LEMMA ArriveIInv ==
  ASSUME BarrierAssumption, IInv, NEW t \in Threads, Arrive(t)
  PROVE  IInv'
<1> USE DEF Arrive, Goto, semVars
<1>0. TypeOK /\ CountOK /\ pc[t] = "out" /\ Shutting = {}
  BY DEF IInv, CountOK
<1>1. Gathering
  BY <1>0 DEF IInv, Passing
<1>2. t \notin Inside /\ Inside' = Inside \cup {t}
  BY <1>0 DEF TypeOK, Inside, InsidePcs
<1>3. count' = Cardinality(Inside') /\ count' \in 0..n
  <2>1. Cardinality(Inside) \in 0..n /\ Cardinality(Inside) # n /\ n \in Nat
    BY <1>2, InsideFinite
  <2>2. Cardinality(Inside') = Cardinality(Inside) + 1
    BY <1>2, InsideFinite, OneMoreOrLess
  <2>3. count' = Cardinality(Inside) + 1
    BY <1>0 DEF CountOK
  <2> QED
    BY <2>1, <2>2, <2>3
<1>4. TypeOK'
  <2>1. mutex' \in SUBSET Threads /\ pc' \in [Threads -> Pcs]
    BY <1>0 DEF TypeOK, Pcs
  <2>2. entered' \in [Threads -> Nat]
    BY <1>0 DEF TypeOK
  <2> QED
    BY <1>0, <1>3, <2>1, <2>2 DEF TypeOK
<1>5. Inside' \subseteq Threads /\ (count + 1 = n => Inside' = Threads)
  BY <1>2, <1>3, InsideFinite, FS_Subset DEF Inside, n
<1>6. CountOK'
  <2>1. mutex' = Shutting'
    BY <1>0 DEF TypeOK, Shutting
  <2>2. \A u, v \in Shutting' : u = v
    BY <1>0 DEF TypeOK, Shutting
  <2>3. \A u \in Threads : entered'[u] = IF pc'[u] = "out" THEN left'[u] ELSE left'[u] + 1
    BY <1>0 DEF TypeOK, CountOK
  <2> QED
    BY <1>3, <2>1, <2>2, <2>3 DEF CountOK
<1>7. Gathering'
  <2>1. \A u \in Threads : Round(u)' = Round(u)
    BY <1>0 DEF TypeOK, Round, InsidePcs
  <2>2. Passed(turnstile2, "post2")'
    BY <1>0, <1>1 DEF TypeOK, Gathering, Passed
  <2>3. \A u \in Threads : pc'[u] = "shut2" => Inside' = Threads
    BY <1>0, <1>5 DEF TypeOK, Shutting
  <2>4. \A u \in Threads : pc'[u] \in {"out", "shut2", "wait1", "wait2", "post2"}
    BY <1>0, <1>1 DEF TypeOK, Gathering
  <2> QED
    BY <1>1, <2>1, <2>2, <2>3, <2>4 DEF Gathering
<1> QED
  BY <1>4, <1>6, <1>7 DEF IInv

\* The last to come in lets everybody through the first turnstile.
LEMMA ShutSecondIInv ==
  ASSUME BarrierAssumption, IInv, NEW t \in Threads, ShutSecond(t)
  PROVE  IInv'
<1> USE DEF ShutSecond, Goto, semVars
<1>0. TypeOK /\ CountOK /\ pc[t] = "shut2"
  BY DEF IInv
<1>1. Gathering /\ Inside = Threads
  BY <1>0 DEF IInv, Passing, Gathering
<1>2. \A u \in Threads : pc'[u] = "wait1"
  <2> SUFFICES ASSUME NEW u \in Threads, u # t PROVE pc[u] = "wait1"
    BY <1>0 DEF TypeOK
  <2>1. pc[u] \in {"shut2", "wait1"}
    BY <1>1 DEF Gathering, Inside, InsidePcs
  <2> QED
    BY <1>0, <2>1 DEF CountOK, Shutting
<1>3. turnstile1 = 0 /\ turnstile2 = 1
  BY <1>0, <1>1 DEF TypeOK, Gathering
<1>4. TypeOK'
  BY <1>0, <1>3 DEF TypeOK, Pcs
<1>5. Inside' = Inside /\ Shutting' = {}
  BY <1>1, <1>2 DEF Inside, InsidePcs, Shutting
<1>6. CountOK'
  <2>1. \A u \in Threads : pc[u] # "out"
    BY <1>1 DEF Inside, InsidePcs
  <2> QED
    BY <1>0, <1>2, <1>5, <2>1 DEF CountOK
<1>7. Passing'
  <2>1. \A u \in Threads : Round(u) = entered[u] - 1 /\ entered[u] \in Nat
    BY <1>0, <1>1 DEF TypeOK, Round, Inside
  <2>2. \A u, v \in Threads : entered[u] = entered[v]
    BY <1>1, <2>1 DEF Gathering
  <2> QED
    BY <1>2, <1>3, <2>2 DEF Passing, Passed
<1> QED
  BY <1>4, <1>6, <1>7 DEF IInv

\* A thread passes the first turnstile and opens it for the next.
LEMMA FirstIInv ==
  ASSUME BarrierAssumption, IInv, NEW t \in Threads, Wait1(t) \/ Post1(t)
  PROVE  IInv'
<1> USE DEF Wait1, Post1, Goto, semVars
<1>0. TypeOK /\ CountOK
  BY DEF IInv
<1>1. Passing
  BY <1>0 DEF IInv, Gathering, TypeOK
<1>2. Inside' = Inside /\ Shutting' = Shutting /\ t \in Inside
  BY <1>0 DEF TypeOK, Inside, InsidePcs, Shutting
<1>3. Passed(turnstile1, "post1")'
  <2>1. CASE Wait1(t)
    <3>1. \A u \in Threads : pc[u] # "post1"
      BY <1>1, <2>1 DEF Passing, Passed
    <3> QED
      BY <1>0, <1>1, <2>1, <3>1 DEF Passing, Passed, TypeOK
  <2>2. CASE Post1(t)
    <3>1. \A u \in Threads : u # t => pc[u] # "post1"
      BY <1>1, <2>2 DEF Passing, Passed
    <3>2. turnstile1 = 0
      BY <1>1, <2>2 DEF Passing, Passed
    <3> QED
      BY <1>0, <2>2, <3>1, <3>2 DEF Passed, TypeOK
  <2> QED
    BY <2>1, <2>2
<1>4. TypeOK'
  <2>1. turnstile1' \in 0..1
    BY <1>3 DEF Passed
  <2> QED
    BY <1>0, <2>1 DEF TypeOK, Pcs
<1>5. CountOK'
  BY <1>0, <1>2 DEF CountOK, TypeOK
<1>6. Passing'
  <2>1. \A u \in Threads : pc'[u] \in {"wait1", "post1", "again", "wait2", "shut1"}
    BY <1>0, <1>1 DEF Passing, TypeOK
  <2>2. \A u \in Threads : pc'[u] # "shut1"
    BY <1>0, <1>1, <1>2 DEF Passing, TypeOK
  <2> QED
    BY <1>1, <1>3, <2>1, <2>2 DEF Passing
<1> QED
  BY <1>4, <1>5, <1>6 DEF IInv

\* A thread is counted out; the last one keeps the mutex.
LEMMA DepartIInv ==
  ASSUME BarrierAssumption, IInv, NEW t \in Threads, Depart(t)
  PROVE  IInv'
<1> USE DEF Depart, Goto, semVars
<1>0. TypeOK /\ CountOK /\ pc[t] = "again" /\ Shutting = {}
  BY DEF IInv, CountOK
<1>1. Passing
  BY <1>0 DEF IInv, Gathering
<1>2. t \in Inside /\ Inside' = Inside \ {t}
  BY <1>0 DEF TypeOK, Inside, InsidePcs
<1>3. /\ count' = Cardinality(Inside') /\ count' \in 0..n
      /\ count - 1 = 0 => Inside' = {}
  <2>1. count' = Cardinality(Inside')
    BY <1>0, <1>2, InsideFinite, OneMoreOrLess DEF CountOK
  <2>2. count - 1 \in 0..n
    BY <1>0, <1>2, InsideFinite DEF CountOK
  <2>3. IsFiniteSet(Inside')
    BY <1>2, InsideFinite, FS_RemoveElement
  <2> QED
    BY <2>1, <2>2, <2>3, FS_EmptySet
<1>4. TypeOK'
  BY <1>0, <1>3 DEF TypeOK, Pcs, LastLeaves
<1>5. CountOK'
  <2>1. mutex' = Shutting'
    BY <1>0 DEF TypeOK, Shutting
  <2>2. \A u, v \in Shutting' : u = v
    BY <1>0 DEF TypeOK, Shutting
  <2>3. \A u \in Threads : entered'[u] = IF pc'[u] = "out" THEN left'[u] ELSE left'[u] + 1
    BY <1>0 DEF TypeOK, CountOK
  <2> QED
    BY <1>3, <2>1, <2>2, <2>3 DEF CountOK
<1>6. Passing'
  <2>1. \A u \in Threads : pc'[u] \in {"wait1", "post1", "again", "wait2", "shut1"}
    BY <1>0, <1>1 DEF Passing, TypeOK
  <2>2. \A u \in Threads : pc'[u] = "shut1" => Inside' = {}
    BY <1>0, <1>3 DEF Shutting, TypeOK, LastLeaves
  <2>3. Passed(turnstile1, "post1")'
    BY <1>0, <1>1 DEF Passing, Passed, TypeOK
  <2> QED
    BY <1>1, <2>1, <2>2, <2>3 DEF Passing
<1> QED
  BY <1>4, <1>5, <1>6 DEF IInv

\* The last to be counted out shuts the first turnstile behind everybody.
LEMMA ShutFirstIInv ==
  ASSUME BarrierAssumption, IInv, NEW t \in Threads, ShutFirst(t)
  PROVE  IInv'
<1> USE DEF ShutFirst, Goto, semVars
<1>0. TypeOK /\ CountOK /\ pc[t] = "shut1"
  BY DEF IInv
<1>1. Passing /\ Inside = {}
  BY <1>0 DEF IInv, Passing, Gathering
<1>2. \A u \in Threads : pc'[u] = "wait2"
  <2> SUFFICES ASSUME NEW u \in Threads, u # t PROVE pc[u] = "wait2"
    BY <1>0 DEF TypeOK
  <2>1. pc[u] \in {"shut1", "wait2"}
    BY <1>1 DEF Passing, Inside, InsidePcs
  <2> QED
    BY <1>0, <2>1 DEF CountOK, Shutting
<1>3. turnstile1 = 1 /\ turnstile2 = 0
  BY <1>0, <1>1 DEF TypeOK, Passing
<1>4. TypeOK'
  BY <1>0, <1>3 DEF TypeOK, Pcs
<1>5. Inside' = Inside /\ Shutting' = {}
  BY <1>1, <1>2 DEF Inside, InsidePcs, Shutting
<1>6. CountOK'
  <2>1. \A u \in Threads : pc[u] # "out"
    BY <1>1 DEF Passing
  <2> QED
    BY <1>0, <1>2, <1>5, <2>1 DEF CountOK
<1>7. Gathering'
  <2>1. \A u \in Threads : Round(u)' = entered[u]
    BY <1>2 DEF Round, InsidePcs
  <2> QED
    BY <1>1, <1>2, <1>3, <2>1 DEF Passing, Gathering, Passed
<1> QED
  BY <1>4, <1>6, <1>7 DEF IInv

\* A thread passes the second turnstile and leaves.
LEMMA SecondIInv ==
  ASSUME BarrierAssumption, IInv, NEW t \in Threads, Wait2(t) \/ Post2(t)
  PROVE  IInv'
<1> USE DEF Wait2, Post2, Goto, semVars
<1>0. TypeOK /\ CountOK
  BY DEF IInv
<1>1. Gathering
  BY <1>0 DEF IInv, Passing, TypeOK
<1>2. Inside' = Inside /\ Shutting' = Shutting /\ t \notin Inside
  BY <1>0 DEF TypeOK, Inside, InsidePcs, Shutting
<1>3. Passed(turnstile2, "post2")'
  <2>1. CASE Wait2(t)
    <3>1. \A u \in Threads : pc[u] # "post2"
      BY <1>1, <2>1 DEF Gathering, Passed
    <3> QED
      BY <1>0, <1>1, <2>1, <3>1 DEF Gathering, Passed, TypeOK
  <2>2. CASE Post2(t)
    <3>1. \A u \in Threads : u # t => pc[u] # "post2"
      BY <1>1, <2>2 DEF Gathering, Passed
    <3>2. turnstile2 = 0
      BY <1>1, <2>2 DEF Gathering, Passed
    <3> QED
      BY <1>0, <2>2, <3>1, <3>2 DEF Passed, TypeOK
  <2> QED
    BY <2>1, <2>2
<1>4. TypeOK'
  <2>1. turnstile2' \in 0..1
    BY <1>3 DEF Passed
  <2> QED
    BY <1>0, <2>1 DEF TypeOK, Pcs
<1>5. CountOK'
  BY <1>0, <1>2 DEF CountOK, TypeOK
<1>6. Gathering'
  <2>1. \A u \in Threads : pc'[u] \in {"out", "shut2", "wait1", "wait2", "post2"}
    BY <1>0, <1>1 DEF Gathering, TypeOK
  <2>2. \A u \in Threads : pc'[u] # "shut2"
    BY <1>0, <1>1, <1>2 DEF Gathering, TypeOK
  <2>3. \A u \in Threads : Round(u)' = Round(u)
    BY <1>0 DEF Round, InsidePcs, TypeOK
  <2> QED
    BY <1>1, <1>3, <2>1, <2>2, <2>3 DEF Gathering
<1> QED
  BY <1>4, <1>5, <1>6 DEF IInv

\* Every step keeps the invariant.
LEMMA NextIInv == ASSUME BarrierAssumption, IInv, [Next]_vars PROVE IInv'
<1>1. ASSUME NEW t \in Threads, uv_barrier_wait(t) PROVE IInv'
  BY <1>1, ArriveIInv, ShutSecondIInv, FirstIInv, DepartIInv, ShutFirstIInv, SecondIInv
     DEF uv_barrier_wait
<1>2. ASSUME NEW t \in Threads, uv_barrier_destroy(t) PROVE IInv'
  BY <1>2 DEF uv_barrier_destroy, semVars, IInv, TypeOK, CountOK, Gathering, Passing, Passed,
              Inside, Shutting, Round
<1>3. CASE UNCHANGED vars
  BY <1>3 DEF vars, semVars, IInv, TypeOK, CountOK, Gathering, Passing, Passed, Inside,
              Shutting, Round
<1> QED
  BY <1>1, <1>2, <1>3 DEF Next

\* While a round gathers nobody is a round ahead, and while it goes through
\* everybody is in it.
LEMMA InvTogether == IInv => Together
<1> SUFFICES ASSUME IInv, NEW t \in Threads, NEW u \in Threads PROVE left[t] <= entered[u]
  BY DEF Together
<1>1. /\ left[t] \in Nat /\ entered[t] \in Nat /\ entered[u] \in Nat
      /\ entered[t] = IF pc[t] = "out" THEN left[t] ELSE left[t] + 1
  BY DEF IInv, TypeOK, CountOK
<1>2. CASE Gathering
  <2>1. left[t] <= Round(t) /\ Round(u) <= entered[u]
    BY <1>1 DEF Round, InsidePcs
  <2> QED
    BY <1>1, <1>2, <2>1 DEF Gathering, Round
<1>3. CASE Passing
  BY <1>1, <1>3 DEF Passing
<1> QED
  BY <1>2, <1>3 DEF IInv

\* The invariant holds in every state of a barrier that at least one thread
\* uses.
LEMMA Inductive == BarrierAssumption => (Spec => []IInv)
<1> SUFFICES ASSUME BarrierAssumption PROVE Spec => []IInv
  OBVIOUS
<1>1. Init => IInv
  BY InitIInv
<1>2. IInv /\ [Next]_vars => IInv'
  BY NextIInv
<1> QED
  BY <1>1, <1>2, PTL DEF Spec

\* A barrier keeps any number of threads together for any number of rounds: a
\* fast thread that comes back does not slip through with the round it left
\* (thread.c:640-664).
THEOREM StayTogether == BarrierAssumption => (Spec => []Together)
<1>1. IInv => Together
  BY InvTogether
<1> QED
  BY <1>1, Inductive, PTL

\* No turnstile is opened twice, no count exceeds the threads (thread.c:646,
\* 656, 660-661).
THEOREM TurnstilesOpenOnce == BarrierAssumption => (Spec => []TypeOK)
<1>1. IInv => TypeOK
  BY DEF IInv
<1> QED
  BY <1>1, Inductive, PTL
=============================================================================
