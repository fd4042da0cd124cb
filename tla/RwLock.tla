------------------------------- MODULE RwLock -------------------------------
(***************************************************************************)
(* uv_rwlock_t of win/thread.c: a semaphore for the writer or the group of *)
(* readers, and a reader count with a critical section of its own, which   *)
(* the first reader keeps while it waits for the semaphore.                *)
(***************************************************************************)
EXTENDS Integers, FiniteSets

CONSTANT Threads

ASSUME ThreadsAssumption == IsFiniteSet(Threads) /\ Threads # {}

VARIABLES
  pc,                  \* what a thread holds or waits for
  num_readers,
  num_readers_lock,    \* the threads in the critical section: at most one
  write_semaphore

vars == <<pc, num_readers, num_readers_lock, write_semaphore>>

Pcs == {"idle", "want_read", "first_reader", "reading", "want_write", "writing"}

Init ==
  /\ pc = [t \in Threads |-> "idle"]
  /\ num_readers = 0 /\ num_readers_lock = {} /\ write_semaphore = 1

Goto(t, from, to) == pc[t] = from /\ pc' = [pc EXCEPT ![t] = to]

\* A thread calls uv_rwlock_rdlock or uv_rwlock_wrlock.
Request(t) ==
  /\ Goto(t, "idle", "want_read") \/ Goto(t, "idle", "want_write")
  /\ UNCHANGED <<num_readers, num_readers_lock, write_semaphore>>

NeverFirst(c) == FALSE

\* The first reader locks for all of them.
IsFirst(c) == c = 1

uv_rwlock_rdlock(t) ==
  /\ num_readers_lock = {}
  /\ num_readers' = num_readers + 1
  /\ IF IsFirst(num_readers + 1)
     THEN Goto(t, "want_read", "first_reader") /\ num_readers_lock' = {t}
     ELSE Goto(t, "want_read", "reading") /\ UNCHANGED num_readers_lock
  /\ UNCHANGED write_semaphore

FirstReaderEnters(t) ==
  /\ write_semaphore > 0
  /\ Goto(t, "first_reader", "reading")
  /\ write_semaphore' = write_semaphore - 1
  /\ num_readers_lock' = {}
  /\ UNCHANGED num_readers

\* A try that succeeds; one that does not changes nothing.
uv_rwlock_tryrdlock(t) ==
  /\ num_readers_lock = {}
  /\ Goto(t, "idle", "reading")
  /\ num_readers' = num_readers + 1
  /\ IF num_readers = 0
     THEN write_semaphore > 0 /\ write_semaphore' = write_semaphore - 1
     ELSE UNCHANGED write_semaphore
  /\ UNCHANGED num_readers_lock

AnyReader(c) == TRUE

\* The last reader unlocks for all of them.
IsLast(c) == c = 0

uv_rwlock_rdunlock(t) ==
  /\ num_readers_lock = {}
  /\ Goto(t, "reading", "idle")
  /\ num_readers' = num_readers - 1
  /\ write_semaphore' = IF IsLast(num_readers - 1) THEN write_semaphore + 1
                        ELSE write_semaphore
  /\ UNCHANGED num_readers_lock

\* uv_rwlock_wrlock, or a uv_rwlock_trywrlock that succeeds.
uv_rwlock_wrlock(t) ==
  /\ write_semaphore > 0
  /\ Goto(t, "want_write", "writing") \/ Goto(t, "idle", "writing")
  /\ write_semaphore' = write_semaphore - 1
  /\ UNCHANGED <<num_readers, num_readers_lock>>

uv_rwlock_wrunlock(t) ==
  /\ Goto(t, "writing", "idle")
  /\ write_semaphore' = write_semaphore + 1
  /\ UNCHANGED <<num_readers, num_readers_lock>>

Next ==
  \E t \in Threads :
    \/ Request(t) \/ uv_rwlock_tryrdlock(t)
    \/ uv_rwlock_rdlock(t) \/ FirstReaderEnters(t) \/ uv_rwlock_wrlock(t)
    \/ uv_rwlock_rdunlock(t) \/ uv_rwlock_wrunlock(t)

Spec == Init /\ [][Next]_vars

-----------------------------------------------------------------------------

Readers == {t \in Threads : pc[t] = "reading"}
Writers == {t \in Threads : pc[t] = "writing"}
Counted == {t \in Threads : pc[t] \in {"first_reader", "reading"}}

\* Every variable keeps its type; a release never raises the semaphore over
\* its maximum of 1, where ReleaseSemaphore fails and the program is aborted
\* (thread.c:226, 301-302, 328-329).
TypeOK ==
  /\ pc \in [Threads -> Pcs]
  /\ num_readers \in Nat
  /\ num_readers_lock \in SUBSET Threads
  /\ write_semaphore \in 0..1

\* A writer is alone (thread.c:247-330).
Exclusive ==
  /\ \A t, u \in Writers : t = u
  /\ Writers # {} => Readers = {}

\* The semaphore is taken exactly while there is a writer or a reader, and
\* the count counts the readers and the one who waits to be the first: a lock
\* that nobody holds can be had (thread.c:254-258, 300-303).
SemaphoreHeld ==
  /\ write_semaphore = 0 <=> Readers \cup Writers # {}
  /\ num_readers = Cardinality(Counted)

-----------------------------------------------------------------------------
(* The invariant that MCSync proves inductive, for any finite set of       *)
(* threads.                                                                *)

\* Whoever waits to be the first reader is in the critical section, and only
\* it, and while it waits nobody reads.
FirstLocks ==
  /\ num_readers_lock = {t \in Threads : pc[t] = "first_reader"}
  /\ \A t, u \in num_readers_lock : t = u
  /\ num_readers_lock # {} => Readers = {}

IInv == TypeOK /\ Exclusive /\ SemaphoreHeld /\ FirstLocks
=============================================================================
