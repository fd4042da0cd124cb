------------------------------- MODULE CondVar ------------------------------
(***************************************************************************)
(* uv_cond_t of win/thread.c as it works where Windows has no condition    *)
(* variables: an auto-reset event for signals, a manual-reset event for    *)
(* broadcasts and a count of the waiters.  It is used the way a condition  *)
(* variable is: every waiter waits, under the mutex and in a loop, for gen *)
(* to change; the waker changes gen under the mutex and then wakes.  What  *)
(* the code does inside waiters_count_lock is one step.                    *)
(***************************************************************************)
EXTENDS Integers, FiniteSets

CONSTANTS
  Waiters,
  Waker,
  Wakes,      \* how the waker wakes: "signal" or "broadcast"
  MaxGen      \* bound: how often the waker changes gen

\* What the constants have to satisfy; MCSync assumes it.
CondAssumption ==
  /\ IsFiniteSet(Waiters) /\ Waker \notin Waiters
  /\ Wakes \in {"signal", "broadcast"}
  /\ MaxGen \in Nat

Actors == Waiters \cup {Waker}

VARIABLES
  mutex,             \* the threads in the user's mutex: at most one
  waiters_count,
  signal_event, broadcast_event,
  pc,
  result,            \* result[t]: why WaitForMultipleObjects returned
  gen, seen          \* the user's condition, and what each waiter saw of it

eventVars == <<signal_event, broadcast_event>>
vars == <<mutex, waiters_count, eventVars, pc, result, gen, seen>>

Pcs == {"out", "check", "unlock", "asleep", "woken", "reset", "relock",
        "look", "set", "leave"}

Init ==
  /\ mutex = {} /\ waiters_count = 0
  /\ signal_event = FALSE /\ broadcast_event = FALSE
  /\ pc = [t \in Actors |-> "out"]
  /\ result = [t \in Waiters |-> "none"]
  /\ gen = 0 /\ seen = [t \in Waiters |-> 0]

Goto(t, from, to) == pc[t] = from /\ pc' = [pc EXCEPT ![t] = to]

-----------------------------------------------------------------------------
(* A waiter.                                                               *)

\* The user's code around uv_cond_wait.
WaiterLock(t) ==
  /\ mutex = {} /\ gen < MaxGen
  /\ Goto(t, "out", "check")
  /\ mutex' = {t}
  /\ seen' = [seen EXCEPT ![t] = gen]
  /\ UNCHANGED <<waiters_count, eventVars, result, gen>>

WaiterUnlock(t) ==
  /\ gen # seen[t]
  /\ Goto(t, "check", "out")
  /\ mutex' = {}
  /\ UNCHANGED <<waiters_count, eventVars, result, gen, seen>>

\* uv_cond_wait_helper counts the waiter, ...
uv_cond_wait(t) ==
  /\ gen = seen[t]
  /\ Goto(t, "check", "unlock")
  /\ waiters_count' = waiters_count + 1
  /\ UNCHANGED <<mutex, eventVars, result, gen, seen>>

\* ... leaves the mutex, ...
Unlock(t) ==
  /\ Goto(t, "unlock", "asleep")
  /\ mutex' = {}
  /\ UNCHANGED <<waiters_count, eventVars, result, gen, seen>>

\* ... sleeps until one of the events is set (the first one, if both are) ...
Wake(t) ==
  /\ Goto(t, "asleep", "woken")
  /\ signal_event \/ broadcast_event
  /\ signal_event' = FALSE
  /\ result' = [result EXCEPT ![t] = IF signal_event THEN "signal" ELSE "broadcast"]
  /\ UNCHANGED <<mutex, waiters_count, broadcast_event, gen, seen>>

\* ... or its timeout has passed, ...
TimeOut(t) ==
  /\ Goto(t, "asleep", "woken")
  /\ result' = [result EXCEPT ![t] = "timeout"]
  /\ UNCHANGED <<mutex, waiters_count, eventVars, gen, seen>>

CountAfter(t) == waiters_count - 1

AnyWaiter(t) == result[t] = "broadcast"

\* last_waiter: the broadcast has reached everybody.
LastWaiter(t) == result[t] = "broadcast" /\ CountAfter(t) = 0

\* ... counts itself off and, as the last one, ...
CountOff(t) ==
  /\ Goto(t, "woken", IF LastWaiter(t) THEN "reset" ELSE "relock")
  /\ waiters_count' = CountAfter(t)
  /\ UNCHANGED <<mutex, eventVars, result, gen, seen>>

\* ... resets the broadcast, now outside the lock, ...
ResetBroadcast(t) ==
  /\ Goto(t, "reset", "relock")
  /\ broadcast_event' = FALSE
  /\ UNCHANGED <<mutex, waiters_count, signal_event, result, gen, seen>>

\* ... and takes the mutex again.
Relock(t) ==
  /\ mutex = {}
  /\ Goto(t, "relock", "check")
  /\ mutex' = {t}
  /\ UNCHANGED <<waiters_count, eventVars, result, gen, seen>>

-----------------------------------------------------------------------------
(* The waker.                                                              *)

Change ==
  /\ mutex = {} /\ gen < MaxGen
  /\ Goto(Waker, "out", "look")
  /\ mutex' = {Waker}
  /\ gen' = gen + 1
  /\ UNCHANGED <<waiters_count, eventVars, result, seen>>

SomeWaiter == waiters_count > 0

\* uv_cond_signal and uv_cond_broadcast look for waiters in the lock ...
HaveWaiters ==
  /\ Goto(Waker, "look", IF SomeWaiter THEN "set" ELSE "leave")
  /\ UNCHANGED <<mutex, waiters_count, eventVars, result, gen, seen>>

\* ... and set the event outside it.
SetWakeEvent ==
  /\ Goto(Waker, "set", "leave")
  /\ signal_event' = (signal_event \/ Wakes = "signal")
  /\ broadcast_event' = (broadcast_event \/ Wakes = "broadcast")
  /\ UNCHANGED <<mutex, waiters_count, result, gen, seen>>

WakerUnlock ==
  /\ Goto(Waker, "leave", "out")
  /\ mutex' = {}
  /\ UNCHANGED <<waiters_count, eventVars, result, gen, seen>>

-----------------------------------------------------------------------------

WaiterStep(t) ==
  \/ WaiterLock(t) \/ WaiterUnlock(t) \/ uv_cond_wait(t) \/ Unlock(t) \/ Wake(t)
  \/ CountOff(t) \/ ResetBroadcast(t) \/ Relock(t)

WakerStep == Change \/ HaveWaiters \/ SetWakeEvent \/ WakerUnlock

Next == WakerStep \/ \E t \in Waiters : WaiterStep(t) \/ TimeOut(t)

Spec == Init /\ [][Next]_vars

\* Actors run and get the mutex in turn; nobody counts on a timeout.
FairSpec == Spec /\ SF_vars(WakerStep) /\ \A t \in Waiters : SF_vars(WaiterStep(t))

-----------------------------------------------------------------------------

\* Every variable keeps its type, and the count is that of at most all
\* waiters.
TypeOK ==
  /\ mutex \in SUBSET Actors
  /\ waiters_count \in 0..Cardinality(Waiters)
  /\ {signal_event, broadcast_event} \subseteq BOOLEAN
  /\ pc \in [Actors -> Pcs]
  /\ result \in [Waiters -> {"none", "signal", "broadcast", "timeout"}]
  /\ gen \in 0..MaxGen /\ seen \in [Waiters -> 0..MaxGen]

\* No wake-up is lost: whoever sleeps when the condition has changed wakes up.
\* The comment at thread.c:523-525: "It's ok to release the <mutex> here since
\* Win32 manual-reset events maintain state when used with <SetEvent>. This
\* avoids the "lost wakeup" bug."
NoLostWakeup ==
  \A t \in Waiters : (pc[t] = "asleep" /\ gen # seen[t]) ~> pc[t] # "asleep"
=============================================================================
