-------------------------------- MODULE Once --------------------------------
(***************************************************************************)
(* uv_once of win/thread.c, which guards every one-time initialization of  *)
(* libuv (uv__once_init, the thread pool's init_once, the list of loops).  *)
(* Threads call it concurrently, each as often as it likes.                *)
(***************************************************************************)
EXTENDS Integers, FiniteSets

CONSTANTS
  Threads,
  MaxCalls     \* bound: calls each thread makes

\* What the constants have to satisfy; MCSync assumes it.
OnceAssumption == MaxCalls \in Nat

VARIABLES
  ran,         \* guard->ran
  event,       \* the thread whose event is guard->event; {} when it is NULL
  signaled,    \* guard->event is set
  pc,
  runs,        \* history: how often the callback was started
  finished,    \* history: the callback has returned
  calls        \* calls[t]: calls t made

vars == <<ran, event, signaled, pc, runs, finished, calls>>

Init ==
  /\ ran = FALSE /\ event = {} /\ signaled = FALSE
  /\ pc = [t \in Threads |-> "out"]
  /\ runs = 0 /\ finished = FALSE
  /\ calls = [t \in Threads |-> 0]

Goto(t, from, to) == pc[t] = from /\ pc' = [pc EXCEPT ![t] = to]

\* uv_once: the fast case, or uv__once_inner.
uv_once(t) ==
  /\ calls[t] < MaxCalls
  /\ calls' = [calls EXCEPT ![t] = @ + 1]
  /\ Goto(t, "out", IF ran THEN "return" ELSE "inner")
  /\ UNCHANGED <<ran, event, signaled, runs, finished>>

\* InterlockedCompareExchangePointer: one event is put in the guard.
WonRace(t) == event = {}

RanAtOnce == TRUE

\* ran is set after the callback only.
RanBeforeCallback == ran

uv__once_inner(t) ==
  /\ IF WonRace(t)
     THEN /\ Goto(t, "inner", "callback")
          /\ event' = {t} /\ runs' = runs + 1 /\ ran' = RanBeforeCallback
     ELSE Goto(t, "inner", "wait") /\ UNCHANGED <<event, runs, ran>>
  /\ UNCHANGED <<signaled, finished, calls>>

\* The callback has done its work.
Callback(t) ==
  /\ Goto(t, "callback", "set")
  /\ finished' = TRUE
  /\ UNCHANGED <<ran, event, signaled, runs, calls>>

PulseEvent == signaled

\* A manual-reset event stays set for every thread that lost the race.
StaysSet == TRUE

SetOnceEvent(t) ==
  /\ Goto(t, "set", "ran")
  /\ signaled' = StaysSet
  /\ UNCHANGED <<ran, event, runs, finished, calls>>

SetRan(t) ==
  /\ Goto(t, "ran", "return")
  /\ ran' = TRUE
  /\ UNCHANGED <<event, signaled, runs, finished, calls>>

LostRace(t) ==
  /\ signaled
  /\ Goto(t, "wait", "return")
  /\ UNCHANGED <<ran, event, signaled, runs, finished, calls>>

Return(t) ==
  /\ Goto(t, "return", "out")
  /\ UNCHANGED <<ran, event, signaled, runs, finished, calls>>

Inside(t) ==
  uv__once_inner(t) \/ Callback(t) \/ SetOnceEvent(t) \/ SetRan(t) \/ LostRace(t) \/ Return(t)

Next == \E t \in Threads : uv_once(t) \/ Inside(t)

Spec == Init /\ [][Next]_vars

\* Threads run, and the callback returns.
FairSpec == Spec /\ \A t \in Threads : WF_vars(Inside(t))

-----------------------------------------------------------------------------

\* Every variable keeps its type.
TypeOK ==
  /\ {ran, signaled, finished} \subseteq BOOLEAN
  /\ event \subseteq Threads
  /\ pc \in [Threads -> {"out", "inner", "callback", "set", "ran", "wait", "return"}]
  /\ runs \in 0..1
  /\ calls \in [Threads -> 0..MaxCalls]

\* threading.rst:81: the callback runs "once and only once", and no call of
\* uv_once returns before it has returned, whichever way the race went.
OnceAndBefore ==
  /\ runs <= 1
  /\ (\E t \in Threads : pc[t] = "return") => runs = 1 /\ finished

\* Concurrent calls block only until the callback is done.
AllReturn == \A t \in Threads : pc[t] # "out" ~> pc[t] = "out"

-----------------------------------------------------------------------------
(* The invariant that MCSync proves inductive, for any set of threads and  *)
(* any number of calls.                                                    *)

\* The thread whose event is in the guard is the only one that runs the
\* callback, and everything that lets another thread return comes after it:
\* the event, guard->ran.
IInv ==
  /\ runs \in 0..1
  /\ pc \in [Threads -> {"out", "inner", "callback", "set", "ran", "wait", "return"}]
  /\ runs = 0 => event = {} /\ ~finished
  /\ runs = 1 => event # {}
  /\ \A t \in Threads : pc[t] \in {"callback", "set", "ran"} => event = {t}
  /\ ran \/ signaled => finished
  /\ \A t \in Threads : pc[t] \in {"set", "ran", "return"} => finished
=============================================================================
