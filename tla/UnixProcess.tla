---------------------------- MODULE UnixProcess ----------------------------
(***************************************************************************)
(* Child processes on Unix (src/unix/process.c): uv_spawn with its ways to *)
(* fail and the descriptors it then closes, uv__chld that collects every   *)
(* child that has ended and then calls back, uv_process_kill, closing.     *)
(* ChildInit and ChildNext are the child's half, between fork and execvp.  *)
(***************************************************************************)
EXTENDS Integers, Sequences, FiniteSets, SequencesExt

CONSTANTS
  Procs,          \* the user's uv_process_t handles
  MaxUSpawns,     \* bound: calls of uv_spawn
  MaxUKills,      \* bound: calls of uv_process_kill
  UProcFaults,    \* "closes_other", "busy_stream", "kills_late"
  StdioCount,     \* entries of the child's stdio, at least 3
  MaxFd,          \* bound: the largest descriptor
  Inherits,       \* the descriptors an entry may inherit
  ChildFaults     \* "closed_stdio": the parent has closed some of 0, 1 and 2

\* For the child: pipes[fd], the parent's end and the descriptor to use; the
\* child's descriptor table; what each place should be, and error_fd.
VARIABLES
  h,        \* the handles
  kernel,   \* the children; whether a SIGCHLD waits; whether child_watcher is started
  pending,  \* loop->process_handles, the local queue of uv__chld, next of removed handles
  pc, cb, calls,
  hist      \* descriptors of a spawn closed; exits told; signals sent
vars == <<h, kernel, pending, pc, cb, calls, hist>>

May(f) == f \in UProcFaults
None == "none"
Loop == [at |-> "loop", next |-> None]

Init ==
  /\ h = [p \in Procs |-> [state |-> "none", active |-> FALSE, ended |-> FALSE]]
  /\ kernel = [child |-> [p \in Procs |-> None], chld |-> FALSE, watched |-> FALSE]
  /\ pending = [handles |-> <<>>, ended |-> <<>>, stale |-> [p \in Procs |-> None]]
  /\ pc = Loop /\ cb = None /\ calls = [spawns |-> 0, kills |-> 0]
  /\ hist = [closed |-> <<>>, told |-> [p \in Procs |-> 0], wrong |-> FALSE]

User == (pc.at = "loop" \/ cb # None) /\ pc.at # "aborted"

-----------------------------------------------------------------------------
(* uv_spawn.                                                               *)

\* Two entries of options->stdio: what they are.
Kinds == {"ignore", "pipe", "inherit"}

\* uv__process_open_stream: the child's end is closed in the parent, the
\* other becomes the stream's.
Opens(stdio, i) == IF stdio[i] = "pipe" THEN <<<<i, 1>>>> ELSE <<>>

\* The cleanup at error: what is not inherited and is not -1.
AtError(stdio, made, opened) ==
  FlattenSeq([i \in DOMAIN stdio |->
    IF i \notin made \/ stdio[i] # "pipe" THEN <<>>
    ELSE <<<<i, 0>>>> \o (IF i \in opened THEN <<>> ELSE <<<<i, 1>>>>)])

\* What is closed in the parent, in order, for each way to end.  When entry i
\* cannot become a stream those before it are closed as streams first.
Closed(stdio, how, i) ==
  CASE how = "no stdio" -> AtError(stdio, 1..(i - 1), {})
    [] how \in {"no pipe", "no fork"} -> AtError(stdio, DOMAIN stdio, {})
    [] how = "busy" ->
         FlattenSeq([k \in 1..i |-> Opens(stdio, k)]) \o
         FlattenSeq([k \in 1..(i - 1) |-> IF stdio[k] = "pipe" THEN <<<<k, 0>>>> ELSE <<>>]) \o
         AtError(stdio, DOMAIN stdio, 1..i)
    [] OTHER -> FlattenSeq([k \in DOMAIN stdio |-> Opens(stdio, k)])

\* child_watcher is started before the fork.  A child that cannot exec is
\* collected here, its SIGCHLD comes all the same.
Hows(stdio) ==
  {<<"no stdio", i>> : i \in {i \in DOMAIN stdio : stdio[i] # "ignore"}} \cup
  {<<how, 0>> : how \in {"no pipe", "no fork", "no exec", "ok"}} \cup
  (IF May("busy_stream") THEN {<<"busy", i>> : i \in {i \in DOMAIN stdio : stdio[i] = "pipe"}} ELSE {})

uv_spawn(p) ==
  /\ User /\ h[p].state \in {"none", "closed"} /\ calls.spawns < MaxUSpawns
  /\ calls' = [calls EXCEPT !.spawns = @ + 1]
  /\ \E stdio \in [1..2 -> Kinds] : \E how \in Hows(stdio) :
       LET runs == how[1] = "ok"
       IN  /\ hist' = [hist EXCEPT !.closed = Closed(stdio, how[1], how[2]), !.told[p] = 0]
           /\ h' = [h EXCEPT ![p] = [state |-> "open", active |-> runs, ended |-> ~runs]]
           /\ pending' = [pending EXCEPT !.handles = IF runs THEN Append(@, p) ELSE @]
           /\ kernel' = [kernel EXCEPT !.watched = @ \/ how[1] \notin {"no stdio", "no pipe"},
                            !.chld = @ \/ how[1] = "no exec",
                            !.child[p] = CASE runs -> "alive" [] how[1] = "busy" -> "lost"
                                           [] OTHER -> None]
  /\ UNCHANGED <<pc, cb>>

\* uv_process_kill sends to process->pid, whatever became of the child.  The
\* user does not kill what has ended; "kills_late": whose end was not told.
uv_process_kill(p) ==
  /\ User /\ h[p].state = "open" /\ calls.kills < MaxUKills
  /\ ~h[p].ended /\ (kernel.child[p] # "reaped" \/ May("kills_late"))
  /\ calls' = [calls EXCEPT !.kills = @ + 1]
  /\ hist' = [hist EXCEPT !.wrong = @ \/ kernel.child[p] \notin {"alive", "zombie"}]
  /\ UNCHANGED <<h, kernel, pending, pc, cb>>

-----------------------------------------------------------------------------
(* The queues.  A handle that is removed keeps its own pointers.           *)

After(q, p) ==
  LET at == {i \in DOMAIN q : q[i] = p}
  IN  IF at = {} THEN None
      ELSE LET i == CHOOSE i \in at : TRUE IN IF i = Len(q) THEN None ELSE q[i + 1]
Without(q, p) == SelectSeq(q, LAMBDA x : x # p)

\* uv__process_close; the watcher is stopped with the last handle.
StopsAlways(q) == TRUE
StopsLast(q) == q = <<>>

uv__process_close(p) ==
  /\ User /\ h[p].state = "open"
  /\ ~(pc.at = "chld" /\ p \in Range(pending.ended)) \/ May("closes_other")
  /\ h' = [h EXCEPT ![p].state = "closing", ![p].active = FALSE]
  /\ LET q == Without(pending.handles, p)
     IN  /\ pending' = [handles |-> q, ended |-> Without(pending.ended, p),
                        stale |-> [pending.stale EXCEPT ![p] = After(pending.ended, p)]]
         /\ kernel' = [kernel EXCEPT !.watched = @ /\ ~StopsLast(q)]
  /\ UNCHANGED <<pc, cb, calls, hist>>

\* A SIGCHLD that a stopped watcher gets is dropped (uv__signal_event).
Drops ==
  /\ pc.at = "loop" /\ cb = None /\ kernel.chld /\ ~kernel.watched
  /\ kernel' = [kernel EXCEPT !.chld = FALSE]
  /\ UNCHANGED <<h, pending, pc, cb, calls, hist>>

\* uv__chld: first every child is waited for.
Collects ==
  /\ pc.at = "loop" /\ cb = None /\ kernel.chld /\ kernel.watched
  /\ LET done == SelectSeq(pending.handles, LAMBDA p : kernel.child[p] = "zombie")
     IN  /\ pending' = [pending EXCEPT !.handles = SelectSeq(@, LAMBDA p : kernel.child[p] # "zombie"),
                                       !.ended = done]
         /\ kernel' = [kernel EXCEPT !.chld = FALSE,
                          !.child = [p \in Procs |-> IF p \in Range(done) THEN "reaped" ELSE @[p]]]
         /\ pc' = [at |-> "chld", next |-> IF done = <<>> THEN None ELSE done[1]]
  /\ UNCHANGED <<h, cb, calls, hist>>

\* Then each is told, in a loop that has taken the next one from the queue
\* before the callback.
uv__chld ==
  /\ pc.at = "chld" /\ cb = None
  /\ IF pc.next = None
     THEN /\ pc' = IF pending.ended = <<>> THEN Loop ELSE [pc EXCEPT !.at = "aborted"]
          /\ UNCHANGED <<h, pending, cb, hist>>
     ELSE LET p == pc.next
              next == IF p \in Range(pending.ended) THEN After(pending.ended, p) ELSE pending.stale[p]
          IN  /\ pending' = [pending EXCEPT !.ended = Without(@, p)]
              /\ pc' = [pc EXCEPT !.next = next]
              /\ h' = [h EXCEPT ![p].active = FALSE, ![p].ended = TRUE]
              /\ \E has \in BOOLEAN :
                   /\ cb' = IF has THEN p ELSE None
                   /\ hist' = [hist EXCEPT !.told[p] = IF h[p].state = "open" THEN @ + 1 ELSE 2]
  /\ UNCHANGED <<kernel, calls>>

CallbackReturns == cb # None /\ cb' = None /\ UNCHANGED <<h, kernel, pending, pc, calls, hist>>

\* uv__finish_close.  The child of a closed handle is nobody's.
Closes(p) ==
  /\ pc.at = "loop" /\ cb = None /\ h[p].state = "closing"
  /\ h' = [h EXCEPT ![p].state = "closed"]
  /\ kernel' = [kernel EXCEPT !.child[p] = None]
  /\ UNCHANGED <<pending, pc, cb, calls, hist>>

\* A child ends; with the watcher started the signal is queued.
Exits(p) ==
  /\ kernel.child[p] = "alive"
  /\ kernel' = [kernel EXCEPT !.child[p] = "zombie", !.chld = @ \/ kernel.watched]
  /\ UNCHANGED <<h, pending, pc, cb, calls, hist>>

UserCall == \E p \in Procs : uv_spawn(p) \/ uv_process_kill(p) \/ uv__process_close(p)
HandlerStep == uv__chld \/ CallbackReturns
PollStep == Collects \/ Drops
CloseStep == \E p \in Procs : Closes(p)
SystemStep == \E p \in Procs : Exits(p)
Next == UserCall \/ HandlerStep \/ PollStep \/ CloseStep \/ SystemStep

-----------------------------------------------------------------------------
(* What the child does between fork and execvp (uv__process_child_init):   *)
(* the descriptors that the parent chose are put at 0, 1, 2, ... without   *)
(* losing one that another place still needs, and a failure is written to  *)
(* the parent's pipe.                                                      *)

Places == 0..(StdioCount - 1)
FdNumbers == 0..MaxFd
Ignore == -1
Pipe == -2
Asks == {Ignore, Pipe} \cup Inherits
Null == <<"null", 0>>
Shut == [obj |-> <<"none", 0>>, cloexec |-> FALSE]
Obj(o, c) == [obj |-> o, cloexec |-> c]
Free(t, from) == CHOOSE n \in from..MaxFd : t[n] = Shut /\ \A m \in from..(n - 1) : t[m] # Shut

\* The parent's own descriptors are objects 0..StdioCount, close-on-exec or not.
Tables ==
  {[n \in FdNumbers |-> IF n <= StdioCount /\ n \notin gone THEN Obj(<<"own", n>>, c) ELSE Shut] :
     c \in BOOLEAN, gone \in {{}} \cup (IF "closed_stdio" \in ChildFaults THEN SUBSET {0, 1, 2} ELSE {})}

\* uv__process_init_stdio, entry by entry: a pair of ends is made with
\* the lowest numbers; then the pipe for errors.
Created(t, asks) ==
  LET made[i \in 0..StdioCount] ==
        IF i = 0 THEN [t |-> t, ends |-> [fd \in Places |-> <<-1, -1>>]]
        ELSE LET s == made[i - 1]
                 a == Free(s.t, 0)
                 b == Free(s.t, a + 1)
             IN  IF asks[i - 1] = Pipe
                 THEN [t |-> [s.t EXCEPT ![a] = Obj(<<"parent", i - 1>>, TRUE), ![b] = Obj(<<"child", i - 1>>, TRUE)],
                       ends |-> [s.ends EXCEPT ![i - 1] = <<a, b>>]]
                 ELSE [s EXCEPT !.ends[i - 1] = <<-1, asks[i - 1]>>]
      e == made[StdioCount]
      r == Free(e.t, 0)
      w == Free(e.t, r + 1)
  IN  [t |-> [e.t EXCEPT ![r] = Obj(<<"status", 0>>, TRUE), ![w] = Obj(<<"error", 0>>, TRUE)], ends |-> e.ends, error |-> w]

\* An entry that inherits names an open descriptor.
ChildInit ==
  \E t \in Tables : \E asks \in [Places -> Asks] :
    LET c == Created(t, asks)
    IN  /\ \A fd \in Places : asks[fd] \in FdNumbers => t[asks[fd]] # Shut
        /\ h = c.ends /\ kernel = c.t
        /\ pending = [meant |-> [fd \in Places |->
                                   CASE asks[fd] = Ignore -> Null [] asks[fd] = Pipe -> <<"child", fd>>
                                     [] OTHER -> <<"own", asks[fd]>>],
                      error |-> c.error]
        /\ pc = [at |-> "low", fd |-> 0] /\ cb = "none" /\ calls = 0 /\ hist = "none"

Step(at, fd) == IF fd = StdioCount - 1 THEN [at |-> at, fd |-> 0] ELSE [pc EXCEPT !.fd = fd + 1]

\* A number below its place is duplicated above all places.
ReplacedLate(use, fd) == use < 0 \/ use >= fd - 1
StaysPut(use, fd) == use < 0 \/ use >= fd

Duplicates ==
  /\ pc.at = "low"
  /\ LET use == h[pc.fd][2]
         n == Free(kernel, StdioCount)
     IN  IF StaysPut(use, pc.fd) THEN UNCHANGED <<h, kernel>>
         ELSE /\ kernel' = [kernel EXCEPT ![n] = Obj(kernel[use].obj, FALSE)]
              /\ h' = [h EXCEPT ![pc.fd][2] = n]
  /\ pc' = Step("place", pc.fd)
  /\ UNCHANGED <<pending, cb, calls, hist>>

\* A place is filled; 0, 1 and 2 are /dev/null when nothing is asked for.
Places2(t, fd, use, close) ==
  LET u == [t EXCEPT ![fd] = Obj(t[use].obj, FALSE)]
  IN  IF close >= StdioCount THEN [u EXCEPT ![close] = Shut] ELSE u
Fills ==
  /\ pc.at = "place"
  /\ LET use == h[pc.fd][2]
         null == Free(kernel, 0)
     IN  kernel' = CASE use < 0 /\ pc.fd >= 3 -> kernel
                     [] use < 0 /\ pc.fd < 3 ->
                          Places2([kernel EXCEPT ![null] = Obj(Null, FALSE)], pc.fd, null, null)
                     [] OTHER -> Places2(kernel, pc.fd, use, h[pc.fd][1])
  /\ pc' = Step("close", pc.fd)
  /\ UNCHANGED <<h, pending, cb, calls, hist>>

\* What was used and lies above the places is closed.
ClosesUsed ==
  /\ pc.at = "close"
  /\ LET use == h[pc.fd][2]
     IN  kernel' = IF use >= StdioCount THEN [kernel EXCEPT ![use] = Shut] ELSE kernel
  /\ pc' = Step("rest", pc.fd)
  /\ UNCHANGED <<h, pending, cb, calls, hist>>

\* uv__write_int: the parent reads an error if the pipe is still there.
uv__write_int(t) == IF t[pending.error].obj[1] = "error" THEN "told" ELSE "lost"

\* chdir, setgid, setuid and execvp may fail.
Execs ==
  /\ pc.at = "rest"
  /\ \/ /\ kernel' = [n \in FdNumbers |-> IF kernel[n].cloexec THEN Shut ELSE kernel[n]]
        /\ hist' = "runs"
     \/ hist' = uv__write_int(kernel) /\ UNCHANGED kernel
  /\ pc' = [pc EXCEPT !.at = "done"]
  /\ UNCHANGED <<h, pending, cb, calls>>

ChildNext == Duplicates \/ Fills \/ ClosesUsed \/ Execs

-----------------------------------------------------------------------------
(* Properties.                                                             *)

\* Every handle is in at most one queue, and as its child is.
PendingExact ==
  /\ IsInjective(pending.handles \o pending.ended)
  /\ \A p \in Range(pending.handles) : kernel.child[p] \in {"alive", "zombie"} /\ h[p].state = "open"
  /\ \A p \in Range(pending.ended) : kernel.child[p] = "reaped" /\ hist.told[p] = 0

ActiveExact == \A p \in Procs : h[p].active <=> p \in Range(pending.handles \o pending.ended)

\* A child that has ended is about to be collected, the others are watched.
Armed ==
  /\ pending.handles # <<>> => kernel.watched
  /\ (\E p \in Range(pending.handles) : kernel.child[p] = "zombie") => kernel.chld

\* No descriptor is closed twice, or inherited and closed; none that was made
\* for a child that does not run is left; an end is told once, to an open
\* handle; a signal reaches the own child.
Sane ==
  /\ pc.at # "aborted"
  /\ IsInjective(hist.closed) /\ \A i \in DOMAIN hist.closed : hist.closed[i][2] \in {0, 1}
  /\ \A p \in Procs : hist.told[p] <= 1 /\ kernel.child[p] # "lost"
  /\ ~hist.wrong

\* Nothing is told of a handle that is being closed.
Silent == \A p \in Procs : cb = None /\ cb' = p => h[p].state = "open"

\* The end of a child that runs, and of a close.
Owes == \E p \in Procs : h[p].active \/ h[p].state = "closing"

\* Each place is what was asked for, and stays open; no end that was made for
\* the child or its parent is left elsewhere.
PlacedAsAsked ==
  hist = "runs" =>
    /\ \A fd \in Places :
         (fd < 3 \/ pending.meant[fd] # Null) => kernel[fd] = Obj(pending.meant[fd], FALSE)
    /\ \A n \in FdNumbers \ Places : kernel[n] = Shut \/ kernel[n].obj[1] = "own"

\* A failure is told.
ChildSane == PlacedAsAsked /\ hist # "lost"
=============================================================================
