------------------------------- MODULE Signal -------------------------------
(***************************************************************************)
(* Signal handles (win/signal.c).  The console's control thread dispatches *)
(* a signal to every handle that watches it: for each of them it exchanges *)
(* pending_signum and, if that was 0, posts the handle's request.  The     *)
(* loop's thread starts, stops and closes handles, under the same lock,    *)
(* and handles the requests, without it.                                   *)
(***************************************************************************)
EXTENDS UvHandle

CONSTANTS
  SignalHandles,     \* the handles of one loop
  MaxSignalCalls,    \* bound: calls the user makes
  MaxRaised,         \* bound: signals the console raises
  ClosesSignaled     \* the user closes a handle in its callback when another
                     \* signal has been posted for it

VARIABLES
  h,          \* the handles
  tree,       \* [watchers: uv__signal_tree, refs: control handler references]
  dispatch,   \* the control thread: at, the signal, the handles it has to visit
  port,       \* posted requests, in order
  pc,         \* where the loop's thread is
  cb,         \* the handle whose callback runs, or none
  calls
vars == <<h, tree, dispatch, port, pc, cb, calls>>

\* SIGINT comes from the console control handler, SIGWINCH from tty.c.
Signals == {"SIGINT", "SIGWINCH"}
Console == {"SIGINT"}

Init ==
  /\ h = [s \in SignalHandles |->
             [flags |-> {}, activecnt |-> 0, reqs_pending |-> 0, active_reqs |-> {},
              active_handles |-> 0, signum |-> "0", pending_signum |-> "0"]]
  /\ tree = [watchers |-> {}, refs |-> 0]
  /\ dispatch = [at |-> "idle", signum |-> "0", todo |-> {}, raised |-> 0]
  /\ port = <<>> /\ pc = [at |-> "loop"] /\ cb = "none" /\ calls = 0

-----------------------------------------------------------------------------
(* The control thread.  It holds uv__signal_lock from its first step to    *)
(* its last.                                                               *)

LockFree == dispatch.at = "idle"

\* uv__signal_dispatch: the control handler is only called while it is set.
uv__signal_dispatch(signum) ==
  /\ LockFree
  /\ dispatch.raised < MaxRaised
  /\ signum \in Console => tree.refs > 0
  /\ dispatch' = [at |-> "next", signum |-> signum, raised |-> dispatch.raised + 1,
                  todo |-> {s \in tree.watchers : h[s].signum = signum}]
  /\ UNCHANGED <<h, tree, port, pc, cb, calls>>

ExchangeAlways(s) == TRUE

\* The exchange tells whether the request is on its way already.
NotPosted(s) == h[s].pending_signum = "0"

DispatchExchange ==
  /\ dispatch.at = "next"
  /\ \E s \in dispatch.todo :
       /\ h' = [h EXCEPT ![s].pending_signum = dispatch.signum]
       /\ dispatch' = [dispatch EXCEPT !.todo = @ \ {s},
                                       !.at = IF NotPosted(s) THEN s ELSE "next"]
  /\ UNCHANGED <<tree, port, pc, cb, calls>>

DispatchPost ==
  /\ dispatch.at \in SignalHandles
  /\ port' = Append(port, dispatch.at)
  /\ dispatch' = [dispatch EXCEPT !.at = "next"]
  /\ UNCHANGED <<h, tree, pc, cb, calls>>

DispatchDone ==
  /\ dispatch.at = "next" /\ dispatch.todo = {}
  /\ dispatch' = [dispatch EXCEPT !.at = "idle"]
  /\ UNCHANGED <<h, tree, port, pc, cb, calls>>

-----------------------------------------------------------------------------
(* The loop's thread.                                                      *)

At(p) == cb = "none" /\ pc.at = p

User(s) ==
  /\ pc.at = "loop" \/ (pc.at = "req_end" /\ cb # "none")
  /\ ~Is(h[s], "CLOSING")
  /\ calls < MaxSignalCalls /\ calls' = calls + 1
  /\ UNCHANGED cb

\* Under the lock: uv__signal_unregister and RB_REMOVE.
Unwatch(s) ==
  [watchers |-> tree.watchers \ {s},
   refs |-> tree.refs - Bit(h[s].signum \in Console)]

\* What uv_signal_stop makes of a handle.
Stopped(s) == uv__handle_stop([s EXCEPT !.signum = "0"])

uv_signal_stop(s) ==
  /\ User(s)
  /\ h[s].signum # "0"
  /\ LockFree
  /\ tree' = Unwatch(s)
  /\ h' = [h EXCEPT ![s] = Stopped(@)]
  /\ UNCHANGED <<dispatch, port, pc>>

\* uv_signal_start: a handle that watches another signal is stopped first,
\* and the lock is free between the two.
uv_signal_start(s, signum) ==
  /\ User(s)
  /\ h[s].signum # signum
  /\ IF h[s].signum = "0" THEN UNCHANGED <<h, tree>>
     ELSE /\ LockFree
          /\ tree' = Unwatch(s)
          /\ h' = [h EXCEPT ![s] = Stopped(@)]
  /\ pc' = [at |-> "start", handle |-> s, signum |-> signum, back |-> pc]
  /\ UNCHANGED <<dispatch, port>>

\* The second half: register, which SetConsoleCtrlHandler may refuse, insert.
StartWatching ==
  /\ pc.at = "start"
  /\ LockFree
  /\ LET s == pc.handle
         first == pc.signum \in Console /\ tree.refs = 0
     IN  \/ /\ tree' = [watchers |-> tree.watchers \cup {s},
                        refs |-> tree.refs + Bit(pc.signum \in Console)]
            /\ h' = [h EXCEPT ![s] = uv__handle_start([@ EXCEPT !.signum = pc.signum])]
         \/ first /\ UNCHANGED <<tree, h>>
  /\ pc' = pc.back
  /\ UNCHANGED <<dispatch, port, cb, calls>>

\* ReqEnd wants the endgame of a handle that was closed in its callback,
\* whether or not a signal was posted meanwhile.
PostedInCallback(s) == pc.at = "req_end" /\ pc.handle = s /\ h[s].pending_signum # "0"

EndgameUnlessPending(s) == IF s.pending_signum = "0" THEN uv_want_endgame(s) ELSE s

uv_signal_close(s) ==
  /\ User(s)
  /\ ClosesSignaled \/ ~PostedInCallback(s)
  /\ IF h[s].signum # "0" THEN LockFree /\ tree' = Unwatch(s) ELSE UNCHANGED tree
  /\ h' = [h EXCEPT ![s] = EndgameUnlessPending(uv__handle_closing(Stopped(@)))]
  /\ UNCHANGED <<dispatch, port, pc>>

\* uv_process_signal_req: the handle may have been stopped, or started for
\* another signal, since the signal came.
uv_process_signal_req ==
  /\ At("loop")
  /\ port # <<>>
  /\ LET s == Head(port)
     IN  /\ h' = [h EXCEPT ![s].pending_signum = "0"]
         /\ cb' = IF h[s].pending_signum = h[s].signum THEN s ELSE "none"
         /\ pc' = [at |-> "req_end", handle |-> s]
  /\ port' = Tail(port)
  /\ UNCHANGED <<tree, dispatch, calls>>

ReqEnd ==
  /\ At("req_end")
  /\ h' = [h EXCEPT ![pc.handle] = IF Is(@, "CLOSING") THEN uv_want_endgame(@) ELSE @]
  /\ pc' = [at |-> "loop"]
  /\ UNCHANGED <<tree, dispatch, port, cb, calls>>

CallbackReturns ==
  /\ cb # "none" /\ pc.at \in {"loop", "req_end"}
  /\ cb' = "none"
  /\ UNCHANGED <<h, tree, dispatch, port, pc, calls>>

\* uv_signal_endgame, with its assertion on pending_signum.
uv_signal_endgame(s) ==
  /\ At("loop")
  /\ Is(h[s], "ENDGAME_QUEUED")
  /\ IF h[s].pending_signum = "0"
     THEN /\ h' = [h EXCEPT ![s] = uv__handle_close(Clear(@, {"ENDGAME_QUEUED"}))]
          /\ cb' = s /\ UNCHANGED pc
     ELSE pc' = [at |-> "aborted"] /\ UNCHANGED <<h, cb>>
  /\ UNCHANGED <<tree, dispatch, port, calls>>

UserCall ==
  \E s \in SignalHandles :
    uv_signal_stop(s) \/ uv_signal_close(s) \/ \E n \in Signals : uv_signal_start(s, n)

LoopStep == StartWatching \/ ReqEnd \/ CallbackReturns
DispatchStep == DispatchExchange \/ DispatchPost \/ DispatchDone
uv_process_endgames == \E s \in SignalHandles : uv_signal_endgame(s)

HandlerStep == LoopStep
ProcessReq == uv_process_signal_req
Endgame == uv_process_endgames
SystemStep == DispatchStep

Next ==
  \/ UserCall \/ LoopStep \/ uv_process_signal_req \/ uv_process_endgames
  \/ DispatchStep \/ \E n \in Signals : uv__signal_dispatch(n)

-----------------------------------------------------------------------------
(* Properties.                                                             *)

\* A handle with a pending signal has its request in the port, or about to
\* be posted, once; so pending_signum tells uv_signal_close when the handle
\* can go (signal.c:88-97, 324-346), and the assertion of uv_signal_endgame,
\* "assert(handle->pending_signum == 0)", holds (signal.c:351): it does not
\* when a handle ClosesSignaled.
PendingExact ==
  /\ pc.at # "aborted"
  /\ \A s \in SignalHandles :
       /\ Cardinality({i \in DOMAIN port : port[i] = s}) + Bit(dispatch.at = s)
            = Bit(h[s].pending_signum # "0")
       /\ Is(h[s], "CLOSED") => h[s].signum = "0" /\ h[s].pending_signum = "0"

\* The console control handler is set exactly while a handle needs it
\* (signal.c:136-177), the tree holds the started handles, and they are active.
ActiveExact ==
  /\ tree.watchers = {s \in SignalHandles : h[s].signum # "0"}
  /\ tree.refs = Cardinality({s \in tree.watchers : h[s].signum \in Console})
  /\ \A s \in SignalHandles : LoopKnows(h[s]) /\ (Is(h[s], "ACTIVE") <=> s \in tree.watchers)

\* What is promised and outstanding: the close callback, and the report of a
\* signal that the handle watches.
Owes ==
  \E s \in SignalHandles :
    \/ Is(h[s], "CLOSING") /\ ~Is(h[s], "CLOSED")
    \/ h[s].pending_signum # "0" /\ h[s].pending_signum = h[s].signum
=============================================================================
