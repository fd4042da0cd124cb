# A TLA+ model of libuv and the programs of this repository

The repository builds libuv 1.x for Windows with MinGW
(`src/src/libuv_works/libuv/libuv-1.x`; `libuv.cbp` compiles `src/*.c` and
`src/win/*.c`, assertions included) and ships programs that use it: a socket
client and a socket server class with the logger log4z, a SOCKS5 proxy and
demos. The sources of libuv's Unix backend come with it and are not part of
that build. This directory models the library on both systems and the programs.

Paths below are relative to `libuv-1.x/`, those of the programs to
`libuv_works/`, and the documents (`*.rst`) are those of `docs/src`.
`PROJECT.json` gives for the definitions the lines they translate (`map`; a small
helper falls under the lines of the definition that uses it), the runs, one
mutation per property that shows that the property can fail, the theorems, the
hazards and the findings.

    tlc -config Windows.cfg Components      # any run: a .cfg and its module
    tlapm TcpProofs.tla                     # proofs: also ThreadPoolProofs,
                                            # EventLoopProofs, Barrier, MCSync,
                                            # ComponentProofs, ProgramProofs
                                            # and Components

## 1. Inventory

| component | state it keeps | operations | what is hard |
|---|---|---|---|
| thread pool, `uv_cancel` (`src/threadpool.c`) | queue `wq`, `idle_threads`, a mutex and a condition variable; per loop `wq`, `wq_mutex`, `wq_async` | `uv_queue_work`, `worker`, `uv_cancel`, `uv__work_done`, `cleanup` | workers and loop threads under two locks; one wake-up for many results; cancelling a request a worker is taking |
| event loop (`win/core.c`, `win/req-inl.h`, `win/handle-inl.h`, `uv-common.h`) | active count, pending requests, endgame list, stop flag, time | `uv_run`, `uv_poll`, `uv_backend_timeout`, `uv_ref`, `uv_unref`, `uv_close`, `uv_stop`, `uv_loop_close` | callbacks call back into the loop at any point; the order of phases; sleeping on the right thing |
| timers (`win/timer.c`) | a red-black tree by due time and start order | `uv_timer_start`, `stop`, `again`, `set_repeat`, `uv_process_timers` | restarting in callbacks; overflow of times and of the `DWORD` timeout |
| idle, prepare, check (`win/loop-watcher.c`) | linked lists and one iterator each | start, stop, invoke | the list changes under the iterator |
| async handles (`win/async.c`) | `async_sent`, one overlapped request | `uv_async_send` from any thread, the wake-up, close | exchange and post against clear and callback |
| TCP (`win/tcp.c`, `win/stream.c`) | flags, `reqs_pending`, `activecnt`, the read, write, connect, shutdown and accept requests | connect, read, write, shutdown, listen, accept, sharing, close, the completion handlers, the endgame | requests in the kernel outlive calls; synchronous outcomes; several accept requests at once |
| synchronization (`win/thread.c`) | the fields of `uv_once_t`, `uv_rwlock_t`, `uv_cond_t`, `uv_barrier_t` | lock, try, unlock, wait, signal, broadcast | threads between any two operating system calls |
| named pipes (`win/pipe.c`) | as TCP, the instances of a server, a queue of IPC frames, an end-of-file timer, a reading thread | bind, listen, accept, connect, read, write, sending sockets, shutdown, close | threads blocked in `ReadFile`; the timer against the peer; frames in pieces |
| UDP (`win/udp.c`) | receive and send requests | bind, send, start and stop receiving, membership, close | restarting from the callback of a receive |
| poll handles (`win/poll.c`) | two requests with submitted and masked events | start, stop, close | the older request reports after the newer one |
| signals (`win/signal.c`) | a tree of handles under a lock, `pending_signum` per handle | start, stop, dispatch on another thread, close | a post between any two steps of the loop |
| child processes (`win/process.c`, `win/process-stdio.c`) | the wait and its handles, stdio, what `uv_spawn` computed | `uv_spawn`, kill, the exit, close | many ways to fail half-way; the wait's thread against close |
| file events and polling (`win/fs-event.c`, `src/fs-poll.c`) | a request and buffers; contexts that outlive a stop | start, stop, close, the callbacks | a callback in the middle of a batch; old contexts after a new start |
| file system requests (`win/fs.c`, `src/uv-common.c`) | what a `uv_fs_t` owns | every operation, cancel, cleanup, scandir's iteration | partial transfers; who frees what, on every path |
| terminals (`win/tty.c`) | the reading thread and its trap; the parser's state, the virtual window | line and raw reads, mode changes, writes | cancelling a read in another thread; sequences split over writes |
| Unix backend (`src/unix/*.c`) | timers, lists of watchers, an `eventfd`; watchers and `epoll`, write queues, queued descriptors, the child table, the signal pipe | the loop and its phases, streams, servers, UDP, files, processes, signals | sends between any two steps; events for descriptors closed in the same batch; a full table; signal handlers between any two steps |
| socket client and server (`libuv_socket/*/src/UVSocket.cpp`) | one handle, one write request and one buffer per connection, a table of clients | connect, send, start, close, callbacks | calls from threads that are not the loop's |
| SOCKS5 proxy (`libuv_sock5-proxy`) | two connections and timers per session, a parser | `do_next` and its states, kill, the relay | closing in any state; input in pieces of any size |
| log4z (`log4z-master/log4z.cpp`) | a queue, a writing thread, files, settings | log, start, stop, set, update, roll | stop against log; limits of sizes and times |
| name resolution, address text, system information, demos | one blocking call, conversions | not modelled | |

How they interact: a handle or a request belongs to one loop and is used from
the loop's thread only. Other threads reach a loop through `uv_async_send`,
which posts the async handle's one overlapped request to the loop's completion
port; the pool announces finished work that way, and file requests run in the
pool. The poll moves completed requests to the loop's pending queue, the next
iteration runs their handlers, and handlers call the user, who may call
anything, `uv_close` included. A closing handle goes to the endgame list when
no request refers to it any more (`reqs_pending`), and its close callback is
the last thing that happens to it. So three counters carry the Windows library:
`active_handles` (does the loop live), `activecnt` (is the handle active) and
`reqs_pending` (may the handle be freed). On Unix a handle waits for its
descriptor to become ready instead of for a completion; the request queues and
the set of watched events take the place of the counters.

What makes each component correct:

- pool: a request runs or is cancelled, never both, and gets one callback with
  the right status; no worker sleeps while work waits; no result is left without
  a wake-up; a closed loop is not touched again;
- loop: it lives exactly as long as an active referenced or a closing handle
  does, it calls each watcher once per iteration, never sleeps past a timer,
  closes what was closed, and sees every send;
- every kind of handle: its counters and lists say what is in flight; what it
  waits for was asked of the system; nothing is told after it was stopped or
  closed; closes and requests end;
- what computes: bytes keep their order and place, nothing is freed twice or
  lost, strings mean to the reader what the writer meant;
- primitives: a writer is alone, rounds of a barrier do not mix, no wake-up is
  lost, initialization happens once and before anyone returns.

`PROJECT.json` lists under `hazards` what of this a test would hardly reach,
each at its line and with the properties that cover it.

## 2. Modules

| module | models | state and actions |
|---|---|---|
| `WorkPool` | the promise of `uv_queue_work` and `uv_cancel` | a phase per request: free, queued, running, finished or cancelled |
| `ThreadPool`, `MCThreadPool`, `ThreadPoolProofs` | `threadpool.c` and the part of `async.c` and `core.c` it relies on; instances; proofs | below |
| `EventLoop`, `EventLoopProofs` | `core.c`, `timer.c`, `loop-watcher.c`, `async.c`, handle and request bookkeeping | below |
| `TcpStream`, `TcpServer`, `MCTcp`, `TcpProofs` | a connection and a listening handle; both together, one side per behaviour; proofs | below |
| `RwLock` | `uv_rwlock_t`, for any number of threads | `pc` of each thread, the count, its critical section, the semaphore |
| `Barrier`, `CondVar`, `Once`, `MCSync` | `uv_barrier_t` with its proofs, the condition variable used where Windows has none, `uv_once`; all four primitives, one at a time, with the proofs of the others | every step another thread can see |
| `UvHandle` | `uv-common.h`, `handle-inl.h`, `req-inl.h` | flags and counters as functions of a handle; the Windows handles below extend it |
| `PipeConn`, `PipeServer`, `PipeRead` | `pipe.c`: a connection, a server, the thread that reads | frames of an IPC pipe are a queue of units; the thread's steps are its own |
| `Udp`, `PollHandle`, `Signal`, `FsPoll`, `FsEvent` | the files of these names | requests with the system, requests that came back, the place in the handler |
| `TtyRead`, `TtyScreen` | `tty.c`: reading with its cancelling; what writing does to the screen | console records; bytes by class, the caret, the virtual window |
| `Process` | `process.c`, `process-stdio.c`: what `uv_spawn` acquires and gives back, exit and close; the strings it builds | one outcome per system call; one computation per behaviour |
| `FsReq`, `FsOps` | `fs.c`, `uv-common.c`: the life of a request; what the operations compute | what is allocated; loops over buffers and entries |
| `UnixStream`, `UnixServer`, `UnixSelect` | `unix/stream.c` with `tcp.c` and `pipe.c` | write queues, accepted and queued descriptors, the select thread |
| `UnixLoop` | `unix/core.c`, `timer.c`, `loop-watcher.c`, `async.c`, `loop.c` | the phase of `uv_run` and the list it passes over, handles and timers, the `eventfd`, the threads that send |
| `UnixIo` | `unix/core.c`, `linux-core.c`, `poll.c` | what is wanted of a descriptor, what epoll knows, the batch |
| `UnixFs`, `UnixUdp` | `unix/fs.c`, `unix/udp.c` | as above |
| `UnixProcess` | `unix/process.c` on both sides of the fork | the table of children; the child's descriptors |
| `UnixSignal` | `unix/signal.c` | the tree, the lock that is a byte in a pipe, handlers on any thread |
| `SockClient`, `SockServer` | the two `UVSocket.cpp` | the loop's thread and the user's |
| `SocksSession` | `client.c`, `s5.c`, `server.c` of the proxy | the session's state, finalizers to come; the parser with its input in pieces (`Parse...`) |
| `LogQueue`, `LogFiles` | `log4z.cpp` | the queue and threads; the files, and the text of the configuration (`Config...`) |
| `ComponentProofs`, `ProgramProofs` | | the proofs of the components that section 6 lists: those of the Windows loop; those of the Unix backend and the programs |
| `Components` | all modules from `PipeConn` on, for TLC, and what is proved of them | one component per behaviour, below |

**ThreadPool.** A thread of the model is a worker or a loop thread (and, where
`cleanup()` is compiled, the main thread). A critical section is two steps,
taking the lock and the body with the release, so that every order of lock
acquisitions is explored; the exchange of `async_sent` and the post of the packet
are separate steps. `wq` and `loop_wq` are sequences, `linked` is `QUEUE_EMPTY`
as `uv_cancel` sees it, `work` the function pointer that is a function, NULL or
`uv__cancelled`. `lpc` follows a loop thread through `uv_queue_work`,
`uv_cancel` and `uv__work_done`, `wpc` a worker through `worker()`. The user may
submit and cancel between iterations and from `after_work_cb`. `uv_loop_close`
stands for the close of a loop without handles of its own. `nthreads` is unsigned
in the code, so a negative environment value becomes the maximum.

**EventLoop.** `pc` is the phase of `uv_run`, `cb` the handle whose callback
runs. One action per API call (enabled in a callback and between runs), one per
step of a phase, and one for another thread's post. The tree of timers is the
sequence of its elements in order: `RB_INSERT` with the next `start_id` puts a
timer after all those due no later. `uint64_t`, `int64_t` and `DWORD` are scaled
to `TimeMax`, `Int64Max` and `DwordMax`, in that order of size, so the clamps and
casts behave as in C. `uv_poll` (one packet) and `uv_poll_ex` (many) differ in
`MaxBatch`. `unseen`, `progress`, `zeroStarted` and `todo` are history variables
that only properties read.

**TcpStream.** The kernel is a set of overlapped requests; the completion port
and the loop's pending queue are one queue. Starting an operation may end at once
without a completion packet, wait in the kernel, be refused, or fail in
`RegisterWaitForSingleObject` on an emulated port (`SyncResults`). Each
completion handler is split at the callbacks it makes, because the user may call
anything there: reading is `uv_process_tcp_read_req`, `ReadLoop` (alloc_cb),
`Recv`, `ReadDone`, `HandlerEnd`. Buffers, byte counts and addresses are left out.

**TcpServer.** Accept requests are numbered; each is with the kernel, in the
queue, waiting in `pending_accepts`, or at rest. A failing assertion ends the
program, so it is a guard in the model, and a separate property asks whether it
can fail.

**Primitives.** A call of the operating system is atomic; everything between two
of them may interleave. In `CondVar`, what happens inside `waiters_count_lock` is
one step; the user's side is the usual loop around a condition. `MCSync` explores
the primitives one at a time: they share no state, so their interleavings add
nothing.

**The modules of `Components`** share one frame. `h` is the handle or object of
the code; `kernel` the system, its threads and the peers; `pending` the requests,
messages or watchers that wait for the loop; `pc` the running handler, split at
the callbacks it makes; `cb` the callback; `calls` the bounds on what the user
does; `hist` what only properties read. (`Signal` and `FsPoll` rename some of
them.) A handler's step is one action named for the function of the code, and a
callback is a state from which the user's calls, `UserCall`, are enabled besides
`CallbackReturns`. An assertion that fails is the state "aborted" or a mark in
`hist`, and the properties say that it is not reached. Each module states, as far
as it has the notion, `PendingExact` and `ActiveExact` (the counters), `Armed`,
`Sane`, `Silent` and `Owes`, and names its classes of steps for fairness:
`HandlerStep`, `SystemStep`, `ProcessReq`, `Endgame` and, on Unix, `RunPending`,
`PollStep`, `CloseStep`. `Components` is their union over the variable `part`.
The components meet only in the loop, of which each module carries the part it
uses: handling pending requests, then endgames (Windows), or pending watchers,
polling, closing (Unix); the phases themselves are the subject of `EventLoop`.
Therefore interleaving two components would add no behaviour to either, and they
are explored one at a time.

Modules that compute (the strings of `Process`, `FsOps`, the parser of `SocksSession`, `LogFiles`,
`TtyScreen`, the loops of `UnixFs`) are the code's loops as folds and recursive
functions, compared with a definition of what the result means: a command line
is split again by the rules of the child's run-time, a request is encoded and has
to be found by the parser, a configuration is laid out as text and has to be read
back.

The operating system (completion port, `AcceptEx`, AFD, pipes, `epoll`,
semaphores, signals) is modelled from how the code uses it. Calls a user must not
make (a second `uv_queue_work` with a request in use, a start on a closing handle)
are not made.

## 3. Runs

| run | configuration | shows |
|---|---|---|
| `pool` | one loop, 3 requests, 1 or 2 workers, each request submitted, cancelled or submitted again (2 calls), 1 spurious wake-up | `TypeOK`, `NeverRunsCancelled` (the `abort` in `uv__cancelled` is unreachable), `WorkConserving`, `ResultsAnnounced`, and the refinement `ImplementsWorkPool` |
| `pool_ends` | two loops with a request each, the process may exit, pool sizes from environment values 0 and -1 | `ClosedLoopUnused`; `Delivered` and `CleanupReturns` under fairness |
| `loop_handles` | a timer, an async handle, two idle watchers, 4 calls | `ActiveCount`, `InvokesEachOnce`, `ClosedIsForgotten` |
| `loop_timers` | two timers, a prepare and a check watcher, modes `DEFAULT` and `ONCE`, timeouts at the edges of the integer ranges, 3 calls | `TypeOK` (the timeout fits a `DWORD`), `Registered`, `SleepsToFirstTimer` |
| `loop_lives` | a timer and an async handle, 4 calls, a system resume | `ClosesEventually`, `SendsAreSeen` under fairness |
| `tcp` | a connection with two writes, connect, read and shutdown and all synchronous outcomes, 5 calls; or a server with three accept requests, 6 calls | `CountersExact`, `Armed`, `OneAtATime`, `Silent`; `Pays` under fairness |
| `sync` | three threads (and a waker); two rounds of the barrier, two calls of `uv_once` each, one broadcast to three waiters, three signals to one | `Exclusive`, `SemaphoreHeld`, `Together`, `OnceAndBefore`; `AllGoOn` under fairness; no deadlock |
| `windows` | the fourteen Windows components of section 2, one per behaviour; and, to even out the runs, the files and the configuration of log4z | `CountersExact`, `Armed`, `Sane`, `Silent`; `Pays` under fairness |
| `unix` | seven of the ten Unix components: the loop, streams, servers, the select thread, UDP, processes, signals | the same |
| `apps` | client, server, SOCKS5 session and parser, the queue of log4z; and, to even out the runs, the other three of the Unix backend (`ux_io`, `ux_fs`, `ux_child`) | `CountersExact`, `Armed`, `Sane`; `Pays` under fairness |
| `pool_close_assert` | one loop, 2 requests | violated: finding 1 |
| `server_accept_assert` | two accept requests, 5 calls | violated: finding 2 |

The five properties of `tcp`, `windows`, `unix` and `apps` ask the same question
of every component, and each module answers it in its own terms:

- `CountersExact`: what the code counts is what is in flight. A request counted
  twice means a handle that never closes; one not counted, memory that is used
  after it was freed.
- `Armed`: whoever waits for something has what will end the wait, whatever the
  callbacks did: a read, an accept request, a registered wait, a watched
  descriptor, a thread to be woken.
- `Sane`: what is done and told is right, and nothing is freed twice, used after
  it was freed, or lost.
- `Silent`: nothing is told after the call that ends it.
- `Pays`: `Owes ~> ~Owes`; every close, request and wait ends.

### Bounds

Every bound is a constant with a comment, and its value is in the `.cfg`: calls
of the user, spurious wake-ups, failures of the system, data and connections that
arrive, the last instant of the clock. They are the number of things the
*environment* does; what the code does in answer is not bounded. Three requests
on two workers are enough for a request to be queued behind two that run,
cancelled there, and submitted again. Four loop calls (initializations are free)
are enough to start, stop or unreference, close and start something else in the
middle of an invocation. Five calls on a connection hold a connect, a read, a
write, a shutdown and a close in every order; six on a server a listen, a change
to a single accept, accepts of all three requests and a close. Three threads at a
barrier leave one that is fast, one that is slow and one that is the last. In
`Components` three or four calls hold a start, a stop and a start again, and a
close, in and between callbacks; sizes of the code are scaled so that their limit
is reached: two descriptors in a batch, two instances of a pipe server, two
datagrams or reads in one event, a queue that grows by two, three descriptors in a
full table, a room of two messages in the signal pipe, a screen of three rows and
two columns, `unsigned int` sizes modulo `Wrap` in the log's files, an `INT_MAX` of 1 and a
largest `uint64_t` of 9 for the timers of the Unix loop. Strings are
over the characters the code distinguishes, up to a length at which each pair of
neighbours occurs.

Symmetry is used for requests of one loop (`pool`), which the code does not tell
apart, and in no run with a temporal property of the liveness kind.

`sync` is checked for deadlock, with a stuttering step once all threads have made
their calls. The other configurations say `CHECK_DEADLOCK FALSE`: when the user
has made all calls and nothing is left to do, the program rests, as it may.

### Fairness

- Threads that can run do run: weak fairness of each worker, of each loop thread
  inside a call or with something to deliver, of `cleanup` (`ThreadPool`), of the
  loop's own steps and of a send that has exchanged the flag (`EventLoop`), of
  every handler that has begun and of the system's threads (`HandlerStep`,
  `SystemStep`).
- A user who wants callbacks runs the loop: weak fairness of `uv_run` while the
  loop is alive. Without that nothing is promised.
- An iteration of the loop handles the requests it finds and then the endgames,
  so each of the two happens again and again. Where the two can take turns in
  being enabled one of them needs strong fairness: `Endgame` in `MCTcp`,
  `ProcessReq` (Windows) and `RunPending` (Unix) in `Components`; the phases of
  `uv_run` justify it. Everything else is weakly fair.
- The kernel completes writes and gives back the requests of a closed socket, the
  console and the other threads answer (`SystemStep`); a TCP peer does not fill
  every read buffer for ever (strong fairness of the end of the receive loop).
  Reads and accepts may stay with the kernel for ever.
- Windows queues waiters of semaphores and critical sections: strong fairness per
  thread in `MCSync`. Timeouts are never relied on, but for the SOCKS5 session,
  where they are what ends it. A user never has to make a call.

In `EventLoop`, `ClosesEventually` excepts a loop asleep with the endgame queued, and
in `UnixLoop` `Owes` does the same for handles to be closed; see `NoSleepWhileClosing`
in section 5 for why that can happen.

### Disciplines of the user and faults

Where the code mishandles a legal but unusual sequence of calls or a failure, a
constant keeps the environment away from it, so that the runs can say what holds
otherwise. Section 5 lists every such constant with the value that lets the thing
happen, and what then fails. No guard of an action stands for such a discipline
without a constant; what an action leaves out of its code is in section 7.

## 4. Findings

1. **A wake-up outlives its results** (`pool_close_assert`). `async_sent` is
   cleared before `uv__work_done` takes the lock. A worker that finishes in
   between has its result delivered at once, while its wake-up stays in the port;
   `uv_loop_close` finds no active request and aborts in
   `assert(!loop->wq_async.async_sent)` (`win/core.c:304`).
2. **uv_accept can abort** (`server_accept_assert`). One failed accept request
   ends the listening, but connections the others brought are still announced;
   accepting one runs into the assertion at `win/tcp.c:403`, although
   `stream.rst:128` guarantees success.

## 5. What the runs keep away

First the promises that a property of a module states and the code does not keep
under the constants of the runs. `FurtherPromises` in `Components` collects those
of its parts; the others are checked by giving a module's configuration the
property and the values shown.

| property | module, values | what happens |
|---|---|---|
| `NoSleepWhileClosing` | `EventLoop`, as in `LoopLives.cfg` | `uv_backend_timeout` does not look at the endgame list, so a handle closed from a timer, idle or prepare callback waits for its close callback through a full sleep (`win/core.c:342`; `design.rst:87` says the timeout is then 0) |
| `ZeroTimerWaits` | `EventLoop`, as in `LoopTimers.cfg` | a timer started with timeout 0 in a timer callback fires in the same iteration (`win/timer.c:187`; `timer.rst:41`) |
| `RunOnceMakesProgress` | `EventLoop`, `FairSpec`, `Modes = {"ONCE"}`, no timers, an async handle | `UV_RUN_ONCE` returns without a callback: the poll only queues requests (`win/core.c:501`, comment at 507) |
| `CancelledByClose` | `TcpStream` | a connect that completed before `uv_close` is reported with `UV_ENOTSOCK` instead of `UV_ECANCELED` (`win/tcp.c:1175`; `handle.rst:137`) |
| `DestroyedIsUnused` | `Barrier`, `Destroyer = "serializer"` | the serializer of `threading.rst:150` destroys a barrier others still use (`win/thread.c:655`) |
| `NoOverflow` | `TtyScreen` | an argument of an escape sequence that does not fit 16 bits is cut off before the check for overflow (`win/tty.c:1822`) |
| `ReadOnlyCannotWrite` | `FsOps` | `O_APPEND` without a writing mode opens the file for appending (`win/fs.c:418`) |
| `NoSleepWhileClosing` | `UnixLoop` | the same on Unix: `uv_backend_timeout` does not look at `closing_handles` (`unix/core.c:300`; `design.rst:87`) |
| `RunOnceMakesProgress` | `UnixLoop` | `UV_RUN_ONCE` returns without a callback: an `eventfd` written for a send that an earlier wake-up has already shown ends the poll (`unix/core.c:329`, comment at 354) |
| `ActiveOnlyIfBusy` | `UnixStream` | a stream stays active after its last write or a stop (`handle.rst:109`) |
| `WatchedOnlyIfReading` | `UnixStream` | reading restarted in the callback of the end of file stays watched though `READING` is cleared after it (`unix/stream.c:1001`) |
| `TryTells` | `UnixStream` | `uv_try_write` answers `UV_EAGAIN` where the write failed for good (`stream.rst:197`) |

Then the constants that keep a fault or an unusual use away. With the value shown,
and the part alone in `Parts`, the properties named fail.

| part: constant and value | fails | what happens |
|---|---|---|
| `TcpStream`: `RestartsRefused = TRUE` | `QueuedOnce`, `CountersExact` | a read that `WSARecv` refused at once does not look pending; stop and start queue the same request again (`win/tcp.c:548`, against the comment at `win/req-inl.h:97`) |
| `TcpStream`: `AllocCalls = TRUE` | `Silent`, `CountersExact` | a `uv_read_stop` in `alloc_cb` does not keep `read_cb` away (`win/tcp.c:1009`; `stream.rst:144`) |
| `TcpServer`: `ListensAgainWhen` not empty | `Armed`, `CountersExact` | a `uv_listen` after all accepts failed queues nothing (`win/tcp.c:606`); a second one counts the handle twice (601) |
| `TcpServer`: `"wait_refused"` in `AcceptResults` | `CountersExact`, `Pays` | a failed `RegisterWaitForSingleObject` counts the request twice (`win/tcp.c:462`) |
| `CondVar`: two broadcasts (`MaxGen = 2`) | `AllGoOn` | the last waiter of the first broadcast resets the event of the second (`win/thread.c:542`, comment at 523) |
| `udp`: `RestartsReceive` | `CountersExact` | after a `WSARecv` that was refused at once `READ_PENDING` stays clear while the request is in the queue: a stop and a start, or the handler's own queueing after a start in `recv_cb` was refused, insert the same `recv_req` and count it a second time (`win/udp.c:325-330`, 356-362, 560-565; comment at `win/req-inl.h:97`) |
| `signal`: `ClosesSignaled` | `CountersExact`, `Pays` | a signal posted for a handle while its callback runs, and a close in that callback: the handler queues the endgame although the request is in the port again, so `assert(handle->pending_signum == 0)` at `win/signal.c:351` fails, or, if the dispatch is between its exchange and its post, the handle is closed under it (`win/signal.c:330`) |
| `fs_event`: `StopsInCallback` | `Sane`, `Silent` | the loop over the batch goes on in a buffer that the stop freed (`win/fs-event.c:505`) |
| `fs_event`: `RestartsBusy` | `CountersExact`, `Sane`, `Silent` | the new start uses the request of the old one (`win/fs-event.c:129`) |
| `fs_event`: `DirFails` | `Sane` | a failed start on a directory frees what belongs to the caller, or twice |
| `pipe`: `UsesConnecting` | `CountersExact`, `Silent`, `Pays` | reading, shutting down or closing before the connect has ended |
| `pipe`: `BareSockets` | `Armed`, `Pays` | a frame with a socket and no data ends the reading (`win/pipe.c:1585`) |
| `pipe_server`: `ListensAgain` | `CountersExact`, `Armed`, `Pays` | a second `uv_listen` queues every request again (`win/pipe.c:914`) |
| `pipe_server`: `ClosesUnbound` | `Armed` | after `uv_pipe_pending_instances`, a close without a bind reads through a NULL `accept_reqs` (`win/pipe.c:758`) |
| `pipe_server`: `AcceptsClosing` | `Armed` | a connection accepted from a closed server has no pipe |
| `pipe_read`: `ShutsDownReading` | `Armed` | a shutdown pauses a read that nobody starts again |
| `pipe_read`: `ClosesReading` | `Pays`, `CloseFindsNoRead` | the pipe is closed while the thread is between two steps of its read, and stays there |
| `pipe_read`: `DupFails` | `Armed` | without its thread's handle the read cannot be paused |
| `tty`: `"read_fails"`, `"raw_wait"` | `CountersExact`, `Armed`, `Pays` | a read or wait that fails leaves `READ_PENDING` and the counts (`win/tty.c:664`) |
| `tty`: `"mid_key"`, `"mode_race"` | `Armed`, also `CountersExact` or `Pays` | stopping or changing the mode in the middle of a key's bytes, or while a read of the other mode is out (`win/tty.c:1003`) |
| `tty`: `"cancel_fails"`, `"close_reading"` | `Pays`, also `Armed` | the Enter that wakes the thread cannot be typed; the close closes the console before it stops reading (`win/tty.c:2165`) |
| `tty_screen`: `"io_fails"` | `NoIoAfterError` | output goes on after an error (`win/tty.c:1642`) |
| `process`: `ChecksHealth` | `Sane` | signal 0 overwrites `exit_signal` (`win/process.c:1223`) |
| `process`: `ReusesPipes` | `CountersExact` | a pipe passed again after a failed `uv_spawn` runs into an assertion (`win/process-stdio.c:335`) |
| `cmdline`: `LoneQuotes` | `NoUnderflow` | an entry of PATH that is one quote mark has length -1 (`win/process.c:423-430`) |
| `cmdline`: `MixedCase` | `Sane` | a variable `Path` is sorted as PATH and not found (`win/process.c:820-833`) |
| `fs_req`: `"access_read"` | `CountersExact` | `uv_fs_access` overwrites the flag that frees the path (`win/fs.c:2405`) |
| `fs_req`: `"stops_at_last"`, `"next_after_end"` | `CountersExact` | a clean-up before the last entry was fetched, or another fetch after the end, frees an entry twice or not at all (`src/uv-common.c:502`, 519) |
| `fs_req`: `"readonly_stuck"` | `CountersExact` | an unlink that fails after clearing the attribute leaves the file writable (`win/fs.c:723-752`) |
| `fs_ops`: `"short_reads"`, `"short_writes"` | `Sane` | short transfers leave gaps in buffers or lose bytes (`win/fs.c:582`, 1345) |
| `ux_loop`: `"init_fails"` | `Sane` | a `uv_loop_init` that fails after the poller was opened leaves its descriptor open (`unix/loop.c:95-107`) |
| `ux_stream`: `"shutdown_connecting"` | `Pays` | a shutdown before the connect has ended is not told if that fails |
| `ux_stream`: `"sends_handles"` | `Sane` | a partial write sends the handle again with the rest (`unix/stream.c:789-830`) |
| `ux_server`: `"accepts_busy"` | `Armed`, `Pays` | accepting into a stream in use loses the connection |
| `ux_server`: `"spare_lost"` | `Pays` | when the spare descriptor cannot be opened again, connections wait for ever (`unix/stream.c:481-499`) |
| `ux_io`: `"stops_in_batch"` | `Sane` | a poll handle closed in a callback gets the events of a new owner of its descriptor: `uv_poll_stop` does not invalidate them (`poll.rst:27`) |
| `ux_fs`: `"short_calls"`, `"interrupts_many"`, `"zero_lengths"`, `"cancels"` | `Sane` | a chunk that is not moved whole, an interruption after the first chunk, an empty buffer, a request that is cancelled: bytes lost or the buffers' array not freed (`unix/fs.c:878-913`) |
| `ux_udp`: `"blocks_at_once"` | `Armed`, `Pays` | a send that cannot be made at once is queued and not watched for (`unix/udp.c:430`; `udp.rst`) |
| `ux_udp`: `"closes_in_recv"`, `"binds_again"`, `"unbound_options"` | `Sane`, also `CountersExact` and `Pays` | a close in a receive callback with sends waiting, a second bind that fails and closes the watched socket (`unix/udp.c:342`), options on a handle of the other family |
| `ux_child`: `"closed_stdio"` | `Sane` | with 0, 1 or 2 closed in the parent, the child's own descriptors sit where its stdio goes |
| `ux_process`: `"closes_other"` | `Sane`, `Silent` | an exit callback closes another handle that has ended too and is in the list being told (`unix/process.c:61-111`) |
| `ux_process`: `"busy_stream"`, `"kills_late"` | `Sane` | a failed spawn closes the descriptors of streams that were already open; a kill after the child was collected reaches another process |
| `client`: `"sends_again"`, `"closes_busy"` | `CountersExact`, also `Sane` | the one write request is used again while it is under way; a close destroys the mutex a write needs (`UVSocket.h:171`) |
| `client`: `"sends_in_callback"`, `"bad_address"` | `Pays` | the loop's thread waits for a mutex only it can release; `connect` waits for a thread that has ended (`UVSocket.h:133`) |
| `client`: `"closes_sending"` | `CountersExact` | a close while a thread is about to lock or has just locked the write mutex in `send` destroys the mutex under it and leaves the write to a closed handle (`UVSocket.cpp:644`) |
| `client`: `"reconnects"`, `"closes_after_eof"` | `Sane`, also the others | the handle is initialized again while open, or closed twice after the end of file (`UVSocket.cpp:680-699`) |
| `server`: `"thread_sends"`, `"sends_again"`, `"accept_fails"`, `"restarts"` | `Sane` | the loop deletes the client a thread is sending to, one request for two sends, a handle freed while it closes, a second listen on an open handle (`UVSocket.cpp:222-257`) |
| `socks`: `"times_out_early"` | `Sane` | the idle timer of a connection expires in a state of the handshake: the function of that state asserts that its request is done, and the proxy aborts (`client.c:212`, 269, 292; the assertions are part of the model, which is that of a build with them) |
| `socks`: `"times_out_lookup"` | `FreedLast` | the idle timer expires during the lookup of a name, which looks like a lookup that failed: the session is ended and freed with the lookup still on the pool, whose callback then uses it (`client.c:375-383`, 585-592) |
| `socks`: `"connect_fails"` | `Pays` | a connect that fails at once after a lookup is killed as if the lookup were still to end, so one finalizer is waited for that never comes and the session is never freed (`client.c:422-425`, 531-534); no assertion fails |
| `socks`: `"timer_status"`, `"completes_first"` | `Sane` or `Pays` | assertions of states in which a status, or a completion before the close, was not thought of (`client.c`) |
| `socks_parse`: `"zero_lengths"` | `Sane` | a length of zero makes the parser take one byte more than there is (`s5.c`) |
| `log_queue`: `"logs_at_stop"` | `Armed`, `Pays` | a message pushed after the writing thread quit is never written (`log4z.cpp:1447`, 1509) |
| `log_queue`: `"restarts"` | `Sane` | a start after a stop: the thread of the first start has disabled every logger when it quit, so that what is logged is dropped (`log4z.cpp:1406-1427`) |
| `log_queue`: `"sets_behind"`, `"updates_at_stop"`, `"slow_start"` | `Sane` | a setting read back before it took effect, a configuration read while stopping, a second thread started when the first is late |
| `log_files`: `"late_messages"`, `"closes_in_minute"`, `"write_fails"`, `"limit_wraps"` | `Sane` | older messages reopen an old file (which `KeepsOpen` also sees removed while open), a file opened again restarts its count, a failed write moves to the next file early, a limit of 4096 MB wraps to 0 (`log4z.cpp:1685-1751`) |
| `log_config`: `"same_sum"`, `"reserves"`, `"too_many"` | `Sane` | two texts of one checksum (`log4z.cpp:1286`), a reserve time that is read and not set (752, 1325), more loggers than there is room for |

### Sensitivity

Besides the mutations of `PROJECT.json`, one per property, each of these changes a
definition to what a plausible mistake would make of it, and the property named
finds it; the mutated form stands before the definition.

| property | module: definition / mutated form |
|---|---|
| `CountersExact` | `TcpStream`: `ReadAgain`/`ReadAgainAlways`; `Udp`: `SendDone`/`SendCounted`; `Signal`: `NotPosted`/`ExchangeAlways`; `FsPoll`: `CutOff`/`CloseTimerAlways`; `Process`: `Unregistered`/`KeepsWait`; `FsReq`: `CleanupFrom`/`CleanupFromNext`; `UnixLoop`: `Moved`/`KeepsList`; `UnixIo`: `Stopped`/`KeepsQueued`; `SockClient`: `SendLocks`/`EntersAlways`; `SockServer`: `DeleteClient`/`KeepsInList` |
| `Armed` | `TcpServer`: `AllProcessed`/`AllProcessedLate`; `FsPoll`: `Reported`/`ReportedOnce`; `TtyRead`: `Releases`/`ReleasesAlways`; `UnixLoop`: `uv_backend_timeout`/`ForgetsPending` |
| `OneAtATime` | `TcpServer`: `SingleAccept`/`SingleAtOnce` |
| `Silent` | `TcpServer`: `MayUpdateContext`/`ContextNotNeeded` |
| `Sane` | `FsOps`: `Place`/`SamePlace`; `UnixIo`: `Wanted`/`AllEvents`; `UnixFs`: `Freed`/`FreesPathOnly`; `UnixProcess`: `StaysPut`/`ReplacedLate`; `UnixSignal`: `AllRead`/`ClosesAtOnce`; `SocksSession`: `can_access`/`AllowsMapped`; `LogFiles`: `Rolled`/`ForgetsDay`, `splitPairString`/`SplitLast` |
| `Pays` | `TcpStream`: `WakeShutdown`/`ForgetShutdown`; `TcpServer`: `CloseWhenIdle`/`CloseLater`; `PollHandle`: `Masks`/`MasksNewer`; `UnixSignal`: `Blocks`/`NeverBlocks` |
| `AllGoOn` | `Barrier`: `LastLeaves`/`LastTwoLeave`; `Once`: `StaysSet`/`PulseEvent` |

## 6. Proofs

Every theorem holds for all values of the constants that the module's assumption
allows: any finite or infinite set of loops, requests, writes, threads or handles
(those that are counted are finite), any bounds. Each is proved from an inductive
invariant, layer by layer: the layers below a layer are used in its steps, and
each action has a lemma of its own or shares one with the actions it resembles.
TLC checked each invariant on the runs' instances before it was proved.

### The thread pool (`ThreadPoolProofs`, from `ConstantsAssumption`)

| theorem | of `Spec` |
|---|---|
| `TypeCorrect` | `TypeOK`: the unsigned `idle_threads` never goes below zero, `nthreads` stays within the array of handles |
| `IdleThreadsExact` | `idle_threads` is the number of workers inside `uv_cond_wait` |
| `CancelledNeverRuns` | `NeverRunsCancelled`: the `abort` of `uv__cancelled` is unreachable |
| `NobodySleepsOverWork` | `WorkConserving` |
| `ResultsAreAnnounced` | `ResultsAnnounced` |
| `WakeupOutstandingOnce` | `OnePacket`: the one overlapped request of `wq_async` is in one place |
| `ClosedLoopIsLeft` | `ClosedLoopUnused` |
| `PoolImplements` | `ImplementsWorkPool`: the refinement of `WorkPool` |

The invariant is `PoolInv == IInv /\ PlaceInv /\ LockInv`.

- `IInv` types the variables. `TypeOK` alone is not inductive: that the decrement
  in `WorkerWake` stays in `Nat` needs the exact count (`IdleCount`); appending
  `cur[t]` or `arg[l]` to a queue needs them to be requests while a thread is
  inside a call (`CurOK`, `ArgOK`); and `init_once` keeps the count because no
  worker exists before it (`InitOK`).
- `PlaceInv` says where a request is. It is active and in at most one of `wq`, the
  hands of one worker, its loop's `loop_wq`, the local queue of `uv__work_done`, or
  the call that is moving it; and each place tells what `work` and `linked` are.
  So `uv_cancel`, which under the two locks reads only `linked` and `work`, knows from
  them that no worker has the request: it is in `wq`, or was cancelled before and
  is in a queue of its loop. `NeverRunsCancelled` comes down to that.
- `LockInv` says who owns a loop's `wq_mutex` while the posts under it go on, and
  that a closed loop has neither requests nor such posts left.

`ResultsAnnounced` and `WorkConserving` are inductive relative to `PoolInv`.
`OnePacket` counts threads; it follows from `OneWake`, which says the same of
"somebody posts", because only the owner of `wq_mutex` posts for a loop.

The refinement: `Phase(r)` maps a request to its phase in `WorkPool`. `PhaseCases`
states it by the places of `PlaceInv`; a step that changes none of what it looks
at is a stutter (`SamePhase`, `Stutters`), and five steps are actions of `WorkPool`:
`post` is `Submit`, taking from `wq` is `Start`, the hand-over is `Finish`, the unlinking
by `uv__work_cancel` is `Cancel` unless the request was cancelled before, the callback is
`Done`, with the status the abstract phase requires (`PostMaps`, `TakeMaps`,
`HandOverMaps`, `CancelMaps`, `DoneMaps`). Registering a request and marking it as
cancelled come before and after the step that counts, and stutter (`SubmitMaps`,
`MarkMaps`).

### The event loop (`EventLoopProofs`, from `LoopAssumption`)

| theorem | of `Spec` |
|---|---|
| `TypeCorrect` | `TypeOK`: `uv_backend_timeout` always fits a `DWORD` |
| `ActiveCountExact` | `ActiveCount`: `active_handles` is what keeps the loop alive |
| `StartedAreRegistered` | `Registered`: the tree and the lists hold what is started, in order |
| `IteratorsStayRight` | `InvokesEachOnce` |
| `NeverOversleeps` | `SleepsToFirstTimer` |
| `SendsAreNotLost` | `WakeupOnItsWay`: a send is seen or its packet is out, once |
| `ClosedHandlesAreFree` | `ClosedIsForgotten` |

The invariant has a layer per thing kept, in the order in which they rest on each
other. `LifeOK`: a handle is active only while it is open, and its endgame is
queued once, when no wake-up of it is out. `ActiveCount` needs that, since each call
counts by the flags it finds. `TreeOK` and `ListOK`: what is active is in the tree or in
its list, once, and the tree is in order; `InsertTimer` shows that `RB_INSERT`
keeps that. `SentOK`: the request of an async handle is with the posting thread, in the
port, in the loop's queue or in the batch, so that `async_sent` is their disjoint
union; therefore a handle whose `async_sent` is clear may be freed. `WatchOK`: what an
invocation still owes (`todo`) is what lies in the list from the iterator on. That
is why the order of a list matters, and why `uv_idle_stop` has to move the iterator
when it stands on the handle: prepending adds nothing to what is owed, unlinking
takes away the one element (`OwesPrepend`, `OwesWithout`). `SleepOK`: between
the computation of the timeout and the poll no callback can start a timer.

`LoopAssumption` has `DwordMax > 0`, so that the clamp to `UINT_MAX - 1` at
`win/timer.c:169-172` is a number the scaled `DWORD` has.

### TCP (`TcpProofs`, from `TcpAssumption`)

| theorem | of `TcpDiscipline => (Spec => ...)` |
|---|---|
| `CountersAreExact` | `CountersExact`: `reqs_pending`, `write_reqs_pending`, `activecnt` |
| `AlwaysArmed` | `Armed`: who reads has a read in flight, who listens an accept request |
| `RequestsInOnePlace` | `OneAtATime` |
| `SilentOnceStopped` | `Silent`, a property of steps |

`TcpDiscipline` is the part of section 5 about these two modules as a hypothesis: no
calls from `alloc_cb`, no read queued again over a refused one, one `uv_listen`, and
`RegisterWaitForSingleObject` does not fail for an accept. Without any one of these
`CountersExact` is false, as TLC finds with the values of section 5. They are
hypotheses and not assumptions, so that the module can be checked with the other
values; `Tcp.cfg` satisfies them.

`Waiting` is what the kernel and the loop's queue hold. Exact counters need to know
*which* requests these are, from the fields the code looks at:

- a connection (`StreamInv`): `StreamLinks` says that writes and connects in flight
  are those in `active_reqs`, `StreamReads` that `READ_PENDING` stands for the read
  (it misses only one that was refused, and none is queued from within the handler
  then), `StreamLife` that nothing is written before the connect has ended. So
  `uv_read_start` and `uv_tcp_endgame` decide rightly by flags alone, and
  `StreamCounts` is kept;
- a server (`ServerInv`): `ServerSingle` says that while the handle listens no accept
  request is lost. All of them are in use, or the one left after
  `uv_tcp_simultaneous_accepts`, or, while that change is going on, those that
  `processed_accepts` has not counted. It is the reason why the last of them is
  queued again and why one always is (`Armed`). `ServerApart` says that they are each
  in one place, `ServerLife` that nothing is queued before the handle listens, nor
  anew once it closes.

Frame lemmas (`StreamStill`, `ServerStill`) say which fields a layer looks at, and
`RequestStarted`, `RequestTaken` and `QueueEffect` what starting, taking and
requeueing a request does to the counts.

### Primitives

- `Barrier` (from `BarrierAssumption`): `StayTogether`, `Spec => []Together`, and
  `TurnstilesOpenOnce`, its types. The invariant has two phases. While a round is
  `Gathering` the first turnstile is shut and all threads are in the same round; while
  it is `Passing` the second is shut and all are inside. The step between the two
  is possible only for the last thread in or out, because `count` counts the
  threads inside and a thread at a shut keeps the mutex (`CountOK`).
- `MCSync` (from `ThreadsAssumption`) proves the other two and lifts all three to
  the composition that TLC checks: `WritersAlone` and `LockStaysExclusive`
  (`Exclusive`), `SemaphoreExact`, `RunsOnceBefore` and `InitializedOnce`
  (`OnceAndBefore`), `RoundsStayApart` (`Together`). Every invariant of the run
  `sync` is a theorem.
  - The semaphore of a rwlock is taken exactly while there is a reader or a
    writer, never exceeds its maximum (which would abort), and `num_readers` is
    exact. `Exclusive` is not inductive: a second reader enters without looking at
    the semaphore, which is safe because the first one holds it (`SemaphoreHeld`),
    or is still waiting for it and keeps everybody else out (`FirstLocks`).
  - Who put its event into the guard of `uv_once` is the only one to call back, and
    `ran` and the event come after it.

### The components (`ComponentProofs`, `ProgramProofs`, `Components`)

| theorem | of `Spec` of `Components` |
|---|---|
| `ComponentsExact` | `CountersExact` of `ExactParts`: poll and file-polling handles of Windows, the select thread and the poller of Unix, `CTCPServer` |
| `ComponentsArmed` | `Armed` of `ArmedParts`: poll and file-polling handles, the select thread, the poller |
| `UdpExact`, `UdpSilent` | `CountersExact`, `Armed` and `Silent` of a UDP handle |
| `SignalExact` | `CountersExact` of signal handles, with the assertions of their endgame |
| `FsEventSane`, `FsEventSilent` | `CountersExact`, `Armed`, `Sane` and `Silent` of a handle that watches a directory |
| `PipeReadArmed` | `CountersExact` and `Armed` of a pipe that a thread reads |
| `FsReqSane` | `CountersExact` and `Sane` of a request of the file system |
| `LogQueueSane` | `Sane` of the queue of log4z |
| `PollerSane` | `Sane` of the poller of Unix |
| `UsedExactArmed` | `CountersExact` and `Armed` of `CTCPServer`, `CTCPClient` and the SOCKS5 session |
| `UsedSane` | `Sane` of `CTCPServer` and `CTCPClient` |
| `SessionFreedLast` | `FreedLast`, the part of `Sane` about the memory of a SOCKS5 session |

All but the first two rows have a hypothesis each: that the constants of section 5
keep away what they keep away there (no receive queued over a refused one:
`RestartsReceive`; no close of a handle that was signalled again: `ClosesSignaled`;
no stop in the callback, no start before the
request has returned and no start on a directory that fails after its name is copied:
`StopsInCallback`, `RestartsBusy`, `DirFails`; no shutdown or close of a pipe that is
still read from and no failing DuplicateHandle: `ShutsDownReading`, `ClosesReading`,
`DupFails`; no `"stops_in_batch"` in `IoFaults`; `FsFaults`, `LogFaults`, `SockFaults`,
`ClientFaults` are empty). Section 5 shows what fails without it (for `ClosesReading`
other properties of the same handle do), and the configurations of the runs satisfy
it. The first two have none: the list of clients of `CTCPServer` is exact in a
program that misuses the class, too. For a session, `UsedExactArmed` needs
`SessionFaults` to be empty. That no assertion of the proxy fails would need the same,
and would say little, since an ordinary timeout in the handshake makes one fail; so
it is not among the theorems. `SessionFreedLast` is about what comes after the
assertions: it holds with early timeouts, refused connects and statuses of timers
too, and needs only that no timer expires during a lookup (`"times_out_lookup"`) and
that a close cancels the write and the connect it finds in flight
(`"completes_first"`).

Each component has an inductive invariant, named by two letters. A behaviour of
`Components` is one of a single component, so `PartInv` and `UsedInv`, which say
"if this is the part, its invariant holds", are invariants of `Components` by one
lemma for the first state and one for a step of each; the properties follow from
the invariants, with no further look at the steps.

- `UdInv` (UDP): a request is with the system or in the loop's queue, once, and is
  counted; `READ_PENDING` stands for the receive, and while the handler of the
  receive runs the flag says whether a callback has queued it again. So `Armed`
  holds in every state between two callbacks, and a datagram is told only while
  `READING` is set, which a stop clears.
- `PoInv` (poll): the two requests carry different things, `PoWanted` says that
  what is wanted is polled for, and `PoBothOut` why a start that finds both
  requests out need not submit anything: the older of the two was cut off
  by the newer, hence is on its way back, and its handler polls anew.
- `SiInv`, `SiCalm` (signals): a handle has a `pending_signum` exactly while its one
  request is in the port or about to be posted by the control thread; the tree holds
  the handles that watch. Closing while a signal is posted waits for that request,
  and, without `ClosesSignaled`, a handle whose endgame is queued has none (`SiCalm`).
- `FpInv` (file polling): a context that was cut off by a stop has a stat or a timer
  that will free it, and only the handle's own context is its parent's; the
  user was told what the context last kept.
- `FeInv` (file events): the one request is with the system or in the queue, and
  while its handler goes through the batch it is in neither and the handle still has
  its directory; a handle that is not active holds no names.
- `PrInv` (pipes without an overlapped mode): `readfile_thread` is set exactly while
  the thread is on its way into or out of ReadFile; who pauses the reading
  holds the mutex that the thread needs to come back, so it is out when the
  spin ends and stays out; a handle with a read out can be cancelled, hence has the mutex.
- `FrInv` (file requests): each of the 30 operations is a list of steps with what they
  get and release. `FrReleases` says that a step that fails releases all that the
  steps before it got, so that nothing is left of a failed operation
  (`FrNothingLeft`), and `FrKeeps` what is left of one that ends well: what `ptr`
  and the flags of the request then stand for. What is allocated is what the request
  refers to, before, between and after the calls of its user; of the entries of
  scandir those from the one last returned are still to be freed.
- `LqInv` (the queue of log4z): one setting is on its way at most, in the queue or in
  the hand of the thread that writes, and it is what was asked for last
  (`LqSettings`). A setting that lets more through takes effect at once and one that
  lets less through goes through the queue; `LqWanted` says why that drops
  nothing: a message that was wanted gets through by the settings of now or, if
  there is a setting ahead of it in the queue, by those. Nobody logs before the thread
  runs or after `stop` (`LqThreads`).
- `IoInv` (`unix/core.c`, `linux-core.c`): the table holds a watcher exactly for each
  descriptor of which something is wanted (`IoTable`, counted by `IoCount`), a
  watcher outside the queue of changes believes of epoll what epoll knows
  (`IoKnows`), and the events of the batch are for watchers of this table or have
  been invalidated (`IoEvent`).
- `UlInv` (the select thread of `unix/stream.c`): the thread and the loop own the
  events in turns, each hand-over with its semaphore; a close finds the thread in
  any of its places, and posts `close_sem` once for it to leave.
- `AsInv`, `AsSaneRest` (`CTCPServer`): the list is that of the clients that live; a
  client is freed after its writes, since the close of its handle waits for them.
- `AcInv` (`CTCPClient`): `AcMutex` is the core: the write mutex is free and nothing is
  in flight, or held by the thread that has just locked it and not written yet, or
  by the one write in flight, whose callback gives it back on another thread.
- `AxInv` (the SOCKS5 session): for each state of `client.c` it says what the session
  waits for: one of a read, a write, a connect or a lookup with the timer that would
  end it, in the relay one for each direction, and in the states of the end as many
  finalizers as closes that have not ended. No assertion can fail because each
  answer is one that the state was left for (`AxCame`, `AxGot`).
- `AfInv` (the memory of a session) says less and holds in more cases: before the
  session is killed a lookup is under way in its own state only (`AfOpen`);
  afterwards no timer runs, `state` counts the closes that have ended, and a write or
  connect in flight ends before the close of its handle (`AfTorn`). So nothing is
  under way when the last finalizer frees it.

What the proofs assume of the constants, besides types of bounds: the receive of a
UDP handle is not one of the sends (`SendsAssumption`: they are different fields of
different objects); the events are those of `uv.h:718-722`
(`PollEventsAssumption`); a loop has finitely many signal handles
(`SignalHandlesAssumption`); the threads that log are neither the one that calls `start`
nor the one that writes (`LogThreadsAssumption`); descriptors are finitely many natural numbers
(`IoAssumption`); the threads that send through a client are neither the loop's nor the
one that connects (`SendersAssumption`). Any number of sends, handles, watchers,
clients, relays, threads and calls is allowed.

### Only model-checked

- Liveness under fairness (`Delivered`, `CleanupReturns`, `ClosesEventually`,
  `SendsAreSeen`, `Pays`, `AllGoOn`): the prover has no rules for fairness.
- What recursive functions and folds compute for every input (`Process`, `FsOps`,
  the parser of `SocksSession`, `LogFiles`, `TtyScreen`, `UnixFs`): that is induction
  over data.
- Of the other parts of `Components` everything: connections and servers of pipes, terminals, child
  processes, the Unix loop, streams, servers, UDP, processes and signals. Several of them go over a list with a fold or a recursive
  function in the middle of a handler (the descriptors of `UnixServer`, the buffers of
  `UnixStream`, the frames of `PipeConn`, the list of children of `UnixProcess`), so that their
  invariants rest on induction over data again; the others are left for want of an
  invariant.
- `CountersExact` and `Armed` of the queue of log4z: they speak of the messages among
  what waits, by `SelectSeq`, a recursive function.
- `CondVar`: what it promises is liveness.

## 7. Not modelled

- Global initialization, lookups of DLL functions, `uv_loop_configure`, `uv_walk`,
  translation of error codes; out of memory anywhere.
- `EventLoop` is about `uv_poll_ex` where an empty packet is concerned. Only a system
  resume posts one, and Windows tells of it from the version 8 on, which has
  `GetQueuedCompletionStatusEx`; `uv_poll`, which takes an empty packet for an error
  (`win/core.c:369-380`), then is not used.
- Poll handles on Windows: `AFD_POLL_LOCAL_CLOSE`, the answer when the user closes
  the socket under the handle (`win/poll.c:206-211`); `WSAEINTR` (184), after which the
  handler only submits again; a poll to cancel the others that fails (259-262).
- The poll of Unix (`UnixIo`): the watcher of signals, which `have_signals` calls last;
  `EINTR`, which is a wait without events.
- The fallback condition variable is checked with one broadcast (`MaxGen = 1`):
  section 5 says what a second one does.
- TCP and UDP on Windows: addresses, socket options, `uv_tcp_open`,
  `uv_try_write`, the byte counts and buffers of reads and writes.
- Named pipes: `UV_HANDLE_EMULATE_IOCP`, names, permissions.
- Mutexes, semaphores, thread-local keys, thread creation and the native
  condition variables: one call of the operating system each.
- File requests: times, copying, `realpath` and its race between the two calls
  that ask for a length and a path (`win/fs.c:1740-1759`), the truncation of file
  times to a `long`, privileges for symbolic links.
- Terminals: which keys become which sequences, colours, text, and consoles that
  know escape sequences themselves.
- Processes: the identity of a user, job limits, encodings.
- Unix: `UV_RUN_NOWAIT` (as `UV_RUN_ONCE` without the sleep and the second pass over
  the timers), blocking streams, terminals, pollers other than epoll, the failure of `F_DUPFD`,
  `uv__signal_loop_cleanup`, name resolution, system information, threads.
- The programs: command lines, the binding of the proxy's listening sockets
  (`server.c`, with its `CHECK` of a status), the framing of packets, log4z's
  helpers for names, its hex dumps and colours.
- Name resolution (one blocking call on the pool), `inet.c`, `util.c`, `winapi.h`,
  `winapi.c`, `error.c`, `dl.c`, `version.c`, the demos: declarations, tables and
  conversions without state.

## 8. Plan

Done: the thread pool and its specification, the event loop with timers, watchers
and async handles, TCP, the primitives, the other Windows handles and requests,
the Unix backend's loop and handles, and the programs; the proofs of section 6.

Compositions to come: an abstract specification of a stream that `TcpStream`,
`PipeConn` and `UnixStream` implement, and `SocksSession` over it; the batch of
`UnixIo` as the poll phase of `UnixLoop`.

Theorems to come: `PipeServer`, whose accept requests count as those of `TcpServer` do;
and `UnixLoop`, for which the layers of `EventLoopProofs` are the pattern.
