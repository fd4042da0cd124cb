------------------------------- MODULE Process -------------------------------
(***************************************************************************)
(* A child process (src/win/process.c, process-stdio.c): what uv_spawn     *)
(* acquires and gives back on each of its error paths, the handles of the  *)
(* child's stdio, the wait that a thread of the system runs when the child *)
(* exits, kill and close; and, in the second half, the strings with which  *)
(* uv_spawn starts the child.                                              *)
(***************************************************************************)
EXTENDS UvHandle, SequencesExt

CONSTANTS
  MaxSpawns,       \* bound: calls of uv_spawn
  MaxKills,        \* bound: signals sent
  ChecksHealth,    \* the user sends signal 0 after a signal that kills
  ReusesPipes,     \* the user passes a pipe again after a failed spawn
  MaxArgs, MaxArgLen,  \* bounds: arguments and their length
  MaxVars,             \* bound: variables the user passes
  MaxPathLen,          \* bound: length of PATH
  LoneQuotes,          \* PATH may have an entry that is a single quote mark
  MixedCase            \* names of variables may be written in lower case

VARIABLES
  h,        \* the process handle, with its wait and its OS handle
  kernel,   \* the child, the wait thread, the OS handles and memory held
  pending,  \* requests posted to the loop
  pc, cb, calls,
  hist      \* what was told, and what killed the child
vars == <<h, kernel, pending, pc, cb, calls, hist>>

-----------------------------------------------------------------------------
(* The child's stdio.                                                      *)

\* uv__stdio_create makes slots for at least three descriptors.  A slot asks
\* for nothing, a new pipe, a descriptor (of a file, a pipe, or not open), or
\* the handle of a stream (a terminal, a connected pipe, or one that cannot be
\* passed on).
Slots(stdio) ==
  [i \in 1..(IF Len(stdio) < 3 THEN 3 ELSE Len(stdio)) |->
     IF i <= Len(stdio) THEN stdio[i] ELSE "ignore"]

\* The slot gets a handle of its own (an inheritable copy, a pipe's end, NUL);
\* beyond the first three an ignored slot gets none, nor does a descriptor of
\* the first three that is not open.
GetsHandle(slots, i) == ~(slots[i] = "ignore" /\ i > 3) /\ slots[i] # "fd_bad"

\* The flags for the child's C runtime.  The case of a pipe falls through to
\* that of a device.
crt_flags(c) ==
  CASE c \in {"pipe", "conn"}          -> {"FOPEN", "FPIPE"}
    [] c = "fd_disk"                   -> {"FOPEN"}
    [] c \in {"ignore", "fd_pipe", "tty"} -> {"FOPEN", "FDEV"}
    [] OTHER                           -> {}

\* A slot that is bound to fail.
MustFail(c) == c = "other"

\* The pipe of the parent after uv__create_stdio_pipe_pair.  A pair whose
\* second half fails is closed, but leaves its pipe marked as a connection.
uv__create_stdio_pipe_pair(pipe, fails) ==
  IF fails THEN {[pipe EXCEPT !.conn = TRUE], pipe} ELSE {[conn |-> TRUE, open |-> TRUE]}

\* uv__stdio_create: the first slot that fails ends it (0: none does); the
\* handles made before are closed, the pipes of the parent stay connected.
uv__stdio_create(slots, fails, pipe) ==
  LET made == {i \in DOMAIN slots : (fails = 0 \/ i < fails) /\ GetsHandle(slots, i)}
      pair == {i \in DOMAIN slots : slots[i] = "pipe" /\ (fails = 0 \/ i <= fails)}
  IN  [err |-> fails # 0,
       open |-> made, buffer |-> made,
       flags |-> [i \in made |-> crt_flags(slots[i])],
       pipes |-> IF pair = {} THEN {pipe} ELSE uv__create_stdio_pipe_pair(pipe, fails \in pair)]

NothingMade(pipe) == [err |-> FALSE, open |-> {}, buffer |-> {}, flags |-> <<>>, pipes |-> {pipe}]

\* uv__stdio_destroy closes the handles that are in the buffer.
uv__stdio_destroy(made) == made.open \ made.buffer

-----------------------------------------------------------------------------
Stages == <<"application", "arguments", "env", "cwd", "path", "stdio", "search", "create">>

\* What each stage allocates, freed at the label done.
Allocates == [application |-> {"application"}, arguments |-> {"arguments"}, env |-> {"env"},
              cwd |-> {"cwd"}, path |-> {"alloc_path"}, stdio |-> {"child_stdio_buffer"},
              search |-> {"application_path"}, create |-> {}]

\* uv_spawn from its label done: every buffer is freed, and the child's ends
\* of the stdio are closed.
FreesAll(held) == held \ {"application", "application_path", "arguments", "cwd", "env",
                          "alloc_path", "child_stdio_buffer"}

uv_process_init ==
  uv__handle_init @@ [wait |-> "none", process |-> "invalid", exit_cb_pending |-> FALSE,
                      exit_signal |-> 0]

FreshPipe == [conn |-> FALSE, open |-> FALSE]

Init ==
  /\ h = uv_process_init @@ [spawned |-> FALSE]
  /\ kernel = [child |-> "none", code |-> 0, wait |-> "none", held |-> {}, stdio |-> {},
               pipe |-> FreshPipe, flags |-> <<>>]
  /\ pending = {} /\ pc = [at |-> "loop"] /\ cb = "none"
  /\ calls = [spawns |-> 0, kills |-> 0]
  /\ hist = [told |-> 0, signal |-> 0, killed |-> 0]

At(p) == cb = "none" /\ pc.at = p
User == pc.at # "aborted" /\ (cb # "none" \/ At("loop"))

\* What the users of this library pass.
StdioLists ==
  {<<>>, <<"pipe">>, <<"fd_disk", "pipe", "fd_pipe">>, <<"pipe", "other">>,
   <<"tty", "conn", "fd_bad", "ignore">>}

Buffers(stages) == UNION {Allocates[Stages[i]] : i \in stages}

\* The label done, after a failure in a stage.
SpawnFails(stage, made, pipe) ==
  /\ kernel' = [kernel EXCEPT !.held = FreesAll(Buffers(1..stage - 1)),
                              !.stdio = uv__stdio_destroy(made), !.pipe = pipe]
  /\ h' = uv_process_init @@ [spawned |-> FALSE]

\* The child is created and the wait registered; then the label done.
SpawnSucceeds(made, pipe) ==
  /\ ~made.err
  /\ kernel' = [kernel EXCEPT !.held = FreesAll(Buffers(DOMAIN Stages)),
                              !.stdio = uv__stdio_destroy(made), !.pipe = pipe,
                              !.flags = made.flags, !.child = "running", !.wait = "waiting"]
  /\ h' = uv__handle_start([uv_process_init EXCEPT !.process = "open", !.wait = "registered"]
                           @@ [spawned |-> TRUE])

\* uv_spawn: options that Windows lacks, or no file, fail at once (stage 1); a
\* stage fails, or the child runs.
uv_spawn(stdio) ==
  /\ User /\ ~h.spawned /\ ~Is(h, "CLOSING")
  /\ calls.spawns < MaxSpawns /\ calls' = [calls EXCEPT !.spawns = @ + 1]
  /\ LET slots == Slots(stdio)
         uses  == \E i \in DOMAIN slots : slots[i] = "pipe"
     IN  /\ uses => ReusesPipes \/ kernel.pipe = FreshPipe
         /\ \/ \E stage \in 1..5 : SpawnFails(stage, NothingMade(kernel.pipe), kernel.pipe)
                                   /\ UNCHANGED pc
            \/ uses /\ kernel.pipe.conn /\ pc' = [at |-> "aborted"] /\ UNCHANGED <<h, kernel>>
            \/ /\ ~(uses /\ kernel.pipe.conn)
               /\ \E fails \in {0} \cup {i \in DOMAIN slots : GetsHandle(slots, i)} :
                    /\ \A i \in DOMAIN slots : MustFail(slots[i]) => fails # 0 /\ fails <= i
                    /\ LET made == uv__stdio_create(slots, fails, kernel.pipe)
                       IN  \E p \in made.pipes :
                             \/ \E stage \in IF made.err THEN {6} ELSE {7, 8} :
                                  SpawnFails(stage, made, p)
                             \/ SpawnSucceeds(made, p)
               /\ UNCHANGED pc
  /\ UNCHANGED <<pending, cb, hist>>

\* TerminateProcess and the exit code it leaves; the child takes a moment to
\* end.  A child that has exited cannot be terminated.
uv__kill(signum) ==
  IF signum = 0 THEN [err |-> kernel.child = "exited", child |-> kernel.child]
  ELSE [err |-> kernel.child = "exited",
        child |-> IF kernel.child = "running" THEN "dying" ELSE kernel.child]

\* uv_process_kill; after the close callback the handle is not the user's.
uv_process_kill(signum) ==
  /\ User /\ ~Is(h, "CLOSED")
  /\ calls.kills < MaxKills /\ calls' = [calls EXCEPT !.kills = @ + 1]
  /\ h.process # "invalid"
  /\ signum = 0 => ChecksHealth \/ h.exit_signal = 0
  /\ LET r == uv__kill(signum)
     IN  /\ kernel' = [kernel EXCEPT !.child = r.child]
         /\ h' = IF r.err THEN h ELSE [h EXCEPT !.exit_signal = signum]
         /\ hist' = IF r.err \/ signum = 0 THEN hist ELSE [hist EXCEPT !.killed = signum]
  /\ UNCHANGED <<pending, pc, cb>>

\* uv_kill finds the process by its number and keeps no record.
uv_kill(signum) ==
  /\ User
  /\ calls.kills < MaxKills /\ calls' = [calls EXCEPT !.kills = @ + 1]
  /\ kernel.child # "none"
  /\ kernel' = [kernel EXCEPT !.child = uv__kill(signum).child]
  /\ UNCHANGED <<h, pending, pc, cb, hist>>

\* The child ends by itself, or because it was terminated.
ChildExits ==
  /\ kernel.child \in {"running", "dying"}
  /\ kernel' = [kernel EXCEPT !.child = "exited"]
  /\ UNCHANGED <<h, pending, pc, cb, calls, hist>>

\* exit_wait_callback on a thread of the system: the flag, then the post.
WaitFires ==
  /\ kernel.child = "exited" /\ kernel.wait = "waiting"
  /\ pc' = IF h.exit_cb_pending THEN [at |-> "aborted"] ELSE pc
  /\ h' = [h EXCEPT !.exit_cb_pending = TRUE]
  /\ kernel' = [kernel EXCEPT !.wait = "posting"]
  /\ UNCHANGED <<pending, cb, calls, hist>>

WaitPosts ==
  /\ kernel.wait = "posting"
  /\ kernel' = [kernel EXCEPT !.wait = "none"]
  /\ pending' = pending \cup {"exit_req"}
  /\ UNCHANGED <<h, pc, cb, calls, hist>>

\* A close that leaves the wait registered.
KeepsWait(g) == g

\* UnregisterWaitEx of uv_process_close.
Unregistered(g) == [g EXCEPT !.wait = "none"]

\* uv_process_close: waits for a callback that has begun.
uv_process_close ==
  /\ User /\ ~Is(h, "CLOSING")
  /\ h.wait = "registered" => kernel.wait # "posting"
  /\ LET g == Unregistered(uv__handle_closing(h))
     IN  /\ h' = IF g.exit_cb_pending THEN g ELSE uv_want_endgame(g)
         /\ kernel' = [kernel EXCEPT !.wait = IF g.wait = "none" THEN "none" ELSE @]
  /\ UNCHANGED <<pending, pc, cb, calls, hist>>

\* uv_process_proc_exit up to the callback.
uv_process_proc_exit ==
  /\ At("loop") /\ "exit_req" \in pending
  /\ pending' = pending \ {"exit_req"}
  /\ LET g == [h EXCEPT !.exit_cb_pending = FALSE]
     IN  IF ~h.exit_cb_pending THEN pc' = [at |-> "aborted"] /\ UNCHANGED <<h, cb, hist>>
         ELSE IF Is(h, "CLOSING")
         THEN h' = uv_want_endgame(g) /\ UNCHANGED <<pc, cb, hist>>
         ELSE /\ h' = uv__handle_stop([g EXCEPT !.wait = "none"])
              /\ cb' = "exit"
              /\ hist' = [hist EXCEPT !.told = @ + 1, !.signal = h.exit_signal]
              /\ UNCHANGED pc
  /\ UNCHANGED <<kernel, calls>>

uv_process_endgame ==
  /\ At("loop") /\ Is(h, "ENDGAME_QUEUED")
  /\ IF h.exit_cb_pending \/ Is(h, "CLOSED")
     THEN pc' = [at |-> "aborted"] /\ UNCHANGED h
     ELSE /\ h' = uv__handle_close([Clear(h, {"ENDGAME_QUEUED"}) EXCEPT
                     !.process = IF @ = "open" THEN "closed" ELSE @])
          /\ UNCHANGED pc
  /\ UNCHANGED <<kernel, pending, cb, calls, hist>>

CallbackReturns ==
  /\ cb # "none" /\ cb' = "none"
  /\ UNCHANGED <<h, kernel, pending, pc, calls, hist>>

UserCall ==
  \/ \E s \in StdioLists : uv_spawn(s)
  \/ \E g \in {0, 9, 15} : uv_process_kill(g)
  \/ uv_kill(9)
  \/ uv_process_close

HandlerStep == CallbackReturns
ProcessReq == uv_process_proc_exit
Endgame == uv_process_endgame
SystemStep == WaitFires \/ WaitPosts

Next == UserCall \/ HandlerStep \/ ProcessReq \/ Endgame \/ SystemStep \/ ChildExits

-----------------------------------------------------------------------------
(* Properties.                                                             *)

\* exit_cb_pending says exactly that the exit is on its way to the loop, so
\* that the memory of a closed handle is touched by nobody: neither by the wait
\* thread, nor by a request still in the port (process.c:839-923).
PendingExact ==
  /\ h.exit_cb_pending <=> (kernel.wait = "posting" \/ "exit_req" \in pending)
  /\ Is(h, "CLOSED") => kernel.wait = "none" /\ pending = {}
  /\ pc.at # "aborted"

\* The handle is active from a successful spawn to the exit callback.
ActiveExact ==
  /\ LoopKnows(h)
  /\ Is(h, "ACTIVE") <=> h.spawned /\ hist.told = 0 /\ ~Is(h, "CLOSING")

\* While the child may exit unannounced, the wait is registered, or its result
\* is on its way (process.c:1131-1137).
Armed == Is(h, "ACTIVE") => kernel.wait = "waiting" \/ h.exit_cb_pending

\* uv_spawn, whichever stage fails, keeps no buffer and no handle of the child;
\* a pipe of the user is a connection if it has a handle; the exit callback
\* tells the signal with which uv_process_kill ended the child, and the handle
\* of the process is closed with uv_close (process.c:1147-1160, 1211-1226).
Sane ==
  /\ kernel.held = {} /\ kernel.stdio = {}
  /\ kernel.pipe.open => kernel.pipe.conn
  /\ hist.told = 1 => hist.signal = hist.killed
  /\ Is(h, "CLOSED") => h.process # "open"

\* No exit callback after uv_close.
Silent == Is(h, "CLOSING") => hist'.told = hist.told

Owes ==
  \/ Is(h, "CLOSING") /\ ~Is(h, "CLOSED")
  \/ kernel.child = "exited" /\ ~Is(h, "CLOSING") /\ hist.told = 0
-----------------------------------------------------------------------------
(* What uv_spawn computes before it starts a child: the command line, the  *)
(* environment block and the path of the program.  Each is a function of   *)
(* its input, written as the code's loops compute it, and compared with    *)
(* what the child's side makes of the result.  A behaviour (CmdInit,       *)
(* CmdNext) is one computation: h is its input, kernel its result.         *)

Strings(S, n) == UNION {[1..k -> S] : k \in 0..n}

-----------------------------------------------------------------------------
(* The command line.  Characters: a letter, a blank or tab, the double     *)
(* quote and the backslash.                                                *)

ArgChars == {"a", " ", "q", "b"}

Has(s, S) == \E i \in DOMAIN s : s[i] \in S

\* The backward loop of quote_cmd_arg: backslashes before a quote, or before
\* the closing quote, are doubled, and quotes get one of their own.
Escaped(s) ==
  FoldRight(LAMBDA c, acc :
      IF acc.quote_hit /\ c = "b" THEN [acc EXCEPT !.out = <<"b", c>> \o @]
      ELSE IF c = "q" THEN [quote_hit |-> TRUE, out |-> <<"b", c>> \o acc.out]
      ELSE [quote_hit |-> FALSE, out |-> <<c>> \o acc.out],
    s, [quote_hit |-> TRUE, out |-> <<>>]).out

quote_cmd_arg(s) ==
  IF s = <<>> THEN <<"q", "q">>
  ELSE IF ~Has(s, {" ", "q"}) THEN s
  ELSE IF ~Has(s, {"q", "b"}) THEN <<"q">> \o s \o <<"q">>
  ELSE <<"q">> \o Escaped(s) \o <<"q">>

\* The buffer that is allocated, in characters; each argument is counted with
\* its terminator.
ArgsBuffer(args) == 2 * FoldLeft(LAMBDA n, a : n + Len(a) + 1, 0, args) + 2 * Len(args)

\* Arguments are separated by one blank, and the last one is terminated.
make_program_args(args, verbatim) ==
  LET one(a) == IF verbatim THEN a ELSE quote_cmd_arg(a)
  IN  FoldLeft(LAMBDA line, i : line \o one(args[i]) \o <<IF i < Len(args) THEN " " ELSE "0">>,
               <<>>, [i \in DOMAIN args |-> i])

\* How a child's C runtime splits its command line: 2n backslashes and a quote
\* are n backslashes and a delimiter, 2n+1 and a quote are n and the quote,
\* other backslashes stand for themselves.
SplitLine(line) ==
  LET Bs(n) == [i \in 1..n |-> "b"]
      step(st, c) ==
        CASE c = "b" -> [st EXCEPT !.bs = @ + 1, !.open = TRUE]
          [] c = "q" /\ st.bs % 2 = 1 ->
               [st EXCEPT !.cur = @ \o Bs(st.bs \div 2) \o <<"q">>, !.bs = 0, !.open = TRUE]
          [] c = "q" /\ st.bs % 2 = 0 ->
               [st EXCEPT !.cur = @ \o Bs(st.bs \div 2), !.bs = 0, !.quoted = ~@, !.open = TRUE]
          [] c = "0" \/ (c = " " /\ ~st.quoted) ->
               IF st.open THEN [bs |-> 0, quoted |-> FALSE, open |-> FALSE, cur |-> <<>>,
                                args |-> Append(st.args, st.cur \o Bs(st.bs))]
               ELSE st
          [] OTHER -> [st EXCEPT !.cur = @ \o Bs(st.bs) \o <<c>>, !.bs = 0, !.open = TRUE]
  IN  FoldLeft(step, [bs |-> 0, quoted |-> FALSE, open |-> FALSE, cur |-> <<>>, args |-> <<>>],
               line).args

-----------------------------------------------------------------------------
(* The environment.  Names are numbered in their order; a variable is a    *)
(* name, whether it is written in upper case, and a value.  PATH is the    *)
(* second of the two required variables.                                   *)

Names == 1..4
RequiredVars == <<2, 3>>
PATH == 3
Vars == [name : Names, upper : IF MixedCase THEN BOOLEAN ELSE {TRUE}, val : {0}]

env_strncmp(a, b) == IF a < b THEN -1 ELSE IF a > b THEN 1 ELSE 0

\* The user's variables in order (names compare without case).
SortedEnv(vs) == SortSeq(vs, LAMBDA v, w : env_strncmp(v.name, w.name) < 0)

\* The two passes of make_program_env walk the required and the user's
\* variables together; parent is the set of required ones this process has.
\* The first pass adds up the length, two units a variable.
EnvLen(vs, parent) ==
  LET R == Len(RequiredVars)
      walk[i \in 1..R + 1, j \in 1..Len(vs) + 1] ==
        IF i > R THEN 0
        ELSE LET cmp == IF j > Len(vs) THEN -1
                        ELSE env_strncmp(RequiredVars[i], vs[j].name)
             IN  IF cmp < 0
                 THEN (IF RequiredVars[i] \in parent THEN 2 ELSE 0) + walk[i + 1, j]
                 ELSE walk[IF cmp = 0 THEN i + 1 ELSE i, j + 1]
  IN  2 * Len(vs) + walk[1, 1]

\* The last pass copies the variables of the user in order and inserts the
\* required ones that are missing.
Merge(vs, parent) ==
  LET R == Len(RequiredVars)
      copy[i \in 1..R + 1, j \in 1..Len(vs) + 1] ==
        IF i > R /\ j > Len(vs) THEN <<>>
        ELSE LET cmp == IF i > R THEN 1 ELSE IF j > Len(vs) THEN -1
                        ELSE env_strncmp(RequiredVars[i], vs[j].name)
             IN  IF cmp < 0
                 THEN (IF RequiredVars[i] \in parent
                       THEN <<[name |-> RequiredVars[i], upper |-> TRUE, val |-> 1]>> ELSE <<>>)
                      \o copy[i + 1, j]
                 ELSE <<vs[j]>> \o copy[IF cmp = 0 THEN i + 1 ELSE i, j + 1]
  IN  copy[1, 1]

make_program_env(vs, parent) ==
  [len |-> EnvLen(SortedEnv(vs), parent), block |-> Merge(SortedEnv(vs), parent)]

\* find_path compares with case: the index of the variable, 0 if there is none.
find_path(block) ==
  LET at == {i \in DOMAIN block : block[i].name = PATH /\ block[i].upper}
  IN  IF at = {} THEN 0 ELSE CHOOSE i \in at : \A j \in at : i <= j

-----------------------------------------------------------------------------
(* The search for the program.  Characters of PATH: two drive letters, the *)
(* separators of paths, of drives and of entries, and the quote mark.      *)

PathChars == {"c", "d", "\\", ":", ";", "q"}
Cwd == <<"c", ":", "\\", "c">>

\* The directory part that search_path_join_test builds; "q" in it is a
\* character like any other.
search_path_join(dir) ==
  LET n == Len(dir)
      rooted == n >= 1 /\ dir[1] = "\\"
      drive  == n >= 2 /\ dir[2] = ":"
      relative == drive /\ (n < 3 \/ dir[3] # "\\")
      cwd == IF n > 2 /\ rooted /\ dir[2] = "\\" THEN <<>>
             ELSE IF rooted THEN SubSeq(Cwd, 1, 2)
             ELSE IF relative THEN (IF Cwd[1] # dir[1] THEN <<>> ELSE Cwd)
             ELSE IF n > 2 /\ drive THEN <<>>
             ELSE Cwd
      rest == IF ~rooted /\ relative /\ Cwd[1] = dir[1] THEN SubSeq(dir, 3, n) ELSE dir
      Ended(s) == IF s # <<>> /\ s[Len(s)] \notin {"\\", ":"} THEN s \o <<"\\">> ELSE s
  IN  Ended(cwd) \o Ended(rest)

\* One quote mark is taken off each end of an entry.  The length is unsigned:
\* a single quote mark is taken off twice, and -1 stands for the largest size.
Unquoted(dir) ==
  LET from == IF dir[1] = "q" THEN 2 ELSE 1
      to   == IF dir[Len(dir)] = "q" THEN Len(dir) - 1 ELSE Len(dir)
  IN  [len |-> to - from + 1, dir |-> SubSeq(dir, from, to)]

\* The loop of search_path over PATH: dir_end is at the separator that ended
\* the last entry, or at the start; empty entries are passed over.
Slices(path) ==
  LET n == Len(path)
      scan[dir_end \in 1..n + 1] ==
        IF dir_end = n + 1 THEN <<>>
        ELSE LET start == IF dir_end # 1 \/ path[1] = ";" THEN dir_end + 1 ELSE dir_end
                 stops == {k \in start..n : path[k] = ";"} \cup {n + 1}
                 stop  == CHOOSE k \in stops : \A l \in stops : k <= l
             IN  (IF stop <= start THEN <<>> ELSE <<Unquoted(SubSeq(path, start, stop - 1))>>)
                 \o scan[stop]
  IN  scan[1]

\* path_search_walk_ext in one directory, where the programs of there exist:
\* the name as it is, if it has an extension, then with com and exe.
path_search_walk_ext(there, has_ext) ==
  LET tries == (IF has_ext THEN <<"">> ELSE <<>>) \o <<"com", "exe">>
      hit == {i \in DOMAIN tries : tries[i] \in there}
  IN  IF hit = {} THEN "none" ELSE tries[CHOOSE i \in hit : \A j \in hit : i <= j]

\* search_path for a bare name: the current directory, then PATH in order.
\* files is the set of <<directory, extension>> that exist.
search_path(path, files, has_ext) ==
  LET dirs == <<search_path_join(<<>>)>>
              \o [i \in DOMAIN Slices(path) |-> search_path_join(Slices(path)[i].dir)]
      got(i) == path_search_walk_ext({e \in {"", "com", "exe"} : <<dirs[i], e>> \in files}, has_ext)
      hit == {i \in DOMAIN dirs : got(i) # "none"}
  IN  IF hit = {} THEN <<>>
      ELSE LET i == CHOOSE i \in hit : \A j \in hit : i <= j IN <<dirs[i], got(i)>>

-----------------------------------------------------------------------------
Paths == {p \in Strings(PathChars, MaxPathLen) :
            LoneQuotes \/ \A i \in DOMAIN Slices(p) : Slices(p)[i].len >= 0}

\* Where the program exists: in one directory of the search, in one or two forms.
PlacesOf(path) ==
  LET dirs == {search_path_join(<<>>)} \cup
              {search_path_join(Slices(path)[i].dir) : i \in DOMAIN Slices(path)}
  IN  {{}} \cup {{<<d, "exe">>} : d \in dirs} \cup {{<<d, "">>, <<d, "com">>} : d \in dirs}
        \cup {{<<d, "com">>, <<e, "exe">>} : d \in dirs, e \in dirs}

CmdInit ==
  /\ \/ h \in [kind : {"args"}, args : Strings(Strings(ArgChars, MaxArgLen), MaxArgs) \ {<<>>}]
     \/ h \in [kind : {"env"}, env : Strings(Vars, MaxVars), parent : SUBSET {2, 3}]
     \/ \E p \in Paths : h \in [kind : {"path"}, path : {p}, files : PlacesOf(p), ext : BOOLEAN]
  /\ kernel = <<>> /\ pc = [at |-> "loop"]
  /\ pending = {} /\ cb = "none" /\ calls = 0 /\ hist = <<>>

\* The part of uv_spawn that prepares the child.
Compute ==
  /\ pc.at = "loop"
  /\ kernel' = CASE h.kind = "args" -> make_program_args(h.args, FALSE)
                 [] h.kind = "env"  -> make_program_env(h.env, h.parent)
                 [] h.kind = "path" -> search_path(h.path, h.files, h.ext)
  /\ pc' = [at |-> "done"]
  /\ UNCHANGED <<h, pending, cb, calls, hist>>

CmdNext == Compute

-----------------------------------------------------------------------------
(* Properties of what it computes.                                         *)

Done(kind) == pc.at = "done" /\ h.kind = kind

\* The child reads back the arguments the user passed, whatever blanks, quotes
\* and backslashes are in them, and the line fits the buffer that was counted
\* for it (process.c:427-500, 503-577).
RoundTrip ==
  Done("args") => /\ SplitLine(kernel) = h.args
                  /\ Len(kernel) <= ArgsBuffer(h.args)

\* The block has every variable of the user, each required one that the user
\* left out and this process has, nothing else, is in order, and fills exactly
\* the length that the pass before counted (process.c:742-813).
EnvComplete ==
  Done("env") =>
    LET block == kernel.block
        missing == {r \in {2, 3} \cap h.parent : \A i \in DOMAIN h.env : h.env[i].name # r}
    IN  /\ \A v \in Vars : Cardinality({i \in DOMAIN block : block[i] = v})
                             = Cardinality({i \in DOMAIN h.env : h.env[i] = v})
        /\ Len(block) = Len(h.env) + Cardinality(missing)
        /\ \A r \in missing : \E i \in DOMAIN block : block[i].name = r /\ block[i].val = 1
        /\ \A i \in 1..Len(block) - 1 : block[i].name <= block[i + 1].name
        /\ kernel.len = 2 * Len(block)

\* A program that is in the current directory or in a directory of PATH is
\* found, in the first of them that has it; every directory tried is an
\* absolute one, except an entry relative to another drive (process.c:168-420).
FirstInPath ==
  Done("path") =>
    LET entries == {e \in (1..Len(h.path)) \X (1..Len(h.path)) :
                      /\ e[1] <= e[2] /\ \A k \in e[1]..e[2] : h.path[k] # ";"
                      /\ (e[1] = 1 \/ h.path[e[1] - 1] = ";")
                      /\ (e[2] = Len(h.path) \/ h.path[e[2] + 1] = ";")}
        DirOf(e) == search_path_join(Unquoted(SubSeq(h.path, e[1], e[2])).dir)
        In(d) == \E f \in h.files : f[1] = d /\ (f[2] # "" \/ h.ext)
        Absolute(d) == /\ Len(d) >= 3
                       /\ \/ d[2] = ":" /\ d[3] = "\\"
                          \/ d[1] = "\\" /\ d[2] = "\\"
    IN  IF kernel = <<>>
        THEN \A e \in entries : ~In(DirOf(e))
        ELSE /\ In(kernel[1])
             /\ kernel[1] = search_path_join(<<>>)
                \/ \E e \in entries : /\ kernel[1] = DirOf(e)
                                      /\ \A f \in entries : f[1] < e[1] => ~In(DirOf(f))
             /\ kernel[2] = "" => h.ext
             /\ Absolute(kernel[1]) \/ (kernel[1][1] # "c" /\ kernel[1][2] = ":")

\* The length of an entry of PATH never wraps below zero.
NoUnderflow ==
  h.kind = "path" => \A i \in DOMAIN Slices(h.path) : Slices(h.path)[i].len >= 0

\* The PATH of the environment the child gets is the one that is searched
\* (process.c:820-833; names in lower case are merged as PATH but not found).
FindsChildPath ==
  Done("env") => \A i \in DOMAIN kernel.block :
                   kernel.block[i].name = PATH => find_path(kernel.block) # 0

CmdSane == RoundTrip /\ EnvComplete /\ FirstInPath /\ FindsChildPath
=============================================================================
