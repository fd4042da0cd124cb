----------------------------- MODULE Components -----------------------------
(***************************************************************************)
(* The components of the library and of the programs that use it, for TLC. *)
(* Each is a module over the same variables: its handles or objects (h),   *)
(* the system, its threads and the peers (kernel), completed requests      *)
(* (pending), the running handler (pc) and callback (cb), the calls made   *)
(* so far (calls) and what only properties read (hist).  The components    *)
(* meet in the loop, of which each module carries the part it uses, so     *)
(* they are explored one at a time: part says which one this behaviour     *)
(* is about.  The properties say of each what every one of them owes.      *)
(***************************************************************************)
EXTENDS ComponentProofs

CONSTANTS
  Parts,  \* the components this run looks at
  PipeWrites, PipeIo, MaxPipeCalls, MaxPipeFails, MaxSent, UsesConnecting,
  BareSockets, Instances, MaxPipeServerCalls, MaxPipeServerFails,
  ListensAgain, ClosesUnbound, AcceptsClosing, MaxTtyCalls, MaxTyped,
  TtyFaults, Rows, Cols, Heights, MaxBytes, MaxTtyWrites, ArgvSize,
  ScreenFaults, MaxSpawns, MaxKills, ChecksHealth, ReusesPipes, MaxArgs,
  MaxArgLen, MaxVars, MaxPathLen, LoneQuotes, MixedCase, MaxFile, MaxBufs,
  MaxTarget, MaxDirents, DirentsInitial, FsOpFaults, MaxStreamWrites,
  MaxStreamCalls, MaxArriving, ReadCount, StreamFaults, MaxConns, FdLimit,
  QueueGrow, MaxUServerCalls, ServerFaults, FileLen, MaxUFsBufs, SmallBufs,
  IovMax, EmulBuf, MaxUFsCalls, MaxEintr, UFsFaults, USends, RecvCount,
  MaxUUdpCalls, MaxDatagrams, MaxBlocks, UUdpFaults, StdioCount, MaxFd,
  Inherits, ChildFaults, Procs, MaxUSpawns, MaxUKills, UProcFaults,
  UxSignals, Signums, PipeRoom, MaxUxCalls, MaxUxRaised, MaxTime, Minute,
  Day, MaxMessages, MaxHotChanges, MaxLate, Mega, Wrap, ForceReserve,
  FileFaults, MaxSections, MaxConfigs, LoggerMax, ConfigFaults, LoopTimers,
  LoopOthers, LoopTypes, LoopModes, LoopTimeouts, LoopRepeats, UTimeMax,
  UIntMax, MaxNow, MaxLoopCalls, LoopFaults

VARIABLES part
vars == <<part, h, kernel, pending, pc, cb, calls, hist>>

Pc == INSTANCE PipeConn
Ps == INSTANCE PipeServer
Tr == INSTANCE TtyRead
Ts == INSTANCE TtyScreen
Pn == INSTANCE Process
Fo == INSTANCE FsOps
Us == INSTANCE UnixStream
Uv == INSTANCE UnixServer
Uf == INSTANCE UnixFs
Uu == INSTANCE UnixUdp
Up == INSTANCE UnixProcess
Ug == INSTANCE UnixSignal
Un == INSTANCE UnixLoop
Lf == INSTANCE LogFiles

Init ==
  /\ part \in Parts
  /\ \/ part = "udp" /\ Ud!Init
     \/ part = "poll" /\ Po!Init
     \/ part = "signal" /\ Si!Init
     \/ part = "fs_poll" /\ Fp!Init
     \/ part = "fs_event" /\ Fe!Init
     \/ part = "pipe" /\ Pc!Init
     \/ part = "pipe_server" /\ Ps!Init
     \/ part = "pipe_read" /\ Pr!Init
     \/ part = "tty" /\ Tr!Init
     \/ part = "tty_screen" /\ Ts!Init
     \/ part = "process" /\ Pn!Init
     \/ part = "cmdline" /\ Pn!CmdInit
     \/ part = "fs_req" /\ Fr!Init
     \/ part = "fs_ops" /\ Fo!Init
     \/ part = "ux_stream" /\ Us!Init
     \/ part = "ux_server" /\ Uv!Init
     \/ part = "ux_select" /\ Ul!Init
     \/ part = "ux_io" /\ Ui!Init
     \/ part = "ux_fs" /\ Uf!Init
     \/ part = "ux_udp" /\ Uu!Init
     \/ part = "ux_child" /\ Up!ChildInit
     \/ part = "ux_process" /\ Up!Init
     \/ part = "ux_signal" /\ Ug!Init
     \/ part = "ux_loop" /\ Un!Init
     \/ part = "client" /\ Ac!Init
     \/ part = "server" /\ As!Init
     \/ part = "socks" /\ Ax!Init
     \/ part = "socks_parse" /\ Ax!ParseInit
     \/ part = "log_queue" /\ Lq!Init
     \/ part = "log_files" /\ Lf!Init
     \/ part = "log_config" /\ Lf!ConfigInit

Next ==
  \/ part = "udp" /\ UNCHANGED part /\ Ud!Next
  \/ part = "poll" /\ UNCHANGED part /\ Po!Next
  \/ part = "signal" /\ UNCHANGED part /\ Si!Next
  \/ part = "fs_poll" /\ UNCHANGED part /\ Fp!Next
  \/ part = "fs_event" /\ UNCHANGED part /\ Fe!Next
  \/ part = "pipe" /\ UNCHANGED part /\ Pc!Next
  \/ part = "pipe_server" /\ UNCHANGED part /\ Ps!Next
  \/ part = "pipe_read" /\ UNCHANGED part /\ Pr!Next
  \/ part = "tty" /\ UNCHANGED part /\ Tr!Next
  \/ part = "tty_screen" /\ UNCHANGED part /\ Ts!Next
  \/ part = "process" /\ UNCHANGED part /\ Pn!Next
  \/ part = "cmdline" /\ UNCHANGED part /\ Pn!CmdNext
  \/ part = "fs_req" /\ UNCHANGED part /\ Fr!Next
  \/ part = "fs_ops" /\ UNCHANGED part /\ Fo!Next
  \/ part = "ux_stream" /\ UNCHANGED part /\ Us!Next
  \/ part = "ux_server" /\ UNCHANGED part /\ Uv!Next
  \/ part = "ux_select" /\ UNCHANGED part /\ Ul!Next
  \/ part = "ux_io" /\ UNCHANGED part /\ Ui!Next
  \/ part = "ux_fs" /\ UNCHANGED part /\ Uf!Next
  \/ part = "ux_udp" /\ UNCHANGED part /\ Uu!Next
  \/ part = "ux_child" /\ UNCHANGED part /\ Up!ChildNext
  \/ part = "ux_process" /\ UNCHANGED part /\ Up!Next
  \/ part = "ux_signal" /\ UNCHANGED part /\ Ug!Next
  \/ part = "ux_loop" /\ UNCHANGED part /\ Un!Next
  \/ part = "client" /\ UNCHANGED part /\ Ac!Next
  \/ part = "server" /\ UNCHANGED part /\ As!Next
  \/ part = "socks" /\ UNCHANGED part /\ Ax!Next
  \/ part = "socks_parse" /\ UNCHANGED part /\ Ax!ParseNext
  \/ part = "log_queue" /\ UNCHANGED part /\ Lq!Next
  \/ part = "log_files" /\ UNCHANGED part /\ Lf!Next
  \/ part = "log_config" /\ UNCHANGED part /\ Lf!ConfigNext

Spec == Init /\ [][Next]_vars

\* One component at a time, so fairness of the union is fairness of the
\* component; the classes of steps are those of the components.
HandlerStep ==
  \/ part = "udp" /\ UNCHANGED part /\ Ud!HandlerStep
  \/ part = "poll" /\ UNCHANGED part /\ Po!HandlerStep
  \/ part = "signal" /\ UNCHANGED part /\ Si!HandlerStep
  \/ part = "fs_poll" /\ UNCHANGED part /\ Fp!HandlerStep
  \/ part = "fs_event" /\ UNCHANGED part /\ Fe!HandlerStep
  \/ part = "pipe" /\ UNCHANGED part /\ Pc!HandlerStep
  \/ part = "pipe_server" /\ UNCHANGED part /\ Ps!HandlerStep
  \/ part = "pipe_read" /\ UNCHANGED part /\ Pr!HandlerStep
  \/ part = "tty" /\ UNCHANGED part /\ Tr!HandlerStep
  \/ part = "tty_screen" /\ UNCHANGED part /\ Ts!HandlerStep
  \/ part = "process" /\ UNCHANGED part /\ Pn!HandlerStep
  \/ part = "fs_req" /\ UNCHANGED part /\ Fr!HandlerStep
  \/ part = "ux_stream" /\ UNCHANGED part /\ Us!HandlerStep
  \/ part = "ux_server" /\ UNCHANGED part /\ Uv!HandlerStep
  \/ part = "ux_select" /\ UNCHANGED part /\ Ul!HandlerStep
  \/ part = "ux_io" /\ UNCHANGED part /\ Ui!HandlerStep
  \/ part = "ux_fs" /\ UNCHANGED part /\ Uf!HandlerStep
  \/ part = "ux_udp" /\ UNCHANGED part /\ Uu!HandlerStep
  \/ part = "ux_process" /\ UNCHANGED part /\ Up!HandlerStep
  \/ part = "ux_signal" /\ UNCHANGED part /\ Ug!HandlerStep
  \/ part = "ux_loop" /\ UNCHANGED part /\ Un!HandlerStep
  \/ part = "client" /\ UNCHANGED part /\ Ac!HandlerStep
  \/ part = "server" /\ UNCHANGED part /\ As!HandlerStep
  \/ part = "socks" /\ UNCHANGED part /\ Ax!HandlerStep
  \/ part = "log_queue" /\ UNCHANGED part /\ Lq!HandlerStep

SystemStep ==
  \/ part = "udp" /\ UNCHANGED part /\ Ud!SystemStep
  \/ part = "poll" /\ UNCHANGED part /\ Po!SystemStep
  \/ part = "signal" /\ UNCHANGED part /\ Si!SystemStep
  \/ part = "fs_poll" /\ UNCHANGED part /\ Fp!SystemStep
  \/ part = "fs_event" /\ UNCHANGED part /\ Fe!SystemStep
  \/ part = "pipe" /\ UNCHANGED part /\ Pc!SystemStep
  \/ part = "pipe_server" /\ UNCHANGED part /\ Ps!SystemStep
  \/ part = "pipe_read" /\ UNCHANGED part /\ Pr!SystemStep
  \/ part = "tty" /\ UNCHANGED part /\ Tr!SystemStep
  \/ part = "process" /\ UNCHANGED part /\ Pn!SystemStep
  \/ part = "fs_req" /\ UNCHANGED part /\ Fr!SystemStep
  \/ part = "ux_stream" /\ UNCHANGED part /\ Us!SystemStep
  \/ part = "ux_select" /\ UNCHANGED part /\ Ul!SystemStep
  \/ part = "ux_udp" /\ UNCHANGED part /\ Uu!SystemStep
  \/ part = "ux_process" /\ UNCHANGED part /\ Up!SystemStep
  \/ part = "ux_signal" /\ UNCHANGED part /\ Ug!SystemStep
  \/ part = "ux_loop" /\ UNCHANGED part /\ Un!SystemStep
  \/ part = "client" /\ UNCHANGED part /\ Ac!SystemStep
  \/ part = "log_queue" /\ UNCHANGED part /\ Lq!SystemStep

SenderStep ==
  \/ part = "client" /\ UNCHANGED part /\ Ac!SenderStep
  \/ part = "log_queue" /\ UNCHANGED part /\ Lq!SenderStep

OtherStep ==
  \/ part = "poll" /\ UNCHANGED part /\ Po!OtherStep

ProcessReq ==
  \/ part = "udp" /\ UNCHANGED part /\ Ud!ProcessReq
  \/ part = "poll" /\ UNCHANGED part /\ Po!ProcessReq
  \/ part = "signal" /\ UNCHANGED part /\ Si!ProcessReq
  \/ part = "fs_poll" /\ UNCHANGED part /\ Fp!ProcessReq
  \/ part = "fs_event" /\ UNCHANGED part /\ Fe!ProcessReq
  \/ part = "pipe" /\ UNCHANGED part /\ Pc!ProcessReq
  \/ part = "pipe_server" /\ UNCHANGED part /\ Ps!ProcessReq
  \/ part = "pipe_read" /\ UNCHANGED part /\ Pr!ProcessReq
  \/ part = "tty" /\ UNCHANGED part /\ Tr!ProcessReq
  \/ part = "tty_screen" /\ UNCHANGED part /\ Ts!ProcessReq
  \/ part = "process" /\ UNCHANGED part /\ Pn!ProcessReq
  \/ part = "fs_req" /\ UNCHANGED part /\ Fr!ProcessReq
  \/ part = "server" /\ UNCHANGED part /\ As!ProcessReq

Endgame ==
  \/ part = "udp" /\ UNCHANGED part /\ Ud!Endgame
  \/ part = "poll" /\ UNCHANGED part /\ Po!Endgame
  \/ part = "signal" /\ UNCHANGED part /\ Si!Endgame
  \/ part = "fs_poll" /\ UNCHANGED part /\ Fp!Endgame
  \/ part = "fs_event" /\ UNCHANGED part /\ Fe!Endgame
  \/ part = "pipe" /\ UNCHANGED part /\ Pc!Endgame
  \/ part = "pipe_server" /\ UNCHANGED part /\ Ps!Endgame
  \/ part = "pipe_read" /\ UNCHANGED part /\ Pr!Endgame
  \/ part = "tty" /\ UNCHANGED part /\ Tr!Endgame
  \/ part = "tty_screen" /\ UNCHANGED part /\ Ts!Endgame
  \/ part = "process" /\ UNCHANGED part /\ Pn!Endgame

RunPending ==
  \/ part = "ux_stream" /\ UNCHANGED part /\ Us!RunPending
  \/ part = "ux_select" /\ UNCHANGED part /\ Ul!RunPending
  \/ part = "ux_io" /\ UNCHANGED part /\ Ui!RunPending
  \/ part = "ux_udp" /\ UNCHANGED part /\ Uu!RunPending
  \/ part = "ux_loop" /\ UNCHANGED part /\ Un!RunPending

PollStep ==
  \/ part = "ux_stream" /\ UNCHANGED part /\ Us!PollStep
  \/ part = "ux_server" /\ UNCHANGED part /\ Uv!PollStep
  \/ part = "ux_io" /\ UNCHANGED part /\ Ui!PollStep
  \/ part = "ux_fs" /\ UNCHANGED part /\ Uf!PollStep
  \/ part = "ux_udp" /\ UNCHANGED part /\ Uu!PollStep
  \/ part = "ux_process" /\ UNCHANGED part /\ Up!PollStep
  \/ part = "ux_signal" /\ UNCHANGED part /\ Ug!PollStep
  \/ part = "ux_loop" /\ UNCHANGED part /\ Un!PollStep

CloseStep ==
  \/ part = "ux_stream" /\ UNCHANGED part /\ Us!CloseStep
  \/ part = "ux_server" /\ UNCHANGED part /\ Uv!CloseStep
  \/ part = "ux_udp" /\ UNCHANGED part /\ Uu!CloseStep
  \/ part = "ux_process" /\ UNCHANGED part /\ Up!CloseStep
  \/ part = "ux_signal" /\ UNCHANGED part /\ Ug!CloseStep
  \/ part = "ux_loop" /\ UNCHANGED part /\ Un!CloseStep

WindowsFair ==
  /\ Spec
  /\ WF_vars(HandlerStep)
  /\ WF_vars(SystemStep)
  /\ WF_vars(OtherStep)
  /\ SF_vars(ProcessReq)
  /\ WF_vars(Endgame)

UnixFair ==
  /\ Spec
  /\ WF_vars(HandlerStep)
  /\ WF_vars(SystemStep)
  /\ SF_vars(RunPending)
  /\ WF_vars(PollStep)
  /\ WF_vars(CloseStep)

AppsFair ==
  /\ Spec
  /\ WF_vars(HandlerStep)
  /\ WF_vars(SystemStep)
  /\ WF_vars(SenderStep)
  /\ SF_vars(ProcessReq)
  /\ SF_vars(RunPending)
  /\ WF_vars(PollStep)

-----------------------------------------------------------------------------
\* The counters and lists that decide when a handle may be freed, when a
\* request has been reported and whether the loop lives say what really is in
\* flight: reqs_pending and activecnt of win/handle-inl.h and win/req-inl.h,
\* the request and handle queues of uv-common.h, the tree of signals, the
\* contexts of fs-poll.c, the memory of a uv_fs_t, the queues and watchers of
\* the Unix backend, the writes, clients and messages of the programs.
CountersExact ==
  /\ part = "udp" => Ud!PendingExact /\ Ud!ActiveExact
  /\ part = "poll" => Po!PendingExact /\ Po!ActiveExact
  /\ part = "signal" => Si!PendingExact /\ Si!ActiveExact
  /\ part = "fs_poll" => Fp!PendingExact /\ Fp!ActiveExact
  /\ part = "fs_event" => Fe!PendingExact /\ Fe!ActiveExact
  /\ part = "pipe" => Pc!PendingExact /\ Pc!ActiveExact
  /\ part = "pipe_server" => Ps!PendingExact /\ Ps!ActiveExact
  /\ part = "pipe_read" => Pr!PendingExact /\ Pr!ActiveExact
  /\ part = "tty" => Tr!PendingExact /\ Tr!ActiveExact
  /\ part = "tty_screen" => Ts!PendingExact /\ Ts!ActiveExact
  /\ part = "process" => Pn!PendingExact /\ Pn!ActiveExact
  /\ part = "fs_req" => Fr!PendingExact /\ Fr!ActiveExact
  /\ part = "ux_stream" => Us!PendingExact /\ Us!ActiveExact
  /\ part = "ux_server" => Uv!PendingExact /\ Uv!ActiveExact
  /\ part = "ux_select" => Ul!PendingExact
  /\ part = "ux_io" => Ui!PendingExact
  /\ part = "ux_fs" => Uf!PendingExact
  /\ part = "ux_udp" => Uu!PendingExact /\ Uu!ActiveExact
  /\ part = "ux_process" => Up!PendingExact /\ Up!ActiveExact
  /\ part = "ux_signal" => Ug!PendingExact /\ Ug!ActiveExact
  /\ part = "ux_loop" => Un!PendingExact /\ Un!ActiveExact
  /\ part = "client" => Ac!PendingExact
  /\ part = "server" => As!PendingExact
  /\ part = "socks" => Ax!PendingExact
  /\ part = "log_queue" => Lq!PendingExact

\* Whoever waits for something has what will end the wait: a read, an accept
\* request or a wait that was given to the system, a descriptor that is polled,
\* a handler that is registered, a thread that will be woken.
Armed ==
  /\ part = "udp" => Ud!Armed
  /\ part = "poll" => Po!Armed
  /\ part = "fs_poll" => Fp!Armed
  /\ part = "fs_event" => Fe!Armed
  /\ part = "pipe" => Pc!Armed
  /\ part = "pipe_server" => Ps!Armed
  /\ part = "pipe_read" => Pr!Armed
  /\ part = "tty" => Tr!Armed
  /\ part = "process" => Pn!Armed
  /\ part = "ux_stream" => Us!Armed
  /\ part = "ux_server" => Uv!Armed
  /\ part = "ux_select" => Ul!Armed
  /\ part = "ux_io" => Ui!Armed
  /\ part = "ux_udp" => Uu!Armed
  /\ part = "ux_process" => Up!Armed
  /\ part = "ux_signal" => Ug!Armed
  /\ part = "ux_loop" => Un!Armed
  /\ part = "client" => Ac!Armed
  /\ part = "socks" => Ax!Armed
  /\ part = "log_queue" => Lq!Armed

\* What is done and told is right: data keeps its order and its place, a result
\* is the one of the operation, nothing is freed or closed twice or used after
\* that, a child gets the descriptors that were asked for, no assertion fails.
Sane ==
  /\ part = "fs_event" => Fe!NoBadFree /\ Fe!MayRequeue
  /\ part = "tty_screen" => Ts!Sane
  /\ part = "process" => Pn!Sane
  /\ part = "cmdline" => Pn!CmdSane
  /\ part = "fs_req" => Fr!Sane
  /\ part = "fs_ops" => Fo!Sane
  /\ part = "ux_stream" => Us!Sane
  /\ part = "ux_server" => Uv!Sane
  /\ part = "ux_io" => Ui!Sane
  /\ part = "ux_fs" => Uf!Sane
  /\ part = "ux_udp" => Uu!Sane
  /\ part = "ux_child" => Up!ChildSane
  /\ part = "ux_process" => Up!Sane
  /\ part = "ux_signal" => Ug!Sane
  /\ part = "ux_loop" => Un!Sane
  /\ part = "client" => Ac!Sane
  /\ part = "server" => As!Sane
  /\ part = "socks" => Ax!Sane
  /\ part = "socks_parse" => Ax!ParseSane
  /\ part = "log_queue" => Lq!Sane
  /\ part = "log_files" => Lf!Sane
  /\ part = "log_config" => Lf!ConfigSane

\* Nothing is told after the call that ends it: no data after uv_read_stop,
\* uv_udp_recv_stop or uv_fs_event_stop, no exit or signal for a handle that
\* is being closed.
SilentStep ==
  /\ part = "udp" => Ud!Silent
  /\ part = "fs_event" => Fe!Silent
  /\ part = "pipe" => Pc!Silent
  /\ part = "process" => Pn!Silent
  /\ part = "ux_stream" => Us!Silent
  /\ part = "ux_udp" => Uu!Silent
  /\ part = "ux_process" => Up!Silent
  /\ part = "ux_signal" => Ug!Silent
  /\ part = "ux_loop" => Un!Silent
Silent == [][SilentStep]_vars

Owes ==
  \/ part = "udp" /\ Ud!Owes
  \/ part = "poll" /\ Po!Owes
  \/ part = "signal" /\ Si!Owes
  \/ part = "fs_poll" /\ Fp!Owes
  \/ part = "fs_event" /\ Fe!Owes
  \/ part = "pipe" /\ Pc!Owes
  \/ part = "pipe_server" /\ Ps!Owes
  \/ part = "pipe_read" /\ Pr!Owes
  \/ part = "tty" /\ Tr!Owes
  \/ part = "tty_screen" /\ Ts!Owes
  \/ part = "process" /\ Pn!Owes
  \/ part = "fs_req" /\ Fr!Owes
  \/ part = "ux_stream" /\ Us!Owes
  \/ part = "ux_server" /\ Uv!Owes
  \/ part = "ux_select" /\ Ul!Owes
  \/ part = "ux_io" /\ Ui!Owes
  \/ part = "ux_fs" /\ Uf!Owes
  \/ part = "ux_udp" /\ Uu!Owes
  \/ part = "ux_process" /\ Up!Owes
  \/ part = "ux_signal" /\ Ug!Owes
  \/ part = "ux_loop" /\ Un!Owes
  \/ part = "client" /\ Ac!Owes
  \/ part = "server" /\ As!Owes
  \/ part = "socks" /\ Ax!Owes
  \/ part = "log_queue" /\ Lq!Owes

\* What is owed is paid: every close ends with its callback, every request
\* that was started is reported, and events that a handle waits for are told,
\* provided that the loop is run and the system and the peers answer.
Pays == Owes ~> ~Owes


\* What the code, its documentation or its assertions promise besides, and do
\* not keep: the README lists for each part which constant shows it.
FurtherPromises ==
  /\ part = "pipe_read" => Pr!CloseFindsNoRead
  /\ part = "tty_screen" => Ts!NoOverflow /\ Ts!NoIoAfterError
  /\ part = "cmdline" => Pn!NoUnderflow
  /\ part = "fs_ops" => Fo!ReadOnlyCannotWrite
  /\ part = "ux_stream" => Us!ActiveOnlyIfBusy /\ Us!WatchedOnlyIfReading /\ Us!TryTells
  /\ part = "ux_loop" => Un!NoSleepWhileClosing /\ Un!RunOnceMakesProgress

-----------------------------------------------------------------------------
(* What is proved of these components, for all values of the constants:    *)
(* ComponentProofs and ProgramProofs have the invariant of each, and here  *)
(* it is one of this specification.  A clause says something of its own    *)
(* part only.                                                              *)

ExactParts == {"poll", "fs_poll", "ux_select", "ux_io", "server"}
ArmedParts == {"poll", "fs_poll", "ux_select", "ux_io"}

PartInv ==
  /\ part = "poll" => PoInv
  /\ part = "fs_poll" => FpInv
  /\ part = "ux_select" => UlInv
  /\ part = "ux_io" => IoInv
  /\ part = "server" => AsInv

\* What holds of the socket classes and the proxy when nothing goes on that
\* they do not reckon with.
UsedParts == {"server", "client", "socks"}

UsedInv ==
  /\ part = "server" => AsInv /\ AsSaneRest
  /\ part = "client" => AcInv
  /\ part = "socks" => AxInv

\* Each component starts in its invariant.
LEMMA InitPartInv == Init => PartInv
<1> SUFFICES ASSUME Init PROVE PartInv
  OBVIOUS
<1>1. ASSUME part = "poll" PROVE PoInv
  BY <1>1, PoInit DEF Init
<1>2. ASSUME part = "fs_poll" PROVE FpInv
  BY <1>2, FpInit DEF Init
<1>3. ASSUME part = "ux_select" PROVE UlInv
  BY <1>3, UlInit DEF Init
<1>4. ASSUME part = "ux_io" PROVE IoInv
  BY <1>4, IoInit DEF Init
<1>5. ASSUME part = "server" PROVE AsInv
  BY <1>5, AsInit DEF Init
<1> QED
  BY <1>1, <1>2, <1>3, <1>4, <1>5 DEF PartInv

\* A step is one of the component that the behaviour is about, or nothing.
LEMMA PartSteps ==
  ASSUME [Next]_vars
  PROVE  /\ part' = part
         /\ part = "udp" => [Ud!Next]_(Ud!vars)
         /\ part = "poll" => [Po!Next]_(Po!vars)
         /\ part = "signal" => [Si!Next]_(Si!vars)
         /\ part = "fs_poll" => [Fp!Next]_(Fp!vars)
         /\ part = "fs_event" => [Fe!Next]_(Fe!vars)
         /\ part = "pipe_read" => [Pr!Next]_(Pr!vars)
         /\ part = "fs_req" => [Fr!Next]_(Fr!vars)
         /\ part = "log_queue" => [Lq!Next]_(Lq!vars)
         /\ part = "ux_select" => [Ul!Next]_(Ul!vars)
         /\ part = "ux_io" => [Ui!Next]_(Ui!vars)
         /\ part = "server" => [As!Next]_(As!vars)
         /\ part = "client" => [Ac!Next]_(Ac!vars)
         /\ part = "socks" => [Ax!Next]_(Ax!vars)
<1>1. CASE UNCHANGED vars
  BY <1>1 DEF vars, Ud!vars, Po!vars, Si!vars, Fp!vars, Fe!vars, Pr!vars, Fr!vars,
               Lq!vars, Ul!vars, Ui!vars, As!vars, Ac!vars, Ax!vars
<1>2. CASE Next
  BY <1>2 DEF Next
<1> QED
  BY <1>1, <1>2

\* Each component keeps its invariant.
LEMMA NextPartInv == PartInv /\ [Next]_vars => PartInv'
<1> SUFFICES ASSUME PartInv, [Next]_vars PROVE PartInv'
  OBVIOUS
<1>1. part' = part
  BY PartSteps
<1>2. ASSUME part = "poll" PROVE PoInv'
  BY <1>2, PartSteps, PoNext DEF PartInv
<1>3. ASSUME part = "fs_poll" PROVE FpInv'
  BY <1>3, PartSteps, FpNext DEF PartInv
<1>4. ASSUME part = "ux_select" PROVE UlInv'
  BY <1>4, PartSteps, UlNext DEF PartInv
<1>5. ASSUME part = "ux_io" PROVE IoInv'
  BY <1>5, PartSteps, IoNext DEF PartInv
<1>6. ASSUME part = "server" PROVE AsInv'
  BY <1>6, PartSteps, AsNext DEF PartInv
<1> QED
  BY <1>1, <1>2, <1>3, <1>4, <1>5, <1>6 DEF PartInv

LEMMA InvariantPartInv == Spec => []PartInv
BY InitPartInv, NextPartInv, PTL DEF Spec

\* The socket classes and the proxy, used as they mean to be.
LEMMA InvariantUsedInv ==
  ASSUME SockFaults = {}, ClientFaults = {}, SessionFaults = {}
  PROVE  Spec => []UsedInv
<1>1. Init => UsedInv
  <2> SUFFICES ASSUME Init PROVE UsedInv
    OBVIOUS
  <2>1. ASSUME part = "server" PROVE AsInv /\ AsSaneRest
    BY <2>1, AsInit, AsSaneInit DEF Init
  <2>2. ASSUME part = "client" PROVE AcInv
    BY <2>2, AcInit DEF Init
  <2>3. ASSUME part = "socks" PROVE AxInv
    BY <2>3, AxInit DEF Init
  <2> QED
    BY <2>1, <2>2, <2>3 DEF UsedInv
<1>2. UsedInv /\ [Next]_vars => UsedInv'
  <2> SUFFICES ASSUME UsedInv, [Next]_vars PROVE UsedInv'
    OBVIOUS
  <2>1. part' = part
    BY PartSteps
  <2>2. ASSUME part = "server" PROVE AsInv' /\ AsSaneRest'
    BY <2>2, PartSteps, AsNext, AsSaneNext DEF UsedInv
  <2>3. ASSUME part = "client" PROVE AcInv'
    BY <2>3, PartSteps, AcNext DEF UsedInv
  <2>4. ASSUME part = "socks" PROVE AxInv'
    BY <2>4, PartSteps, AxNext DEF UsedInv
  <2> QED
    BY <2>1, <2>2, <2>3, <2>4 DEF UsedInv
<1> QED
  BY <1>1, <1>2, PTL DEF Spec

\* The counters and lists of these components are exact, however many
\* requests, handles, clients and calls there are: reqs_pending, activecnt and
\* the loop's counters of a poll handle (win/poll.c) and one that polls a file
\* (fs-poll.c), the requests of a poll handle, the contexts of fs-poll.c, the
\* table of watchers of unix/core.c, what the stream of stream.c has that
\* selects in a thread, and the list of clients of CTCPServer (UVSocket.cpp),
\* even in a program that misuses it.
THEOREM ComponentsExact == Spec => [](part \in ExactParts => CountersExact)
<1>1. PartInv => (part \in ExactParts => CountersExact)
  <2> SUFFICES ASSUME PartInv, part \in ExactParts PROVE CountersExact
    OBVIOUS
  <2>1. CASE part = "poll"
    BY <2>1, PoCounters DEF PartInv, CountersExact
  <2>2. CASE part = "fs_poll"
    BY <2>2, FpCounters DEF PartInv, CountersExact
  <2>3. CASE part = "ux_select"
    BY <2>3, UlFollows DEF PartInv, CountersExact
  <2>4. CASE part = "ux_io"
    BY <2>4, IoFollows DEF PartInv, CountersExact
  <2>5. CASE part = "server"
    BY <2>5, AsCounters DEF PartInv, CountersExact
  <2> QED
    BY <2>1, <2>2, <2>3, <2>4, <2>5 DEF ExactParts
<1> QED
  BY <1>1, InvariantPartInv, PTL

\* A poll handle has a request for every event it waits for (win/poll.c), a
\* handle that polls a file has a timer or a stat under way (fs-poll.c), the
\* thread that selects and the loop never both wait for the other (stream.c),
\* and before it sleeps the loop has told epoll what every watcher wants
\* (linux-core.c).
THEOREM ComponentsArmed == Spec => [](part \in ArmedParts => Armed)
<1>1. PartInv => (part \in ArmedParts => Armed)
  <2> SUFFICES ASSUME PartInv, part \in ArmedParts PROVE Armed
    OBVIOUS
  <2>1. CASE part = "poll"
    BY <2>1, PoArmed DEF PartInv, Armed
  <2>2. CASE part = "fs_poll"
    BY <2>2, FpArmed DEF PartInv, Armed
  <2>3. CASE part = "ux_select"
    BY <2>3, UlFollows DEF PartInv, Armed
  <2>4. CASE part = "ux_io"
    BY <2>4, IoFollows DEF PartInv, Armed
  <2> QED
    BY <2>1, <2>2, <2>3, <2>4 DEF ArmedParts
<1> QED
  BY <1>1, InvariantPartInv, PTL

\* A UDP handle whose receive is started only when the request of the one
\* before is not in the queue, and never refused in recv_cb.
LEMMA InvariantUdInv ==
  ASSUME RestartsReceive = FALSE
  PROVE  Spec => [](part = "udp" => UdInv)
<1>1. Init => (part = "udp" => UdInv)
  BY UdInit DEF Init
<1>2. (part = "udp" => UdInv) /\ [Next]_vars => (part = "udp" => UdInv)'
  <2> SUFFICES ASSUME part = "udp" => UdInv, [Next]_vars, part' = "udp" PROVE UdInv'
    OBVIOUS
  <2>1. part = "udp" /\ [Ud!Next]_(Ud!vars)
    BY PartSteps
  <2> QED
    BY <2>1, UdNext
<1> QED
  BY <1>1, <1>2, PTL DEF Spec

\* The receive and the sends of a UDP handle are with the system or in the
\* queue, each once, and reqs_pending, activecnt and the loop's counters say
\* what they are; while it reads, its receive is one of them (win/udp.c).  A
\* start that puts a receive in the queue a second time is RestartsReceive,
\* with which this is not so.
THEOREM UdpExact ==
  ASSUME RestartsReceive = FALSE
  PROVE  Spec => [](part = "udp" => CountersExact /\ Armed)
<1>1. UdInv /\ part = "udp" => CountersExact /\ Armed
  BY UdCounters, UdArmed DEF CountersExact, Armed
<1> QED
  BY <1>1, InvariantUdInv, PTL

\* The user of a UDP handle hears of no datagram after uv_udp_recv_stop or
\* uv_close, although the receive is still with the system (win/udp.c:268-282).
THEOREM UdpSilent ==
  ASSUME RestartsReceive = FALSE
  PROVE  Spec /\ part = "udp" => Silent
<1>1. part = "udp" /\ [Next]_vars => (part = "udp")'
  BY PartSteps
<1>2. UdInv /\ part = "udp" /\ [Next]_vars => [SilentStep]_vars
  <2> SUFFICES ASSUME UdInv, part = "udp", [Next]_vars PROVE SilentStep
    OBVIOUS
  <2>1. Ud!Silent
    BY PartSteps, UdSilent
  <2> QED
    BY <2>1 DEF SilentStep
<1> QED
  BY <1>1, <1>2, InvariantUdInv, PTL DEF Spec, Silent

\* A signal handle whose callback closes it only when no other signal of its
\* own has been posted and not yet been heard of.
LEMMA InvariantSiInv ==
  ASSUME ClosesSignaled = FALSE
  PROVE  Spec => [](part = "signal" => SiInv /\ SiCalm)
<1>1. Init => (part = "signal" => SiInv /\ SiCalm)
  BY SiInit, SiCalmInit DEF Init
<1>2. (part = "signal" => SiInv /\ SiCalm) /\ [Next]_vars
        => (part = "signal" => SiInv /\ SiCalm)'
  <2> SUFFICES ASSUME part = "signal" => SiInv /\ SiCalm, [Next]_vars, part' = "signal"
               PROVE  SiInv' /\ SiCalm'
    OBVIOUS
  <2>1. part = "signal" /\ [Si!Next]_(Si!vars)
    BY PartSteps
  <2> QED
    BY <2>1, SiNext, SiCalmNext
<1> QED
  BY <1>1, <1>2, PTL DEF Spec

\* The request of a signal handle is in the queue exactly when a signal is
\* pending for it, the tree holds the started handles, and the endgame of a
\* closed handle finds no pending signal: the assertions of uv_signal_endgame
\* (win/signal.c:348-353) hold.  A callback that closes its handle when one
\* more signal is posted is ClosesSignaled, with which line 351 fails.
THEOREM SignalExact ==
  ASSUME ClosesSignaled = FALSE
  PROVE  Spec => [](part = "signal" => CountersExact)
<1>1. SiInv /\ SiCalm /\ part = "signal" => CountersExact
  BY SiCounters DEF CountersExact
<1> QED
  BY <1>1, InvariantSiInv, PTL

\* A handle that watches a directory, in a program that neither stops it in
\* its callback nor starts it again before its request has returned, and
\* whose starts on a directory do not fail once the name is copied.
LEMMA InvariantFeInv ==
  ASSUME StopsInCallback = FALSE, RestartsBusy = FALSE, DirFails = FALSE
  PROVE  Spec => [](part = "fs_event" => FeInv)
<1>1. Init => (part = "fs_event" => FeInv)
  BY FeInit DEF Init
<1>2. (part = "fs_event" => FeInv) /\ [Next]_vars => (part = "fs_event" => FeInv)'
  <2> SUFFICES ASSUME part = "fs_event" => FeInv, [Next]_vars, part' = "fs_event" PROVE FeInv'
    OBVIOUS
  <2>1. part = "fs_event" /\ [Fe!Next]_(Fe!vars)
    BY PartSteps
  <2> QED
    BY <2>1, FeNext
<1> QED
  BY <1>1, <1>2, PTL DEF Spec

\* The one request of a handle that watches a directory is with the system or
\* in the queue, once; it is there while the handle watches, unless its handler
\* runs; and the handle frees each of its names and its buffer once, and asks
\* again only for a directory it still has (win/fs-event.c).
THEOREM FsEventSane ==
  ASSUME StopsInCallback = FALSE, RestartsBusy = FALSE, DirFails = FALSE
  PROVE  Spec => [](part = "fs_event" => CountersExact /\ Armed /\ Sane)
<1>1. FeInv /\ part = "fs_event" => CountersExact /\ Armed /\ Sane
  <2> SUFFICES ASSUME FeInv, part = "fs_event" PROVE CountersExact /\ Armed /\ Sane
    OBVIOUS
  <2>1. Fe!PendingExact /\ Fe!ActiveExact
    BY FeCounters
  <2>2. Fe!Armed /\ Fe!NoBadFree /\ Fe!MayRequeue
    BY FeFollows
  <2> QED
    BY <2>1, <2>2 DEF CountersExact, Armed, Sane
<1> QED
  BY <1>1, InvariantFeInv, PTL

\* Its user hears nothing after uv_fs_event_stop, although the request is
\* still with the system (win/fs-event.c).
THEOREM FsEventSilent ==
  ASSUME StopsInCallback = FALSE, RestartsBusy = FALSE, DirFails = FALSE
  PROVE  Spec /\ part = "fs_event" => Silent
<1>1. part = "fs_event" /\ [Next]_vars => (part = "fs_event")'
  BY PartSteps
<1>2. FeInv /\ part = "fs_event" /\ [Next]_vars => [SilentStep]_vars
  <2> SUFFICES ASSUME FeInv, part = "fs_event", [Next]_vars PROVE SilentStep
    OBVIOUS
  <2>1. Fe!Silent
    BY PartSteps, FeSilent
  <2> QED
    BY <2>1 DEF SilentStep
<1> QED
  BY <1>1, <1>2, InvariantFeInv, PTL DEF Spec, Silent

\* A pipe without an overlapped mode, in a program that neither shuts down nor
\* closes what it still reads from, where DuplicateHandle does not fail.
LEMMA InvariantPrInv ==
  ASSUME ShutsDownReading = FALSE, ClosesReading = FALSE, DupFails = FALSE
  PROVE  Spec => [](part = "pipe_read" => PrInv)
<1>1. Init => (part = "pipe_read" => PrInv)
  BY PrInit DEF Init
<1>2. (part = "pipe_read" => PrInv) /\ [Next]_vars => (part = "pipe_read" => PrInv)'
  <2> SUFFICES ASSUME part = "pipe_read" => PrInv, [Next]_vars, part' = "pipe_read" PROVE PrInv'
    OBVIOUS
  <2>1. part = "pipe_read" /\ [Pr!Next]_(Pr!vars)
    BY PartSteps
  <2> QED
    BY <2>1, PrNext
<1> QED
  BY <1>1, <1>2, PTL DEF Spec

\* The one read of such a pipe is with its thread or in the queue, once, and
\* counted; the loop counts the pipe exactly while it reads or closes; and
\* whoever goes on after uv__pipe_pause_read has got the thread out of ReadFile
\* and keeps it out (win/pipe.c).
THEOREM PipeReadArmed ==
  ASSUME ShutsDownReading = FALSE, ClosesReading = FALSE, DupFails = FALSE
  PROVE  Spec => [](part = "pipe_read" => CountersExact /\ Armed)
<1>1. PrInv /\ part = "pipe_read" => CountersExact /\ Armed
  <2> SUFFICES ASSUME PrInv, part = "pipe_read" PROVE CountersExact /\ Armed
    OBVIOUS
  <2>1. Pr!PendingExact /\ Pr!ActiveExact /\ Pr!Armed
    BY PrFollows
  <2> QED
    BY <2>1 DEF CountersExact, Armed
<1> QED
  BY <1>1, InvariantPrInv, PTL

\* The requests of the file system, in a program that never asks uv_fs_access
\* without W_OK, asks for entries of a directory until there is none and not
\* again then, and whose unlink does not fail once it has made a file writable.
LEMMA InvariantFrInv ==
  ASSUME FsFaults = {}
  PROVE  Spec => [](part = "fs_req" => FrInv)
<1>1. Init => (part = "fs_req" => FrInv)
  BY FrInit DEF Init
<1>2. (part = "fs_req" => FrInv) /\ [Next]_vars => (part = "fs_req" => FrInv)'
  <2> SUFFICES ASSUME part = "fs_req" => FrInv, [Next]_vars, part' = "fs_req" PROVE FrInv'
    OBVIOUS
  <2>1. part = "fs_req" /\ [Fr!Next]_(Fr!vars)
    BY PartSteps
  <2> QED
    BY <2>1, FrNext
<1> QED
  BY <1>1, <1>2, PTL DEF Spec

\* A request of the file system is with the pool or in the queue, once, and
\* counted; after each of the 30 operations, wherever it fails, what the
\* request refers to is what is still allocated; and its user frees that once,
\* the entries of scandir one by one (win/fs.c, uv-common.c).
THEOREM FsReqSane ==
  ASSUME FsFaults = {}
  PROVE  Spec => [](part = "fs_req" => CountersExact /\ Sane)
<1>1. FrInv /\ part = "fs_req" => CountersExact /\ Sane
  <2> SUFFICES ASSUME FrInv, part = "fs_req" PROVE CountersExact /\ Sane
    OBVIOUS
  <2>1. Fr!PendingExact /\ Fr!ActiveExact /\ Fr!Sane
    BY FrFollows
  <2> QED
    BY <2>1 DEF CountersExact, Sane
<1> QED
  BY <1>1, InvariantFrInv, PTL

\* The queue of log4z, in a program that changes a setting when the last has
\* got through, neither logs nor changes the file of settings while it stops
\* the manager, and whose thread begins within the three seconds start waits.
LEMMA InvariantLqInv ==
  ASSUME LogFaults = {}
  PROVE  Spec => [](part = "log_queue" => LqInv)
<1>1. Init => (part = "log_queue" => LqInv)
  BY LqInit DEF Init
<1>2. (part = "log_queue" => LqInv) /\ [Next]_vars => (part = "log_queue" => LqInv)'
  <2> SUFFICES ASSUME part = "log_queue" => LqInv, [Next]_vars, part' = "log_queue" PROVE LqInv'
    OBVIOUS
  <2>1. part = "log_queue" /\ [Lq!Next]_(Lq!vars)
    BY PartSteps
  <2> QED
    BY <2>1, LqNext
<1> QED
  BY <1>1, <1>2, PTL DEF Spec

\* A message that the settings let through when it was logged is written,
\* whatever settings come after it through the queue or past it, with any
\* number of threads; the settings end as they were asked for last; and one
\* thread writes (log4z.cpp).
THEOREM LogQueueSane ==
  ASSUME LogFaults = {}
  PROVE  Spec => [](part = "log_queue" => Sane)
<1>1. LqInv /\ part = "log_queue" => Sane
  <2> SUFFICES ASSUME LqInv, part = "log_queue" PROVE Sane
    OBVIOUS
  <2>1. Lq!Sane
    BY LqFollows
  <2> QED
    BY <2>1 DEF Sane
<1> QED
  BY <1>1, InvariantLqInv, PTL

\* An event of the batch goes to a watcher that wants it and whose descriptor
\* is still the file it was reported for (linux-core.c), unless a callback
\* stops a watcher that the batch still has an event for.
THEOREM PollerSane ==
  ASSUME "stops_in_batch" \notin IoFaults
  PROVE  Spec => [](part = "ux_io" => Sane)
<1>1. PartInv => (part = "ux_io" => Sane)
  <2> SUFFICES ASSUME PartInv, part = "ux_io" PROVE Sane
    OBVIOUS
  <2>1. Ui!Sane
    BY IoFollows DEF PartInv
  <2> QED
    BY <2>1 DEF Sane
<1> QED
  BY <1>1, InvariantPartInv, PTL

\* The one write request of CTCPClient is in flight once at most and the write
\* mutex is held exactly from the send that took it to its callback, whichever
\* threads send; and a client that connect said yes to goes on reading
\* (UVSocket.cpp).  A session of the proxy (client.c) has in flight what the
\* states of its two connections say, reads into no buffer that is being
\* written out, and while it lives a timer that will end it.  This for a
\* program that does none of ClientFaults, and for sessions that meet none of
\* SessionFaults.
THEOREM UsedExactArmed ==
  ASSUME SockFaults = {}, ClientFaults = {}, SessionFaults = {}
  PROVE  Spec => [](part \in UsedParts => CountersExact /\ Armed)
<1>1. UsedInv => (part \in UsedParts => CountersExact /\ Armed)
  <2> SUFFICES ASSUME UsedInv, part \in UsedParts PROVE CountersExact /\ Armed
    OBVIOUS
  <2>1. CASE part = "client"
    <3>1. Ac!PendingExact /\ Ac!Armed
      BY <2>1, AcCounters, AcArmed DEF UsedInv
    <3> QED
      BY <2>1, <3>1 DEF CountersExact, Armed
  <2>2. CASE part = "server"
    <3>1. As!PendingExact
      BY <2>2, AsCounters DEF UsedInv
    <3> QED
      BY <2>2, <3>1 DEF CountersExact, Armed
  <2>3. CASE part = "socks"
    <3>1. Ax!PendingExact /\ Ax!Armed
      BY <2>3, AxFollows DEF UsedInv
    <3> QED
      BY <2>3, <3>1 DEF CountersExact, Armed
  <2> QED
    BY <2>1, <2>2, <2>3 DEF UsedParts
<1> QED
  BY <1>1, InvariantUsedInv, PTL

\* The part of UsedInv that says nothing of the proxy.
ClassInv ==
  /\ part = "server" => AsInv /\ AsSaneRest
  /\ part = "client" => AcInv

\* The classes of UVSocket.cpp close a handle once, free a client after its
\* writes, and do not destroy a mutex under a write, with any number of clients
\* and threads, for a program that does none of SockFaults and ClientFaults.
THEOREM UsedSane ==
  ASSUME SockFaults = {}, ClientFaults = {}
  PROVE  Spec => [](part \in {"server", "client"} => Sane)
<1>1. Init => ClassInv
  <2>1. ASSUME Init, part = "server" PROVE AsInv /\ AsSaneRest
    BY <2>1, AsInit, AsSaneInit DEF Init
  <2>2. ASSUME Init, part = "client" PROVE AcInv
    BY <2>2, AcInit DEF Init
  <2> QED
    BY <2>1, <2>2 DEF ClassInv
<1>2. ClassInv /\ [Next]_vars => ClassInv'
  <2> SUFFICES ASSUME ClassInv, [Next]_vars PROVE ClassInv'
    OBVIOUS
  <2>1. part' = part
    BY PartSteps
  <2>2. ASSUME part = "server" PROVE AsInv' /\ AsSaneRest'
    BY <2>2, PartSteps, AsNext, AsSaneNext DEF ClassInv
  <2>3. ASSUME part = "client" PROVE AcInv'
    BY <2>3, PartSteps, AcNext DEF ClassInv
  <2> QED
    BY <2>1, <2>2, <2>3 DEF ClassInv
<1>3. ClassInv => (part \in {"server", "client"} => Sane)
  <2>1. ASSUME ClassInv, part = "server" PROVE Sane
    BY <2>1, AsSane DEF ClassInv, Sane
  <2>2. ASSUME ClassInv, part = "client" PROVE Sane
    BY <2>2, AcSane DEF ClassInv, Sane
  <2> QED
    BY <2>1, <2>2
<1> QED
  BY <1>1, <1>2, <1>3, PTL DEF Spec

\* The memory of a session of the proxy (client.c) is freed after the last
\* callback that uses it: no timer, write, read or lookup of it is under way
\* then, whatever its peers answer, whenever its timers expire outside a
\* lookup, whether its connect is refused or not.  This for timers that do not
\* expire during the lookup ("times_out_lookup", client.c:375-383, 585-592),
\* and for requests that do not complete before the close that ends them
\* ("completes_first").
THEOREM SessionFreedLast ==
  ASSUME "times_out_lookup" \notin SessionFaults, "completes_first" \notin SessionFaults
  PROVE  Spec => [](part = "socks" => Ax!FreedLast)
<1>1. Init => (part = "socks" => AfInv)
  BY AfInit DEF Init
<1>2. (part = "socks" => AfInv) /\ [Next]_vars => (part = "socks" => AfInv)'
  <2> SUFFICES ASSUME part = "socks" => AfInv, [Next]_vars, part' = "socks" PROVE AfInv'
    OBVIOUS
  <2>1. part = "socks" /\ [Ax!Next]_(Ax!vars)
    BY PartSteps
  <2> QED
    BY <2>1, AfNext
<1>3. AfInv => Ax!FreedLast
  BY AfFollows
<1> QED
  BY <1>1, <1>2, <1>3, PTL DEF Spec
=============================================================================
