SPECIFICATION UnixFair
CONSTANTS
  Parts = {"ux_stream", "ux_server", "ux_select", "ux_udp", "ux_process", "ux_signal", "ux_loop"}
  \* Udp
  Sends = {s1}
  MaxUdpCalls = 3
  RestartsReceive = FALSE
  \* PollHandle
  PollEvents = {"READABLE", "DISCONNECT"}
  MaxPollCalls = 3
  MaxPollErrors = 1
  \* Signal
  SignalHandles = {g1, g2}
  MaxSignalCalls = 4
  MaxRaised = 2
  ClosesSignaled = FALSE
  \* FsPoll
  MaxStarts = 2
  MaxFsPollCalls = 4
  MaxChanges = 2
  \* FsEvent
  MaxBatch = 2
  MaxFsEventCalls = 4
  MaxFails = 1
  StopsInCallback = FALSE
  RestartsBusy = FALSE
  DirFails = FALSE
  \* PipeConn
  PipeWrites = {w1, w2}
  PipeIo = {"overlapped", "sync"}
  MaxPipeCalls = 3
  MaxPipeFails = 1
  MaxSent = 1
  UsesConnecting = FALSE
  BareSockets = FALSE
  \* PipeServer
  Instances = 2
  MaxPipeServerCalls = 6
  MaxPipeServerFails = 1
  ListensAgain = FALSE
  ClosesUnbound = FALSE
  AcceptsClosing = FALSE
  \* PipeRead
  MaxReadCalls = 4
  MaxArrivals = 2
  ShutsDownReading = FALSE
  ClosesReading = FALSE
  DupFails = FALSE
  \* TtyRead
  MaxTtyCalls = 4
  MaxTyped = 2
  TtyFaults = {}
  \* TtyScreen
  Rows = 3
  Cols = 2
  Heights = {1, 2}
  MaxBytes = 3
  MaxTtyWrites = 1
  ArgvSize = 2
  ScreenFaults = {}
  \* Process
  MaxSpawns = 2
  MaxKills = 2
  ChecksHealth = FALSE
  ReusesPipes = FALSE
  \* CmdLine
  MaxArgs = 2
  MaxArgLen = 2
  MaxVars = 2
  MaxPathLen = 4
  LoneQuotes = FALSE
  MixedCase = FALSE
  \* FsReq
  MaxFsCalls = 2
  MaxEntries = 2
  FsFaults = {}
  \* FsOps
  MaxFile = 4
  MaxBufs = 2
  MaxTarget = 3
  MaxDirents = 4
  DirentsInitial = 1
  FsOpFaults = {}
  \* UnixStream
  MaxStreamWrites = 2
  MaxStreamCalls = 3
  MaxArriving = 1
  ReadCount = 2
  StreamFaults = {}
  \* UnixServer
  MaxConns = 4
  FdLimit = 3
  QueueGrow = 2
  MaxUServerCalls = 3
  ServerFaults = {}
  \* UnixSelect
  MaxSelectCalls = 3
  MaxReady = 2
  \* UnixIo
  Watchers = {"a", "b"}
  PollWatchers = {"b"}
  Fds = {1, 2}
  MaxOpens = 3
  MaxIoCalls = 3
  MaxIoReady = 2
  PollCount = 2
  IoFaults = {}
  \* UnixFs
  FileLen = 4
  MaxUFsBufs = 3
  SmallBufs = 1
  IovMax = 2
  EmulBuf = 2
  MaxUFsCalls = 2
  MaxEintr = 1
  UFsFaults = {}
  \* UnixUdp
  USends = {"s1", "s2"}
  RecvCount = 1
  MaxUUdpCalls = 3
  MaxDatagrams = 1
  MaxBlocks = 1
  UUdpFaults = {}
  \* UnixProcess, the child
  StdioCount = 4
  MaxFd = 14
  Inherits = {0, 1, 2, 4}
  ChildFaults = {}
  \* UnixProcess
  Procs = {"p", "q"}
  MaxUSpawns = 3
  MaxUKills = 1
  UProcFaults = {}
  \* UnixSignal
  UxSignals = {"a", "b"}
  Signums = {"HUP", "INT"}
  PipeRoom = 2
  MaxUxCalls = 2
  MaxUxRaised = 2
  \* SockClient
  Senders = {"t1", "t2"}
  MaxClientData = 2
  ClientFaults = {}
  \* SockServer
  MaxClients = 2
  MaxServerSends = 2
  MaxServerStarts = 2
  SockFaults = {}
  \* SocksSession
  MaxRelays = 5
  SessionFaults = {}
  \* the parser of SocksSession
  MaxMethods = 2
  MaxName = 2
  ParseFaults = {}
  \* LogQueue
  LogThreads = {"a", "b"}
  MaxLogs = 1
  MaxSets = 2
  QueueLimit = 1
  FreeLimit = 1
  LogFaults = {}
  \* LogFiles
  MaxTime = 6
  Minute = 2
  Day = 4
  MaxMessages = 4
  MaxHotChanges = 2
  MaxLate = 1
  Mega = 2
  Wrap = 8
  ForceReserve = 1
  FileFaults = {}
  \* the configuration of LogFiles
  MaxSections = 2
  MaxConfigs = 2
  LoggerMax = 2
  ConfigFaults = {}
  \* UnixLoop
  LoopTimers = {t1}
  LoopOthers = {u1}
  LoopTypes = {"idle", "async"}
  LoopModes = {"DEFAULT", "ONCE"}
  LoopTimeouts = {0, 9}
  LoopRepeats = {0, 1}
  UTimeMax = 9
  UIntMax = 1
  MaxNow = 1
  MaxLoopCalls = 3
  LoopFaults = {}
INVARIANTS
  CountersExact
  Armed
  Sane
PROPERTIES
  Silent
  Pays
CHECK_DEADLOCK FALSE
