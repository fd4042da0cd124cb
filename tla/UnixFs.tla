------------------------------- MODULE UnixFs -------------------------------
(***************************************************************************)
(* File system requests on Unix (src/unix/fs.c): what a request allocates, *)
(* where it runs, what the loops over buffers and offsets do with calls    *)
(* that give less than was asked for, fail or are interrupted, and what is *)
(* freed.  One request, used again after its clean-up.                     *)
(***************************************************************************)
EXTENDS Integers, Sequences, FiniteSets, SequencesExt

CONSTANTS
  FileLen,        \* bytes of the file
  MaxUFsBufs,     \* bound: buffers, of at most 2 bytes
  SmallBufs,      \* bufsml
  IovMax,         \* what uv__getiovmax returns
  EmulBuf,        \* the buffer of uv__fs_sendfile_emul
  MaxUFsCalls,    \* bound: requests
  MaxEintr,       \* bound: interrupted calls
  UFsFaults       \* "short_calls", "interrupts_many", "zero_lengths", "cancels"

VARIABLES
  h,        \* the request
  kernel,   \* the file, its position, what was sent, what the kernel cannot do
  pending,  \* uv__fs_buf_iter: what is left, and what the buffers got
  pc,       \* "idle", "queued", "works", "done", "reported"
  cb,       \* runs the callback, or the call returns
  calls,    \* requests, interruptions, active requests
  hist      \* whether a call was cut short, by the end, an error or the kernel
vars == <<h, kernel, pending, pc, cb, calls, hist>>

May(f) == f \in UFsFaults
EINTR == -4
ECANCELED == -125
Least(a, b) == IF a <= b THEN a ELSE b
Sum2(s) == FoldLeft(LAMBDA a, b : a + b, 0, s)
Flat(s) == FoldLeft(LAMBDA a, b : a \o b, <<>>, s)

-----------------------------------------------------------------------------
(* The requests.                                                           *)

Modes == {"access", "chmod", "chown"}
Descriptors == {"fchmod", "fchown", "fdatasync"}
Syncs == {"fsync", "ftruncate", "futime"}
Makes == {"mkdir", "open"}
Renames == {"rename", "rmdir"}
Links == {"symlink", "unlink", "utime"}
Stats == {"stat", "lstat", "fstat"}
Names == {"readlink", "realpath"}
Tables == {"scandir"}
Plain == Modes \cup Descriptors \cup Syncs \cup Makes \cup Renames \cup Links \cup {"link", "mkdtemp", "close"}
ByPath == Modes \cup Makes \cup Renames \cup Links \cup Names \cup Tables \cup {"link", "stat", "lstat"}

\* PATH and PATH2 copy for a request with a callback, mkdtemp always.
PathCopied(op, async) ==
  IF op = "mkdtemp" \/ (async /\ op \in ByPath) THEN {"path"} ELSE {}
BufsCopied(lens) == IF Len(lens) > SmallBufs THEN {"bufs"} ELSE {}

Lens == UNION {[1..n -> (IF May("zero_lengths") THEN 0 ELSE 1)..2] : n \in 1..MaxUFsBufs}
NoIter == [nbufs |-> 0, n |-> 0, at |-> 1, total |-> 0, off |-> 0, got |-> <<>>]

Init ==
  /\ h = [op |-> "none", async |-> FALSE, lens |-> <<>>, off |-> 0, result |-> 0, ptr |-> "none", alloc |-> {}]
  /\ kernel = [file |-> [i \in 1..FileLen |-> i], pos |-> 0, sent |-> <<>>, novec |-> FALSE]
  /\ pending = NoIter /\ pc = "idle" /\ cb = "user"
  /\ calls = [made |-> 0, eintr |-> 0, active |-> 0] /\ hist = "whole"

\* INIT, and POST: a request with a callback goes to the pool, another works
\* at once.
Posted(op, async, lens, off) ==
  /\ h' = [h EXCEPT !.op = op, !.async = async, !.lens = lens, !.off = off, !.result = 0, !.ptr = "none",
                    !.alloc = PathCopied(op, async) \cup BufsCopied(lens)]
  /\ pending' = [NoIter EXCEPT !.nbufs = Len(lens), !.n = Len(lens), !.off = off,
                               !.got = [i \in DOMAIN lens |-> <<>>]]
  /\ pc' = IF async THEN "queued" ELSE "works"
  /\ calls' = [calls EXCEPT !.made = @ + 1, !.active = IF async THEN @ + 1 ELSE @]
  /\ hist' = "whole" /\ kernel' = [kernel EXCEPT !.file = [i \in 1..FileLen |-> i], !.sent = <<>>, !.pos = 0]
  /\ UNCHANGED cb

Ready == pc = "idle" /\ calls.made < MaxUFsCalls
uv_fs_plain == Ready /\ \E op \in Plain, async \in BOOLEAN : Posted(op, async, <<>>, 0)
uv_fs_asks == Ready /\ \E op \in Stats \cup Names \cup Tables, async \in BOOLEAN : Posted(op, async, <<>>, 0)
uv_fs_read == Ready /\ \E lens \in Lens, off \in -1..1, async \in BOOLEAN : Posted("read", async, lens, off)
uv_fs_write == Ready /\ \E lens \in Lens, off \in -1..1, async \in BOOLEAN : Posted("write", async, lens, off)

\* bufsml[0].len is the length.
uv_fs_sendfile ==
  Ready /\ \E len \in 1..FileLen, off \in 0..1, async \in BOOLEAN : Posted("sendfile", async, <<len>>, off)

\* A request that is cancelled never reaches uv__fs_work.
uv_cancel ==
  /\ pc = "queued"
  /\ "bufs" \notin h.alloc \/ May("cancels")
  /\ h' = [h EXCEPT !.result = ECANCELED] /\ pc' = "done"
  /\ UNCHANGED <<kernel, pending, cb, calls, hist>>

-----------------------------------------------------------------------------
(* One call for a chunk of buffers at a place.                             *)

Bytes(at, n) == SubSeq(kernel.file, Least(at, Len(kernel.file)) + 1, Least(at + n, Len(kernel.file)))

\* How much of n bytes a call transfers.
Amounts(n) == {n} \cup (IF May("short_calls") /\ n > 1 THEN {1} ELSE {})

\* data over buffers of these lengths.
Scatter(data, lens) ==
  [i \in DOMAIN lens |->
     LET from == Sum2(SubSeq(lens, 1, i - 1))
     IN  SubSeq(data, Least(from, Len(data)) + 1, Least(from + lens[i], Len(data)))]

\* readv, preadv and read, pread.
Vectored(lens, at) ==
  {[result |-> Len(d), got |-> Scatter(d, lens)] :
     d \in {Bytes(at, a) : a \in Amounts(Sum2(lens))}}

\* The loop of preads: buffer fails is the one whose call fails, 0 for none;
\* before the first call result is 1.
Emulated(lens, at, fails) ==
  LET loop[i \in 0..Len(lens)] ==
        IF i = 0 THEN [result |-> 1, nread |-> 0, got |-> <<>>]
        ELSE LET s == loop[i - 1]
                 d == Bytes(at + s.nread, IF May("short_calls") THEN Least(lens[i], 1) ELSE lens[i])
             IN  CASE s.result <= 0 -> [s EXCEPT !.got = Append(@, <<>>)]
                   [] s.result > 0 /\ lens[i] = 0 -> [s EXCEPT !.got = Append(@, <<>>)]
                   [] s.result > 0 /\ lens[i] > 0 /\ fails = i -> [s EXCEPT !.result = -1, !.got = Append(@, <<>>)]
                   [] OTHER -> [result |-> Len(d), nread |-> s.nread + Len(d), got |-> Append(s.got, d)]
      e == loop[Len(lens)]
  IN  [result |-> IF e.nread > 0 THEN e.nread ELSE e.result, got |-> e.got]

\* A positional call with several buffers is a preadv where the kernel has
\* it, and a loop elsewhere.
Loops(off, lens) == off >= 0 /\ Len(lens) > 1 /\ kernel.novec
MayFail(lens) == 0..(IF May("short_calls") THEN Len(lens) ELSE 1)
uv__fs_read(lens, off, at) ==
  IF Loops(off, lens) THEN {Emulated(lens, at, f) : f \in MayFail(lens)} ELSE Vectored(lens, at)

\* Byte number k of the data written is 10 + k.
WriteAt(file, at, data) ==
  [i \in 1..(IF at + Len(data) > Len(file) THEN at + Len(data) ELSE Len(file)) |->
     IF i > at /\ i <= at + Len(data) THEN data[i - at] ELSE IF i <= Len(file) THEN file[i] ELSE 0]
DataOf(lens) == [k \in 1..Sum2(lens) |-> 10 + k]
Chunk(lens, i, n) == SubSeq(DataOf(lens), Sum2(SubSeq(lens, 1, i - 1)) + 1, Sum2(SubSeq(lens, 1, i + n - 1)))

\* What is written, and the file after it; buffer fails as above.
EmulatedWrite(lens, data, at, fails) ==
  LET loop[i \in 0..Len(lens)] ==
        IF i = 0 THEN [r |-> 0, written |-> 0, file |-> kernel.file]
        ELSE LET s == loop[i - 1]
                 from == Sum2(SubSeq(lens, 1, i - 1))
                 n == IF May("short_calls") THEN Least(lens[i], 1) ELSE lens[i]
             IN  CASE s.r = -1 \/ lens[i] = 0 -> s
                   [] s.r # -1 /\ lens[i] > 0 /\ fails = i -> [s EXCEPT !.r = -1]
                   [] OTHER -> [r |-> n, written |-> s.written + n,
                                file |-> WriteAt(s.file, at + s.written, SubSeq(data, from + 1, from + n))]
      e == loop[Len(lens)]
  IN  [result |-> IF e.written > 0 THEN e.written ELSE e.r, file |-> e.file]
uv__fs_write(lens, data, off, at) ==
  IF Loops(off, lens) THEN {EmulatedWrite(lens, data, at, f) : f \in MayFail(lens)}
  ELSE {[result |-> a, file |-> WriteAt(kernel.file, at, SubSeq(data, 1, a))] : a \in Amounts(Len(data))}

-----------------------------------------------------------------------------
(* uv__fs_work.                                                            *)

\* The size of the next chunk.
ChunkOf(n) == Least(n, IovMax)

Iter(result, got) ==
  [pending EXCEPT !.n = ChunkOf(pending.nbufs), !.at = @ + ChunkOf(pending.nbufs),
                  !.nbufs = @ - ChunkOf(pending.nbufs), !.total = @ + result,
                  !.off = IF @ >= 0 THEN @ + result ELSE @,
                  !.got = [i \in DOMAIN @ |-> IF i >= pending.at /\ i < pending.at + ChunkOf(pending.nbufs)
                                               THEN got[i - pending.at + 1] ELSE @[i]]]

\* The end of uv__fs_buf_iter and of uv__fs_work.
Finish(result) ==
  /\ h' = [h EXCEPT !.result = result, !.alloc = @ \ {"bufs"}]
  /\ pc' = IF h.async THEN "done" ELSE "reported"

\* A call for a chunk that transfers something, and the loop after it.
Transfers ==
  /\ pc = "works" /\ h.op \in {"read", "write"} /\ pending.nbufs > 0
  /\ LET n == ChunkOf(pending.nbufs)
         lens == SubSeq(h.lens, pending.at, pending.at + n - 1)
         at == IF pending.off >= 0 THEN pending.off ELSE kernel.pos
         Go(result, got, file) ==
           LET p == Iter(result, got)
           IN  /\ kernel' = [kernel EXCEPT !.file = file,
                                           !.pos = IF pending.off < 0 THEN @ + result ELSE @]
               /\ pending' = p
               /\ hist' = IF result < Sum2(lens) THEN "short" ELSE hist
               /\ IF p.nbufs = 0 THEN Finish(p.total) ELSE UNCHANGED <<h, pc>>
         Stop(result) ==
           /\ Finish(IF pending.total = 0 THEN result ELSE pending.total)
           /\ pending' = [pending EXCEPT !.n = n] /\ hist' = "short" /\ UNCHANGED kernel
     IN  IF h.op = "read"
         THEN \E r \in uv__fs_read(lens, pending.off, at) :
                IF r.result > 0 THEN Go(r.result, r.got, kernel.file) ELSE Stop(r.result)
         ELSE \E r \in uv__fs_write(lens, Chunk(h.lens, pending.at, n), pending.off, at) :
                IF r.result > 0 THEN Go(r.result, [i \in 1..n |-> <<>>], r.file) ELSE Stop(r.result)
  /\ UNCHANGED <<cb, calls>>

\* preadv and pwritev are not there: from now on the loop.
NoVectors ==
  /\ pc = "works" /\ h.op \in {"read", "write"} /\ pending.off >= 0 /\ ~kernel.novec
  /\ ChunkOf(pending.nbufs) > 1
  /\ kernel' = [kernel EXCEPT !.novec = TRUE]
  /\ UNCHANGED <<h, pending, pc, cb, calls, hist>>

\* A call for a chunk fails.
Fails ==
  /\ pc = "works" /\ h.op \in {"read", "write"} /\ pending.nbufs > 0
  /\ Finish(IF pending.total = 0 THEN -1 ELSE pending.total)
  /\ hist' = "short" /\ UNCHANGED <<kernel, pending, cb, calls>>

\* A call is interrupted: with nothing transferred everything begins again,
\* with the number of buffers of the chunk; unless "interrupts_many", there
\* are no more.
Interrupted ==
  /\ pc = "works" /\ h.op \in {"read", "write"} /\ pending.nbufs > 0 /\ calls.eintr < MaxEintr
  /\ calls' = [calls EXCEPT !.eintr = @ + 1]
  /\ pending.nbufs <= IovMax \/ pending.total > 0 \/ May("interrupts_many")
  /\ IF pending.total = 0
     THEN pending' = [pending EXCEPT !.nbufs = ChunkOf(@), !.n = ChunkOf(pending.nbufs)] /\ UNCHANGED <<h, pc, hist>>
     ELSE Finish(pending.total) /\ hist' = "short" /\ UNCHANGED pending
  /\ UNCHANGED <<kernel, cb>>

\* The others are one call, which is made again when it is interrupted, but
\* for close.
PlainWorks ==
  /\ pc = "works" /\ h.op \in Plain
  /\ \E result \in {0, -1} \cup (IF h.op = "close" THEN {EINTR} ELSE {}) : Finish(result)
  /\ UNCHANGED <<kernel, pending, cb, calls, hist>>

\* statbuf is in the request; names and entries are allocated.
AsksWorks ==
  /\ pc = "works" /\ h.op \in Stats \cup Names \cup Tables
  /\ \E result \in {0, -1} \cup (IF h.op \in Tables THEN {2} ELSE {}) :
       /\ h' = [h EXCEPT !.result = result,
                  !.ptr = CASE h.op \in Stats /\ result = 0 -> "statbuf"
                            [] h.op \in Names /\ result = 0 -> "name"
                            [] h.op \in Tables /\ result > 0 -> "dents"
                            [] OTHER -> "none",
                  !.alloc = @ \cup (IF h.op \in Names /\ result = 0 THEN {"name"} ELSE {})
                               \cup (IF h.op \in Tables /\ result > 0 THEN {"dents"} ELSE {})]
       /\ pc' = IF h.async THEN "done" ELSE "reported"
  /\ UNCHANGED <<kernel, pending, cb, calls, hist>>

\* uv__fs_sendfile_emul: blocks are read and written; one of them may fail
\* to be read or written.
Emul(len, off, fail) ==
  LET loop[i \in 0..FileLen] ==
        IF i = 0 THEN [n |-> 0, out |-> <<>>, ends |-> FALSE]
        ELSE LET s == loop[i - 1]
                 d == Bytes(off + s.n, Least(len - s.n, EmulBuf))
             IN  CASE s.ends \/ s.n = len -> s
                   [] ~s.ends /\ s.n < len /\ fail = <<"read", i>> ->
                        [s EXCEPT !.n = IF @ = 0 THEN -1 ELSE @, !.ends = TRUE]
                   [] ~s.ends /\ s.n < len /\ fail = <<"write", i>> ->
                        [s EXCEPT !.n = -1, !.ends = TRUE, !.out = @ \o SubSeq(d, 1, Len(d) \div 2)]
                   [] OTHER -> [n |-> s.n + Len(d), out |-> s.out \o d, ends |-> d = <<>>]
  IN  loop[FileLen]

uv__fs_sendfile ==
  /\ pc = "works" /\ h.op = "sendfile"
  /\ \/ \E a \in Amounts(Len(Bytes(h.off, h.lens[1]))) :
          /\ kernel' = [kernel EXCEPT !.sent = Bytes(h.off, a)]
          /\ h' = [h EXCEPT !.result = a, !.off = @ + a]
          /\ hist' = "sendfile"
     \/ \E fail \in {<<"none", 0>>} \cup ({"read", "write"} \X (1..2)) :
          LET e == Emul(h.lens[1], h.off, fail)
          IN  /\ kernel' = [kernel EXCEPT !.sent = e.out]
              /\ h' = [h EXCEPT !.result = e.n, !.off = IF e.n = -1 THEN @ ELSE @ + e.n]
              /\ hist' = fail[1]
  /\ pc' = IF h.async THEN "done" ELSE "reported"
  /\ UNCHANGED <<pending, cb, calls>>

Works == pc = "queued" /\ pc' = "works" /\ UNCHANGED <<h, kernel, pending, cb, calls, hist>>

uv__fs_done ==
  /\ pc = "done" /\ pc' = "reported" /\ calls' = [calls EXCEPT !.active = @ - 1]
  /\ UNCHANGED <<h, kernel, pending, cb, hist>>

-----------------------------------------------------------------------------
(* uv_fs_req_cleanup.                                                      *)

\* A name that was asked for is not freed.
FreesPathOnly(s) == [s EXCEPT !.alloc = @ \ {"path"}, !.ptr = "none"]
Freed(s) ==
  [s EXCEPT !.alloc = @ \ ((IF s.async \/ s.op = "mkdtemp" THEN {"path"} ELSE {})
                            \cup (IF s.ptr \in {"name", "dents"} THEN {s.ptr} ELSE {})),
            !.ptr = "none"]

uv_fs_req_cleanup ==
  /\ pc = "reported" /\ h' = Freed(h) /\ pc' = "idle"
  /\ UNCHANGED <<kernel, pending, cb, calls, hist>>

UserCall == uv_fs_plain \/ uv_fs_asks \/ uv_fs_read \/ uv_fs_write \/ uv_fs_sendfile \/ uv_fs_req_cleanup
HandlerStep == Works \/ Transfers \/ PlainWorks \/ AsksWorks \/ uv__fs_sendfile
PollStep == uv__fs_done
Next == UserCall \/ HandlerStep \/ PollStep \/ uv_cancel \/ NoVectors \/ Fails \/ Interrupted

-----------------------------------------------------------------------------
(* Properties.                                                             *)

PendingExact == calls.active = IF h.async /\ pc \in {"queued", "works", "done"} THEN 1 ELSE 0

Transferred == pc = "reported" /\ h.result \in Nat
Original == [i \in 1..FileLen |-> i]
At == IF h.off >= 0 THEN h.off ELSE 0

\* The bytes that are counted are the ones of the place, and the first of the
\* buffers; a result that is not the whole has a cause.
ReadsInOrder ==
  h.op = "read" /\ Transferred =>
    LET data == Flat(pending.got)
    IN  /\ h.result = Len(data) /\ data = SubSeq(Original, At + 1, At + h.result)
        /\ pending.got = Scatter(data, h.lens)
WritesInOrder ==
  h.op = "write" /\ Transferred =>
    kernel.file = WriteAt(Original, At, SubSeq(DataOf(h.lens), 1, h.result))
WholeOrCause ==
  h.op \in {"read", "write"} /\ Transferred /\ hist = "whole" => h.result = Sum2(h.lens)

\* The rules that uv__fs_sendfile_emul states about errors.
SendsInOrder ==
  h.op = "sendfile" /\ pc = "reported" =>
    /\ h.result \in Nat => kernel.sent = SubSeq(Original, h.off - h.result + 1, h.off)
    /\ hist = "read" /\ h.result = -1 => kernel.sent = <<>>
    /\ h.result = -1 => hist \in {"read", "write"}

\* Only close says that it was interrupted; nothing is left after clean-up.
Sane ==
  /\ ReadsInOrder /\ WritesInOrder /\ WholeOrCause /\ SendsInOrder
  /\ h.result = EINTR => h.op = "close"
  /\ pc = "idle" => h.alloc = {}

\* A request is done.
Owes == pc \in {"queued", "works", "done"}
=============================================================================
