-------------------------------- MODULE FsReq --------------------------------
(***************************************************************************)
(* File system requests (src/win/fs.c, with the iteration over directory   *)
(* entries of src/uv-common.c): what each request allocates, opens and     *)
(* gives back on each of its paths, in the thread pool or at once, its     *)
(* cancellation and its cleanup.  An operation is a sequence of calls; one *)
(* that fails ends it.  What read, write, open and the others compute is   *)
(* FsOps.                                                                  *)
(***************************************************************************)
EXTENDS Integers, Sequences, FiniteSets

CONSTANTS
  MaxFsCalls,   \* bound: requests made
  MaxEntries,   \* bound: entries of a directory
  FsFaults      \* "access_read", "stops_at_last", "next_after_end", "readonly_stuck"

VARIABLES
  h,        \* the request
  kernel,   \* what is allocated and open, by name
  pending,  \* where the request is: none, queued, working, done
  pc, cb, calls, hist
vars == <<h, kernel, pending, pc, cb, calls, hist>>


-----------------------------------------------------------------------------
(* The operations.  A step may fail; it then releases what its path        *)
(* releases.  end is released on success, ptr is what req->ptr is then.    *)

S(gets, releases) == [gets |-> gets, releases |-> releases]
Op(steps, end, ptr) == [steps |-> steps, end |-> end, ptr |-> ptr]

\* One call that fails or succeeds, with nothing to release.
OneCall == Op(<<S({}, {})>>, {}, "null")

\* A handle is opened by name, used by one call and closed on every path.
WithHandle(ptr) == Op(<<S({"handle"}, {}), S({}, {"handle"})>>, {"handle"}, ptr)

\* The name for the user: its length, a buffer, the conversion.
fs__wide_to_utf8(held) == <<S({}, held), S({"heap"}, held), S({}, held \cup {"heap"})>>

\* VERIFY_FD, the lookup of the descriptor's handle, then the call.
OnDescriptor == Op(<<S({}, {}), S({}, {}), S({}, {})>>, {}, "null")

\* The flags may be wrong, the file missing, the table of descriptors full.
fs__open == Op(<<S({}, {}), S({"file"}, {}), S({}, {"file"})>>, {}, "null")

\* The descriptors of the standard streams are not closed.
fs__close == Op(<<S({}, {}), S({}, {})>>, {}, "null")
fs__read == OnDescriptor
fs__write == OnDescriptor
fs__rmdir == OneCall
\* Kept if the last call fails: the file is no longer read-only.
fs__unlink ==
  Op(<<S({"handle"}, {}), S({}, {"handle"}), S({}, {"handle"}), S({}, {"handle"}),
       S(IF "readonly_stuck" \in FsFaults THEN {"cleared_readonly"} ELSE {}, {"handle"}),
       S({}, {"handle"})>>, {"handle", "cleared_readonly"}, "null")
fs__mkdir == OneCall
fs__mkdtemp == Op(<<S({}, {}), S({"crypt"}, {}), S({}, {"crypt"}), S({}, {"crypt"})>>, {"crypt"}, "null")

\* The handle, the first chunk, and then array and entries together.
fs__scandir ==
  Op(<<S({"handle"}, {}), S({}, {"handle"}), S({"dents"}, {"handle"}),
       S({"entries"}, {"handle", "dents"}), S({}, {"handle", "dents", "entries"})>>,
     {"handle"}, "dents")
fs__stat_impl == WithHandle("statbuf")

\* lstat of what is a reparse point but no link opens it again, as a file.
fs__lstat ==
  Op(<<S({"handle"}, {}), S({}, {"handle"}), S({"second"}, {"handle"}),
       S({}, {"handle", "second"})>>, {"handle", "second"}, "statbuf")
fs__fstat == Op(<<S({}, {}), S({}, {}), S({}, {})>>, {}, "statbuf")
fs__rename == OneCall
fs__sync_impl == Op(<<S({}, {}), S({}, {})>>, {}, "null")
fs__ftruncate == Op(<<S({}, {}), S({}, {})>>, {}, "null")
fs__sendfile == Op(<<S({"buf"}, {}), S({}, {"buf"}), S({}, {"buf"})>>, {"buf"}, "null")
fs__access == Op(<<S({}, {}), S({}, {})>>, {}, "null")
fs__chmod == OneCall
fs__fchmod == OnDescriptor
fs__utime == WithHandle("null")
fs__futime == OnDescriptor
fs__link == OneCall
\* A directory that was made is removed when it cannot be made a junction.
fs__create_junction ==
  Op(<<S({}, {}), S({"buffer"}, {}), S({"new_dir"}, {"buffer"}),
       S({"handle"}, {"buffer", "new_dir"}), S({}, {"buffer", "new_dir", "handle"})>>,
     {"buffer", "handle", "new_dir"}, "null")
fs__symlink == OneCall
fs__readlink ==
  Op(<<S({"handle"}, {}), S({}, {"handle"})>> \o fs__wide_to_utf8({"handle"}), {"handle"}, "heap")
fs__realpath ==
  Op(<<S({}, {}), S({"handle"}, {}), S({}, {"handle"}), S({"w_realpath"}, {"handle"}),
       S({}, {"handle", "w_realpath"})>> \o fs__wide_to_utf8({"handle", "w_realpath"}),
     {"handle", "w_realpath"}, "heap")
fs__chown == Op(<<>>, {}, "null")

\* What an operation leaves behind when step p fails; 0: none does.
Left(op, p) ==
  IF p = 0 THEN (UNION {op.steps[i].gets : i \in DOMAIN op.steps}) \ op.end
  ELSE (UNION {op.steps[i].gets : i \in 1..p - 1}) \ op.steps[p].releases

-----------------------------------------------------------------------------
(* The requests: what they take from their arguments.                      *)

Req(type, op, paths, bufs) == [type |-> type, op |-> op, paths |-> paths, bufs |-> bufs]
ByPath(type, op) == Req(type, op, 1, 0)
ByFd(type, op) == Req(type, op, 0, 0)

uv_fs_open == ByPath("open", fs__open)
uv_fs_close == ByFd("close", fs__close)
uv_fs_read(n) == Req("read", fs__read, 0, n)
uv_fs_write(n) == Req("write", fs__write, 0, n)
uv_fs_unlink == ByPath("unlink", fs__unlink)
uv_fs_mkdir == ByPath("mkdir", fs__mkdir)
uv_fs_mkdtemp == ByPath("mkdtemp", fs__mkdtemp)
uv_fs_rmdir == ByPath("rmdir", fs__rmdir)
uv_fs_scandir == ByPath("scandir", fs__scandir)
uv_fs_link == Req("link", fs__link, 2, 0)
uv_fs_symlink(junction) ==
  Req("symlink", IF junction THEN fs__create_junction ELSE fs__symlink, 2, 0)
uv_fs_readlink == ByPath("readlink", fs__readlink)
uv_fs_realpath == ByPath("realpath", fs__realpath)
uv_fs_chown == ByPath("chown", fs__chown)
uv_fs_fchown == ByFd("fchown", fs__chown)
uv_fs_stat == ByPath("stat", fs__stat_impl)
uv_fs_lstat == ByPath("lstat", fs__lstat)
uv_fs_fstat == ByFd("fstat", fs__fstat)
uv_fs_rename == Req("rename", fs__rename, 2, 0)
uv_fs_fsync == ByFd("fsync", fs__sync_impl)
uv_fs_fdatasync == ByFd("fdatasync", fs__sync_impl)
uv_fs_ftruncate == ByFd("ftruncate", fs__ftruncate)
uv_fs_sendfile == ByFd("sendfile", fs__sendfile)
uv_fs_access == ByPath("access", fs__access)
uv_fs_chmod == ByPath("chmod", fs__chmod)
uv_fs_fchmod == ByFd("fchmod", fs__fchmod)
uv_fs_utime == ByPath("utime", fs__utime)
uv_fs_futime == ByFd("futime", fs__futime)

Requests ==
  {uv_fs_open, uv_fs_close, uv_fs_read(1), uv_fs_read(5), uv_fs_write(1), uv_fs_write(5),
   uv_fs_unlink, uv_fs_mkdir, uv_fs_mkdtemp, uv_fs_rmdir, uv_fs_scandir, uv_fs_link,
   uv_fs_symlink(TRUE), uv_fs_symlink(FALSE), uv_fs_readlink, uv_fs_realpath, uv_fs_chown,
   uv_fs_fchown, uv_fs_stat, uv_fs_lstat, uv_fs_fstat, uv_fs_rename, uv_fs_fsync,
   uv_fs_fdatasync, uv_fs_ftruncate, uv_fs_sendfile, uv_fs_access, uv_fs_chmod,
   uv_fs_fchmod, uv_fs_utime, uv_fs_futime}

NoReq == [type |-> "none", op |-> OneCall, paths |-> 0, bufs |-> 0]

-----------------------------------------------------------------------------
uv_fs_req_init(q) ==
  [q |-> q, flags |-> {}, result |-> 0, ptr |-> "null", pathw |-> FALSE, bufs |-> "null",
   nbufs |-> 0, async |-> FALSE, registered |-> FALSE]

Init ==
  /\ h = [uv_fs_req_init(NoReq) EXCEPT !.flags = {"CLEANEDUP"}]
  /\ kernel = [live |-> {}, dents |-> {}, bad |-> FALSE]
  /\ pending = "none" /\ pc = [at |-> "loop"] /\ cb = "none" /\ calls = 0
  /\ hist = [ran |-> FALSE, called |-> 0]

User == pc.at = "loop" /\ pending \in {"none", "queued"}

\* fs__capture_path: one buffer for all the paths.
fs__capture_path(r, q) ==
  IF q.paths = 0 THEN r ELSE [r EXCEPT !.pathw = TRUE, !.flags = @ \cup {"FREE_PATHS"}]

\* uv_fs_access stores the mode it was asked for over the flags; W_OK happens
\* to have the value of FREE_PATHS.
ArgumentFlags(r, q) ==
  IF q.type # "access" THEN {r.flags}
  ELSE {{"FREE_PATHS"}} \cup IF "access_read" \in FsFaults THEN {{}} ELSE {}

\* The request's own copy of the buffers, if they do not fit in it.
Bufs(q) == IF q.bufs = 0 THEN "null" ELSE IF q.bufs > 4 THEN "heap" ELSE "sml"

\* The end of the operation: the results, or an error from step p.
Result(r, p, n) ==
  LET op == r.q.op
  IN  [r EXCEPT !.result = IF p # 0 THEN -1 ELSE IF r.q.type = "scandir" THEN n ELSE 0,
                !.ptr = IF p # 0 \/ (op.ptr = "dents" /\ n = 0) THEN "null" ELSE op.ptr,
                !.flags = IF p = 0 /\ (op.ptr = "heap" \/ (op.ptr = "dents" /\ n > 0))
                          THEN @ \cup {"FREE_PTR"} ELSE @]

\* What is allocated or open after it.
After(r, k, p, n) ==
  [k EXCEPT !.live = (@ \cup Left(r.q.op, p))
                     \ ({"entries"} \cup (IF n = 0 THEN {"dents"} ELSE {})
                        \cup (IF p = 0 /\ r.q.type = "close" THEN {"file"} ELSE {})),
            !.dents = IF p = 0 /\ r.q.type = "scandir" THEN 1..n ELSE @]

Entries(q, p) == IF p = 0 /\ q.type = "scandir" THEN 0..MaxEntries ELSE {0}
FailsAt(q) == 0..Len(q.op.steps)

\* A call of uv_fs_*: invalid arguments or a lack of memory are returned at
\* once; the request is queued, or done here.
Submit(q, async) ==
  /\ User /\ pending = "none" /\ "CLEANEDUP" \in h.flags
  /\ calls < MaxFsCalls /\ calls' = calls + 1
  /\ \/ \* fs__capture_path fails, or the copy of the buffers
        /\ q.paths > 0 \/ q.bufs > 4
        /\ h' = uv_fs_req_init(q)
        /\ hist' = [ran |-> FALSE, called |-> 0]
        /\ UNCHANGED <<kernel, pending>>
     \/ LET r == [fs__capture_path(uv_fs_req_init(q), q) EXCEPT !.bufs = Bufs(q), !.async = async]
            k == [kernel EXCEPT !.live = @ \cup (IF r.pathw THEN {"paths"} ELSE {})
                                           \cup (IF r.bufs = "heap" THEN {"bufs"} ELSE {})]
        IN  \E fs \in ArgumentFlags(r, q) :
              LET s == [r EXCEPT !.flags = fs]
              IN  \/ /\ async
                     /\ h' = [s EXCEPT !.registered = TRUE]
                     /\ kernel' = k /\ pending' = "queued"
                     /\ hist' = [ran |-> FALSE, called |-> 0]
                  \/ /\ ~async
                     /\ \E p \in FailsAt(q) : \E n \in Entries(q, p) :
                          h' = Result(s, p, n) /\ kernel' = After(s, k, p, n)
                     /\ hist' = [ran |-> TRUE, called |-> 0]
                     /\ UNCHANGED pending
  /\ UNCHANGED <<pc, cb>>

\* uv__fs_work in a thread of the pool.
uv__fs_work ==
  /\ pending = "queued"
  /\ \E p \in FailsAt(h.q) : \E n \in Entries(h.q, p) :
       h' = Result(h, p, n) /\ kernel' = After(h, kernel, p, n)
  /\ pending' = "done" /\ hist' = [hist EXCEPT !.ran = TRUE]
  /\ UNCHANGED <<pc, cb, calls>>

\* uv_cancel of a request that no thread has taken.
uv_cancel ==
  /\ User /\ pending = "queued" /\ calls < MaxFsCalls /\ calls' = calls + 1
  /\ pending' = "cancelled"
  /\ UNCHANGED <<h, kernel, pc, cb, hist>>

\* uv__fs_done in the loop, up to the callback.
uv__fs_done ==
  /\ pc.at = "loop" /\ cb = "none" /\ pending \in {"done", "cancelled"}
  /\ IF pending = "cancelled" /\ h.result # 0
     THEN pc' = [at |-> "aborted"] /\ UNCHANGED <<h, cb, hist>>
     ELSE /\ h' = [h EXCEPT !.registered = FALSE,
                            !.result = IF pending = "cancelled" THEN -2 ELSE @]
          /\ cb' = "fs_cb" /\ hist' = [hist EXCEPT !.called = @ + 1]
          /\ UNCHANGED pc
  /\ pending' = "none"
  /\ UNCHANGED <<kernel, calls>>

\* uv__free of a set of things; freeing what is not live is the bad case.
Freed(k, names, dents) ==
  [k EXCEPT !.live = @ \ names, !.dents = @ \ dents,
            !.bad = @ \/ ~(names \subseteq k.live) \/ ~(dents \subseteq k.dents)]

CleanupFromNext(r) == r.nbufs + 1

\* The first entry that uv__fs_scandir_cleanup frees (entries count from 1):
\* the one last returned, unless that was the last of all.
CleanupFrom(r) == IF r.nbufs > 0 /\ r.nbufs # r.result THEN r.nbufs ELSE r.nbufs + 1

\* uv_fs_req_cleanup.
uv_fs_req_cleanup ==
  /\ User /\ pending = "none" /\ "CLEANEDUP" \notin h.flags
  /\ "stops_at_last" \in FsFaults
     \/ ~(h.ptr = "dents" /\ h.nbufs = h.result)
  /\ LET paths == IF "FREE_PATHS" \in h.flags THEN {"paths"} ELSE {}
         ptr == IF "FREE_PTR" \in h.flags /\ h.ptr # "null" THEN {h.ptr} ELSE {}
         dents == IF "FREE_PTR" \in h.flags /\ h.ptr = "dents" THEN CleanupFrom(h)..h.result ELSE {}
         bufs == IF h.bufs = "heap" THEN {"bufs"} ELSE {}
     IN  kernel' = Freed(kernel, paths \cup ptr \cup bufs, dents)
  /\ h' = [h EXCEPT !.pathw = FALSE, !.bufs = "null", !.ptr = "null",
                    !.flags = @ \cup {"CLEANEDUP"}]
  /\ UNCHANGED <<pending, pc, cb, calls, hist>>

\* uv_fs_scandir_next: the entry before is freed, and the array at the end.
\* Without an array that is a read through a null pointer.
uv_fs_scandir_next ==
  /\ User /\ pending = "none" /\ h.q.type = "scandir" /\ "CLEANEDUP" \notin h.flags
  /\ "next_after_end" \in FsFaults \/ (h.result >= 0 /\ (h.ptr = "dents" \/ h.nbufs = 0))
  /\ IF h.ptr = "null" /\ (h.nbufs > 0 \/ h.result # 0)
     THEN pc' = [at |-> "aborted"] /\ UNCHANGED <<h, kernel>>
     ELSE LET prev == IF h.nbufs > 0 THEN {h.nbufs} ELSE {}
              end == h.nbufs = h.result
          IN  /\ kernel' = Freed(kernel, IF end /\ h.ptr = "dents" THEN {"dents"} ELSE {}, prev)
              /\ h' = IF end THEN [h EXCEPT !.ptr = "null"] ELSE [h EXCEPT !.nbufs = @ + 1]
              /\ UNCHANGED pc
  /\ UNCHANGED <<pending, cb, calls, hist>>

CallbackReturns ==
  /\ cb # "none" /\ cb' = "none"
  /\ UNCHANGED <<h, kernel, pending, pc, calls, hist>>

UserCall ==
  \/ \E q \in Requests : \E async \in BOOLEAN : Submit(q, async)
  \/ uv_cancel \/ uv_fs_req_cleanup \/ uv_fs_scandir_next

HandlerStep == CallbackReturns
ProcessReq == uv__fs_done
SystemStep == uv__fs_work

Next == UserCall \/ CallbackReturns \/ uv__fs_done \/ uv__fs_work

-----------------------------------------------------------------------------
(* Properties.                                                             *)

\* Whatever step of an operation fails, what it leaves allocated or open is
\* exactly what the request still refers to and its cleanup will free; after
\* the cleanup nothing is left, and nothing was freed twice (fs.c:122-217,
\* 388-1813, 1883-1907, uv-common.c:496-530).
PendingExact ==
  /\ ~kernel.bad /\ pc.at # "aborted"
  /\ kernel.live \ {"file"} =
       {x \in {"paths"} : "FREE_PATHS" \in h.flags /\ h.pathw}
         \cup {x \in {"bufs"} : h.bufs = "heap"}
         \cup {x \in {"heap", "dents"} : h.ptr = x}
  /\ kernel.dents = {i \in 1..MaxEntries :
                       h.ptr = "dents" /\ i >= h.nbufs /\ i <= h.result}

\* The loop is kept alive by the request exactly from its queueing to its
\* callback; a synchronous request never has one (fs.c:46-50, 1868-1880).
ActiveExact ==
  /\ h.registered <=> pending # "none"
  /\ ~h.async => pending = "none" /\ hist.called = 0
  /\ hist.called <= 1

\* A cancelled operation did not touch the file system, and an error comes
\* without results (fs.c:1874-1877).
Sane ==
  /\ h.result = -2 => ~hist.ran /\ kernel.live \subseteq {"paths", "bufs", "file"}
  /\ h.result < 0 => h.ptr = "null"

Owes == pending # "none"
=============================================================================
