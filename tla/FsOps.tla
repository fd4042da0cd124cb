-------------------------------- MODULE FsOps --------------------------------
(***************************************************************************)
(* What file system requests compute (src/win/fs.c): the translation of    *)
(* open's flags, the loops of read, write and sendfile over buffers and    *)
(* offsets, the names of junctions and links, the entries of a directory,  *)
(* the mode of a stat.  A behaviour is one computation; the file system is *)
(* modelled by what the calls do to it.                                    *)
(***************************************************************************)
EXTENDS Integers, Sequences, FiniteSets, SequencesExt

CONSTANTS
  MaxFile,        \* bound: bytes of a file
  MaxBufs,        \* bound: buffers, of at most 2 bytes
  MaxTarget,      \* bound: length of a junction's target after its drive
  MaxDirents,     \* bound: entries of a directory
  DirentsInitial, \* the first size of the array of entries (32 in the code)
  FsOpFaults      \* "short_reads", "short_writes"

VARIABLES
  h,        \* the input
  kernel,   \* the result
  pending, pc, cb, calls, hist
vars == <<h, kernel, pending, pc, cb, calls, hist>>

Least(a, b) == IF a <= b THEN a ELSE b
May(f) == f \in FsOpFaults

-----------------------------------------------------------------------------
(* fs__open: flags are a set; WRONLY and RDWR together are no mode.        *)

OpenFlags == {"WRONLY", "RDWR", "APPEND", "CREAT", "EXCL", "TRUNC", "TEMPORARY", "SEQUENTIAL", "RANDOM"}

open_access(f) ==
  LET base == CASE f \cap {"WRONLY", "RDWR"} = {}         -> {"READ"}
                [] f \cap {"WRONLY", "RDWR"} = {"WRONLY"} -> {"WRITE_DATA", "APPEND_DATA"}
                [] OTHER                                  -> {"READ", "WRITE_DATA", "APPEND_DATA"}
      append == IF "APPEND" \in f THEN (base \ {"WRITE_DATA"}) \cup {"APPEND_DATA"} ELSE base
  IN  IF "TEMPORARY" \in f THEN append \cup {"DELETE"} ELSE append

open_disposition(f) ==
  CASE f \cap {"CREAT", "EXCL", "TRUNC"} \in {{}, {"EXCL"}} -> "OPEN_EXISTING"
    [] f \cap {"CREAT", "EXCL", "TRUNC"} = {"CREAT"}        -> "OPEN_ALWAYS"
    [] {"CREAT", "EXCL"} \subseteq f                        -> "CREATE_NEW"
    [] f \cap {"CREAT", "TRUNC"} = {"TRUNC"}                -> "TRUNCATE_EXISTING"
    [] OTHER                                                -> "CREATE_ALWAYS"

open_attributes(f, writable) ==
  {a \in {"READONLY", "DELETE_ON_CLOSE", "SEQUENTIAL_SCAN", "RANDOM_ACCESS"} :
     \/ a = "READONLY" /\ "CREAT" \in f /\ ~writable
     \/ a = "DELETE_ON_CLOSE" /\ "TEMPORARY" \in f
     \/ a = "SEQUENTIAL_SCAN" /\ "SEQUENTIAL" \in f
     \/ a = "RANDOM_ACCESS" /\ "RANDOM" \in f}

\* CreateFileW on what is there: "absent", "file" or "dir".
CreateFileW(there, access, disposition) ==
  LET No(e) == [err |-> e, there |-> there, truncated |-> FALSE]
      Yes(t, tr) == [err |-> "none", there |-> t, truncated |-> tr]
  IN  CASE disposition = "OPEN_EXISTING" ->
             IF there = "absent" THEN No("NOT_FOUND") ELSE Yes(there, FALSE)
        [] disposition = "OPEN_ALWAYS" -> Yes(IF there = "absent" THEN "file" ELSE there, FALSE)
        [] disposition = "CREATE_NEW" ->
             IF there = "absent" THEN Yes("file", FALSE) ELSE No("FILE_EXISTS")
        [] disposition = "CREATE_ALWAYS" ->
             IF there = "dir" THEN No("FILE_EXISTS") ELSE Yes("file", there = "file")
        [] OTHER ->
             IF there # "file" \/ "WRITE_DATA" \notin access THEN No("INVALID") ELSE Yes("file", TRUE)

fs__open(f, writable, there) ==
  IF {"WRONLY", "RDWR"} \subseteq f \/ {"SEQUENTIAL", "RANDOM"} \subseteq f
  THEN [err |-> "EINVAL", there |-> there, truncated |-> FALSE, access |-> {}, attributes |-> {}]
  ELSE LET r == CreateFileW(there, open_access(f), open_disposition(f))
       IN  [err |-> IF r.err = "FILE_EXISTS" /\ "CREAT" \in f /\ "EXCL" \notin f THEN "EISDIR" ELSE r.err,
            there |-> r.there, truncated |-> r.truncated,
            access |-> open_access(f), attributes |-> open_attributes(f, writable)]

-----------------------------------------------------------------------------
(* Reading and writing.  A file is a sequence; an offset of -1 uses the    *)
(* file position, which the calls move.  fails is the buffer whose call    *)
(* fails, 0 if none does.                                                  *)

SubOf(file, at, n) == SubSeq(file, Least(at, Len(file)) + 1, Least(at + n, Len(file)))

\* ReadFile at a place: n bytes at most; the end of the file is an error only
\* for a read at an offset.  A pipe gives less than was asked for.
ReadFile(file, at, n, explicit) ==
  IF explicit /\ at >= Len(file) THEN [ok |-> FALSE, eof |-> TRUE, got |-> <<>>]
  ELSE [ok |-> TRUE, eof |-> FALSE, got |-> SubOf(file, at, n)]

\* Every buffer is read from the same offset.
SamePlace(pos, offset, bytes) == IF offset # -1 THEN offset ELSE pos + bytes

\* Where the next call of a loop reads or writes.
Place(pos, offset, bytes) == IF offset # -1 THEN offset + bytes ELSE pos + bytes

\* fs__read: a failure after some bytes is a short read.
fs__read(file, pos, offset, lens, fails) ==
  LET explicit == offset # -1
      loop[i \in 1..Len(lens) + 1] ==
        IF i = 1 THEN [bytes |-> 0, ok |-> TRUE, eof |-> FALSE, bufs |-> <<>>]
        ELSE LET s == loop[i - 1]
                 at == Place(pos, offset, s.bytes)
                 n == IF May("short_reads") THEN Least(lens[i - 1], 1) ELSE lens[i - 1]
                 r == ReadFile(file, at, n, explicit)
             IN  IF ~s.ok THEN s
                 ELSE IF fails = i - 1 THEN [s EXCEPT !.ok = FALSE]
                 ELSE [bytes |-> s.bytes + Len(r.got), ok |-> r.ok, eof |-> r.eof,
                       bufs |-> Append(s.bufs, r.got)]
      e == loop[Len(lens) + 1]
  IN  IF e.ok \/ e.bytes > 0 \/ e.eof THEN [result |-> e.bytes, bufs |-> e.bufs]
      ELSE [result |-> -1, bufs |-> e.bufs]

\* A write replaces and extends; a gap is filled with zeros.
Written(file, at, data) ==
  [i \in 1..(IF at + Len(data) > Len(file) THEN at + Len(data) ELSE Len(file)) |->
     IF i > at /\ i <= at + Len(data) THEN data[i - at]
     ELSE IF i <= Len(file) THEN file[i] ELSE 0]

fs__write(file, pos, offset, bufs, fails) ==
  LET loop[i \in 1..Len(bufs) + 1] ==
        IF i = 1 THEN [bytes |-> 0, ok |-> TRUE, file |-> file]
        ELSE LET s == loop[i - 1]
                 at == Place(pos, offset, s.bytes)
             IN  IF ~s.ok THEN s
                 ELSE IF fails = i - 1 THEN [s EXCEPT !.ok = FALSE]
                 ELSE [bytes |-> s.bytes + Len(bufs[i - 1]), ok |-> TRUE,
                       file |-> Written(s.file, at, bufs[i - 1])]
      e == loop[Len(bufs) + 1]
  IN  [result |-> IF e.ok \/ e.bytes > 0 THEN e.bytes ELSE -1, file |-> e.file]

\* fs__sendfile copies in chunks of two bytes (65536 in the code); a write may
\* take less than it is given.  An error gives up the count.
fs__sendfile(in, offset, length, fails) ==
  LET start == IF offset = -1 THEN 0 ELSE offset
      loop[i \in 0..length] ==
        IF i = 0 THEN [left |-> length, at |-> start, result |-> 0, end |-> FALSE, out |-> <<>>]
        ELSE LET s == loop[i - 1]
                 got == SubOf(in, s.at, Least(s.left, 2))
                 put == IF May("short_writes") THEN SubSeq(got, 1, Least(Len(got), 1)) ELSE got
             IN  IF s.end \/ s.left = 0 THEN s
                 ELSE IF got = <<>> THEN [s EXCEPT !.end = TRUE]
                 ELSE IF fails = i THEN [s EXCEPT !.end = TRUE, !.result = -1]
                 ELSE [left |-> s.left - Len(got), at |-> s.at + Len(got),
                       result |-> s.result + Len(put), end |-> FALSE, out |-> s.out \o put]
  IN  loop[length]

-----------------------------------------------------------------------------
(* Links.  Characters: a letter, the separators, the colon and "?".        *)

Slash == {"\\", "/"}
NtPrefix == <<"\\", "?", "?", "\\">>
LongPrefix == <<"\\", "\\", "?", "\\">>

\* The copy loop of fs__create_junction: runs of separators become one
\* backslash, and one at the end is dropped.
Folded(path) ==
  FoldLeft(LAMBDA acc, c :
      IF c \in Slash THEN [acc EXCEPT !.add_slash = TRUE]
      ELSE [add_slash |-> FALSE, out |-> acc.out \o (IF acc.add_slash THEN <<"\\">> ELSE <<>>) \o <<c>>],
    [add_slash |-> FALSE, out |-> <<>>], path).out

StartsWith(s, p) == Len(s) >= Len(p) /\ SubSeq(s, 1, Len(p)) = p

DrivePath(p) == Len(p) >= 3 /\ p[1] = "x" /\ p[2] = ":" /\ p[3] \in Slash

fs__create_junction(path) ==
  LET long == StartsWith(path, LongPrefix)
      body == Folded(IF long THEN SubSeq(path, 5, Len(path)) ELSE path)
      subst == NtPrefix \o body \o <<"\\">>
      shown == IF Len(body) = 2 THEN body \o <<"\\">> ELSE body
  IN  IF ~long /\ ~DrivePath(path) THEN [err |-> TRUE, subst |-> <<>>, shown |-> <<>>, used |-> 0]
      ELSE [err |-> FALSE, subst |-> subst, shown |-> shown, used |-> Len(subst) + Len(shown) + 2]

\* What the code allocates for the names, in characters.
JunctionBuffer(path) == 4 + 2 * (Len(path) + 2)

\* \??\x:\ at the start of a name.
NtDrive(t) ==
  /\ Len(t) >= 6 /\ StartsWith(t, NtPrefix) /\ t[5] = "x" /\ t[6] = ":"
  /\ Len(t) = 6 \/ t[7] = "\\"

NtUnc == NtPrefix \o <<"U", "N", "C", "\\">>

\* fs__readlink_handle: the name as a user would write it.
fs__readlink_handle(tag, t) ==
  CASE tag = "symlink" /\ NtDrive(t) -> [err |-> FALSE, name |-> SubSeq(t, 5, Len(t))]
    [] tag = "symlink" /\ ~NtDrive(t) /\ StartsWith(t, NtUnc) ->
         [err |-> FALSE, name |-> <<"\\">> \o SubSeq(t, 8, Len(t))]
    [] tag = "symlink" /\ ~NtDrive(t) /\ ~StartsWith(t, NtUnc) -> [err |-> FALSE, name |-> t]
    [] tag = "mount_point" /\ NtDrive(t) -> [err |-> FALSE, name |-> SubSeq(t, 5, Len(t))]
    [] OTHER -> [err |-> TRUE, name |-> <<>>]

\* fs__realpath_handle on the name the system gives.
fs__realpath_handle(t) ==
  IF StartsWith(t, LongPrefix \o <<"U", "N", "C", "\\">>)
  THEN [err |-> FALSE, name |-> <<"\\">> \o SubSeq(t, 8, Len(t))]
  ELSE IF StartsWith(t, LongPrefix) THEN [err |-> FALSE, name |-> SubSeq(t, 5, Len(t))]
  ELSE [err |-> TRUE, name |-> <<>>]

\* fs__stat_prepare_path: a separator at the end goes, but not that of a root.
fs__stat_prepare_path(p) ==
  IF Len(p) > 1 /\ p[Len(p) - 1] # ":" /\ p[Len(p)] \in Slash THEN SubSeq(p, 1, Len(p) - 1) ELSE p

-----------------------------------------------------------------------------
(* Directories and modes.                                                  *)

\* The entries kept by fs__scandir, in an array that doubles when it is full.
fs__scandir(names) ==
  FoldLeft(LAMBDA acc, n :
      IF n \in {"", ".", ".."} THEN acc
      ELSE LET size == IF Len(acc.dirents) < acc.size THEN acc.size
                       ELSE IF acc.size = 0 THEN DirentsInitial ELSE 2 * acc.size
           IN  [size |-> size, dirents |-> Append(acc.dirents, n)],
    [size |-> 0, dirents |-> <<>>], names)

\* fs__stat_handle: the type and the permissions; link is what the reparse
\* point is: a link, none (the data is missing), or another kind.
fs__stat_handle(attrs, link) ==
  IF "REPARSE_POINT" \in attrs /\ link = "other" THEN [err |-> TRUE, type |-> {}, write |-> FALSE]
  ELSE [err |-> FALSE,
        type |-> IF "REPARSE_POINT" \in attrs /\ link = "link" THEN {"LNK"}
                 ELSE IF "DIRECTORY" \in attrs THEN {"DIR"} ELSE {"REG"},
        write |-> "READONLY" \notin attrs]

fs__access(attrs, mode) ==
  "W" \notin mode \/ "READONLY" \notin attrs \/ "DIRECTORY" \in attrs

-----------------------------------------------------------------------------
Files == {[i \in 1..n |-> i] : n \in 0..MaxFile}
Lens == UNION {[1..k -> 1..2] : k \in 1..MaxBufs}
Data(lens) == [i \in DOMAIN lens |-> [j \in 1..lens[i] |-> 10 * i + j]]
Tails(S, n) == UNION {[1..k -> S] : k \in 0..n}
Attrs == SUBSET {"REPARSE_POINT", "DIRECTORY", "READONLY"}

Targets ==
  {p \o t : p \in {<<"x", ":", "\\">>, LongPrefix \o <<"x", ":", "\\">>, <<"x">>, <<>>},
            t \in Tails({"x", "\\", "/"}, MaxTarget)}

Init ==
  /\ \/ h \in [kind : {"open"}, flags : SUBSET OpenFlags, writable : BOOLEAN,
               there : {"absent", "file", "dir"}]
     \/ h \in [kind : {"read", "write"}, file : Files, pos : 0..1, offset : {-1, 0, 1},
               lens : Lens, fails : 0..MaxBufs]
     \/ h \in [kind : {"sendfile"}, file : Files, offset : {-1, 0, 1}, length : 0..MaxFile + 1,
               fails : 0..2]
     \/ h \in [kind : {"link", "prepare"}, path : Targets]
     \/ h \in [kind : {"unc"}, path : Tails({"x", "\\"}, 2)]
     \/ h \in [kind : {"scandir"}, names : Tails({"", ".", "..", "a", "b"}, MaxDirents)]
     \/ h \in [kind : {"stat"}, attrs : Attrs, link : {"link", "none", "other"}, mode : SUBSET {"R", "W"}]
  /\ kernel = <<>> /\ pc = [at |-> "loop"]
  /\ pending = {} /\ cb = "none" /\ calls = 0 /\ hist = <<>>

Compute ==
  /\ pc.at = "loop"
  /\ kernel' =
       CASE h.kind = "open"  -> fs__open(h.flags, h.writable, h.there)
         [] h.kind = "read"  -> fs__read(h.file, h.pos, h.offset, h.lens, h.fails)
         [] h.kind = "write" -> fs__write(h.file, h.pos, h.offset, Data(h.lens), h.fails)
         [] h.kind = "sendfile" -> fs__sendfile(h.file, h.offset, h.length, h.fails)
         [] h.kind = "link"  -> fs__create_junction(h.path)
         [] h.kind = "prepare" -> fs__stat_prepare_path(h.path)
         [] h.kind = "unc"   -> <<fs__readlink_handle("symlink", NtUnc \o h.path),
                                  fs__realpath_handle(LongPrefix \o <<"U", "N", "C", "\\">> \o h.path)>>
         [] h.kind = "scandir" -> fs__scandir(h.names)
         [] OTHER -> fs__stat_handle(h.attrs, h.link) @@ [access |-> fs__access(h.attrs, h.mode)]
  /\ pc' = [at |-> "done"]
  /\ UNCHANGED <<h, pending, cb, calls, hist>>

HandlerStep == Compute
Next == Compute

-----------------------------------------------------------------------------
(* Properties.                                                             *)

Done(kind) == pc.at = "done" /\ h.kind = kind

\* Opening never loses a content that O_TRUNC does not give up, creates only
\* what O_CREAT asks for and only where nothing is with O_EXCL, gives a write
\* access only to those who asked for it and with O_APPEND only at the end
\* (fs.c:402-505).
OpensAsAsked ==
  Done("open") =>
    LET f == h.flags
        bad == {"WRONLY", "RDWR"} \subseteq f \/ {"SEQUENTIAL", "RANDOM"} \subseteq f
    IN  /\ bad <=> kernel.err = "EINVAL"
        /\ kernel.truncated => "TRUNC" \in f /\ h.there = "file" /\ ~({"CREAT", "EXCL"} \subseteq f)
        /\ "TRUNC" \in f /\ kernel.err = "none" /\ h.there = "file" => kernel.truncated
        /\ h.there = "absent" => (kernel.there = "file" <=> "CREAT" \in f /\ ~bad)
        /\ {"CREAT", "EXCL"} \subseteq f /\ h.there # "absent" => kernel.err # "none"
        /\ h.there # "absent" => kernel.there = h.there
        /\ kernel.access \cap {"WRITE_DATA", "APPEND_DATA"} # {}
             => f \cap {"WRONLY", "RDWR", "APPEND"} # {}
        /\ "APPEND" \in f => "WRITE_DATA" \notin kernel.access

\* A handle that was asked for reading only cannot write.
ReadOnlyCannotWrite ==
  Done("open") /\ h.flags \cap {"WRONLY", "RDWR"} = {} =>
    kernel.access \cap {"WRITE_DATA", "APPEND_DATA"} = {}

\* A read gives the bytes of the file from its place on, as many as it says,
\* and without gaps in the buffers; it is an error only if nothing was read
\* before the failure (fs.c:582-609).
ReadsInOrder ==
  Done("read") =>
    LET at == IF h.offset = -1 THEN h.pos ELSE h.offset
        bytes == FoldLeft(LAMBDA a, b : a \o b, <<>>, kernel.bufs)
    IN  /\ kernel.result = -1 => h.fails # 0 /\ bytes = <<>>
        /\ kernel.result >= 0 => bytes = SubOf(h.file, at, kernel.result)
        /\ h.fails = 0 => kernel.result =
             Least(IF Len(h.file) > at THEN Len(h.file) - at ELSE 0, FoldLeft(LAMBDA a, b : a + b, 0, h.lens))
        /\ \A i, j \in DOMAIN kernel.bufs :
             i < j /\ kernel.bufs[j] # <<>> => Len(kernel.bufs[i]) = h.lens[i]

\* After a write the file has the data of the buffers in their order, as much
\* of them as the result says, and the rest is as before (fs.c:640-662).
WritesInOrder ==
  Done("write") =>
    LET at == IF h.offset = -1 THEN h.pos ELSE h.offset
        all == FoldLeft(LAMBDA a, b : a \o b, <<>>, Data(h.lens))
        n == IF kernel.result > 0 THEN kernel.result ELSE 0
    IN  /\ kernel.file = IF n = 0 THEN h.file ELSE Written(h.file, at, SubSeq(all, 1, n))
        /\ h.fails \notin DOMAIN h.lens => n = Len(all)

\* sendfile puts the bytes it counts on the other side, none left out
\* (fs.c:1336-1354).
SendsInOrder ==
  Done("sendfile") =>
    LET at == IF h.offset = -1 THEN 0 ELSE h.offset
    IN  /\ kernel.out = SubOf(h.file, at, Len(kernel.out))
        /\ kernel.result \in {-1, Len(kernel.out)}

\* A junction's names fit the buffer that was allocated for them, and reading
\* the link gives the directory it was made for; names of servers come back
\* with two backslashes (fs.c:305-384, 1540-1614, 1761-1777).
LinksReadBack ==
  /\ Done("link") /\ ~kernel.err =>
       /\ kernel.used <= JunctionBuffer(h.path)
       /\ LET back == fs__readlink_handle("mount_point", kernel.subst)
          IN  ~back.err /\ (back.name = kernel.shown \/ back.name = kernel.shown \o <<"\\">>)
  /\ Done("unc") => \A i \in 1..2 : ~kernel[i].err /\ kernel[i].name = <<"\\", "\\">> \o h.path
  /\ Done("prepare") =>
       /\ Len(kernel) >= Len(h.path) - 1 /\ (h.path # <<>> => kernel # <<>>)
       /\ h.path = <<"x", ":", "\\">> => kernel = h.path

\* The entries come in order without the directory itself and its parent, and
\* the array has room for each of them; a stat says one type (fs.c:881-970,
\* 1089-1120).
ScansAll ==
  /\ Done("scandir") =>
       /\ kernel.dirents = SelectSeq(h.names, LAMBDA n : n \notin {"", ".", ".."})
       /\ Len(kernel.dirents) <= kernel.size
  /\ Done("stat") /\ ~kernel.err => Cardinality(kernel.type) = 1
       /\ (kernel.write /\ "W" \in h.mode => kernel.access)

Sane ==
  /\ OpensAsAsked /\ ReadsInOrder /\ WritesInOrder /\ SendsInOrder /\ LinksReadBack /\ ScansAll
=============================================================================
