------------------------------ MODULE LogFiles ------------------------------
(***************************************************************************)
(* The files of one logger of log4z (openLogger and what run does with     *)
(* them): a file per day and per limit of size, named by the minute in     *)
(* which it was opened and by its index, appended to when it is there, and *)
(* removed after a time of reserve.  Sizes are unsigned int, modulo Wrap.  *)
(*                                                                         *)
(* And the file that configures the loggers (log4z.cpp): its text is split *)
(* into lines, the lines are trimmed and split at "=", and the loggers are *)
(* created and set.  A text is a sequence of tokens; what its writer means *)
(* is a sequence of sections, which Text lays out in several ways, and the *)
(* loggers have to be as it says.  A behaviour is about the one (Init) or  *)
(* about the other (ConfigInit).                                           *)
(***************************************************************************)
EXTENDS Integers, Sequences, FiniteSets, SequencesExt

CONSTANTS
  MaxTime,        \* bound: time, in seconds
  Minute, Day,    \* seconds of a minute and of a day
  MaxMessages,    \* bound: messages
  MaxHotChanges,  \* bound: settings
  MaxLate,        \* how much earlier than it is written a message was made
  Mega, Wrap,     \* 1024 * 1024 and 2^32
  ForceReserve,   \* LOG4Z_FORCE_RESERVE_FILE_COUNT
  FileFaults,     \* "late_messages", "closes_in_minute", "write_fails", "limit_wraps"
  MaxSections,    \* bound: sections of a text
  MaxConfigs,     \* bound: texts read
  LoggerMax,      \* LOG4Z_LOGGER_MAX
  ConfigFaults    \* "same_sum", "reserves", "too_many"

VARIABLES
  h,        \* LoggerInfo; of the text: the keys, _loggers, _checksum
  kernel,   \* time, and the files: what is in each; the loggers as the texts say they are
  pending,  \* number of the last message; "file" once config was called
  pc, cb, calls,
  hist      \* the last file removed although it was open, early changes of file; what went wrong
vars == <<h, kernel, pending, pc, cb, calls, hist>>

May(f) == f \in FileFaults
Lens == {1, 2}
Limits == {0, 1} \cup (IF May("limit_wraps") THEN {Wrap \div Mega} ELSE {})
Reserves == {0, 1, Minute + 1}
TrueLimit(limit) == IF limit = Wrap - 1 THEN Wrap - Mega ELSE limit * Mega
Name(t, index) == <<t \div Minute, index>>
Current == Name(h.created, h.index)
NoFile == [size |-> 0, msgs |-> <<>>, days |-> {}, limit |-> 0]
Files == kernel.files

Init ==
  /\ h = [open |-> FALSE, outfile |-> TRUE, created |-> 0, index |-> 0, len |-> 0, limit |-> 1,
          reserve |-> 0, history |-> <<>>]
  /\ kernel = [now |-> 0, files |-> [n \in {} |-> NoFile]]
  /\ pending = 0 /\ pc = "run" /\ cb = "none" /\ calls = 0 /\ hist = {}

-----------------------------------------------------------------------------
(* openLogger.                                                             *)

isSameDay(t, u) == t \div Day = u \div Day
TooLong(s) == s.len > (s.limit * Mega) % Wrap

ForgetsDay(s, t) ==
  IF ~TooLong(s) THEN s ELSE [s EXCEPT !.index = @ + 1, !.open = FALSE]

\* Another day, or too much in the file: it is closed.
Rolled(s, t) ==
  CASE ~isSameDay(t, s.created)            -> [s EXCEPT !.index = 0, !.open = FALSE]
    [] isSameDay(t, s.created) /\ TooLong(s) -> [s EXCEPT !.index = @ + 1, !.open = FALSE]
    [] OTHER                               -> s

\* Files whose reserve time is over, if there are more than enough.
Outlived(s) ==
  IF s.reserve = 0 \/ Len(s.history) <= ForceReserve THEN 0
  ELSE LET young == {i \in DOMAIN s.history : s.history[i].time >= kernel.now - s.reserve}
       IN  IF young = {} THEN Len(s.history) ELSE CHOOSE i \in 0..Len(s.history) :
             i + 1 \in young /\ \A j \in young : i + 1 <= j

\* A new file, or one of this name that is there already.
Opened(s, t) == [s EXCEPT !.open = TRUE, !.created = t, !.len = 0]
Removed(s) == {s.history[i].name : i \in 1..Outlived(s)}
Remembered(s, name) ==
  IF s.reserve = 0 THEN s
  ELSE [s EXCEPT !.history = Append(SubSeq(@, Outlived(s) + 1, Len(@)),
                                    [time |-> kernel.now, name |-> name])]

\* The message goes to the current file s; after removals.
Written(s, t, len, gone, ok) ==
  LET name == Name(s.created, s.index)
      kept == [n \in (DOMAIN Files \cup {name}) \ (gone \ {name}) |->
                 IF n \in DOMAIN Files /\ n \notin gone THEN Files[n] ELSE NoFile]
  IN  IF ok /\ name \notin gone
      THEN [kept EXCEPT ![name] = [size |-> @.size + len, msgs |-> Append(@.msgs, pending + 1),
                                   days |-> @.days \cup {t \div Day},
                                   limit |-> IF @.limit > TrueLimit(s.limit) THEN @.limit
                                             ELSE TrueLimit(s.limit)]]
      ELSE kept

\* r goes to the next file of the day before the limit is passed.
Early(r, t) ==
  isSameDay(t, h.created) /\ r.index > h.index /\ h.len <= TrueLimit(h.limit)

\* openLogger and Log4zFileHandler::write for a message made at t.
HandleLog(t, len, opens, ok) ==
  LET r == Rolled(h, t)
      o == Opened(r, t)
      name == Name(t, r.index)
      gone == IF r.open THEN {} ELSE Removed(r)
      s == IF r.open THEN r ELSE Remembered(o, name)
  IN  /\ IF r.open \/ opens
         THEN /\ h' = [s EXCEPT !.open = ok, !.len = @ + len]
              /\ kernel' = [kernel EXCEPT !.files = Written(s, t, len, gone, ok)]
              /\ hist' = hist \cup (IF name \in gone THEN {"removed_open"} ELSE {})
                              \cup (IF Early(r, t) THEN {"rolled_early"} ELSE {})
         ELSE /\ h' = [o EXCEPT !.open = FALSE, !.outfile = FALSE]
              /\ UNCHANGED <<kernel, hist>>

General ==
  /\ pending < MaxMessages /\ pending' = pending + 1 /\ h.outfile
  /\ \E late \in 0..(IF May("late_messages") THEN MaxLate ELSE 0), len \in Lens, opens \in BOOLEAN,
        ok \in IF May("write_fails") THEN BOOLEAN ELSE {TRUE} :
       late <= kernel.now /\ HandleLog(kernel.now - late, len, opens, ok)
  /\ UNCHANGED <<pc, cb, calls>>

\* onHotChange and what run does after it; unless "closes_in_minute", not in
\* the minute in which the file was opened.
HotChange ==
  /\ calls < MaxHotChanges /\ calls' = calls + 1
  /\ Len(h.history) > 0 \/ DOMAIN Files # {}
  /\ kernel.now \div Minute # h.created \div Minute \/ May("closes_in_minute")
  /\ \/ \E limit \in Limits : h' = [h EXCEPT !.limit = IF limit = 0 THEN Wrap - 1 ELSE limit, !.open = FALSE]
     \/ \E reserve \in Reserves : h' = [h EXCEPT !.reserve = reserve, !.open = FALSE]
     \/ ~h.outfile /\ h' = [h EXCEPT !.outfile = TRUE, !.open = FALSE]
  /\ UNCHANGED <<kernel, pending, pc, cb, hist>>

Tick ==
  /\ kernel.now < MaxTime /\ kernel' = [kernel EXCEPT !.now = @ + 1]
  /\ UNCHANGED <<h, pending, pc, cb, calls, hist>>

HandlerStep == General \/ HotChange \/ Tick
Next == HandlerStep

-----------------------------------------------------------------------------
(* Properties.                                                             *)

Before(n, m) == n[1] < m[1] \/ (n[1] = m[1] /\ n[2] < m[2])

\* The file that is open is not removed.
KeepsOpen == "removed_open" \notin hist

\* A file holds messages of the one day it is named for; a message goes into
\* it only until its limit is passed; a file is not left before; the names
\* are in the order of the messages; the file that is open is not removed.
Sane ==
  /\ hist = {}
  /\ h.open => Current \in DOMAIN Files
  /\ \A n \in DOMAIN Files :
       /\ \A d \in Files[n].days : d = (n[1] * Minute) \div Day
       /\ Files[n].size <= Files[n].limit + 2
       /\ \A m \in DOMAIN Files : Before(n, m) =>
            \A i \in Range(Files[n].msgs), j \in Range(Files[m].msgs) : i < j
-----------------------------------------------------------------------------
(* The text: tokens.                                                       *)

ConfigMay(f) == f \in ConfigFaults

Blank == {" ", "\r", "\n", "\t"}
lower(w) ==
  CASE w \in {"MAIN", "Main"} -> "main" [] w = "Level" -> "level" [] w = "WARN" -> "warn"
    [] OTHER -> w
lowered(s) == [i \in DOMAIN s |-> lower(s[i])]

\* Two words of the same letters have the same sum.
Code(w) ==
  CASE w \in {"warn", "rawn"} -> 440 [] w = "error" -> 554 [] w = "k" -> 107 [] w = "m" -> 109
    [] w \in {"Main", "MAIN", "main"} -> 421 [] OTHER -> 50
checksum(text) == FoldLeft(LAMBDA n, w : n + Code(w), 0, text)

Lowest(S) == CHOOSE i \in S : \A j \in S : i <= j
Highest(S) == CHOOSE i \in S : \A j \in S : j <= i

\* The mark at the beginning of a file goes, then what is ignored at both
\* ends.
trimLogConfig(s, ignored) ==
  LET t == IF s # <<>> /\ s[1] = "bom" THEN Tail(s) ELSE s
      kept == {i \in DOMAIN t : t[i] \notin ignored \cup Blank}
  IN  IF kept = {} THEN <<>> ELSE SubSeq(t, Lowest(kept), Highest(kept))

SplitLast(s, delimiter) ==
  LET at == {i \in DOMAIN s : s[i] = delimiter}
  IN  IF at = {} THEN <<s, <<>>>> ELSE <<SubSeq(s, 1, Highest(at) - 1), SubSeq(s, Highest(at) + 1, Len(s))>>

splitPairString(s, delimiter) ==
  LET at == {i \in DOMAIN s : s[i] = delimiter}
  IN  IF at = {} THEN <<s, <<>>>> ELSE <<SubSeq(s, 1, Lowest(at) - 1), SubSeq(s, Lowest(at) + 1, Len(s))>>

-----------------------------------------------------------------------------
(* Parsing.                                                                *)

LoggerInfo(key) == [key |-> key, enable |-> TRUE, level |-> 1, display |-> TRUE, path |-> <<"log", "/">>,
                    limit |-> 100, reserve |-> 0]

LevelOf(s, level) ==
  CASE s \in {<<"trace">>, <<"all">>} -> 0 [] s \in {<<"warn">>, <<"warning">>} -> 3
    [] s = <<"error">> -> 4 [] OTHER -> level
Flag(s) == s \notin {<<"false">>, <<"0">>}
atoi(s) == IF s = <<"7">> THEN 7 ELSE 0

\* One setting of a logger; a name that is not known changes nothing.
SetField(info, name, val) ==
  CASE name = <<"path">>    -> [info EXCEPT !.path = val]
    [] name = <<"level">>   -> [info EXCEPT !.level = LevelOf(lowered(val), @)]
    [] name = <<"display">> -> [info EXCEPT !.display = Flag(lowered(val))]
    [] name = <<"enable">>  -> [info EXCEPT !.enable = Flag(lowered(val))]
    [] name = <<"limitsize">> -> [info EXCEPT !.limit = atoi(val)]
    [] name = <<"reserve">> -> [info EXCEPT !.reserve = atoi(val)]
    [] OTHER                -> info

Has(infos, key) == \E i \in DOMAIN infos : infos[i].key = key
KeyOf(s) == IF lowered(s) = <<"main">> THEN <<"Main">> ELSE s

parseConfigLine(st, line) ==
  LET kv == splitPairString(line, "=")
      name == trimLogConfig(kv[1], {})
      val == trimLogConfig(kv[2], {})
  IN  CASE kv[1] = <<>> \/ name = <<>> -> st
        [] name # <<>> /\ name[1] = "#" -> st
        [] name # <<>> /\ name[1] = "[" ->
             LET key == KeyOf(trimLogConfig(name, {"[", "]"}))
             IN  [key |-> key,
                  infos |-> IF Has(st.infos, key) THEN st.infos ELSE Append(st.infos, LoggerInfo(key))]
        [] OTHER ->
             [st EXCEPT !.infos = [i \in DOMAIN @ |-> IF @[i].key = st.key
                                                       THEN SetField(@[i], lowered(name), val) ELSE @[i]]]

\* A line ends at "\r" and at "\n"; between the two of them is an empty one.
parseConfigFromString(text) ==
  LET r == FoldLeft(LAMBDA a, w : IF w \in {"\r", "\n"}
                                  THEN [st |-> parseConfigLine(a.st, a.line), line |-> <<>>]
                                  ELSE [a EXCEPT !.line = Append(@, w)],
                    [st |-> [key |-> <<>>, infos |-> <<>>], line |-> <<>>], text)
  IN  parseConfigLine(r.st, r.line).infos

-----------------------------------------------------------------------------
(* The loggers.                                                            *)

findLogger(m, key) == {i \in DOMAIN m.loggers : m.loggers[i].key = key}

createLogger(m, key) ==
  IF findLogger(m, key) # {} \/ Len(m.loggers) >= LoggerMax THEN m
  ELSE [m EXCEPT !.loggers = Append(@, LoggerInfo(key))]

\* setLoggerPath, setLoggerLimitSize; the others copy.
Slashed(path) == IF path[Len(path)] \in {"/", "\\"} THEN path ELSE Append(path, "/")
Applied(old, info) ==
  [info EXCEPT !.path = IF @ = <<>> THEN old.path ELSE Slashed(@),
               !.limit = IF @ = 0 THEN -1 ELSE @, !.reserve = old.reserve]

ApplyOne(m, info, isUpdate) ==
  LET c == IF isUpdate THEN m ELSE createLogger(m, info.key)
  IN  [c EXCEPT !.loggers = [i \in DOMAIN @ |-> IF @[i].key = info.key THEN Applied(@[i], info) ELSE @[i]]]

\* A text whose bytes have the sum of the last one's is taken for it.
configFromStringImpl(m, text, isUpdate) ==
  IF checksum(text) = m.checksum THEN m
  ELSE FoldLeft(LAMBDA a, info : ApplyOne(a, info, isUpdate),
                [m EXCEPT !.checksum = checksum(text)], parseConfigFromString(text))

-----------------------------------------------------------------------------
(* What is meant, and how it is written.                                   *)

Pairs == {<<"level", <<"WARN">>>>, <<"level", <<"error">>>>, <<"enable", <<"0">>>>,
          <<"path", <<"d", "=", "e">>>>, <<"limitsize", <<"0">>>>}
           \cup (IF ConfigMay("reserves") THEN {<<"reserve", <<"7">>>>} ELSE {})
Keys == {<<"Main">>, <<"k">>} \cup (IF ConfigMay("too_many") THEN {<<"m">>} ELSE {})
Sections == [key : Keys, set : {{}} \cup {{p} : p \in Pairs}]
Configs == UNION {{c \in [1..n -> Sections] : \A i, j \in 1..n : c[i].key = c[j].key => i = j} :
                    n \in 1..MaxSections}

Plain == [bom |-> FALSE, eol |-> <<"\n">>, pad |-> <<>>, note |-> FALSE]
Layouts == {Plain, [Plain EXCEPT !.bom = TRUE, !.pad = <<" ">>],
            [Plain EXCEPT !.eol = <<"\r", "\n">>, !.note = TRUE, !.pad = <<" ">>]}

Line(l, name, val) == l.pad \o <<name>> \o l.pad \o <<"=">> \o l.pad \o val \o l.eol
SectionText(l, s) ==
  l.pad \o <<"[">> \o l.pad \o (IF s.key = <<"Main">> /\ l.note THEN <<"MAIN">> ELSE s.key) \o <<"]">>
    \o l.eol \o (IF l.note THEN <<"#", "k", "=", "0">> \o l.eol \o l.eol ELSE <<>>)
    \o (IF s.set = {} THEN <<>> ELSE LET p == CHOOSE p \in s.set : TRUE IN Line(l, p[1], p[2]))
Text(l, c) ==
  (IF l.bom THEN <<"bom">> ELSE <<>>) \o FoldLeft(LAMBDA t, s : t \o SectionText(l, s), <<>>, c)

\* The logger that a section means: what it does not name is as by default.
Meant(s) ==
  LET Value(name, other) == IF \E p \in s.set : p[1] = name
                            THEN (CHOOSE p \in s.set : p[1] = name)[2] ELSE other
  IN  [LoggerInfo(s.key) EXCEPT
                !.level = IF Value("level", <<>>) = <<"WARN">> THEN 3
                          ELSE IF Value("level", <<>>) = <<"error">> THEN 4 ELSE @,
                !.enable = Value("enable", <<"1">>) # <<"0">>,
                !.path = IF Value("path", <<>>) = <<>> THEN @ ELSE <<"d", "=", "e", "/">>,
                !.limit = IF Value("limitsize", <<>>) = <<>> THEN @ ELSE -1,
                !.reserve = IF Value("reserve", <<>>) = <<>> THEN @ ELSE 7]

\* The keys of a text whose loggers are there, as they were meant.
After(c, known) ==
  [k \in DOMAIN kernel \cup known |->
     IF \E i \in DOMAIN c : c[i].key = k THEN Meant(CHOOSE s \in Range(c) : s.key = k)
     ELSE IF k \in DOMAIN kernel THEN kernel[k] ELSE LoggerInfo(k)]

ConfigInit ==
  /\ h = [loggers |-> <<LoggerInfo(<<"Main">>)>>, checksum |-> 0]
  /\ kernel = [k \in {<<"Main">>} |-> LoggerInfo(k)]
  /\ pending = "none" /\ pc = "run" /\ cb = "none" /\ calls = 0 /\ hist = {}

Wrong(c, text) ==
  IF {info.key : info \in Range(parseConfigFromString(text))} = {c[i].key : i \in DOMAIN c}
  THEN {} ELSE {"misread"}

\* Unless "same_sum", a text that differs has another sum.
Differs(c, text) == ConfigMay("same_sum") \/ checksum(text) # h.checksum

Reads(c, l, isUpdate) ==
  LET text == Text(l, c)
  IN  /\ calls < MaxConfigs /\ calls' = calls + 1 /\ Differs(c, text)
      /\ h' = configFromStringImpl(h, text, isUpdate)
      /\ hist' = hist \cup Wrong(c, text)
      /\ kernel' = After(c, IF isUpdate THEN {} ELSE {c[i].key : i \in DOMAIN c})
      /\ UNCHANGED <<pc, cb>>

\* config refuses a second file; updateConfig reads the file of the first.
config == pending = "none" /\ pending' = "file" /\ calls = 0 /\ \E c \in Configs, l \in Layouts : Reads(c, l, FALSE)
configFromString == UNCHANGED pending /\ \E c \in Configs : Reads(c, Plain, FALSE)
updateConfig ==
  /\ pending = "file" /\ UNCHANGED pending
  /\ \E c \in Configs : {c[i].key : i \in DOMAIN c} \subseteq DOMAIN kernel /\ Reads(c, Plain, TRUE)

ConfigHandlerStep == config \/ configFromString \/ updateConfig
ConfigNext == ConfigHandlerStep

-----------------------------------------------------------------------------
(* Of the text.                                                            *)

\* Every section is found, and every logger is as the last text that named it
\* says.
ConfigSane ==
  /\ hist = {}
  /\ \A k \in DOMAIN kernel : \E i \in DOMAIN h.loggers : h.loggers[i] = kernel[k]
=============================================================================
