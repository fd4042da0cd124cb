----------------------------- MODULE TtyScreen ------------------------------
(***************************************************************************)
(* Writing to a console that knows no escape sequences: uv_tty_write_bufs  *)
(* of win/tty.c, the UTF-8 decoder and the ANSI parser whose state stays   *)
(* in the handle between two writes, the virtual window in which the caret *)
(* moves, the text attributes, and the requests of uv_tty_write.           *)
(*                                                                         *)
(* A byte is one of Bytes below; text is not kept, only where the caret is *)
(* and what was erased.  The screen buffer has Rows rows and Cols columns. *)
(***************************************************************************)
EXTENDS UvHandle, SequencesExt

CONSTANTS Rows, Cols, Heights, MaxBytes, MaxTtyWrites, ArgvSize,
          ScreenFaults   \* what the run lets go wrong (README, section 5)

\* h: the handle with its parser; kernel: the console; pending: the virtual
\* window (static in tty.c); pc: the write under way, and the requests done;
\* hist: the argument as it was typed, the last erasure, what the style is.
VARIABLES h, kernel, pending, pc, cb, calls, hist
vars == <<h, kernel, pending, pc, cb, calls, hist>>

Digits == [d \in {"0", "1", "7"} |-> CASE d = "0" -> 0 [] d = "1" -> 1 [] d = "7" -> 7]
Final == {"A", "E", "H", "J", "K", "m", "s", "u", "l", "c", "x", "[", "]", "\\"}
Ascii == DOMAIN Digits \cup Final \cup {"ESC", "BEL", "quote", ";", "?", "!", "LF"}
Bytes == Ascii \cup {"lead2", "lead4", "cont", "0xff"}
UINT16_MAX == 65535
Shutdown == 0   \* the shutdown request; writes are numbered from 1

May(fault) == fault \in ScreenFaults

Plain == [fg |-> 7, bg |-> 0, fgb |-> 0, bgb |-> 0, inverse |-> 0]

-----------------------------------------------------------------------------
(* The virtual window.  w is the window, c the console.                    *)

Above(o, w, c) ==
  IF o = -1 THEN c.Y
  ELSE IF o < c.Y - w.height + 1 THEN c.Y - w.height + 1 ELSE o
UnclippedOffset(o, w) == IF o + w.height > Rows + 1 THEN Rows - w.height ELSE o
ClippedOffset(o, w) == IF o + w.height > Rows THEN Rows - w.height ELSE o

uv_tty_update_virtual_window(w, c) ==
  LET v == [w EXCEPT !.width = Cols, !.height = c.height]
      o == ClippedOffset(Above(v.offset, v, c), v)
  IN  [v EXCEPT !.offset = IF o < 0 THEN 0 ELSE o]

Clip(x, low, high) == IF x < low THEN low ELSE IF x > high THEN high ELSE x

\* w has been brought up to date with c.
uv_tty_make_real_coord(w, c, x, x_relative, y, y_relative) ==
  [X |-> Clip(IF x_relative THEN c.X + x ELSE x, 0, w.width - 1),
   Y |-> Clip(IF y_relative THEN c.Y + y ELSE w.offset + y, w.offset, w.offset + w.height - 1)]

-----------------------------------------------------------------------------
(* The operations of the console.  Each is the value of <<console, window, *)
(* handle>> after it, error is whether one has failed before.              *)

Nothing == <<kernel, pending, h>>

uv_tty_move_caret(x, xr, y, yr) ==
  LET w == uv_tty_update_virtual_window(pending, kernel)
      p == uv_tty_make_real_coord(w, kernel, x, xr, y, yr)
  IN  <<[kernel EXCEPT !.X = p.X, !.Y = p.Y], w, h>>

uv_tty_reset ==
  LET c == [kernel EXCEPT !.X = 0, !.Y = 0, !.attr = Plain]
  IN  <<c, uv_tty_update_virtual_window([pending EXCEPT !.offset = 0], c), h>>

\* uv_tty_clear: dir 0 to the end, 1 from the beginning, 2 everything.
ClearFrom(w, dir, entire) ==
  uv_tty_make_real_coord(w, kernel, 0, dir = 0, 0, ~entire \/ dir = 0)
ClearTo(w, dir, entire) ==
  uv_tty_make_real_coord(w, kernel, IF dir = 1 THEN 0 ELSE UINT16_MAX, dir = 1,
                         IF dir = 1 \/ ~entire THEN 0 ELSE UINT16_MAX, ~entire \/ dir = 1)

uv_tty_clear == <<kernel, uv_tty_update_virtual_window(pending, kernel), h>>

\* The changes an argument of "m" makes: a function from what changes.
Change(ch, arg) ==
  CASE arg = 0 -> Plain
    [] arg = 1 -> [fgb |-> 1] @@ ch
    [] arg = 7 -> [inverse |-> 1] @@ ch
    [] arg \in 30..37 -> [fg |-> arg - 30] @@ ch   \* and so on, to 107
    [] OTHER -> ch

FLIP_FGBG(a) == [a EXCEPT !.fg = a.bg, !.bg = a.fg, !.fgb = a.bgb, !.bgb = a.fgb]
Flipped(a) == IF a.inverse = 1 THEN FLIP_FGBG(a) ELSE a

Changes(argv) == IF argv = <<>> THEN Plain ELSE FoldLeft(Change, <<>>, argv)

uv_tty_set_style == 
  LET ch == Changes(h.argv)
  IN  IF ch = <<>> THEN Nothing
      ELSE <<[kernel EXCEPT !.attr = Flipped(ch @@ Flipped(@))], pending, h>>

uv_tty_save_state(attributes) ==
  LET w == uv_tty_update_virtual_window(pending, kernel)
      t == [h EXCEPT !.saved = <<kernel.X, kernel.Y - w.offset>>]
  IN  <<kernel, w, IF attributes THEN [t EXCEPT !.bright = <<kernel.attr.fgb, kernel.attr.bgb>>]
                   ELSE t>>

uv_tty_restore_state(attributes) ==
  LET moved == IF h.saved = <<>> THEN Nothing
               ELSE uv_tty_move_caret(h.saved[1], FALSE, h.saved[2], FALSE)
  IN  IF attributes /\ h.bright # <<>>
      THEN <<[moved[1] EXCEPT !.attr.fgb = h.bright[1], !.attr.bgb = h.bright[2]], moved[2], h>>
      ELSE moved

uv_tty_set_cursor_visibility == <<[kernel EXCEPT !.visible = ~@], pending, h>>

\* WriteConsole: the console scrolls when the caret leaves its last row.
uv_tty_emit_text(newline) ==
  LET wrap == newline \/ kernel.X = Cols - 1
  IN  <<[kernel EXCEPT !.X = IF wrap THEN 0 ELSE @ + 1,
                       !.Y = IF wrap /\ @ < Rows - 1 THEN @ + 1 ELSE @], pending, h>>

-----------------------------------------------------------------------------
(* The UTF-8 decoder: after a byte the bytes left and the character, if    *)
(* one is complete; a byte that is no continuation is parsed once more.    *)

Decoded(left, c) == [left |-> left, char |-> c, again |-> FALSE]

Decoder(left, b) ==
  CASE left = 0 /\ b \in Ascii -> {Decoded(0, b)}
    [] left = 0 /\ b = "lead2" -> {Decoded(1, "none")}
    [] left = 0 /\ b = "lead4" -> {Decoded(3, "none")}
    [] left = 0 /\ b = "cont" -> {Decoded(0, "wide")}
    \* gcc: the first zero bit of 0xff is __builtin_clz of 0, anything
    [] left = 0 /\ b = "0xff" -> {Decoded(n, IF n = 0 THEN "wide" ELSE "none") : n \in {0, 1, 5}}
    [] left > 0 /\ b = "cont" -> {Decoded(left - 1, IF left = 1 THEN "wide" ELSE "none")}
    [] OTHER -> {[Decoded(0, "wide") EXCEPT !.again = TRUE]}

-----------------------------------------------------------------------------
(* The ANSI parser.  A character gives the next state, and what is done.   *)

To(t, state) == [t EXCEPT !.ansi = state]
CSI == {"CSI"}
Ignore(t) == [t EXCEPT !.ansi = @ \cup {"IGNORE"}]

\* An argument begins, or gets one more digit.
Digit(t, d) ==
  LET n == Len(t.argv)
      value == 10 * t.argv[n]
  IN  IF "IN_ARG" \notin t.ansi
      THEN IF n >= ArgvSize THEN Ignore(t)
           ELSE [t EXCEPT !.ansi = @ \cup {"IN_ARG"}, !.argv = Append(@, d)]
      ELSE IF value > UINT16_MAX THEN Ignore(t)
      ELSE [t EXCEPT !.argv[n] = (value + d) % (UINT16_MAX + 1)]

Semicolon(t) ==
  IF "IN_ARG" \in t.ansi THEN [t EXCEPT !.ansi = @ \ {"IN_ARG"}]
  ELSE IF Len(t.argv) >= ArgvSize THEN Ignore(t)
  ELSE [t EXCEPT !.argv = Append(@, 0)]

\* Bytes that neither end the sequence nor are printed.
InCsi(t, c) ==
  CASE "IGNORE" \in t.ansi -> IF c \in Final THEN To(t, {}) ELSE t
    [] c \in DOMAIN Digits -> Digit(t, Digits[c])
    [] c = ";" -> Semicolon(t)
    [] c = "?" /\ "IN_ARG" \notin t.ansi /\ t.argv = <<>> -> t
    [] c \in Final /\ (t.argv # <<>> \/ c # "[") -> To(t, {})
    [] OTHER -> Ignore(t)

\* Everything is swallowed until BEL or ESC \, but not within quotes.
InControl(t, c) ==
  LET s == t.ansi
  IN  To(t, CASE "IN_STRING" \in s /\ "BACKSLASH" \in s -> s \ {"BACKSLASH"}
              [] "IN_STRING" \in s /\ c = "quote" -> s \ {"IN_STRING"}
              [] "IN_STRING" \in s /\ c = "\\" -> s \cup {"BACKSLASH"}
              [] "IN_STRING" \in s -> s
              [] c = "BEL" \/ (c = "\\" /\ "ESCAPE" \in s) -> {}
              [] c = "ESC" -> s \cup {"ESCAPE"}
              [] c = "quote" -> (s \cup {"IN_STRING"}) \ {"ESCAPE", "BACKSLASH"}
              [] OTHER -> s \ {"ESCAPE"})

AfterEscape(t, c) ==
  CASE c = "[" -> [t EXCEPT !.ansi = CSI, !.argv = <<>>]
    [] c = "]" -> To(t, {"ST_CONTROL"})
    [] c = "ESC" -> t
    [] OTHER -> To(t, {})

Parsed(t, c) ==
  CASE t.ansi = {} -> IF c = "ESC" THEN To(t, {"ESCAPE"}) ELSE t
    [] t.ansi = {"ESCAPE"} -> AfterEscape(t, c)
    [] "CSI" \in t.ansi -> InCsi(t, c)
    [] "ST_CONTROL" \in t.ansi -> InControl(t, c)

\* The character is not part of a sequence: it is printed.
Printed(t, c) ==
  \/ t.ansi = {} /\ c # "ESC"
  \/ t.ansi = {"ESCAPE"} /\ c \notin Final \cup {"7", "ESC"}

Arg(n) == IF Len(h.argv) >= n THEN h.argv[n] ELSE 0
Count == IF h.argv = <<>> THEN 1 ELSE h.argv[1]
Before(n) == IF n = 0 THEN 0 ELSE n - 1

\* A command of CSI, with its arguments.
Command(c) ==
  CASE c = "A" -> uv_tty_move_caret(0, TRUE, -Count, TRUE)
    [] c = "E" -> uv_tty_move_caret(0, FALSE, Count, TRUE)
    [] c = "H" -> uv_tty_move_caret(Before(Arg(2)), FALSE, Before(Arg(1)), FALSE)
    [] c \in {"J", "K"} /\ Arg(1) <= 2 -> uv_tty_clear
    [] c = "m" -> uv_tty_set_style
    [] c = "s" -> uv_tty_save_state(FALSE)
    [] c = "u" -> uv_tty_restore_state(FALSE)
    [] c = "l" /\ h.argv = <<1>> -> uv_tty_set_cursor_visibility  \* 25 in the code
    [] OTHER -> Nothing

Effect(c) ==
  CASE Printed(h, c) -> uv_tty_emit_text(c = "LF")
    [] h.ansi = {"ESCAPE"} /\ c = "c" -> uv_tty_reset
    [] h.ansi = {"ESCAPE"} /\ c = "7" -> uv_tty_save_state(TRUE)
    [] "CSI" \in h.ansi /\ "IGNORE" \notin h.ansi /\ c \in Final -> Command(c)
    [] OTHER -> Nothing

\* Styles and the visibility of the caret do not look at the error.
IgnoresError(c) == "CSI" \in h.ansi /\ c \in {"m", "l"}

-----------------------------------------------------------------------------
(* Writes.                                                                 *)

Init ==
  /\ h \in {Set(uv__handle_init, {"CONNECTION", "WRITABLE"})
              @@ [write_reqs_pending |-> 0, shutdown_req |-> FALSE, left |-> 0, saved |-> <<>>,
                  bright |-> <<>>, ansi |-> s[1], argv |-> s[2]] :
              s \in {<<{}, <<>>>>, <<{"CSI", "IN_ARG"}, <<6553>>>>, <<{"ST_CONTROL"}, <<>>>>}}
  /\ kernel \in {[X |-> 0, Y |-> y, height |-> t, attr |-> Plain, visible |-> TRUE] :
                   y \in {0, Rows - 1}, t \in Heights}
  /\ pending = uv_tty_update_virtual_window([offset |-> -1, width |-> -1, height |-> -1], kernel)
  /\ pc = [at |-> "loop", error |-> FALSE, again |-> "none", reqs |-> <<>>] /\ cb = "none" /\ calls = 0
  /\ hist = [typed |-> IF h.argv = <<>> THEN 0 ELSE h.argv[1], bytes |-> 0, moved |-> FALSE, io |-> FALSE]

At(p) == cb = "none" /\ pc.at = p

User ==
  /\ pc.at = "loop"
  /\ ~Is(h, "CLOSING")
  /\ UNCHANGED cb

\* uv_tty_write, up to the first byte: the lock is taken, see TtyRead.
uv_tty_write ==
  /\ User
  /\ Is(h, "WRITABLE") /\ calls < MaxTtyWrites
  /\ calls' = calls + 1
  /\ h' = [REGISTER_HANDLE_REQ(INCREASE_PENDING(h), calls') EXCEPT !.write_reqs_pending = @ + 1]
  /\ pc' = [pc EXCEPT !.at = "write", !.error = FALSE]
  /\ UNCHANGED <<kernel, pending, hist>>

\* The decoder and the parser see every byte, the console only what comes
\* before the first error.
WriteByte(b) ==
  /\ At("write") /\ hist.bytes < MaxBytes /\ pc.again \in {b, "none"}
  /\ \E d \in Decoder(h.left, b), fails \in {FALSE} \cup IF May("io_fails") THEN {TRUE} ELSE {} :
       LET c == d.char
           e == IF c = "none" \/ (pc.error /\ ~IgnoresError(c)) THEN Nothing ELSE Effect(c)
           ok == ~fails \/ e = Nothing
           t == IF c = "none" THEN h ELSE Parsed(IF ok THEN e[3] ELSE h, c)
       IN  /\ h' = [t EXCEPT !.left = d.left]
           /\ kernel' = IF ok THEN e[1] ELSE kernel
           /\ pending' = IF ok THEN e[2] ELSE pending
           /\ pc' = [pc EXCEPT !.error = @ \/ ~ok, !.again = IF d.again THEN b ELSE "none"]
           /\ hist' = [typed |-> IF c = "none" THEN hist.typed
                                 ELSE IF c \notin DOMAIN Digits \/ "CSI" \notin h.ansi THEN 0
                                 ELSE IF "IN_ARG" \in h.ansi THEN 10 * hist.typed + Digits[c]
                                 ELSE Digits[c],
                       bytes |-> hist.bytes + 1,
                       moved |-> ok /\ "CSI" \in h.ansi /\ c \in {"A", "E", "H", "u"} /\ e # Nothing,
                       io |-> pc.error /\ e[1] # kernel]
  /\ UNCHANGED <<cb, calls>>

WriteEnds ==
  /\ At("write") /\ pc.again = "none"
  /\ pc' = [pc EXCEPT !.at = "loop", !.reqs = Append(@, calls)]
  /\ UNCHANGED <<h, kernel, pending, cb, calls, hist>>

\* The user of the console changes its size; the window follows the caret.
ConsoleResized ==
  /\ pc.at = "loop" /\ hist.bytes < MaxBytes
  /\ \E t \in Heights \ {kernel.height} : kernel' = [kernel EXCEPT !.height = t]
  /\ hist' = [hist EXCEPT !.bytes = @ + 1, !.moved = FALSE]
  /\ UNCHANGED <<h, pending, pc, cb, calls>>

uv_tty_get_winsize ==
  /\ User
  /\ pending' = uv_tty_update_virtual_window(pending, kernel)
  /\ UNCHANGED <<h, kernel, pc, calls, hist>>

uv_shutdown ==
  /\ User
  /\ Is(h, "WRITABLE")
  /\ h' = uv_want_endgame(REGISTER_HANDLE_REQ(INCREASE_PENDING(
            [Clear(h, {"WRITABLE"}) EXCEPT !.shutdown_req = TRUE]), Shutdown))
  /\ UNCHANGED <<kernel, pending, pc, calls, hist>>

uv_tty_close ==
  /\ User
  /\ h' = EndgameIfIdle(uv__handle_closing(Clear(h, {"READABLE", "WRITABLE"})))
  /\ UNCHANGED <<kernel, pending, pc, calls, hist>>

uv_process_tty_write_req ==
  /\ At("loop") /\ pc.reqs # <<>>
  /\ h' = UNREGISTER_HANDLE_REQ(h, Head(pc.reqs))
  /\ pc' = [pc EXCEPT !.reqs = Tail(@), !.at = "write_end"] /\ cb' = "write"
  /\ UNCHANGED <<kernel, pending, calls, hist>>

WriteReqEnd ==
  /\ At("write_end")
  /\ LET t == [h EXCEPT !.write_reqs_pending = @ - 1]
         u == IF t.shutdown_req /\ t.write_reqs_pending = 0 THEN uv_want_endgame(t) ELSE t
     IN  h' = DECREASE_PENDING_REQ_COUNT(u)
  /\ pc' = [pc EXCEPT !.at = "loop"]
  /\ UNCHANGED <<kernel, pending, cb, calls, hist>>

uv_tty_endgame ==
  /\ At("loop") /\ Is(h, "ENDGAME_QUEUED")
  /\ LET t == Clear(h, {"ENDGAME_QUEUED"})
     IN  IF t.shutdown_req /\ t.write_reqs_pending = 0
         THEN /\ h' = DECREASE_PENDING_REQ_COUNT([UNREGISTER_HANDLE_REQ(t, Shutdown)
                                                    EXCEPT !.shutdown_req = FALSE])
              /\ cb' = "shutdown"
         ELSE IF Is(t, "CLOSING") /\ t.reqs_pending = 0
         THEN h' = uv__handle_close(t) /\ cb' = "close"
         ELSE h' = t /\ UNCHANGED cb
  /\ UNCHANGED <<kernel, pending, pc, calls, hist>>

CallbackReturns ==
  /\ cb # "none" /\ pc.at \in {"loop", "write_end"}
  /\ cb' = "none"
  /\ UNCHANGED <<h, kernel, pending, pc, calls, hist>>

HandlerStep == CallbackReturns \/ WriteEnds \/ WriteReqEnd
ProcessReq == uv_process_tty_write_req
Endgame == uv_tty_endgame
SystemStep == FALSE

Next ==
  \/ uv_tty_write \/ uv_tty_get_winsize \/ uv_shutdown \/ uv_tty_close \/ ConsoleResized
  \/ HandlerStep \/ ProcessReq \/ Endgame \/ \E b \in Bytes : WriteByte(b)

-----------------------------------------------------------------------------
(* Properties.                                                             *)

PendingExact ==
  /\ h.write_reqs_pending = Len(pc.reqs) + Bit(pc.at \in {"write", "write_end"})
  /\ h.reqs_pending = h.write_reqs_pending + Bit(Shutdown \in h.active_reqs)

ActiveExact == LoopKnows(h) /\ h.activecnt = Cardinality(h.active_reqs)

InWindow(p) == p.Y \in pending.offset .. (pending.offset + pending.height - 1) /\ p.X \in 0..(Cols - 1)

\* The virtual window lies in the screen buffer and holds the caret after every
\* movement, what "J" and "K" would erase is a part of it, and not upside down;
\* an argument is what was typed (or too large); the colours on the screen are
\* those of the style (tty.c:1100-1192, 1279-1355, 1842-1874).
Sane ==
  /\ pending.offset \in 0..(Rows - pending.height)
  /\ hist.moved => InWindow(kernel)
  /\ LET w == uv_tty_update_virtual_window(pending, kernel)
     IN  \A dir \in 0..2, entire \in BOOLEAN :
           LET a == ClearFrom(w, dir, entire)
               b == ClearTo(w, dir, entire)
           IN  a.Y * Cols + a.X <= b.Y * Cols + b.X
  /\ {"IN_ARG", "IGNORE"} \cap h.ansi = {"IN_ARG"} /\ hist.typed <= UINT16_MAX
       => h.argv[Len(h.argv)] = hist.typed

\* "Check for overflow" (tty.c:1863): no argument is cut off.
NoOverflow == {"IN_ARG", "IGNORE"} \cap h.ansi = {"IN_ARG"} => hist.typed <= UINT16_MAX

\* "If we encounter an error, stop trying to do i/o" (tty.c:1642).
NoIoAfterError == ~hist.io

Owes == (Is(h, "CLOSING") /\ ~Is(h, "CLOSED")) \/ Shutdown \in h.active_reqs
=============================================================================
