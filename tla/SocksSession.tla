---------------------------- MODULE SocksSession ----------------------------
(***************************************************************************)
(* One session of libuv_sock5-proxy (client.c): the connection with the    *)
(* client, the one with upstream, the state machine do_next that every     *)
(* callback runs, and the counting of finalizers that frees the session.   *)
(* A failed ASSERT or CHECK is the state "aborted".  And on its own, the   *)
(* parser of the protocol (s5.c) with the rule about addresses (server.c). *)
(***************************************************************************)
EXTENDS Integers, Sequences, FiniteSets, SequencesExt

CONSTANTS
  MaxRelays,      \* bound: reads that bring data
  SessionFaults,  \* "times_out_early", "times_out_lookup", "timer_status",
                  \* "completes_first", "connect_fails"
  MaxMethods,     \* bound: methods a client offers
  MaxName,        \* bound: length of user names, passwords and host names
  ParseFaults     \* "zero_lengths"

VARIABLES
  h,        \* the session: state, the two connections
  kernel,   \* reads that brought data so far
  pending,  \* requests and closes in flight: <<connection, what>>
  pc,       \* "live", or "freed"
  cb, calls,
  hist      \* what went wrong: callbacks that used the freed session
vars == <<h, kernel, pending, pc, cb, calls, hist>>

May(f) == f \in SessionFaults
Conns == {"incoming", "outgoing"}
Other(c) == IF c = "incoming" THEN "outgoing" ELSE "incoming"
Bad(result) == result \in {"error", "eof", "timeout"}

\* A session as do_next sees it.
This == [h EXCEPT !.p = pending]
Aborted(s) == [s EXCEPT !.state = "aborted"]
Is(s, inc, out) ==
  /\ <<s.incoming.rd, s.incoming.wr>> = inc /\ <<s.outgoing.rd, s.outgoing.wr>> = out
Idle == <<"stop", "stop">>
HasRead == <<"done", "stop">>
HasWritten == <<"stop", "done">>

-----------------------------------------------------------------------------
(* Operations on one connection.                                           *)

conn_timer_reset(s, c) == [s EXCEPT ![c].timer = TRUE]

conn_read(s, c) ==
  IF s[c].rd # "stop" THEN Aborted(s)
  ELSE conn_timer_reset([s EXCEPT ![c].rd = "busy", !.p = @ \cup {<<c, "read">>}], c)

conn_write(s, c) ==
  IF s[c].wr \notin {"stop", "done"} THEN Aborted(s)
  ELSE conn_timer_reset([s EXCEPT ![c].wr = "busy", !.p = @ \cup {<<c, "write">>}], c)

\* The handle and the timer; a read has no callback any more.
conn_close(s, c) ==
  [s EXCEPT ![c].rd = "dead", ![c].wr = "dead", ![c].timer = FALSE,
            !.p = (@ \ {<<c, "read">>}) \cup {<<c, "close">>, <<c, "timer_close">>}]

conn_getaddrinfo(s, c) == conn_timer_reset([s EXCEPT !.p = @ \cup {<<c, "lookup">>}], c)

\* client_finish_init.
Conn == [rd |-> "stop", wr |-> "stop", result |-> "ok", timer |-> FALSE]
Init ==
  /\ LET s == conn_read([state |-> "handshake", fin |-> 0, incoming |-> Conn, outgoing |-> Conn,
                         addr |-> FALSE, p |-> {}],
                        "incoming")
     IN  h = [s EXCEPT !.p = {}] /\ pending = s.p
  /\ kernel = 0
  /\ pc = "live" /\ cb = "none" /\ calls = 0 /\ hist = {}

-----------------------------------------------------------------------------
(* The states of the session.                                              *)

AlwaysLookup(s) == 0

\* The finalizers to come are four closes, and the lookup if there is one.
FirstFinalizer(s) == IF s.state = "req_lookup" THEN 0 ELSE 1

do_kill(s) ==
  IF s.state = "almost_dead" THEN s
  ELSE LET t == conn_close(conn_close(s, "incoming"), "outgoing")
       IN  [t EXCEPT !.state = "almost_dead", !.fin = FirstFinalizer(s)]

To(s, state) == IF s.state = "aborted" THEN s ELSE [s EXCEPT !.state = state]

\* Results of s5_parse and of what is looked at after it.
Parses == {"more", "junk", "select", "no_auth"}
do_handshake(s, parsed) ==
  IF <<s.incoming.rd, s.incoming.wr>> # HasRead THEN Aborted(s)
  ELSE LET t == [s EXCEPT !.incoming.rd = "stop"]
       IN  IF Bad(s.incoming.result) \/ parsed = "junk" THEN do_kill(t)
           ELSE IF parsed = "more" THEN To(conn_read(t, "incoming"), "handshake")
           ELSE To(conn_write(t, "incoming"), IF parsed = "select" THEN "req_start" ELSE "kill")

do_req_start(s) ==
  IF <<s.incoming.rd, s.incoming.wr>> # HasWritten THEN Aborted(s)
  ELSE LET t == [s EXCEPT !.incoming.wr = "stop"]
       IN  IF Bad(s.incoming.result) THEN do_kill(t) ELSE To(conn_read(t, "incoming"), "req_parse")

Requests == {"more", "unsupported", "host", "address"}
Connects == {"forbidden", "fails", "starts"}

do_req_connect_start(s, how) ==
  IF ~Is(s, Idle, Idle) THEN Aborted(s)
  ELSE CASE how = "forbidden" -> To(conn_write(s, "incoming"), "kill")
         [] how = "fails" -> do_kill(conn_timer_reset(s, "outgoing"))
         [] how = "starts" ->
              To(conn_timer_reset([s EXCEPT !.p = @ \cup {<<"outgoing", "connect">>}], "outgoing"),
                 "req_connect")

do_req_parse(s, request, how) ==
  IF ~Is(s, HasRead, Idle) THEN Aborted(s)
  ELSE LET t == [s EXCEPT !.incoming.rd = "stop"]
       IN  CASE Bad(s.incoming.result) \/ request = "unsupported" -> do_kill(t)
             [] ~Bad(s.incoming.result) /\ request = "more" -> To(conn_read(t, "incoming"), "req_parse")
             [] ~Bad(s.incoming.result) /\ request = "host" -> To(conn_getaddrinfo(t, "outgoing"), "req_lookup")
             [] ~Bad(s.incoming.result) /\ request = "address" -> do_req_connect_start(t, how)

\* The address is in the memory of the lookup's request.
do_req_lookup(s, how) ==
  IF ~Is(s, Idle, Idle) THEN Aborted(s)
  ELSE IF Bad(s.outgoing.result) THEN To(conn_write(s, "incoming"), "kill")
  ELSE IF ~s.addr THEN Aborted(s)
  ELSE do_req_connect_start(s, how)

do_req_connect(s) ==
  IF ~Is(s, Idle, Idle) THEN Aborted(s)
  ELSE To(conn_write(s, "incoming"), IF s.outgoing.result = "ok" THEN "proxy_start" ELSE "kill")

do_proxy_start(s) ==
  IF ~Is(s, HasWritten, Idle) THEN Aborted(s)
  ELSE LET t == [s EXCEPT !.incoming.wr = "stop"]
       IN  IF Bad(s.incoming.result) THEN do_kill(t)
           ELSE To(conn_read(conn_read(t, "incoming"), "outgoing"), "proxy")

\* Reads into b's buffer although a still writes it out.
CycleEager(s, a) ==
  LET b == Other(a)
      t == IF s[a].wr = "done" THEN [s EXCEPT ![a].wr = "stop"] ELSE s
  IN  CASE t[b].rd = "stop" -> conn_read(t, b)
        [] t[b].rd = "done" /\ t[a].wr = "stop" -> [conn_write(t, a) EXCEPT ![b].rd = "stop"]
        [] OTHER -> t

\* conn_cycle without its error returns.
Cycle(s, a) ==
  LET b == Other(a)
      t == IF s[a].wr = "done" THEN [s EXCEPT ![a].wr = "stop"] ELSE s
  IN  CASE t[a].wr = "stop" /\ t[b].rd = "stop" -> conn_read(t, b)
        [] t[a].wr = "stop" /\ t[b].rd = "done" -> [conn_write(t, a) EXCEPT ![b].rd = "stop"]
        [] OTHER -> t

do_proxy(s) ==
  IF Bad(s.incoming.result) \/ Bad(s.outgoing.result) THEN do_kill(s)
  ELSE Cycle(Cycle(s, "incoming"), "outgoing")

do_almost_dead(s) ==
  [s EXCEPT !.fin = @ + 1, !.state = IF s.fin = 4 THEN "dead" ELSE @]

\* Everything do_next can do, with what the data says chosen.
do_next(s) ==
  CASE s.state = "handshake"   -> {do_handshake(s, x) : x \in Parses}
    [] s.state = "req_start"   -> {do_req_start(s)}
    [] s.state = "req_parse"   -> {do_req_parse(s, x, c) : x \in Requests, c \in Connects \ (IF May("connect_fails") THEN {} ELSE {"fails"})}
    [] s.state = "req_lookup"  -> {do_req_lookup(s, c) : c \in Connects \ (IF May("connect_fails") THEN {} ELSE {"fails"})}
    [] s.state = "req_connect" -> {do_req_connect(s)}
    [] s.state = "proxy_start" -> {do_proxy_start(s)}
    [] s.state = "proxy"       -> {do_proxy(s)}
    [] s.state = "kill"        -> {do_kill(s)}
    [] s.state = "almost_dead" -> {do_almost_dead(s)}
    [] s.state \in {"aborted", "dead"} -> {s}

-----------------------------------------------------------------------------
(* Callbacks.                                                              *)

\* A callback of the session runs do_next on s; on a freed one anything may
\* happen, which is remembered.
Runs(s) ==
  IF pc = "freed"
  THEN hist' = hist \cup {"used_after_free"} /\ pending' = s.p /\ UNCHANGED <<h, pc>>
  ELSE /\ \E t \in do_next(s) :
            /\ h' = [t EXCEPT !.p = {}] /\ pending' = t.p
            /\ pc' = IF t.state = "dead" THEN "freed" ELSE "live"
       /\ UNCHANGED hist

Ends(what) == [This EXCEPT !.p = @ \ {what}]
Alive == h.state # "aborted"

conn_read_done(c) ==
  /\ Alive /\ <<c, "read">> \in pending
  /\ \E result \in {"ok", "eof", "error"} :
       /\ result = "ok" => kernel < MaxRelays
       /\ kernel' = kernel + (IF result = "ok" THEN 1 ELSE 0)
       /\ IF h[c].rd # "busy" THEN h' = Aborted(h) /\ UNCHANGED <<pending, pc, hist>>
          ELSE Runs([Ends(<<c, "read">>) EXCEPT ![c].rd = "done", ![c].result = result])
  /\ UNCHANGED <<cb, calls>>

Closing(c) == <<c, "close">> \in pending

\* After uv_close a request is cancelled, and its callback returns at once;
\* with "completes_first" it had completed before.
Cancelled(what, c) ==
  /\ Closing(c) /\ <<c, what>> \in pending
  /\ pending' = pending \ {<<c, what>>} /\ UNCHANGED <<h, kernel, pc, hist>>

conn_write_done(c) ==
  /\ Alive /\ <<c, "write">> \in pending
  /\ \/ Cancelled("write", c)
     \/ /\ ~Closing(c) \/ May("completes_first")
        /\ \E result \in {"ok", "error"} :
             IF h[c].wr # "busy" THEN h' = Aborted(h) /\ UNCHANGED <<pending, pc, hist>>
             ELSE Runs([Ends(<<c, "write">>) EXCEPT ![c].wr = "done", ![c].result = result])
        /\ UNCHANGED kernel
  /\ UNCHANGED <<cb, calls>>

conn_connect_done ==
  /\ Alive /\ <<"outgoing", "connect">> \in pending
  /\ \/ Cancelled("connect", "outgoing")
     \/ /\ ~Closing("outgoing") \/ May("completes_first")
        /\ \E result \in {"ok", "error"} :
             Runs([Ends(<<"outgoing", "connect">>) EXCEPT !.outgoing.result = result])
        /\ UNCHANGED kernel
  /\ UNCHANGED <<cb, calls>>

conn_getaddrinfo_done ==
  /\ Alive /\ <<"outgoing", "lookup">> \in pending
  /\ \E result \in {"ok", "error"} :
       Runs([Ends(<<"outgoing", "lookup">>) EXCEPT !.outgoing.result = result, !.addr = (result = "ok")])
  /\ UNCHANGED <<kernel, cb, calls>>

\* A timer may expire in any state, and its second parameter, which libuv
\* does not pass, is whatever is there.  Without the faults it does so while
\* data is relayed or an answer that ends the session is written.
conn_timer_expire(c) ==
  /\ Alive /\ h[c].timer
  /\ \/ h.state \in {"proxy", "kill"}
     \/ May(IF h.state = "req_lookup" THEN "times_out_lookup" ELSE "times_out_early")
  /\ LET s == [This EXCEPT ![c].timer = FALSE, ![c].result = "timeout"]
     IN  \E status \in IF May("timer_status") THEN {0, 1} ELSE {0} :
           IF status = 0 THEN Runs(s) ELSE h' = Aborted(h) /\ UNCHANGED <<pending, pc, hist>>
  /\ UNCHANGED <<kernel, cb, calls>>

\* A close callback comes after those of the handle's requests.
conn_close_done(c, what) ==
  /\ Alive /\ <<c, what>> \in pending
  /\ what = "close" => {<<c, "write">>, <<c, "connect">>} \cap pending = {}
  /\ Runs(Ends(<<c, what>>))
  /\ UNCHANGED <<kernel, cb, calls>>
HandlerStep ==
  \/ \E c \in Conns : conn_write_done(c) \/ \E what \in {"close", "timer_close"} : conn_close_done(c, what)
  \/ conn_connect_done \/ conn_getaddrinfo_done
OtherStep == \E c \in Conns : conn_read_done(c) \/ conn_timer_expire(c)

Next == HandlerStep \/ OtherStep

-----------------------------------------------------------------------------
(* Properties.                                                             *)

\* A connection's state says what is in flight for it; its buffer is not read
\* into while the other connection still writes it out.
PendingExact ==
  h.state # "aborted" /\ pc = "live" =>
    \A c \in Conns :
      /\ h[c].rd = "busy" <=> <<c, "read">> \in pending
      /\ ~Closing(c) => (h[c].wr = "busy" <=> <<c, "write">> \in pending)
      /\ <<c, "read">> \in pending /\ h.state = "proxy" => <<Other(c), "write">> \notin pending
      /\ h[c].rd = "done" => <<c, "read">> \notin pending

\* The session is freed after its last callback and not before.
FreedLast == hist = {} /\ (pc = "freed" => pending = {})

\* Besides, no assertion fails.
Sane == h.state # "aborted" /\ FreedLast

\* A live session waits for something, with a timer that will end it.
Armed ==
  /\ h.state \in {"handshake", "req_start", "req_parse", "req_lookup", "req_connect", "proxy_start",
                   "proxy", "kill"} => \E c \in Conns : h[c].timer
  /\ h.state = "proxy" => <<"incoming", "read">> \in pending \/ <<"outgoing", "write">> \in pending

\* A session that is torn down is freed.
Owes == h.state \in {"kill", "almost_dead"} /\ pc = "live"

-----------------------------------------------------------------------------
(* The protocol parser, fed in pieces of any size.  What a client means is *)
(* a record; Encode is what it sends for it, and the parser has to find    *)
(* the record again.  Here h is the s5_ctx, kernel what the client means   *)
(* in this stage, pending the bytes of the stage that are still to come,   *)
(* pc the stage ("greeting", "login", "request") and cb what s5_parse      *)
(* returned last.                                                          *)

Least(k) == IF "zero_lengths" \in ParseFaults THEN 0 ELSE k
Names == UNION {[1..n -> {7, 8}] : n \in Least(1)..MaxName}
V4 == {<<127, 0, 0, 1>>, <<10, 0, 0, 1>>}
Zeros(n) == [i \in 1..n |-> 0]
V6 == {Zeros(15) \o <<1>>, Zeros(10) \o <<255, 255, 127, 0, 0, 1>>, <<32, 1>> \o Zeros(14)}
Atyp == [ipv4 |-> 1, host |-> 3, ipv6 |-> 4, none |-> 2]
Cmd == [connect |-> 1, assoc |-> 3, bind |-> 2]

Greetings == {[version |-> v, methods |-> ms] : v \in {4, 5},
              ms \in UNION {[1..n -> 0..3] : n \in Least(1)..MaxMethods}}
Logins == {[version |-> v, name |-> a, pass |-> b] : v \in {1, 2}, a \in Names, b \in Names}
Asked ==
  {[version |-> v, cmd |-> c, atyp |-> "none", addr |-> <<>>] : v \in {4, 5}, c \in {"connect", "bind"}}
    \cup {[version |-> 5, cmd |-> c, atyp |-> "ipv4", addr |-> a] : c \in {"connect", "assoc"}, a \in V4}
    \cup {[version |-> 5, cmd |-> "connect", atyp |-> "ipv6", addr |-> a] : a \in V6}
    \cup {[version |-> 5, cmd |-> "connect", atyp |-> "host", addr |-> a] : a \in Names}
Port == <<31, 144>>

Encode(stage, m) ==
  CASE stage = "greeting" -> <<m.version, Len(m.methods)>> \o m.methods
    [] stage = "login"    -> <<m.version, Len(m.name)>> \o m.name \o <<Len(m.pass)>> \o m.pass
    [] stage = "request"  ->
         <<m.version, Cmd[m.cmd], 0, Atyp[m.atyp]>>
           \o (IF m.atyp = "host" THEN <<Len(m.addr)>> ELSE <<>>) \o m.addr \o Port

-----------------------------------------------------------------------------
(* s5.c.                                                                   *)

s5_init ==
  [state |-> "version", arg0 |-> 0, arg1 |-> 0, methods |-> {}, cmd |-> "none", atyp |-> "none",
   username |-> <<>>, password |-> <<>>, daddr |-> <<>>, dport |-> 0]

s5_select_auth(cx, method) ==
  [cx EXCEPT !.state = IF method = "none" THEN "req_version" ELSE "pw_version"]

Ok(cx) == [cx |-> cx, err |-> "ok", size |-> 0]
Err(cx, e) == [cx |-> cx, err |-> e, size |-> 0]
Go(cx, state) == Ok([cx EXCEPT !.state = state])
Counted(cx, state, n) == Ok([cx EXCEPT !.state = state, !.arg0 = 0, !.arg1 = n])
Method(c) == CASE c = 0 -> {"none"} [] c = 1 -> {"gssapi"} [] c = 2 -> {"passwd"} [] c = 3 -> {}

\* A byte of one of the three strings, and what follows when it is the last.
TakesOne(cx, field, c) ==
  IF cx.arg0 < cx.arg1 THEN [cx EXCEPT ![field] = Append(@, c), !.arg0 = @ + 1] ELSE cx

\* One byte.
Byte(cx, c) ==
  CASE cx.state \in {"version", "req_version"} ->
         IF c # 5 THEN Err(cx, "bad_version")
         ELSE Go(cx, IF cx.state = "version" THEN "nmethods" ELSE "req_cmd")
    [] cx.state = "nmethods" -> Counted(cx, "methods", c)
    [] cx.state = "methods" ->
         LET d == IF cx.arg0 < cx.arg1
                  THEN [cx EXCEPT !.methods = @ \cup Method(c), !.arg0 = @ + 1] ELSE cx
         IN  IF d.arg0 = d.arg1 THEN Err(d, "auth_select") ELSE Ok(d)
    [] cx.state = "pw_version" -> IF c # 1 THEN Err(cx, "bad_version") ELSE Go(cx, "pw_userlen")
    [] cx.state = "pw_userlen" -> Counted(cx, "pw_username", c)
    [] cx.state = "pw_username" ->
         LET d == TakesOne(cx, "username", c)
         IN  IF d.arg0 = d.arg1 THEN Go(d, "pw_passlen") ELSE Ok(d)
    [] cx.state = "pw_passlen" -> Counted(cx, "pw_password", c)
    [] cx.state = "pw_password" ->
         LET d == TakesOne(cx, "password", c)
         IN  IF d.arg0 = d.arg1 THEN Err([d EXCEPT !.state = "req_version"], "auth_verify") ELSE Ok(d)
    [] cx.state = "req_cmd" ->
         IF c \notin {1, 3} THEN Err(cx, "bad_cmd")
         ELSE Ok([cx EXCEPT !.state = "req_reserved", !.cmd = IF c = 1 THEN "connect" ELSE "assoc"])
    [] cx.state = "req_reserved" -> Go(cx, "req_atyp")
    [] cx.state = "req_atyp" ->
         CASE c = 1 -> Counted([cx EXCEPT !.atyp = "ipv4"], "req_daddr", 4)
           [] c = 3 -> Counted([cx EXCEPT !.atyp = "host"], "req_atyp_host", 0)
           [] c = 4 -> Counted([cx EXCEPT !.atyp = "ipv6"], "req_daddr", 16)
           [] OTHER -> Err([cx EXCEPT !.arg0 = 0], "bad_atyp")
    [] cx.state = "req_atyp_host" -> Ok([cx EXCEPT !.state = "req_daddr", !.arg1 = c])
    [] cx.state = "req_daddr" ->
         LET d == TakesOne(cx, "daddr", c)
         IN  IF d.arg0 = d.arg1 THEN Go(d, "req_dport0") ELSE Ok(d)
    [] cx.state = "req_dport0" -> Ok([cx EXCEPT !.state = "req_dport1", !.dport = c * 256])
    [] cx.state = "req_dport1" -> Err([cx EXCEPT !.state = "dead", !.dport = @ + c], "exec_cmd")
    [] cx.state = "dead" -> Ok(cx)

\* The bytes up to the first that returns something; and how many are left.
s5_parse(cx, data) ==
  FoldLeft(LAMBDA r, c : IF r.err # "ok" THEN [r EXCEPT !.size = @ + 1]
                         ELSE Byte(r.cx, c),
           Ok(cx), data)

AllowsMapped(atyp, a) == IF atyp = "ipv4" THEN a[1] # 127 ELSE a # Zeros(15) \o <<1>>

can_access(atyp, a) ==
  IF atyp = "ipv4" THEN a[1] # 127
  ELSE ~(a = Zeros(15) \o <<1>> \/ (SubSeq(a, 1, 12) = Zeros(10) \o <<255, 255>> /\ a[13] = 127))

-----------------------------------------------------------------------------
ParseInit ==
  /\ h = s5_init
  /\ \E g \in Greetings : /\ kernel = g
                          /\ pending = Encode("greeting", g)
  /\ pc = "greeting" /\ cb = "ok" /\ calls = 0 /\ hist = 0

\* A read brings a part of what was sent.
Feed ==
  /\ pending # <<>> /\ cb = "ok"
  /\ \E n \in 1..Len(pending) :
       LET r == s5_parse(h, SubSeq(pending, 1, n))
       IN  /\ h' = r.cx /\ cb' = r.err /\ hist' = r.size
           /\ pending' = SubSeq(pending, n + 1, Len(pending))
  /\ UNCHANGED <<kernel, pc, calls>>

\* The method is selected, the client goes on.
LogsIn ==
  /\ cb = "auth_select" /\ "passwd" \in h.methods /\ cb' = "ok" /\ pc' = "login"
  /\ h' = s5_select_auth(h, "passwd")
  /\ \E m \in Logins : kernel' = m /\ pending' = Encode("login", m)
  /\ UNCHANGED <<calls, hist>>

Asks ==
  /\ cb' = "ok" /\ pc' = "request"
  /\ \/ cb = "auth_select" /\ "none" \in h.methods /\ h' = s5_select_auth(h, "none")
     \/ cb = "auth_verify" /\ UNCHANGED h
  /\ \E m \in Asked : kernel' = m /\ pending' = Encode("request", m)
  /\ UNCHANGED <<calls, hist>>

ParseNext == Feed \/ LogsIn \/ Asks

\* What the stage's message is to end with.
Expected(stage, m) ==
  CASE stage = "greeting" -> IF m.version # 5 THEN "bad_version" ELSE "auth_select"
    [] stage = "login"    -> IF m.version # 1 THEN "bad_version" ELSE "auth_verify"
    [] stage = "request"  -> IF m.version # 5 THEN "bad_version"
                             ELSE IF m.cmd = "bind" THEN "bad_cmd"
                             ELSE IF m.atyp = "none" THEN "bad_atyp" ELSE "exec_cmd"

\* However a message is cut into reads, the parser returns at its last byte,
\* not earlier or later, with what the client meant; a wrong byte is
\* reported.  Loopback is refused in each of its spellings.
ParseSane ==
  LET m == kernel IN
  /\ pending = <<>> => cb # "ok"
  /\ cb # "ok" => cb = Expected(pc, m)
  /\ cb \in {"auth_select", "auth_verify", "exec_cmd"} => pending = <<>> /\ hist = 0
  /\ cb = "auth_select" =>
       h.methods = UNION {Method(m.methods[i]) : i \in DOMAIN m.methods}
  /\ cb = "auth_verify" => h.username = m.name /\ h.password = m.pass
  /\ cb = "exec_cmd" =>
       /\ h.cmd = m.cmd /\ h.atyp = m.atyp /\ h.daddr = m.addr /\ h.dport = 31 * 256 + 144
       /\ m.atyp # "host" =>
            (can_access(m.atyp, m.addr) <=> m.addr \in {<<10, 0, 0, 1>>, <<32, 1>> \o Zeros(14)})
=============================================================================
