---------------------------- MODULE TlsConnection ----------------------------
(***************************************************************************)
(* One TLS connection: net/tls_connection.c (handshake), net/tls_io.c      *)
(* (buffered reads and writes over the library) and net/tls_close.c (the   *)
(* orderly close).  A connection is a record c, a function of the code an  *)
(* operator from c to the set of its outcomes.                             *)
(*                                                                         *)
(* The library (OpenSSL) is external.  It reads whole records from the     *)
(* socket, so that bytes may wait inside it (pend) of which the kernel     *)
(* reports nothing; it may ask to wait for either direction in the middle  *)
(* of an operation, which must then be repeated with the same length.      *)
(***************************************************************************)
EXTENDS Integers, Sequences, FiniteSetsExt, SequencesExt

CONSTANTS TlsReadCapacity, TlsWriteCapacity,   \* units of one request or reply
          ReadLow, ReadHigh, WriteLow, WriteHigh,
          RecordUnits,                         \* units of one record
          Flights,                             \* flights of the handshake that the peer sends
          IoBytes, IoCalls                     \* the budget of one receive or send

(* What the peer sends: flights, records, a key update, its close, or bytes that are no TLS. *)
WireItems == {"FLIGHT", "RECORD", "UPDATE", "CLOSE", "JUNK"}

(* struct vireo_tls_connection after create_server; wire, pend and fin belong to the library *)
(* and the socket.                                                                            *)
Created == [hs |-> "INITIAL", hwait |-> "NONE", attempted |-> FALSE, failure |-> "OK", stage |-> "NONE",
            armed |-> FALSE, due |-> 0, last |-> 0,
            io |-> "DISABLED", rd |-> 0, wr |-> 0, retryR |-> 0, retryW |-> 0,
            waitR |-> "NONE", waitW |-> "NONE", resumeR |-> FALSE, resumeW |-> FALSE,
            rp |-> FALSE, wp |-> FALSE, eof |-> FALSE, iofailure |-> "OK",
            cl |-> "NONE", cdue |-> 0, notified |-> FALSE, cwait |-> "NONE", cfailure |-> "OK",
            wire |-> <<>>, flights |-> 0, pend |-> 0, fin |-> FALSE, broken |-> FALSE]

Incoming(c) == c.wire # <<>> \/ c.broken

-----------------------------------------------------------------------------
(* External: the library.  Outcomes [c, got, err]. *)

Native(c, got, err) == [c |-> c, got |-> got, err |-> err]

Opened(c, length) ==
    LET k == Min({length, c.pend}) IN {Native([c EXCEPT !.pend = @ - k], k, "NONE")}

RECURSIVE SSL_read(_, _)
SSL_read(c, length) ==
    IF c.pend > 0 THEN Opened(c, length)
    ELSE IF c.wire = <<>> THEN {Native(c, 0, IF c.broken THEN "SYSCALL" ELSE "WANT_READ")}
    ELSE LET rest == [c EXCEPT !.wire = Tail(@)]
         IN CASE Head(c.wire) = "RECORD" -> Opened([rest EXCEPT !.pend = RecordUnits], length)
              [] Head(c.wire) = "CLOSE" -> {Native(rest, 0, "ZERO_RETURN")}
              [] Head(c.wire) = "UPDATE" -> {Native(c, 0, "WANT_WRITE")} \cup SSL_read(rest, length)
              [] OTHER -> {Native([rest EXCEPT !.fin = f], 0, "SSL") : f \in BOOLEAN}

SSL_write(c, length) ==
    {Native(c, length, "NONE"), Native(c, 0, "WANT_WRITE")}
    \cup (IF c.broken THEN {Native([c EXCEPT !.fin = f], 0, "SYSCALL") : f \in BOOLEAN} ELSE {})
    \cup (IF c.wire = <<>> THEN {Native(c, 0, "WANT_READ")} ELSE {})

SSL_do_handshake(c) ==
    IF c.wire = <<>> THEN {Native(c, 0, IF c.broken THEN "SYSCALL" ELSE "WANT_READ")}
    ELSE LET rest == [c EXCEPT !.wire = Tail(@), !.flights = @ + 1]
         IN IF Head(c.wire) # "FLIGHT" THEN {Native([c EXCEPT !.wire = Tail(@)], 0, "SSL")}
            ELSE IF rest.flights < Flights
                 THEN {Native(rest, 0, "WANT_READ"), Native(rest, 0, "WANT_WRITE")}
                 ELSE {Native([rest EXCEPT !.fin = TRUE], 1, "NONE")}

SSL_shutdown(c) ==
    {Native(c, IF c.eof THEN 1 ELSE 0, "NONE"), Native(c, 0, "WANT_WRITE")}
    \cup (IF c.broken THEN {Native([c EXCEPT !.fin = FALSE], 0, "SYSCALL")} ELSE {})

Waits(err) == err \in {"WANT_READ", "WANT_WRITE"}
WaitOf(err) == IF err = "WANT_READ" THEN "READ" ELSE "WRITE"
ResultOf(err) == IF err = "SYSCALL" THEN "IO" ELSE "PROTOCOL"

-----------------------------------------------------------------------------
(* The handshake. *)

handshake_deadline_arm(c, now, deadline) ==
    IF c.hs # "INITIAL" \/ c.armed THEN c
    ELSE [c EXCEPT !.armed = TRUE, !.due = deadline, !.last = now]

(* Both buffers exist before the handshake begins. *)
io_prepare(c) ==
    IF c.hs = "INITIAL" /\ ~c.attempted /\ c.io = "DISABLED" THEN [c EXCEPT !.io = "PREPARED"] ELSE c

(* Mutant: a timeout leaves what the handshake waited for. *)
timed_outWaiting(c, now) ==
    [c EXCEPT !.last = now, !.hs = "FAILED", !.failure = "TIMEOUT", !.stage = "DEADLINE"]

timed_out(c, now) ==
    [c EXCEPT !.last = now, !.hs = "FAILED", !.hwait = "NONE", !.failure = "TIMEOUT", !.stage = "DEADLINE"]

(* The deadline is looked at before the library is called; an outcome is final. *)
handshake_step_at(c, now) ==
    IF c.hs \in {"ESTABLISHED", "FAILED"} THEN {[c |-> c, r |-> c.failure]}
    ELSE IF now >= c.due THEN {[c |-> timed_out(c, now), r |-> "TIMEOUT"]}
    ELSE {LET d == [n.c EXCEPT !.attempted = TRUE, !.last = now]
          IN IF n.err = "NONE"
             THEN [c |-> [d EXCEPT !.hs = "ESTABLISHED", !.hwait = "NONE",
                                   !.io = IF @ = "PREPARED" THEN "OPEN" ELSE @], r |-> "OK"]
             ELSE IF Waits(n.err)
             THEN [c |-> [d EXCEPT !.hs = "HANDSHAKING", !.hwait = WaitOf(n.err)], r |-> "OK"]
             ELSE [c |-> [d EXCEPT !.hs = "FAILED", !.hwait = "NONE", !.failure = ResultOf(n.err),
                                   !.stage = "HANDSHAKE"], r |-> ResultOf(n.err)] :
          n \in SSL_do_handshake(c)}

(* The check every entry of tls_connection.c makes of its own state. *)
lifecycle_valid(c) ==
    /\ ~c.armed => c.due = 0 /\ c.last = 0
    /\ c.hs = "FAILED" =>
         /\ c.hwait = "NONE"
         /\ \/ c.failure = "TIMEOUT" /\ c.stage = "DEADLINE" /\ c.armed /\ c.last >= c.due
            \/ c.attempted /\ c.failure \in {"IO", "PROTOCOL"} /\ c.stage = "HANDSHAKE"
    /\ c.hs # "FAILED" => c.failure = "OK" /\ c.stage = "NONE"
    /\ c.hs = "INITIAL" => ~c.attempted /\ c.hwait = "NONE" /\ ~c.fin
    /\ c.hs = "HANDSHAKING" =>
         c.attempted /\ (~c.armed \/ c.last < c.due) /\ c.hwait \in {"READ", "WRITE"} /\ ~c.fin
    /\ c.hs = "ESTABLISHED" =>
         c.attempted /\ c.hwait = "NONE" /\ (c.fin \/ c.io = "FAILED" \/ c.cl # "NONE")

-----------------------------------------------------------------------------
(* Buffered reads and writes. *)

Moved(c, r, stop, bytes, calls) == [c |-> c, r |-> r, stop |-> stop, bytes |-> bytes, calls |-> calls]

io_fail(c, r) == [c EXCEPT !.io = "FAILED", !.iofailure = r, !.resumeR = FALSE, !.resumeW = FALSE]

Resume(c, writing, b) == IF writing THEN [c EXCEPT !.resumeW = b] ELSE [c EXCEPT !.resumeR = b]

(* Why the loop stops before the next call of the library; "" if it does not. *)
LoopStop(c, writing, closing, bytes, calls) ==
    CASE ~writing /\ c.eof -> "PEER_EOF"
      [] writing /\ c.retryW = 0 /\ c.wr = 0 -> "BUFFER_EMPTY"
      [] ~writing /\ c.retryR = 0 /\ c.rd = TlsReadCapacity -> "BUFFER_FULL"
      [] ~closing /\ ~writing /\ c.retryR = 0 /\ (c.rp \/ c.wp) -> "FLOW_PAUSED"
      [] bytes >= IoBytes -> "BYTE_BUDGET"
      [] calls >= (IF closing THEN 1 ELSE IoCalls) -> "CALL_BUDGET"
      [] OTHER -> ""

NextLength(c, writing, bytes) ==
    IF writing THEN (IF c.retryW # 0 THEN c.retryW ELSE Min({IoBytes - bytes, c.wr}))
    ELSE (IF c.retryR # 0 THEN c.retryR ELSE Min({IoBytes - bytes, TlsReadCapacity - c.rd}))

BudgetResumes(stop) == stop \in {"BYTE_BUDGET", "CALL_BUDGET"}

RECURSIVE IoLoop(_, _, _, _, _)
IoLoop(c, writing, closing, bytes, calls) ==
    LET stop == LoopStop(c, writing, closing, bytes, calls)
        length == NextLength(c, writing, bytes)
        after(n) == Resume(n.c, writing, FALSE)
        waiting(n) == IF writing THEN [after(n) EXCEPT !.retryW = length, !.waitW = WaitOf(n.err)]
                      ELSE [after(n) EXCEPT !.retryR = length, !.waitR = WaitOf(n.err)]
        done(n) == IF writing THEN [after(n) EXCEPT !.wr = @ - n.got, !.retryW = 0, !.waitW = "NONE"]
                   ELSE [after(n) EXCEPT !.rd = @ + n.got, !.retryR = 0, !.waitR = "NONE"]
    IN IF stop # ""
       THEN {Moved(Resume(c, writing, BudgetResumes(stop)), "OK", stop, bytes, calls)}
       ELSE UNION {
         IF n.err = "NONE" THEN IoLoop(done(n), writing, closing, bytes + n.got, calls + 1)
         ELSE IF Waits(n.err) THEN {Moved(waiting(n), "OK", "WOULD_BLOCK", bytes, calls + 1)}
         ELSE IF n.err = "ZERO_RETURN" /\ ~writing
              THEN {Moved([done([n EXCEPT !.got = 0]) EXCEPT !.eof = TRUE], "OK", "PEER_EOF", bytes, calls + 1)}
         ELSE {Moved(io_fail(n.c, ResultOf(n.err)), ResultOf(n.err), "ERROR", bytes, calls + 1)} :
         n \in IF writing THEN SSL_write(c, length) ELSE SSL_read(c, length)}

(* An unfinished write is repeated before anything is read, and a read that waits to write   *)
(* before anything is written.                                                                *)
io_drive(c, writing, closing) ==
    IF (~closing /\ c.cl # "NONE") \/ c.io \in {"DISABLED", "PREPARED"} THEN {Moved(c, "BUSY", "ERROR", 0, 0)}
    ELSE IF c.io = "FAILED" THEN {Moved(c, c.iofailure, "ERROR", 0, 0)}
    ELSE IF (~writing /\ c.retryW # 0) \/ (writing /\ c.waitR = "WRITE")
         THEN {Moved(c, "OK", "RETRY_OTHER", 0, 0)}
    ELSE IoLoop(c, writing, closing, 0, 0)

receive(c) == io_drive(c, FALSE, FALSE)
send(c) == io_drive(c, TRUE, FALSE)

read_consume(c, k) == [c EXCEPT !.rd = @ - k]

enqueue(c, k) ==
    IF c.cl # "NONE" \/ c.io # "OPEN" \/ c.wr + k > TlsWriteCapacity THEN c ELSE [c EXCEPT !.wr = @ + k]

pressure(current, size, low, high) == IF size >= high THEN TRUE ELSE IF size <= low THEN FALSE ELSE current

Refreshed(c) ==
    IF c.io \notin {"OPEN", "FAILED"} THEN c
    ELSE [c EXCEPT !.rp = pressure(@, c.rd, ReadLow, ReadHigh), !.wp = pressure(@, c.wr, WriteLow, WriteHigh)]

resume_read(c) == c.resumeR \/ c.pend > 0

NoFlow == [read |-> FALSE, priority |-> "NONE", want |-> {}, resume |-> FALSE]

(* What the connection wants, of the refreshed c. *)
flow_refresh(c) ==
    LET read == ~c.eof /\ ~c.rp /\ ~c.wp /\ c.retryW = 0 /\ c.waitR # "WRITE"
    IN IF c.io # "OPEN" THEN NoFlow
       ELSE IF c.retryW # 0
       THEN [read |-> read, priority |-> "WRITE", want |-> {c.waitW}, resume |-> FALSE]
       ELSE IF c.waitR = "WRITE"
       THEN [read |-> read, priority |-> "READ", want |-> {"WRITE"}, resume |-> FALSE]
       ELSE [read |-> read, priority |-> "NONE",
             want |-> (IF read THEN {"READ"} ELSE {}) \cup (IF c.wr # 0 THEN {"WRITE"} ELSE {}),
             resume |-> (read /\ resume_read(c)) \/ (c.wr # 0 /\ c.resumeW)]

-----------------------------------------------------------------------------
(* The orderly close: what is buffered, then close_notify, then the peer's. *)

CloseActive(c) == c.cl \in {"DRAINING", "NOTIFYING", "WAIT_PEER"}

(* The operation the close is at, what it waits for, whether it can run at once. *)
snapshot(c) ==
    LET op == IF c.cwait # "NONE" THEN "SHUTDOWN"
              ELSE IF c.retryW # 0 \/ (c.waitR # "WRITE" /\ c.wr # 0) THEN "WRITE"
              ELSE IF c.waitR = "WRITE" \/ c.notified THEN "READ"
              ELSE "SHUTDOWN"
        wait == IF op = "SHUTDOWN" THEN c.cwait ELSE IF op = "WRITE" THEN c.waitW ELSE c.waitR
        space == TlsReadCapacity - c.rd
        full == op = "READ" /\ (space = 0 \/ c.retryR > space)
    IN IF ~CloseActive(c) THEN [op |-> "NONE", wait |-> "NONE", full |-> FALSE, resume |-> FALSE]
       ELSE [op |-> op, wait |-> IF full THEN "NONE" ELSE wait, full |-> full,
             resume |-> ~full /\ (wait = "NONE" \/ (op = "READ" /\ wait = "READ" /\ c.pend > 0))]

close_request(c, now, deadline) ==
    IF c.hs # "ESTABLISHED" \/ c.io = "DISABLED" \/ c.cl # "NONE" THEN {[c |-> c, r |-> "BUSY"]}
    ELSE IF c.io = "FAILED" THEN {[c |-> c, r |-> c.iofailure]}
    ELSE {[c |-> [c EXCEPT !.cl = "DRAINING", !.cdue = deadline, !.notified = FALSE, !.cwait = "NONE"],
           r |-> "OK"]}

close_fail(c, r) == [c EXCEPT !.cl = "FAILED", !.cfailure = r, !.cwait = "NONE"]

MoveStep(c, writing) ==
    {IF m.r # "OK" THEN [c |-> close_fail(m.c, m.r), r |-> m.r]
     ELSE [c |-> IF m.c.eof /\ m.c.notified THEN [m.c EXCEPT !.cl = "COMPLETE"] ELSE m.c, r |-> "OK"] :
     m \in io_drive(c, writing, TRUE)}

ShutdownStepTls(c) ==
    {LET d == [n.c EXCEPT !.cl = "NOTIFYING"]
     IN IF n.err = "NONE"
        THEN [c |-> IF n.got = 1
                    THEN [d EXCEPT !.notified = TRUE, !.cwait = "NONE", !.cl = "COMPLETE", !.eof = TRUE,
                                   !.retryR = 0, !.waitR = "NONE"]
                    ELSE [d EXCEPT !.notified = TRUE, !.cwait = "NONE", !.cl = "WAIT_PEER"], r |-> "OK"]
        ELSE IF Waits(n.err) THEN [c |-> [d EXCEPT !.cwait = WaitOf(n.err)], r |-> "OK"]
        ELSE [c |-> close_fail(d, ResultOf(n.err)), r |-> ResultOf(n.err)] :
     n \in SSL_shutdown(c)}

(* One operation of the close; after the deadline it fails whatever is left. *)
close_step_at(c, now) ==
    LET next == snapshot(c)
    IN IF c.cl = "NONE" THEN {[c |-> c, r |-> "BUSY"]}
       ELSE IF ~CloseActive(c) THEN {[c |-> c, r |-> c.cfailure]}
       ELSE IF now >= c.cdue THEN {[c |-> close_fail(c, "TIMEOUT"), r |-> "TIMEOUT"]}
       ELSE IF next.full THEN {[c |-> c, r |-> "OK"]}
       ELSE IF next.op # "SHUTDOWN" THEN MoveStep(c, next.op = "WRITE")
       ELSE ShutdownStepTls(c)
=============================================================================
