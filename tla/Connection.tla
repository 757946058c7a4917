----------------------------- MODULE Connection -----------------------------
(***************************************************************************)
(* net/connection.c without TLS: one connection, its two buffers, its      *)
(* registration at the event loop, the watermarks that switch reading off  *)
(* and on, and the two-mode close.                                         *)
(*                                                                         *)
(* The peer's bytes are a stream of frames; a buffer is the interval of    *)
(* the stream between what was put in and what was taken out.  Only the    *)
(* length of a frame and whether its header and checksum pass matter.      *)
(***************************************************************************)
EXTENDS Integers, Sequences, FiniteSets, FiniteSetsExt

CONSTANTS Frames,         \* what the peer sends: a sequence of [size, valid]
          HeaderSize,     \* VIREO_PROTOCOL_HEADER_SIZE
          ProtocolMax,    \* the largest frame of the protocol
          ReadCapacity, WriteCapacity,
          FlowOptions,    \* the options a caller may try
          Budgets,        \* byte budgets of a receive or send call
          ReplySizes,     \* sizes a caller enqueues
          MaxReplies      \* bound: bytes enqueued over the connection's life

VARIABLES conn,      \* struct vireo_connection, or NoConnection
          kernel,    \* interests registered at the loop, or "none"
          net,       \* the socket: [sent, fin, broken] of the peer, [delivered] of ours
          refreshed  \* the last call was a successful flow or close refresh

vars == <<conn, kernel, net, refreshed>>

READ == "READ"
WRITE == "WRITE"

NoConnection == [alive |-> FALSE]
NoFlow == [frame |-> 0, rlow |-> 0, rhigh |-> 0, wlow |-> 0, whigh |-> 0]

Opened == [alive |-> TRUE, in |-> 0, taken |-> 0, put |-> 0, out |-> 0, eof |-> FALSE,
           attached |-> FALSE, interests |-> {}, callback |-> FALSE,
           flow |-> FALSE, rpress |-> FALSE, wpress |-> FALSE, options |-> NoFlow,
           close |-> "OPEN", mode |-> "NONE", reason |-> "NONE"]

Init == /\ conn = NoConnection /\ kernel = "none"
        /\ net = [sent |-> 0, fin |-> FALSE, broken |-> FALSE, delivered |-> 0]
        /\ refreshed = FALSE

Readable == conn.in - conn.taken
Pending == conn.put - conn.out

FrameStart(k) == MapThenSumSet(LAMBDA i : Frames[i].size, 1..(k - 1))
Total == FrameStart(Len(Frames) + 1)

-----------------------------------------------------------------------------
(* Creation takes the descriptor only when every check and allocation has passed. *)
Create ==
    /\ ~conn.alive /\ net.delivered = 0
    /\ \/ /\ ReadCapacity > 0 /\ WriteCapacity > 0 /\ conn' = Opened
       \/ conn' = NoConnection
    /\ refreshed' = FALSE /\ UNCHANGED <<kernel, net>>

(* The socket is closed and the memory freed even when close reports an error. *)
Destroy ==
    /\ conn.alive /\ ~conn.attached /\ ~conn.callback
    /\ conn' = NoConnection /\ net' = [net EXCEPT !.delivered = -1] /\ refreshed' = FALSE
    /\ UNCHANGED kernel

-----------------------------------------------------------------------------
(* Bytes. *)

Available == net.sent - conn.in
Space == ReadCapacity - Readable

(* recv is repeated until a budget, the buffer or the socket ends it; an error keeps *)
(* the bytes that came before it.                                                    *)
Receive(budget, k) ==
    /\ conn.alive /\ conn.close = "OPEN" /\ ~conn.eof
    /\ k <= Min({budget, Space, Available})
    /\ \/ /\ k = Available /\ net.fin /\ k < Min({budget, Space})
          /\ conn' = [conn EXCEPT !.in = @ + k, !.eof = TRUE]
       \/ /\ k > 0 \/ Space = 0 \/ Available = 0 \/ net.broken
          /\ conn' = [conn EXCEPT !.in = @ + k]
    /\ refreshed' = FALSE /\ UNCHANGED <<kernel, net>>

(* The complete frames at the head of the read buffer: the longest prefix that the     *)
(* budgets allow and whose frames are buffered, small enough and valid.                *)
Head1 == CHOOSE k \in 1..(Len(Frames) + 1) : FrameStart(k) = conn.taken
Complete(j) == FrameStart(j + 1) <= conn.in
Acceptable(j, o) == Frames[j].valid /\ Frames[j].size <= o.frame
frames_peek(o, messages, bytes) ==
    Max({n \in 0..(Len(Frames) - Head1 + 1) :
           /\ n <= messages
           /\ FrameStart(Head1 + n) - conn.taken <= bytes
           /\ \A j \in Head1..(Head1 + n - 1) : Complete(j) /\ Acceptable(j, o)})

(* Why the prefix ends where it does. *)
frames_stop(o, messages, bytes) ==
    LET n == frames_peek(o, messages, bytes)
        j == Head1 + n
        used == FrameStart(j) - conn.taken
        rest == Readable - used
    IN IF n = messages THEN "MESSAGE_BUDGET"
       ELSE IF rest = 0 THEN IF conn.eof THEN "EOF" ELSE "NEED_MORE"
       ELSE IF bytes - used < HeaderSize THEN "BYTE_BUDGET"
       ELSE IF rest < HeaderSize THEN IF conn.eof THEN "TRUNCATED" ELSE "NEED_MORE"
       ELSE IF Frames[j].size > o.frame THEN "FRAME_TOO_LARGE"
       ELSE IF Frames[j].size > bytes - used THEN "BYTE_BUDGET"
       ELSE IF Frames[j].size > rest THEN IF conn.eof THEN "TRUNCATED" ELSE "NEED_MORE"
       ELSE "CODEC"

(* A caller peeks and consumes what it has handled. *)
Consume(n) ==
    /\ conn.alive /\ conn.flow
    /\ n \in 1..frames_peek(conn.options, Len(Frames), ReadCapacity)
    /\ conn' = [conn EXCEPT !.taken = FrameStart(Head1 + n)]
    /\ refreshed' = FALSE /\ UNCHANGED <<kernel, net>>

(* All of the bytes or none. *)
WriteEnqueue(size) ==
    /\ conn.alive /\ size <= WriteCapacity /\ Pending + size <= WriteCapacity
    /\ conn.close = "OPEN" /\ conn.put + size <= MaxReplies
    /\ conn' = [conn EXCEPT !.put = @ + size]
    /\ refreshed' = FALSE /\ UNCHANGED <<kernel, net>>

Send(budget, k) ==
    /\ conn.alive /\ conn.close # "READY"
    /\ k <= Min({budget, Pending}) /\ (k > 0 => ~net.broken)
    /\ conn' = [conn EXCEPT !.out = @ + k]
    /\ net' = [net EXCEPT !.delivered = @ + k]
    /\ refreshed' = FALSE /\ UNCHANGED kernel

-----------------------------------------------------------------------------
(* The registration at the loop. *)

Cleared(c) == [c EXCEPT !.attached = FALSE, !.interests = {}, !.flow = FALSE,
                        !.rpress = FALSE, !.wpress = FALSE, !.options = NoFlow]

Attach(interests) ==
    /\ conn.alive /\ conn.close = "OPEN" /\ ~conn.attached /\ ~conn.callback
    /\ conn' = [conn EXCEPT !.attached = TRUE, !.interests = interests]
    /\ kernel' = interests /\ refreshed' = FALSE /\ UNCHANGED net

SetInterests(interests) ==
    /\ conn.alive /\ conn.close = "OPEN" /\ conn.attached /\ ~conn.flow
    /\ conn' = [conn EXCEPT !.interests = interests]
    /\ kernel' = interests /\ refreshed' = FALSE /\ UNCHANGED net

Detach ==
    /\ conn.alive /\ conn.attached /\ conn' = Cleared(conn)
    /\ kernel' = "none" /\ refreshed' = FALSE /\ UNCHANGED net

(* External: the loop is destroyed under the connection; it may only forget. *)
ForgetDestroyedLoop ==
    /\ conn.alive /\ conn.attached /\ ~conn.callback /\ conn' = Cleared(conn)
    /\ kernel' = "none" /\ refreshed' = FALSE /\ UNCHANGED net

(* dispatch_connection runs the callback with callback_active set. *)
Callback ==
    /\ conn.alive /\ (conn.attached \/ conn.callback)
    /\ conn' = [conn EXCEPT !.callback = ~@] /\ UNCHANGED <<kernel, net, refreshed>>

-----------------------------------------------------------------------------
(* Watermarks. *)

flow_pressure(occupied, low, high, pressure) ==
    IF pressure THEN occupied > low ELSE occupied >= high

Pressed(o, reset) ==
    [read |-> flow_pressure(Readable, o.rlow, o.rhigh, ~reset /\ conn.rpress),
     write |-> flow_pressure(Pending, o.wlow, o.whigh, ~reset /\ conn.wpress)]

Wanted(p) ==
    (IF ~conn.eof /\ ~p.read /\ ~p.write THEN {READ} ELSE {})
    \cup (IF Pending # 0 THEN {WRITE} ELSE {})

(* A change of interests that the loop refuses leaves everything as it was. *)
flow_apply(o, reset) ==
    LET p == Pressed(o, reset)
    IN \/ /\ conn' = [conn EXCEPT !.options = o, !.flow = TRUE, !.rpress = p.read,
                                  !.wpress = p.write, !.interests = Wanted(p)]
          /\ kernel' = Wanted(p) /\ refreshed' = TRUE
       \/ /\ Wanted(p) # conn.interests /\ UNCHANGED <<conn, kernel>> /\ refreshed' = FALSE

(* Mutant: the lower mark may be two bytes below a whole frame. *)
FlowRangeLoose(o) ==
    /\ o.frame >= HeaderSize /\ o.frame <= ReadCapacity /\ o.frame <= ProtocolMax
    /\ o.rlow >= o.frame - 2 /\ o.rlow < o.rhigh /\ o.rhigh <= ReadCapacity
    /\ o.wlow < o.whigh /\ o.whigh <= WriteCapacity

FlowRange(o) ==
    /\ o.frame >= HeaderSize /\ o.frame <= ReadCapacity /\ o.frame <= ProtocolMax
    /\ o.rlow >= o.frame - 1 /\ o.rlow < o.rhigh /\ o.rhigh <= ReadCapacity
    /\ o.wlow < o.whigh /\ o.whigh <= WriteCapacity

FlowConfigure(o) ==
    /\ conn.alive /\ conn.close = "OPEN" /\ conn.attached /\ FlowRange(o)
    /\ flow_apply(o, TRUE) /\ UNCHANGED net

FlowRefresh ==
    /\ conn.alive /\ conn.close = "OPEN" /\ conn.attached /\ conn.flow
    /\ flow_apply(conn.options, FALSE) /\ UNCHANGED net

FlowDisable ==
    /\ conn.alive /\ conn.close = "OPEN" /\ conn.flow
    /\ conn' = [conn EXCEPT !.flow = FALSE, !.rpress = FALSE, !.wpress = FALSE,
                            !.options = NoFlow]
    /\ refreshed' = FALSE /\ UNCHANGED <<kernel, net>>

-----------------------------------------------------------------------------
(* Close. *)

(* The close state moves even when the loop refuses the new interests. *)
close_sync(c) ==
    LET draining == c.mode = "DRAIN" /\ Pending # 0
        moved == [c EXCEPT !.close = IF draining THEN "DRAINING" ELSE "READY"]
        interests == IF draining THEN {WRITE} ELSE {}
    IN \/ /\ conn' = [moved EXCEPT !.interests = IF c.attached THEN interests ELSE @]
          /\ kernel' = (IF c.attached THEN interests ELSE kernel) /\ refreshed' = TRUE
       \/ /\ c.attached /\ interests # c.interests
          /\ conn' = moved /\ UNCHANGED kernel /\ refreshed' = FALSE

(* Mutant: a drain may replace an immediate close. *)
RequestCloseDowngrade(mode, reason) ==
    /\ conn.alive
    /\ close_sync([conn EXCEPT !.mode = mode,
                               !.reason = IF conn.close = "OPEN" THEN reason ELSE @])
    /\ UNCHANGED net

RequestClose(mode, reason) ==
    /\ conn.alive /\ ~(conn.mode = "IMMEDIATE" /\ mode = "DRAIN")
    /\ close_sync([conn EXCEPT !.mode = mode,
                               !.reason = IF conn.close = "OPEN" THEN reason ELSE @])
    /\ UNCHANGED net

CloseRefresh ==
    /\ conn.alive /\ conn.close # "OPEN" /\ close_sync(conn) /\ UNCHANGED net

-----------------------------------------------------------------------------
(* External: the peer. *)
PeerSends ==
    /\ ~net.fin /\ ~net.broken /\ net.sent < Total
    /\ net' = [net EXCEPT !.sent = @ + 1] /\ UNCHANGED <<conn, kernel, refreshed>>
PeerCloses ==
    /\ \/ ~net.fin /\ net' = [net EXCEPT !.fin = TRUE]
       \/ ~net.broken /\ net' = [net EXCEPT !.broken = TRUE]
    /\ UNCHANGED <<conn, kernel, refreshed>>

Next == \/ Create \/ Destroy \/ Detach \/ ForgetDestroyedLoop \/ Callback
        \/ FlowRefresh \/ FlowDisable \/ CloseRefresh \/ PeerSends \/ PeerCloses
        \/ \E b \in Budgets : \E k \in 0..b : Receive(b, k) \/ Send(b, k)
        \/ \E n \in 1..Len(Frames) : Consume(n)
        \/ \E s \in ReplySizes : WriteEnqueue(s)
        \/ \E i \in SUBSET {READ, WRITE} : Attach(i) \/ SetInterests(i)
        \/ \E o \in FlowOptions : FlowConfigure(o)
        \/ \E m \in {"DRAIN", "IMMEDIATE"}, r \in {"APPLICATION", "IO_ERROR"} : RequestClose(m, r)

Spec == Init /\ [][Next]_vars

-----------------------------------------------------------------------------
(* After a refresh nothing is stuck: unsent bytes ask for writability, and a connection  *)
(* that waits for the rest of a frame, with nothing to send, asks for readability.  The   *)
(* read mark must leave room for one frame (flow_configure: read_low >= frame - 1).       *)
NoStall ==
    refreshed /\ conn.alive /\ conn.attached /\ conn.flow /\ conn.close = "OPEN" =>
        /\ Pending # 0 => WRITE \in kernel
        /\ Pending = 0 /\ ~conn.eof
             /\ frames_peek(conn.options, Len(Frames), ReadCapacity) = 0
             /\ frames_stop(conn.options, Len(Frames), ReadCapacity) = "NEED_MORE"
             => READ \in kernel

(* A close only ever advances: DRAINING to READY, drain to immediate, never back, and   *)
(* the first reason stays; bytes accepted before a drain are all sent when it is READY. *)
CloseStep ==
    conn.alive /\ conn'.alive =>
      /\ conn.close # "OPEN" => conn'.close # "OPEN" /\ conn'.reason = conn.reason
      /\ conn.close = "READY" => conn'.close = "READY"
      /\ conn.mode = "IMMEDIATE" => conn'.mode = "IMMEDIATE"
      /\ conn'.close = "READY" /\ conn'.mode = "DRAIN" => conn'.put = conn'.out

CloseAdvances == [][CloseStep]_vars
=============================================================================
