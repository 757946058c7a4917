----------------------------- MODULE MCTransport -----------------------------
(***************************************************************************)
(* One instance of each component of the transport: the TCP server, its    *)
(* TLS variant, one connection, its deadlines, the event loop, the byte    *)
(* buffer and the slot pool.  They are independent state machines here, so *)
(* a behaviour is a behaviour of one of them, chosen at the start; the     *)
(* event loop stays as it begins and the variables of the others are       *)
(* switched off.                                                           *)
(***************************************************************************)
EXTENDS EventLoop

VARIABLES which,
  s, auto, calls, tls, tls_calls,
  conn, conn_kernel, net, refreshed,
  armed, fired, timers, now, open, slot, bindings, store, idle, request, events, taken, acted,
  buffer, freed, appended, consumed, answer,
  last_pool_id, pool, claim, issued

Tcp == INSTANCE TcpServer WITH
  Capacity <- 2, Peers <- {1, 2}, BufferPairs <- 2, MaxGeneration <- 3, ReadCapacity <- 2,
  WriteCapacity <- 1, MessageBudget <- 1, RoundClients <- 2, AcceptBudget <- 2,
  MaxRequests <- 2, BadPeers <- {2}, MaxFaults <- 1, MaxCalls <- 3, AutoModes <- {TRUE}

\* What a TLS peer sends.
Scripts == UNION {Prefixes(q) : q \in {<<"FLIGHT", "RECORD", "RECORD">>, <<"FLIGHT", "CLOSE">>,
                                       <<"FLIGHT", "UPDATE">>, <<"FLIGHT", "JUNK">>, <<"JUNK">>}}

Tls == INSTANCE TlsServer WITH
  s <- tls, calls <- tls_calls, Capacity <- 1, Peers <- {1}, BufferPairs <- 1,
  MaxGeneration <- 3,
  TlsReadCapacity <- 3, TlsWriteCapacity <- 2, ReadLow <- 0, ReadHigh <- 3,
  WriteLow <- 0, WriteHigh <- 2, RecordUnits <- 2, Flights <- 1, IoBytes <- 3,
  IoCalls <- 1, Messages <- 1, RoundClients <- 1, AcceptBudget <- 1,
  ResourceClients <- 1, HandshakeTimeout <- 1, CloseTimeout <- 1, MaxNow <- 2,
  PeerScript <- Scripts, MaxFaults <- 1, MaxCalls <- 2

Off == "off"

Frames == <<[size |-> 2, valid |-> TRUE], [size |-> 3, valid |-> TRUE],
            [size |-> 1, valid |-> FALSE]>>

FlowOptions == [frame : {3}, rlow : {1, 2}, rhigh : {3, 4}, wlow : {0}, whigh : {1}]

Conn == INSTANCE Connection WITH
  kernel <- conn_kernel, HeaderSize <- 1, ProtocolMax <- 4, ReadCapacity <- 4,
  WriteCapacity <- 2, Budgets <- {4}, ReplySizes <- {1, 2}, MaxReplies <- 2

Lines == INSTANCE ClientDeadlines WITH
  issued <- timers, Times <- {0, 1}, Slots <- {1}, MaxGeneration <- 2, Capacity <- 1,
  Timeouts <- {1}, MaxTimers <- 2

Buf == INSTANCE Buffer WITH SizeMax <- 15, UintMax <- 15, MaxCapacity <- 6, MaxBytes <- 9

Option(size, alignment, capacity, max) ==
  [size |-> size, alignment |-> alignment, capacity |-> capacity, max |-> max]

\* Two options that fit exactly, and options one step beyond each limit of
\* the layout computation.
Options ==
  { Option(1, 2, 2, 17), Option(9, 8, 1, 25),        \* accepted
    Option(3, 2, 2, 20), Option(1, 2, 2, 0),         \* limit too small
    Option(9, 8, 4, 31), Option(60, 8, 1, 31),       \* storage, stride overflow
    Option(1, 1, 16, 31), Option(30, 2, 2, 31),      \* metadata, sum overflow
    Option(1, 16, 1, 25), Option(9, 8, 1, 40),       \* alignment, maximum
    Option(0, 1, 1, 20), Option(1, 0, 1, 20), Option(1, 3, 1, 20) }

Pool == INSTANCE ObjectPool WITH
  SizeMax <- 63, UintMax <- 3, Threads <- {"t1", "t2"}, MetadataSize <- 4,
  PoolSize <- 5, MaxAlign <- 8, MaxMemory <- 31

tcpVars == <<s, auto, calls>>
tlsVars == <<tls, tls_calls>>
connVars == <<conn, conn_kernel, net, refreshed>>
lineVars == <<armed, fired, timers, now, open, slot, bindings, store, idle, request,
              events, taken, acted>>
bufVars == <<buffer, freed, appended, consumed, answer>>
poolVars == <<last_pool_id, pool, claim, issued>>

tcpOff == s = Off /\ auto = Off /\ calls = Off
tlsOff == tls = Off /\ tls_calls = Off
connOff == conn = Off /\ conn_kernel = Off /\ net = Off /\ refreshed = Off
lineOff ==
  /\ armed = Off /\ fired = Off /\ timers = Off /\ now = Off /\ open = Off
  /\ slot = Off /\ bindings = Off /\ store = Off /\ idle = Off /\ request = Off
  /\ events = Off /\ taken = Off /\ acted = Off
bufOff == buffer = Off /\ freed = Off /\ appended = Off /\ consumed = Off /\ answer = Off
poolOff == last_pool_id = Off /\ pool = Off /\ claim = Off /\ issued = Off

\* One component runs, the others are off.
MCInit ==
  \/ which = "tcp" /\ Tcp!Init /\ tlsOff /\ connOff /\ lineOff /\ Init /\ bufOff /\ poolOff
  \/ which = "tls" /\ Tls!Init /\ tcpOff /\ connOff /\ lineOff /\ Init /\ bufOff /\ poolOff
  \/ which = "connection" /\ Conn!Init /\ tcpOff /\ tlsOff /\ lineOff /\ Init /\ bufOff /\ poolOff
  \/ which = "deadlines" /\ Lines!Init /\ tcpOff /\ tlsOff /\ connOff /\ Init /\ bufOff /\ poolOff
  \/ which = "loop" /\ Init /\ tcpOff /\ tlsOff /\ connOff /\ lineOff /\ bufOff /\ poolOff
  \/ which = "buffer" /\ Buf!Init /\ tcpOff /\ tlsOff /\ connOff /\ lineOff /\ Init /\ poolOff
  \/ which = "pool" /\ Pool!Init /\ tcpOff /\ tlsOff /\ connOff /\ lineOff /\ Init /\ bufOff

TcpNext ==
  /\ which = "tcp" /\ Tcp!Next
  /\ UNCHANGED <<which, tlsVars, connVars, lineVars, vars, bufVars, poolVars>>
TlsNext ==
  /\ which = "tls" /\ Tls!Next
  /\ UNCHANGED <<which, tcpVars, connVars, lineVars, vars, bufVars, poolVars>>
ConnNext ==
  /\ which = "connection" /\ Conn!Next
  /\ UNCHANGED <<which, tcpVars, tlsVars, lineVars, vars, bufVars, poolVars>>
LinesNext ==
  /\ which = "deadlines" /\ Lines!Next
  /\ UNCHANGED <<which, tcpVars, tlsVars, connVars, vars, bufVars, poolVars>>
LoopNext ==
  /\ which = "loop" /\ Next
  /\ UNCHANGED <<which, tcpVars, tlsVars, connVars, lineVars, bufVars, poolVars>>
BufNext ==
  /\ which = "buffer" /\ Buf!Next
  /\ UNCHANGED <<which, tcpVars, tlsVars, connVars, lineVars, vars, poolVars>>
PoolNext ==
  /\ which = "pool" /\ Pool!Next
  /\ UNCHANGED <<which, tcpVars, tlsVars, connVars, lineVars, vars, bufVars>>

MCNext == TcpNext \/ TlsNext \/ ConnNext \/ LinesNext \/ LoopNext \/ BufNext \/ PoolNext

MCSpec ==
  MCInit /\ [][MCNext]_<<which, tcpVars, tlsVars, connVars, lineVars, vars, bufVars, poolVars>>

-----------------------------------------------------------------------------
(* tcp_server.c, connection_pool.c: whatever call fails, slots, leases, the *)
(* scheduling queue and the sockets agree, a stale lease reaches nobody     *)
(* else's connection, and no settled client with work is left unscheduled   *)
(* and unwatched.                                                           *)
NoForgottenTcpClient ==
  which = "tcp" => Tcp!SlotsAgree /\ Tcp!LeasesReachOwner /\ Tcp!NoForgottenClient

(* tls_connection.c, tls_io.c, tls_close.c and the TLS half of tcp_server.c:*)
(* the same agreement under TLS; the connection's own consistency check     *)
(* never fails; and bytes, requests and deadlines inside the TLS layer are  *)
(* always scheduled, watched or timed.                                      *)
NoHiddenTlsWork ==
  which = "tls" => Tls!TlsSlotsAgree /\ Tls!LifecycleValid /\ Tls!NoHiddenWork

(* connection.c, flow_refresh: after a refresh, unsent bytes and unfinished *)
(* frames have their event watched.                                         *)
NoStall == which = "connection" => Conn!NoStall

(* connection.c, close_request, close_advance: a close only ever advances,  *)
(* the first reason stays, and a drained close has sent what was accepted.  *)
CloseAdvances == [][which = "connection" => Conn!CloseStep]_connVars

(* client_deadline_store.c, client_deadline_binding.c: the server acts on   *)
(* an expiry only for the client that was paired with the timer, not before *)
(* the deadline, and never for the next client in its slot; an expired      *)
(* event gets its binding at most once, however often it is replayed; and a *)
(* request whose expiry was delivered is not called pending.                *)
ExpiryExact ==
  which = "deadlines" => Lines!ExpiryExact /\ Lines!OncePerTimer /\ Lines!DeliveredNotPending

(* buffer.c and pool.c: through appends, consumes, compactions, growth and  *)
(* failed allocations the readable bytes are those appended and not yet     *)
(* consumed, in order, and a byte of the stream is nowhere else in memory;  *)
(* a held lease owns its slot alone, across pools and threads, no stale     *)
(* lease releases it, and every slot lies inside the storage.               *)
MemorySound ==
  /\ which = "buffer" => Buf!StreamIntact /\ Buf!NothingLingers
  /\ which = "pool" => Pool!LeasesOwned /\ Pool!SlotsInside
=============================================================================
