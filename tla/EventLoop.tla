----------------------------- MODULE EventLoop ------------------------------
(***************************************************************************)
(* net/event_loop.c over net/epoll.c: the registrations of one loop, the   *)
(* rounds of its thread, and a stop requested by another thread.           *)
(*                                                                         *)
(* A round takes a batch of events from the kernel and calls back for each *)
(* of them in turn.  A callback may add, change and remove registrations,  *)
(* and close and reopen descriptors, while later events of the batch wait. *)
(* A descriptor is <<number, use>>: the number is reused after a close.    *)
(***************************************************************************)
EXTENDS Integers, Sequences, FiniteSets, FiniteSetsExt, SequencesExt

CONSTANTS Fds,            \* descriptor numbers
          Interests,      \* what a registration may ask for
          RegistrationCapacity,
          EventCapacity,  \* events of one batch
          SERIAL_MAX,     \* the last registration serial
          IdMax,          \* the last value of identity_counter
          PipeMax,        \* bytes the wake pipe holds
          WakeChunk,      \* bytes one round reads from the pipe (64)
          MaxUses         \* bound: times one descriptor number is opened

ASSUME BoundsAssumption == RegistrationCapacity \in Nat /\ SERIAL_MAX \in Nat /\ IdMax \in Nat

VARIABLES loop,      \* struct vireo_event_loop, or NoLoop
          identity,  \* identity_counter
          kernel,    \* the epoll set: descriptor -> [interests, token]
          uses,      \* how often each number was opened
          pipe,      \* bytes in the wake pipe
          pc,        \* the loop thread: idle, check, wait, scan, dispatch, callback
          batch,     \* events of the round, with the descriptor they were taken for
          mode,      \* none, once (a bounded wait) or run
          stopper,   \* the thread in request_stop: idle, notify, done
          own,       \* the last handle or event reached the registration it was made for
          handles    \* handles their owners still keep, stale ones included

vars == <<loop, identity, kernel, uses, pipe, pc, batch, mode, stopper, own, handles>>

Events == Interests \cup {"ERROR"}
NoToken == <<0, 0>>
Vacant == [active |-> FALSE, fd |-> <<0, 0>>, interests |-> {}, token |-> NoToken]

(* One registration_record_t per slot, and the chain of free slots. *)
Record(fd, interests, token) ==
    [active |-> TRUE, fd |-> fd, interests |-> interests, token |-> token]

NoLoop == [held |-> {}, id |-> 0, records |-> <<>>, free |-> <<>>, serial |-> 0,
           running |-> FALSE, stop |-> FALSE]
Alive == loop.held # {}

Init == /\ loop = NoLoop /\ identity = 0
        /\ kernel = {} /\ uses = [n \in Fds |-> 1]
        /\ pipe = 0 /\ pc = "idle" /\ batch = <<>> /\ mode = "none"
        /\ stopper = "idle" /\ own = TRUE /\ handles = {}

-----------------------------------------------------------------------------
(* Creation and destruction. *)

Resources == <<"control", "events", "records", "epoll_control", "epoll_events", "epoll_fd",
               "pipe", "wake">>

(* vireo_epoll_create gives back its own blocks when a later step fails. *)
EpollCreate(n) == IF n \in 4..6 THEN {Resources[i] : i \in 4..(n - 1)} ELSE {}

(* release_resources frees all of it, a close that fails included. *)
release_resources(held) == {}

(* The step Resources[n] of the creation fails; what was acquired before goes back. *)
RolledBack(n) ==
    LET acquired == {Resources[i] : i \in 1..(n - 1)} \ EpollCreate(n)
    IN CASE n = 1 -> {}
         [] n = 2 -> acquired \ {"control"}
         [] n = 3 -> acquired \ {"events", "control"}
         [] n \in 4..6 -> acquired \ {"records", "events", "control"}
         [] n >= 7 -> release_resources(acquired)

claim_identity == IF identity = IdMax THEN "OVERFLOW" ELSE "OK"

Create ==
    /\ ~Alive /\ pc = "idle" /\ stopper # "notify"
    /\ \/ /\ claim_identity = "OVERFLOW"
          /\ UNCHANGED <<loop, identity, kernel, pipe, stopper>>
       \/ /\ claim_identity = "OK" /\ identity' = identity + 1
          /\ \/ \E n \in 1..Len(Resources) :
                  /\ loop' = [NoLoop EXCEPT !.held = RolledBack(n)]
                  /\ UNCHANGED <<kernel, pipe, stopper>>
             \/ /\ loop' = [NoLoop EXCEPT !.held = Range(Resources), !.id = identity',
                                          !.records = [i \in 1..RegistrationCapacity |-> Vacant],
                                          !.free = [i \in 1..RegistrationCapacity |-> i]]
                /\ kernel' = {} /\ pipe' = 0 /\ stopper' = "idle"
    /\ UNCHANGED <<uses, pc, batch, mode, handles, own>>

Destroy ==
    /\ Alive /\ stopper # "notify"
    /\ \/ /\ loop.running /\ pc = "callback" /\ UNCHANGED <<loop, kernel>>
       \/ /\ ~loop.running
          /\ loop' = [NoLoop EXCEPT !.held = release_resources(loop.held)]
          /\ kernel' = {}
    /\ UNCHANGED <<identity, uses, pipe, pc, batch, mode, stopper, handles, own>>

-----------------------------------------------------------------------------
(* Registrations: the owner thread, outside a wait. *)

Callable == Alive /\ pc \in {"idle", "callback"}

(* Mutant: a handle is taken for whatever its slot holds now. *)
find_registrationBySlot(h) ==
    IF h.id # loop.id \/ h.token[1] = 0 THEN "INVALID_ARGUMENT"
    ELSE IF h.token[2] > RegistrationCapacity THEN "RANGE"
    ELSE IF loop.records[h.token[2]].active THEN "OK" ELSE "NOT_FOUND"

find_registration(h) ==
    IF h = [id |-> 0, token |-> NoToken] THEN "NOT_FOUND"
    ELSE IF h.id # loop.id \/ h.token[1] = 0 THEN "INVALID_ARGUMENT"
    ELSE IF h.token[2] > RegistrationCapacity THEN "RANGE"
    ELSE LET record == loop.records[h.token[2]]
         IN IF record.active /\ record.token = h.token THEN "OK" ELSE "NOT_FOUND"

AddResult(fd) ==
    IF \E i \in 1..RegistrationCapacity : loop.records[i].active /\ loop.records[i].fd[1] = fd[1]
    THEN "BUSY"
    ELSE IF loop.free = <<>> THEN "BUSY"
    ELSE IF loop.serial = SERIAL_MAX THEN "OVERFLOW"
    ELSE "OK"

epoll_add(fd, interests, token) ==
    kernel' = kernel \cup {[fd |-> fd, interests |-> interests, token |-> token]}
epoll_mod(fd, interests) ==
    kernel' = {IF k.fd = fd THEN [k EXCEPT !.interests = interests] ELSE k : k \in kernel}
epoll_del(fd) == kernel' = {k \in kernel : k.fd # fd}

(* A failed vireo_epoll_add has used up the serial and changed nothing else. *)
Add(n, interests) ==
    /\ Callable
    /\ LET fd == <<n, uses[n]>>
           index == Head(loop.free)
           token == <<loop.serial + 1, index>>
       IN \/ /\ AddResult(fd) # "OK" /\ UNCHANGED <<loop, kernel, handles>>
          \/ /\ AddResult(fd) = "OK"
             /\ loop' = [loop EXCEPT !.serial = @ + 1, !.free = Tail(@),
                                     !.records[index] = Record(fd, interests, token)]
             /\ epoll_add(fd, interests, token)
             /\ handles' = handles \cup {[id |-> loop.id, token |-> token, fd |-> fd]}
          \/ /\ AddResult(fd) = "OK" /\ loop' = [loop EXCEPT !.serial = @ + 1]
             /\ UNCHANGED <<kernel, handles>>
    /\ UNCHANGED <<identity, uses, pipe, pc, batch, mode, stopper, own>>

Key(h) == [id |-> h.id, token |-> h.token]
Reached(h) == own' = (h.fd = loop.records[h.token[2]].fd)

Mod(h, interests) ==
    /\ Callable
    /\ LET found == find_registration(Key(h))
       IN \/ found # "OK" /\ UNCHANGED <<loop, kernel, own>>
          \/ /\ found = "OK" /\ Reached(h)
             /\ epoll_mod(loop.records[h.token[2]].fd, interests)
             /\ loop' = [loop EXCEPT !.records[h.token[2]].interests = interests]
          \/ found = "OK" /\ Reached(h) /\ UNCHANGED <<loop, kernel>>
    /\ UNCHANGED <<identity, uses, pipe, pc, batch, mode, stopper, handles>>

(* The caller's handle is cleared; copies of it are not, and stay behind. *)
Del(h, keepsCopy) ==
    /\ Callable
    /\ LET found == find_registration(Key(h))
           slot == h.token[2]
       IN \/ found # "OK" /\ UNCHANGED <<loop, kernel, handles, own>>
          \/ /\ found = "OK" /\ Reached(h)
             /\ epoll_del(loop.records[slot].fd)
             /\ loop' = [loop EXCEPT !.records[slot] = Vacant, !.free = <<slot>> \o @]
             /\ handles' = IF keepsCopy THEN handles ELSE handles \ {h}
          \/ found = "OK" /\ Reached(h) /\ UNCHANGED <<loop, kernel, handles>>
    /\ UNCHANGED <<identity, uses, pipe, pc, batch, mode, stopper>>

(* An owner closes a descriptor it has deregistered; the number is opened again. *)
Reopen(n) ==
    /\ pc \in {"idle", "callback"} /\ uses[n] < MaxUses
    /\ \A k \in kernel : k.fd[1] # n
    /\ uses' = [uses EXCEPT ![n] = @ + 1]
    /\ UNCHANGED <<loop, identity, kernel, pipe, pc, batch, mode, stopper, handles, own>>

-----------------------------------------------------------------------------
(* The rounds. *)

(* vireo_event_loop_run_once and vireo_event_loop_run *)
Start(m) ==
    /\ Callable
    /\ \/ loop.running /\ UNCHANGED <<loop, pc, mode>>
       \/ ~loop.running /\ loop' = [loop EXCEPT !.running = TRUE]
          /\ pc' = "check" /\ mode' = m
    /\ UNCHANGED <<identity, kernel, uses, pipe, batch, stopper, handles, own>>

Return ==
    /\ loop' = [loop EXCEPT !.running = FALSE] /\ pc' = "idle" /\ mode' = "none" /\ batch' = <<>>

(* The stop flag is read before every wait. *)
Check ==
    /\ pc = "check"
    /\ \/ loop.stop /\ Return
       \/ ~loop.stop /\ pc' = "wait" /\ UNCHANGED <<loop, mode, batch>>
    /\ UNCHANGED <<identity, kernel, uses, pipe, stopper, handles, own>>

Wake == [token |-> NoToken, events |-> {"READ"}, fd |-> <<0, 0>>]
EventOf(k, events) == [token |-> k.token, events |-> events, fd |-> k.fd]

(* vireo_epoll_wait: what the kernel has ready of the set, at most a batch, in any order; *)
(* nothing only at a timeout.  A wake byte is ready until it is read.                     *)
Wait ==
    /\ pc = "wait"
    /\ \E picked \in SUBSET kernel, wake \in IF pipe > 0 THEN BOOLEAN ELSE {FALSE} :
       \E events \in [picked -> SUBSET Events] :
         LET entries == {EventOf(k, events[k]) : k \in picked} \cup (IF wake THEN {Wake} ELSE {})
         IN /\ \A k \in picked : events[k] # {} /\ events[k] \subseteq k.interests \cup {"ERROR"}
            /\ Cardinality(entries) <= EventCapacity
            /\ Cardinality(entries) < EventCapacity => wake = (pipe > 0)
            /\ entries = {} => mode = "once"
            /\ batch' \in SetToSeqs(entries)
    /\ pc' = "scan"
    /\ UNCHANGED <<loop, identity, kernel, uses, pipe, mode, stopper, handles, own>>

WaitFails ==
    /\ pc = "wait" /\ Return
    /\ UNCHANGED <<identity, kernel, uses, pipe, stopper, handles, own>>

(* The wake bytes are read before any callback runs. *)
Scan ==
    /\ pc = "scan"
    /\ LET wake == \E i \in DOMAIN batch : batch[i].token = NoToken
       IN \/ /\ pipe' = IF wake THEN pipe - Min({pipe, WakeChunk}) ELSE pipe
             /\ pc' = "dispatch"
             /\ UNCHANGED <<loop, mode, batch>>
          \/ wake /\ Return /\ UNCHANGED pipe
    /\ UNCHANGED <<identity, kernel, uses, stopper, handles, own>>

filter_events(interests, events) == events \cap (interests \cup {"ERROR"})

(* An event calls back when its registration is still the one it was taken for; the wake *)
(* event is passed over.                                                                  *)
Deliverable(e) ==
    /\ e.token # NoToken
    /\ loop.records[e.token[2]].active /\ loop.records[e.token[2]].token = e.token

Dispatch ==
    /\ pc = "dispatch" /\ batch # <<>>
    /\ LET e == Head(batch)
           record == loop.records[e.token[2]]
       IN \/ /\ Deliverable(e) /\ filter_events(record.interests, e.events) # {}
             /\ pc' = "callback" /\ own' = (e.fd = record.fd)
          \/ /\ Deliverable(e) => filter_events(record.interests, e.events) = {}
             /\ UNCHANGED <<pc, own>>
    /\ batch' = Tail(batch)
    /\ UNCHANGED <<loop, identity, kernel, uses, pipe, mode, stopper, handles>>

CallbackReturns ==
    /\ pc = "callback" /\ pc' = "dispatch"
    /\ UNCHANGED <<loop, identity, kernel, uses, pipe, batch, mode, stopper, handles, own>>

RoundEnds ==
    /\ pc = "dispatch" /\ batch = <<>>
    /\ \/ mode = "once" /\ Return
       \/ mode = "run" /\ pc' = "check" /\ UNCHANGED <<loop, mode, batch>>
    /\ UNCHANGED <<identity, kernel, uses, pipe, stopper, handles, own>>

-----------------------------------------------------------------------------
(* vireo_event_loop_request_stop, from any thread: the flag, then the byte. *)
RequestStop ==
    /\ Alive /\ stopper = "idle" /\ stopper' = "notify"
    /\ loop' = [loop EXCEPT !.stop = TRUE]
    /\ UNCHANGED <<identity, kernel, uses, pipe, pc, batch, mode, handles, own>>

(* Mutant: any failed write is taken for a full pipe. *)
WriteStopByteAssumed ==
    /\ stopper = "notify"
    /\ \/ pipe' = Min({pipe + 1, PipeMax}) \/ UNCHANGED pipe
    /\ stopper' = "done"
    /\ UNCHANGED <<loop, identity, kernel, uses, pc, batch, mode, handles, own>>

(* A full pipe already holds the wake-up; any other failure is reported. *)
WriteStopByte ==
    /\ stopper = "notify"
    /\ \/ pipe' = Min({pipe + 1, PipeMax}) /\ stopper' = "done"
       \/ UNCHANGED pipe /\ stopper' = "failed"
    /\ UNCHANGED <<loop, identity, kernel, uses, pc, batch, mode, handles, own>>

(* The caller may ask again. *)
StopAgain ==
    /\ stopper \in {"failed", "done"} /\ Alive /\ stopper' = "notify"
    /\ UNCHANGED <<loop, identity, kernel, uses, pipe, pc, batch, mode, handles, own>>

Loop == Check \/ Wait \/ Scan \/ Dispatch \/ CallbackReturns \/ RoundEnds

Next == \/ Create \/ Destroy \/ Loop \/ WaitFails
        \/ \E n \in Fds : Reopen(n) \/ \E i \in SUBSET Interests : Add(n, i)
        \/ \E h \in handles : (\E i \in SUBSET Interests : Mod(h, i))
                              \/ \E copy \in BOOLEAN : Del(h, copy)
        \/ \E m \in {"once", "run"} : Start(m)
        \/ RequestStop \/ WriteStopByte \/ StopAgain

Spec == Init /\ [][Next]_vars

(* The loop thread keeps running and a callback returns; nothing else is assumed. *)
FairSpec == Spec /\ WF_vars(Loop)

-----------------------------------------------------------------------------
(* A handle or an event of the batch only ever reaches the registration it was made for, *)
(* also when slot and descriptor number were reused in between (find_registration and    *)
(* run_round compare the whole token).                                                   *)
NoStaleUse == own

(* The epoll set of the kernel is exactly the active records, whatever call failed. *)
KernelAgrees ==
    kernel = IF ~Alive THEN {}
             ELSE {[fd |-> loop.records[i].fd, interests |-> loop.records[i].interests,
                    token |-> loop.records[i].token] :
                   i \in {j \in 1..RegistrationCapacity : loop.records[j].active}}

(* Whatever callbacks remove, re-add and reuse, no event or handle is used for another     *)
(* registration, and the kernel watches exactly the active records.                       *)
NoStaleEvent == NoStaleUse /\ KernelAgrees

(* Once request_stop has returned success, a loop that waits without a timeout returns:   *)
(* the byte, or the bytes that filled the pipe, outlive every earlier drain.              *)
StopEndsRun == []<>(stopper # "done" \/ ~loop.running)
=============================================================================
