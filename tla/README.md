# Vireo: TLA+ models, checks and proofs

Vireo is a TLS file-directory server in C11: one reactor thread owns every
connection, a pool of worker threads runs the database operations, and bounded
queues carry tasks one way and results the other. This directory holds TLA+
models of it, TLC configurations that check them on small instances, and TLAPS
proofs that hold for every size. `PROJECT.json` maps each definition to the lines
it models and lists runs, mutants, hazards, findings and theorems. Source paths
below are relative to the repository root.

## 1. The system

### Components, their state and operations

| Component | Source | State | Operations | Correct when |
|---|---|---|---|---|
| Task queue | `src/thread/task_queue.c` | ring of owner pointers, mode, metrics, mutex, condition | try_push, try_pop, try_take_cancelled, wait_pop, close, inspect, prepare_wait, destroy | the ring is the backlog in order; no wake-up lost; a drain leaves nothing |
| Thread pool | `src/thread/thread_pool.c` | flags, worker slots, created/joined counts | configure, start with rollback, enable, try_submit, shutdown_and_join, destroy | every task in one place; a begun join ends |
| Completion queues, notifier, worker runtimes, supervisor | `src/thread/completion_queue.c`, `notifier.c`, `src/app/*_worker_runtime.c`, `auth_process.c` | a bounded ring and a fault word per domain, one eventfd, the phase of the process | wait_push, try_pop, close, notify; execute, publish, latch; run, stop, join, final cleanup | no result lost, doubled, stranded or dropped in silence; the process ends |
| Tasks and cancellation | `src/thread/task*.c` | reference-counted token | retain, request, destroy | the token lives as long as an owner names it |
| Auth service loop | `src/net/auth_service.c`, `auth_service_deadline.c`, `auth_request_*.c` | client slots, deadlines, one completion in hand | once: deadlines, sweep, completions, poll, client turns, admission | it wakes in time and forgets no request |
| Request reactors, in-flight store | `src/net/directory_*_reactor.c`, `inflight*.c` | expected table, in-flight records, heads, held answers | reserve, register, submit, finish, forget, resume, batched cleanup | tables exact; answers current; nothing of a client left behind |
| Session table | `src/net/auth_session.c`, `auth_response_consumer.c` | binding and candidate per client, resume cutoff, one receipt | reserve, commit, abort, lookup, revoke, apply_logout, forget | a LOGOUT is never undone |
| Timer wheel, client deadlines | `src/timer/`, `src/net/client_deadline_*.c`, `timer_loop_*.c` | hashed wheel, handles, bindings of clients to timers | arm, rearm, cancel, advance, take_expired, shutdown | no timer early, twice, overlooked or delivered to a later client |
| TCP and TLS server, connection, event loop | `src/net/tcp_server.c`, `connection*.c`, `tls_*.c`, `event_loop.c`, `epoll.c` | leases with generations, ready queue, buffers, watermarks, registrations | admit, read, write, handshake, drive, close, release, dispatch, stop | no client, byte or event forgotten or given to another owner |
| Asynchronous service | `src/net/async_*.c` | rounds, owners left by a failed call | poll, complete, drive, admit, recover | each frame submitted and answered once |
| Directory and authentication services, workers | `src/service/` | typed tasks, results, failure audit, login admission, hash gate | execute, publish, decode, admit, audit | an answer says what is true of the database |
| Repositories, pool, migration | `src/persistence/mysql_*.c` | rows, receipts, sessions, leases, versions | LOGIN, LOGOUT, RESUME, REGISTER, LIST, STAT, MKDIR, MOVE, REMOVE, lease, refill, migrate | one effect per key; a tree; leases exclusive and clean; DDL once |
| Protocol | `src/protocol/` | frames, TLV bodies | encode, decode | decoders accept exactly what encoders send |
| Base | `src/base/` | buffer, slot pool, checked arithmetic, log, configuration | append, consume, lease, emit, rotate, load | bytes in order and wiped; leases owned; whole lines in order |

### How they interact

A client frame reaches the reactor, which reserves an entry in the expected
table and a record in the in-flight store, wraps the request in a task and
pushes it with `try_push`. A worker takes the task with `wait_pop`, runs one
database transaction, pushes the result into the completion queue of its
domain with `wait_push` (it *blocks* while the queue is full), writes the
eventfd, and latches a fault bit if a step failed. The reactor never blocks on a
queue: it wakes from `poll`, empties the eventfd once, drains up to seven queues
in rotating order under a budget, and holds at most one popped result per domain
while that client's send buffer is full. The same thread runs the shutdown, so
it closes queues, keeps making room for the workers it waits for, joins them,
and drains what is left before it decides the exit status.

### What is hard

* Wake-ups: one signal per push or pop, one eventfd for seven queues.
* A shutdown run by the thread that everyone else may be waiting for.
* Slots that are leased again while requests of the previous client still run.
* Tables cleaned in batches over several turns with completions in between.
* Answers applied later, and in another order, than their transactions committed.
* COMMITs without a reply, connections given up while their transaction lives on.
* Calls that fail half-way and are resumed from recorded progress.
* Counters, tables, clocks and generations at their limits.

The `hazards` of `PROJECT.json` list these at their lines with the properties
that would catch each of them.

## 2. Modules

| Module | Models | Composition |
|---|---|---|
| `TaskChannel` | the promise of a task queue: an abstract FIFO with two close modes | refined by `TaskQueue` |
| `TaskQueue` | ring, mutex, condition variable, metrics, failing pthread calls | implements `TaskChannel` |
| `ThreadPool` | the pool's life cycle | over the promise of `TaskChannel` |
| `CompletionPath` | workers, completion queues, notifier, fault words, service loop, shutdown, verdict | abstract task queue |
| `RuntimeChain`, `TaskLifetime` | stages of the worker runtimes; the cancellation token | |
| `RequestReactor` | client slots, expected table, in-flight store, held answers, batched cleanup | workers as requests in flight |
| `DirectoryReactor` | one client's request from frame to answer with every call failing | head and receipt progress |
| `AuthService` | the loop of the authentication service with its deadlines | |
| `AuthSessions` | session table, resume cutoff, consumer of results, database outcomes | leases as in `RequestReactor` |
| `Authentication`, `LoginAdmission`, `FailureAudit` | worker side of REGISTER and LOGIN, rate limiter, audit queue and writer | |
| `DirectoryWorker` | report, outcome, completion and decoded answer of the six operations | |
| `NodeRepository`, `MysqlPool`, `Migration` | directory transactions, connection pool, schema migration | InnoDB and the server are external |
| `Messages` | fields, headers, checksums and every message | |
| `TimerService` | the promise of a timer wheel: identities used once, no early or double expiry | refined by `TimerWheel`, extended by `ClientDeadlines` |
| `TimerWheel`, `ClientDeadlines` | the wheel; clients' deadlines on top of its promise | |
| `ServerCore`, `TcpServer`, `TlsConnection`, `TlsServer` | what both servers share, and each of them | `TlsServer` composes core and connection |
| `Connection`, `EventLoop`, `AsyncService` | one connection; the loop over epoll; the generic service | |
| `Checked`, `Buffer`, `ObjectPool`, `Log`, `Configuration` | base containers, the logger, the configuration file | the first is used by the next two |
| `*Proofs` | TLAPS proofs | extend the modules they prove about |
| `MC*` | constants, symmetry and the sums of section 3 | instantiate the modules they check |

Operators whose comment begins with "Mutant" are the faulty forms of section 4;
no specification uses them.

### Notes on the correspondence

**TaskQueue.** The variables are the struct's fields, the mutex and the position
of each thread; `accepted` and `taken` are history. A step is what happens between
two points another thread can notice. `try_` operations return BUSY when the
mutex is taken and INTERNAL when `trylock` fails otherwise; a failed unlock leaves it
`Stuck`, as the code does.

**ThreadPool.** Start is one step per thread, so every prefix can be the one that
fails; shutdown is request, broadcast and one join per step, and may return BUSY
in between and be called again. A worker also ends when setting its cancel state or a
mutex call fails while it parks (`ParkFails`).

**CompletionPath.** `rpc` follows the reactor through sample, once, drain, poll
and the shutdown loops, `wpc` each worker through execute, the parts of
`wait_push`, notify and settle. Clients are per request; a completion queue is a
sequence (its ring is that of `TaskQueue`); the seven fault words are sampled in
one step, which is sound because they only grow and are sampled again.

**RequestReactor.** One action is one handler of the reactor thread; their order
is left open, completions come in any order, also after their slot was leased
again. A submission that the pool refuses is rolled back by key: `Register` puts the
record in and `RollBack` takes the record with that key out, which fails the service if
it finds none; a task that was handed over although its submission reports an error
ends the service as a stop does. `CleanupTurn` scans at most `CleanupSlots` entries:
records, expected entries, release. `ProvisionAssumption` is what `auth_process.c` configures.
Only where MKDIR is enabled (`mkdir_completion_allocation_budget`) does a
client's limit also count answers that are not sent yet; without it those answers
can fill the expected table, and reserve then reports INTERNAL. So
`NoInfrastructureFailure` and `UndeliveredBounded` are stated where MKDIR is
enabled. TLC reaches the full table with one domain, one request per client and two
records.

**DirectoryReactor.** The six files are one design, instantiated per command. STAT
answers a missing allocation with INTERNAL_ERROR where the others say OVERLOADED.
`infrastructure_result` is reset every turn, so a fault is resumable; a latched
head failure stays until the slot is closed. This holds for AUTH heads too: a record
the rollback could not take back is latched. The keys of an entry are part of it: those of a
REMOVE outlive `forget` in the C code, which wipes those of LIST, MKDIR and MOVE
(`directory_stat_reactor.c:99`), but they are read only through an entry of that
command, after it wrote its own.

**AuthService.** Deadlines are countdowns. They start when the TLS handshake ends;
`plan_wait` sleeps at most one tick while any timer is active. A pump that has not
caught up with the clock reports pending work although nothing is due (`MaxLag`
rounds in a row); a closing client is cleaned over `CleanupRounds` rounds; and reading
stops and resumes by the watermarks of `tls_io.c`, whose relation to a frame is
`Watermarks`.

**AuthSessions.** As in C, zero is "none". A LOGOUT whose COMMIT got no reply makes
the session `doubtful`. The consumer works on one result at a time, so at most one
candidate exists and the ticket's serial number adds nothing to its handle.

**Authentication.** Prologue and publication are local steps merged into the run
and the completion of a task; the effects of LOGOUT and RESUME are in
`AuthSessions`, their reports (UNKNOWN included) here. A LOGIN writes three rows: the
session, the user's `last_login_at_ms`, the audit. A clock before the user's own
timestamps refuses it with RANGE.

**DirectoryWorker.** A statement fails with any of the classes `mysql_statement.c` has,
before and inside the transaction.

**RuntimeChain.** AUTH's four operations are one kind of task; the AUTH stage does
not dispatch; a stage sees only the faults of itself and of the stages below it.

**AsyncService.** A drain that fails in delivery has consumed the notifier's hint
and does not renew it: resuming is the caller's duty
(`include/vireo/net/notifier_completion.h`), so the recovery actions include it
(`ResumeNotify`). The consume, a pop that meets a busy lock and the renewed
notification can fail as well (`DrainFails`). A frame that violates the protocol
terminates its client; a TLS client that was asked to close takes close steps in its
turns instead of being driven. A
failed client is not in the suffix a round reports and must be rescheduled,
recovered or terminated. A round refuses to start while an owner of an earlier
call is left.

**TlsServer.** A handshake step on an established client resets its interests to
READ, and a flow refresh does not look at buffered requests; both are the caller's
duty, as in the code.

**MysqlPool.** A failed relock quarantines its slot for good, so destroy stays
BUSY; a refill whose unlock fails in a closed pool leaks its new connection. Both
are modelled as the code has them.

**NodeRepository.** Rows become visible at commit, row locks are held until the
transaction ends *on the server*, which may be long after the client gave up: an
`orphan` is such a transaction, `sent` if its COMMIT was on the wire. Locks are on rows
that are there. The server runs at REPEATABLE READ, so a locking read that finds no row
takes gap locks; they are left out: they keep no other reader out, they only make an
INSERT wait, and a deadlock among them ends with the server failing a statement, which
`StatementFails` does at any point. Nothing is claimed about waiting, in agreement with
`mysql_node_repository.h`, and no property may rely on a lock of a missing name or
receipt: two MKDIRs of one name are kept apart by the row of their parent, two calls
with one key by the row of their user. `StatementFails` covers statements that started
and those that did not, and malformed receipts; an account may be disabled at any time
its row is not locked. `history` holds
what was committed and what was answered, and nothing else reads it.

**Migration.** A statement may have been executed and confirmed and its call fail
afterwards, when it is inspected or closed; the unlock may find the lock not released,
and the connection may fail to close. In each case the run reports a failure although
the database has changed.

**ClientDeadlines.** Slots have generations; leases, bindings and events are values that
the caller keeps and uses again after the client left. The idle and the request record
may start at a time the wheel has not reached. `acted` records what the server was asked
to do for an event and whether the client of the binding was there.

**Messages.** Usernames and passwords have the byte classes and length bounds of
`auth_request.c`, narrower than the text fields of the other messages. The encoder of an
authentication request is the client's and checks nothing, so for this message
`AcceptsOnlyValid` is the decoder against `AuthRules`.

**Log.** A byte is the number of its line. A crash is the end of the process, not
a power failure. A failed unlock leaves the mutex stuck.

**Configuration.** A text is a sequence of characters in which a key, a unit and a word
count as one, so the limits are scaled; lines, comments, duplicates, numbers with units
and their overflow are as in the C code. `load` is one action per call of the C library.
`ConfigExact` compares its result with what the texts mean (`Expected`), and asks that
a failure leaves the caller's configuration alone and names the first bad line.

**TimerWheel.** Lists are sets: every order the code can produce is allowed.
`snapshot_bucket` overwrites the list head, so nodes still pending would be lost;
the model says so (`lost`) instead of assuming that it does not happen.

## 3. Runs

Several runs are *sums*: the MC module extends one component and instantiates
others, a constant variable `which` says which of them a behaviour is a behaviour
of, and the variables of the rest keep their initial value or are "off". The
components of a sum are independent; the sum only saves runs. Its fairness is
guarded by `which`, so that a component that is switched off owes no step.
`request_reactor`, `timer_wheel` and `auth_service` check their component's module
directly.

| Run | What it shows |
|---|---|
| `task_queue` | Two workers on a queue whose calls succeed, and two callers and a worker where every pthread call may fail: ring, wake-ups, drain and metrics are sound, the queue refines `TaskChannel`, accepted tasks are taken and close releases every worker |
| `completion_path_safety` | Two domains with different drain code, two workers, queues of one: nothing lost, doubled or stranded behind an empty eventfd, producers woken, everything settled at exit, the final loop long enough |
| `workers` | Every failure on the completion path, in authentication and in the directory services: no loss is silent, published answers are true, a login takes effect only on the account it was verified against |
| `completion_path_liveness` | A stop or a fault ends the process and every accepted request settles, although the joining thread is the one that makes room |
| `completion_path_remove` | *Violation.* A signal stop that met only new PUBLISH faults fails the process when the fault is in the REMOVE domain |
| `request_reactor` | Two slots leased twice: live requests stay tracked, nothing of a client is left behind, counts, limits and sequence numbers hold |
| `sessions` | Every order of LOGIN, RESUME and LOGOUT results on two slots leased twice; the rate limiter; the chain of runtimes; the cancellation token |
| `timer_wheel` | Budgets of one tick and one node at the edges of clock and generations: nothing overlooked, the promise of `TimerService`, every timer ends |
| `progress` | Thread pool, request reactor, asynchronous service, event loop and audit writer: what must happen does, and nothing happens twice |
| `transport` | TCP and TLS server, connection, deadlines, event loop, buffer, slot pool: no client, byte or event is forgotten or reaches a later owner, whatever call fails |
| `persistence` | Concurrent directory transactions with lost COMMIT replies, the connection pool, migration by competing processes with crashes, the rotated log, the codec on frames changed in transit, the configuration file, and the directory reactor |
| `auth_service` | The loop wakes in time, no peer buys time, no buffered request is forgotten, and a blocked completion does not hold the loop for ever |

The finding of `completion_path_remove` is a disagreement between
`src/app/auth_process.h:62`, which says that a PUBLISH fault that is new during a
signal stop is evidence only, and `src/app/auth_process.c:579`, which masks that
bit for six domains and not for REMOVE.

### Bounds

Every bound is a named constant. Two workers are enough for a lost wake-up, a
missed broadcast or a half-finished start; capacities of 1 or 2 make queues full,
empty and wrapped, with more tasks or requests than fit. `CounterMax` and
`NotifierMax` of 1 put every counter at its limit. `MaxGeneration = 2` leases each
slot again, which is what late completions need; three instances are a LOGIN, a
RESUME and a LOGOUT, or a client's limit plus one. `CleanupSlots` is smaller than
the tables, so a cleanup always takes several turns. In the wheel, `MaxNs = 8`
with ticks of 2 from origin 1 gives more than one turn of two buckets, deadlines
on, before and behind a tick boundary, and a last tick that does not fit. Where
calls fail at will, `MaxFaults` (one, or two where a failure during a recovery
matters) and `MaxCalls` bound a behaviour. The audit writer has two events, a queue of
one and three faults; the asynchronous service closes one of its two clients
(`Closable`) and takes two frames in all (`MaxSent`); the directory reactor runs six
scripts of two or three frames; `AuthService` has one slot and a peer two units ahead
(`MaxInbox`), enough for a partial and a whole frame and for pressure in both
directions; the logger writes two lines. `CleanupAttempts * Budget >= Capacity`
is the relation the code's constants have. `AncestorCapacity = 3` makes a chain that
is too long for the walk reachable in two calls. For the task queue, the sessions,
the wheel, the request tables, the completion path, the event loop and the node
repository (answers and rows) the theorems of section 5 remove the bounds for
the safety properties.

### Deadlock and fairness

TLC's deadlock check is off where the modelled system may really stop: all tasks
used and all workers gone, a destroyed pool or wheel, a stopped server with
nothing left, or a used-up bound. The safety run of `CompletionPath` checks it.

Fairness is what the scheduling gives. Threads that can run do (WF on their
bodies); a thread that keeps asking for a mutex that keeps becoming free gets it
(SF on `WaitPopLock`, `WaitPushLock`); the reactor's loop goes on (WF on
`Reactor`, on `Once`, on the loop of `EventLoop`), expired timers run out (SF on
`BeginTurn`), and a client whose output is full reads on or is closed by its
deadline (SF on `DrainFinish`, WF on `FinishHeld` and on the consumer's
completion). A queue is drained again and again: SF on `Take` for each request. In
the wheel the clock advances (WF) and the loop calls `advance`, takes expired
timers and steps a shutdown again and again (SF, since other calls come between).
In `AuthService` the clock ticks (SF, since it is left out at the steps that read
no clock). In `AsyncService` workers finish, rounds and owners' steps whose calls
succeed are taken (WF), and a caller that recovers a client gets through (SF on
`RecoverStep`). In `FailureAudit` the clock, the writer, its start and its join
make progress (WF). Nothing is assumed about when clients send, close or stop. A
spurious wake-up that repeats for ever is not excluded by WF, so the liveness run
of `CompletionPath` leaves it out.

"Eventually" is stated as `[]<>(...)`: a waiting state does not last for ever. Where
it can only be left through the outcome (an accepted request by settling, a queued
event by being taken, a closing slot by its release) this is the leads-to of the
outcome, and cheaper to check.

## 4. Mutants

Each property of each passing run has a mutant: an operator that changes one
mapped definition the way a plausible mistake would (a signal only when the
queue was empty, `>=` for `>` in the cutoff test, a forget that clears nothing),
with which TLC finds the property violated.

## 5. Proofs

Each theorem is about `Spec` of its component, for every value of the constants
that satisfies the assumptions of its module; TLC evaluates those assumptions in
the runs. The inductive invariants were checked by TLC before they were proved.

### TaskQueue

`TypeCorrect`; `QueueSoundCorrect`, which joins `RingCorrect` (inductive with the
types), `DrainExitCorrect`, `NoLostWakeupCorrect` and `MetricsCorrect`; and
`ImplementsChannel`: every step of the ring is a step or a stutter of
`TaskChannel` under `mode <- state`, `gone <- freed`. `DrainExit` needs
`QuietWhenRetiring`, `ExitClosed` and `LifeInv`: who may still touch the queue when
it is retired, and that a worker only exits as CANCELLED from a closed queue.
`NoLostWakeup` needs `WakeOK`, which counts woken workers against tasks, and
`WaitersPrepared`, who may sleep. Assumptions: capacity and counter maximum are
positive, workers are finite and distinct from callers, the mutex values are not
threads.

### CompletionPath

`TypeCorrect`, `CompletionsSoundCorrect` and `NoSilentLossCorrect`, for every
sequence of domains, every set of requests, finite set of workers, capacity, budget
and set of faults. Assumptions: the four capacities are positive, every request has
an enabled domain, and `CleanupAttempts * Budget >= Capacity`. The invariant `IInv`
has these parts beyond the properties themselves:

* `WorkersSound`, `PhaseSound`: a worker has a request exactly while it works on
  one, a mutex exactly while it looks into that queue, nobody works after the join;
* `PlacesSound`: no place holds a request twice, every completion is at its own
  domain, and a request without an outcome is in exactly one of the four places.
  `CompletionsAccounted` is this statement counted; it is proved from it because
  moves between places are easier to follow than sums of cardinalities;
* `TurnQuiet`: in a turn that has visited *k* domains, each of these has nothing
  takable left or has left a mark (the eventfd, a worker about to write it, or the
  PUBLISH bit of a failed write). At the end of the turn this is
  `NoStrandedCompletion`;
* `ProducersWoken` is inductive with the types: a pop frees one slot and wakes one
  sleeper, a push uses up both;
* `FinalOnTime`: in the final loop the turns left times the budget cover what is
  queued, with the pops of the turn under way counted in. It gives
  `NoFatalAfterJoin`, and is where the assumption on `CleanupAttempts` is used;
* `DoneDrained`: run returns from an empty house; `SettledAtExit` follows from it.

### RequestReactor

`TypeCorrect` and `RequestsSoundCorrect`, for every number of slots, records,
domains and instances, with and without MKDIR. Assumptions: the tables are not
empty, domains and slots are finite, and `ProvisionAssumption`. The strengthening:

* `Identified`: a request that any part of the service holds was issued, for a
  lease that exists or existed, and instance numbers identify it;
* `HeldSound`, `RecordsMatched`: a held answer and the record of a request in
  flight have an entry in the expected table;
* `SlotsSound`: what a cleanup cursor has passed is clean, records before entries,
  so that a released slot leaves nothing behind although its cleanup took several
  turns with completions between them.

`RollBackSound` shows that a rollback by key finds the record it registered, and no
other one, so that the failure of an orphaned record does not happen.

That reserve always finds room where MKDIR is enabled is a counting argument
(`Crowd`, `RoomForEntry`): every entry belongs to a leased slot, a slot has at most
`ClientLimit`, and the table has one entry per domain more than the store.

### AuthSessions

`TypeCorrect` and `SessionsSoundCorrect` (`NoRevival`, `PendingOwned`,
`HandlesDistinct`, `BoundToLease`), for every set of slots and every bound.
`NoRevival` alone is not inductive: a RESUME result still in flight says nothing
about the database. The strengthening is

* `Clocks`: cutoff <= last noted RESUME <= last instance, and every RESUME is
  covered by the watermark, so raising the cutoff catches all of them;
* `ResumesBounded`: a validated RESUME of a revoked session is at or below the
  cutoff, or the LOGOUT that will raise it is on its way;
* `SessionsKnown`: before a session exists nobody refers to it, and until its
  LOGIN is answered only that answer does, so no LOGOUT can precede the binding;
* `OneReceipt`, `Instances`: one result is answered at a time, its ticket and the
  only candidate belong together, and an instance exists once.

### TimerWheel

`TypeCorrect`, `NothingOverlookedCorrect`, `ReadyCountCorrect` and `KeepsPromise`
(every step is a step or a stutter of `TimerService` under `armed <- Armed`,
`now <- latest`), for every capacity, bucket count, tick length, origin, largest
time and budget. `NothingOverlooked` speaks of completed ticks only; `IInv` adds

* `Places`: a slot is in a ring exactly when it is active, a timer in a bucket is
  due after the frontier, one in `ready` at or before it, and `pending` is used
  only while a tick is being visited;
* `Pace`: no tick is visited before it has begun at the latest time;
* `Rounded`: a due tick begins at or after its deadline, so a timer that is ready
  has expired;
* `Identities`: the generations of live timers are distinct and not above the last
  one issued.

### EventLoop

`TypeCorrect` and `NoStaleEventCorrect` (`NoStaleUse` and `KernelAgrees`), for every set
of descriptors, every number of slots, batch size and number of loops, under
`BoundsAssumption`: the three limits are natural numbers. This is the ABA problem of
`event_loop.c`: slots, descriptor numbers and loops are all used again while stale
handles and the rest of a batch are still around. `IInv` adds

* `RecordsSound`: an active record carries a token of its own slot that this loop has
  issued, and no two active records share a descriptor number, so a change in the
  kernel hits one of them;
* `FreeSound`: the free chain holds each slot at most once and only vacant ones;
* `HandlesSound`, `BatchSound`: the tokens of handles and of the batch are at most the
  serial of their loop, so the next one issued is none of them, and they lead to
  their own registration or to nothing. A handle's loop was created before.

### NodeRepository

`RetriedOnceCorrect` (`OnceEffect`, `CommitReportTrue`, `RecycledClean`),
`RevokedWritesNothingCorrect` and `TreeStaysSoundCorrect` (`TreeSound`,
`ReferencesExact`), for every set of workers and inputs and every number
of calls and faults, under `InputsAssumption`: a call is one of the nine operations,
and only a `_once` call carries a key; and `TreeAssumption`: the rows to start from are
a finite tree, numbered from 1. None is inductive: that a key has taken effect once
says nothing about two calls that have both found no receipt. `Inv` follows
transactions rather than calls:

* `Numbered`, `InOrder`: a transaction has one number and one worker, and a running
  call stands at a statement of its operation; `StageOrder` is what the eight
  statement lists have in common, so that nothing is proved per list afterwards;
* `Compatible`, `UserHeld`, `SessionHeld`: no conflicting locks, and the user row, first,
  and the session row stay locked until the transaction has ended at the server;
* `KeyHeld`: a receipt that was found missing is missing until then, because a `_once`
  call holds the user row exclusively. This is why a retry cannot run beside the
  transaction whose COMMIT got no reply; no lock on the missing receipt is needed;
* `Abandonment`: a transaction that may still commit belongs to a running call or is
  an orphan, once, and its call has said UNKNOWN or has never sent a COMMIT;
* `WritesAgree`, `Receipted`: node, audit row and receipt of one transaction name each
  other, and receipts and keyed commits correspond;
* `WordTrue`, `Recycled`: the commit word of a call, and the state of a connection that
  is given back, are those of the server.

For the rows `TreeInv` adds that what a transaction has found out about them is
still so when it takes effect, whoever commits in between: `Stage` for a call before
its write, `PendingFit` for a write that may commit, a running call's or an
orphan's. `WhoElse` says who may: beside an exclusive lock of the user row nobody is
past his first statements, and beside the shared one of a MKDIR there are only other
MKDIRs and reads, which the exclusive lock of the parent's row keeps apart
(`ParentLock`). `MkdirLands`, `MoveLands` and `RemoveLands` then take a tree to a
tree. No induction over chains of ancestors is needed: that there is no circle is
stated as "every non-empty set of directories has a member whose parent lies
outside", and what the walk of a MOVE has shown is `Clear`: a set of directories
closed under parents that holds the new parent and not the node.

### Only model-checked

Liveness under fairness and `ENABLED` are outside the prover, so every liveness
property stays with TLC. What recursive definitions compute for every input
needs induction over data, which the provers cannot do: `Messages` is checked on
bounded inputs. Modules that use `RECURSIVE` operators cannot hold theorems. The
safety properties of the other components (`ThreadPool`, `MysqlPool`, `Migration`,
the servers, the services, `Buffer`, `ObjectPool`, `Log`, `Configuration`) are checked
by TLC only so far.

## 6. Not modelled

* Certificates, password hashing, token encryption, SQL text and the schema's
  statements: libraries and data.
* Start-up of the process and its unwinding, clocks: sequential, with one owner.
* Formatting of answers and log lines.
* The non-blocking push of the completion queue, which no runtime calls.
* Creation of a TCP server from its options and its read-only snapshots.

## 7. Plan

1. Theorems: task accounting of `ThreadPool`; exclusive leases of `MysqlPool`
   and `ObjectPool`.
2. Refinement of the request tables: `RequestReactor` as the implementation of a
   set of open requests per client.
3. The worker side of the synchronous commands and the start-up of the process,
   should they grow state.
