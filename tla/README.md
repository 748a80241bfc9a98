# A TLA+ development of the stream proxy

The repository is nginx 1.21.6 used as a TCP proxy in front of PostgreSQL
(`src/conf/backend.conf` listens on 9043 and passes to 127.0.0.1:5433), with
dumps of the relayed traffic added to the handlers. The tree that is built and
changed is `src/nginx/nginx/1.21.6/nginx-1.21.6/`; paths below are relative to its `src/`.
`src/work` holds a near-pristine nginx, `src/stream` and
`.../nginx-1.21.6/stream` older copies of the stream modules, `src/module` C++
experiments, `src/packets` captures. The build (`objs/`) has epoll with
EPOLLRDHUP and EPOLLEXCLUSIVE, FIONREAD, GCC atomics, POSIX semaphores and
shared upstream zones; it has no SSL, HTTP/2, or thread pool.
`src/conf/nginx.conf` sets one worker and its upstream has one server without a zone;
the models cover the code for any number of workers and peers.

Contents: [inventory](#1-inventory), [modules](#2-modules),
[runs](#3-runs), [proofs](#4-proofs), [findings](#5-findings),
[limits](#6-what-is-not-modelled), [plan](#7-plan).

## 1. Inventory

A master process starts workers that share listening sockets and memory zones.
A worker is one thread around an event loop: `epoll_wait()` returns a batch of
events, each calls its handler, then posted events and expired timers do.
Handlers never block. All concurrency is therefore between a session and its two remote
ends and the kernel (a remote end acts between any two system calls of a handler),
between handlers of the same loop (order and staleness of the batch), and
between processes (shared memory, signals, deaths).

| Component | State | Operations | Talks to | Hard behaviour | Correct when |
|---|---|---|---|---|---|
| TCP proxy session, `stream/ngx_stream_proxy_module.c` | upstream record: two buffers, out/busy/free chains, connected, half_closed, tries, rate counters | handler, connect, connect_handler, init_upstream, process_connection, process, test_finalize, next_upstream, finalize | event loop, balancer, resolver, write filter | either end may stop, close or reset at any time; three kinds of timer; retries; shutdown timeout | bytes are relayed in order and completely, every wait is bounded, an end is passed on after the last byte, rates hold |
| Write filter and chains, `stream/ngx_stream_write_filter_module.c`, `core/ngx_buf.c` | the filter's two chains; one free list for both directions | write_filter, get_free_buf, update_chains | session, send chain | one buffer refilled and rewound while partly queued; partial writes | nothing lost, repeated or sent the wrong way |
| Socket I/O, `os/unix/ngx_recv.c`, `ngx_linux_sendfile_chain.c` | `ready`, `eof`, `available`, `pending_eof` | recv, send_chain | kernel | short cuts that skip a `recv()` with edge-triggered epoll | no readiness is lost |
| Event loop, `event/*` | active/ready flags, timer tree, posted queues | add events, process_events, post, expire timers | kernel, all handlers | stale events in a batch, timers due together with events | each event reaches the handler of the connection it is for |
| Shared mutex, `core/ngx_shmtx.c` | lock word, wait counter, semaphore | trylock, lock, unlock, force_unlock, wakeup | zones, accept mutex, master | sleep/wake races, owners that die | exclusion; no waiter sleeps beside a free lock; a dead owner's lock is freed |
| Round robin, `stream/ngx_stream_upstream_round_robin.c`, `core/ngx_rwlock.c` | peers in a zone: weights, conns, fails, times; list lock and peer locks | get, free, notify | sessions of all workers | check-then-act on conns, list switched half way, probes of disabled peers | conns accurate, max_conns kept, weights balanced, one probe at a time |
| Accept, `event/ngx_event_accept.c` | accept mutex held, disabled counter, which sockets are in epoll | accept, trylock mutex, enable/disable | shmtx, pool | EMFILE, mutex held while disabled | a connection is eventually accepted, by one worker |
| Connection pool, `core/ngx_connection.c` | free list, reusable queue, instance bits | get, free, close, reusable, drain | everything | reuse while events of the old user are in the batch | no stale event reaches a new connection |
| UDP sessions, `event/ngx_event_udp.c`, UDP branches of the proxy module | tree of sessions by address, requests and responses, the datagrams queued | recvmsg, lookup, insert, delete, shared_recv, sendmsg_chain | session, write filter | responses counted against requests; the first datagram kept apart while a name is resolved; empty datagrams in a byte-counting chain | datagrams go out in order, each once; a session ends when all are answered, or times out |
| Process management, `os/unix/ngx_process*.c`, `core/ngx_cycle.c` | process table, signal flags, cycles | spawn, reap, signals, reload, shutdown | shmtx, all workers | signals and deaths in any order | a worker that should run runs, one that should stop stops |
| Connection limit, `stream/ngx_stream_limit_conn_module.c` | counters in a shared tree | handler, cleanup | shmtx, slab | rejection half way, failed allocation after the count | count = sessions that hold it |
| Slab allocator, `core/ngx_slab.c` | pages with type, state and back pointer, list of free runs, a list of partly used pages for each size, bitmaps | alloc, free, with splitting and joining of runs | limit_conn, zones of peers; called under the zone's mutex | page states read back from the same words that link lists; a bitmap inside the page it describes | blocks never overlap, can be freed, and a call fails only when there is no room |
| Resolver, other balancers, other stream modules, core structures | | | | sequential or peripheral | |

Hazards, each at its line and with the properties that would catch it, are in
`PROJECT.json`.

## 2. Modules

| Module | Lines of the code | Role |
|---|---|---|
| `Relay` | none | what a session promises its two ends: two FIFO channels, ends of input, orderly close or abort |
| `StreamProxy` | proxy module, write filter, buf, recv, sendfile chain, epoll, connect | one TCP session, with the kernel and remote ends it sees; implements `Relay` |
| `MCStreamProxy` | none | byte counts and rates for its runs |
| `StreamProxyProofs` | none | theorems about `StreamProxy`: types, rates, timers |
| `StreamRelayProofs` | none | theorems about its data and its events: order, completeness, the refinement of `Relay`, no lost edge |
| `ShmMutex` | shmtx, process death and respawn | the mutex under crashes |
| `MCShmMutex`, `ShmMutexProofs` | none | instance, theorems |
| `UpstreamRR` | round robin, rwlock | sessions of several workers and the peers they share |
| `MCUpstreamRR`, `UpstreamRRProofs` | none | instance, theorems |
| `ProcessCycle` | process cycle of the master, process table, channels, `exec` of a new binary | the master and what its children do to it |
| `MCProcessCycle`, `ProcessCycleProofs` | none | instance, theorems |
| `ConnPool` | connections of a worker, stale check of epoll | operators on a worker's memory |
| `LimitConn` | limit_conn | operators on the shared counters |
| `Accept` | event loop's iteration, accept handler, accept mutex, start and end of a session | workers that accept; composes `ConnPool` and `LimitConn` |
| `MCAccept`, `AcceptProofs` | none | its configurations, theorem |
| `UdpSession` | recvmsg of a listening socket, the proxy module's UDP branches, write filter, buf, sendmsg chain | the UDP sessions of one worker, sharing its connections |
| `MCUdpSession`, `UdpSessionProofs` | none | its configurations, theorem |
| `Slab` | slab allocator of a shared zone | a pool and its callers |
| `MCSlab`, `SlabProofs` | none | symmetry of the callers, theorems |

### StreamProxy

Variables keep the names of the code's fields where a set or function replaces
a flag: `ready`, `active`, `timer`, `posted` are sets of the session's four
events (`cr`, `cw`, `ur`, `uw`: client and upstream, read and write),
`delayed`, `eof`, `buffered`, `closing` sets of sides. `step` is where the
running handler is; `"idle"` is the event loop. A handler is cut where another
party can act: at each system call. `ngx_stream_proxy_process()` is `write` →
`send` (one step per buffer) → `update` → `read` → back to `write` or to
`finish`, for direction `dir` with `do_write` in `dw`; `up` is client to upstream.

Byte *i* of a direction is the number *i*. `mem` is the direction's one buffer,
`bufs` the `ngx_buf_t` that point into it, `free` the chain both directions
share. A byte read from `mem` after the buffer was refilled is therefore a
wrong number on `wire`, which is what makes `RelayFIFO` a property of the
buffer management and not of the model.

Epoll is edge triggered: `armed` is the kernel's ready list, a socket joins it
when something happens to it while registered, or when it is (re)registered and
ready. `SOCK_NOSPACE` (`nospace`) is modelled because an EPOLLOUT edge comes
only after a write met a full buffer.

The environment (`Failures`) may reset connections, fail allocations, refuse
connects, fire the shutdown timer or let `next_upstream_timeout` have passed. The resolver and the
balancer appear as the outcomes the proxy handles.

A timer is set or not; one that is set may expire at any time its event is in
`Expiring`. That over-approximates every setting of the timeouts.

`now` is `ngx_time() - u->start_sec`, on the clock of the session's worker. The rates of
the session are 0, no limit, until `init_upstream` sets them (`RateOf`); a client's bytes may be
read before, when its event was posted at once (`Deferred`) or while `connect()` is pending. They go
into the buffer and count in `received`; `early` remembers how many they were.

### ShmMutex

One step per shared access. Spinning is waiting with the guard of `Lock`;
`Busy` gives up spinning. A worker may die in every state; its semaphore count
and `wait` stay as they are. `Reap` is `ngx_unlock_mutexes()` called for the
dead pid, including the wake-up that `force_unlock` makes the master perform.

### UpstreamRR

A session is a process: sessions of one worker never run at once, so sessions
of different workers are the general case. `pc` cuts the code at every lock
operation and between the read and the write of `peer->conns--`; `Pick` is the
whole scan, done under the write lock. `group[s]` is `rrp->peers`; every unlock
goes through it as in the code. `answered` and `probe` are history.
`effective_weight` is reduced per failure, and clipped at 0, as in the code.

`now` is the real time; it starts at `Epoch`, so that the peers' initial times are long past.
`clock[s]` is the `ngx_time()` of the session's worker: `ngx_epoll_process_events()` updates it
once per iteration (`Wakes`), and all handlers of the iteration work with it, however long they wait for a lock or
behind others: `Tick` may pass before a handler's first access to the peers and between any two of
them. A retry is in the same handler and keeps the time. A running worker may thus write into a shared peer times older
than those found there. `Tick` keeps every running worker within `MaxLag` seconds of the real time: an
assumption on how long one iteration takes (with `timer_resolution`, also on how rarely the time is updated), which
the code does not enforce. The time of an idle worker is not read before the next update; `Tick` updates it.
Times are whole seconds and the system's clock never goes back.

### ProcessCycle

`master` is the master's memory: `processes` and `last_process` (the table
`ngx_processes[]`), the flags the signal handler sets, `new_binary`,
`noaccepting`, `live`, `delay`, `sigio`. `kernel` is what the master cannot
see: each child's state, the command it was told, whether its configuration
was replaced, and which child a channel number belongs to. Descriptor numbers
matter: after a failed `fork()` the slot keeps the numbers of the channel that was
closed, and a number closed twice may be somebody else's by then.

One `Wake` step is one turn of the master: `sigsuspend()` returns when all
pending signals are delivered (`SignalHandler` sets their flags, and takes the
statuses with `GetStatus` for SIGCHLD), then one iteration of the loop. Signals are blocked
outside `sigsuspend()`, so nothing interleaves with an iteration; what makes
the module hard is which signals and deaths fall into the same one.
A child obeys (`Finish`), crashes, exits with the fatal code 2 or gets stuck.

### Accept, ConnPool, LimitConn

A worker is one record: the event loop's position `pc`, `ngx_accept_mutex_held`
(`held`), whether the accept event is registered (`listening`),
`ngx_accept_disabled`, the batch of `epoll_wait()`, the posted queue and its
connections. `pc` goes through one iteration: `posted` → (`Lock`) `poll` →
`batch` or `accept`/`unlock` → `timers` → `posted`. `accept` and `start` (the
phases of a session just accepted) are entered from any of them and return to `ret`.
Steps are cut at accesses to what workers share: the mutex, the queue of the listening
socket, the zones. Between two such accesses a worker is alone with its memory.

A session is reduced to what it does to connections: it takes one for the
client and one for each attempt to connect, closes them in the code's order, and
ends by an event, a timer, or a refusal. `StreamProxy` has the rest.
`ConnPool!Passes` is the stale check of `ngx_epoll_process_events()`; `taken` is
history for its property. `Fault` bounds what goes wrong: EMFILE, failed
allocations, deaths.

`disabled` is kept at 0 while the code's value is negative, which the code does
not tell from 0. A configuration is a record drawn from `Configurations`, so
that one run covers several.

### UdpSession

A handler is one step. A UDP session's client socket is the listening socket, its
upstream socket only queues what has arrived, so nothing another party does in the
middle of a handler changes what the handler sees; what the kernel answers to each of
its calls is chosen in the step (`WriteUp`, `ReadReplies`, `Connect`). `DatagramOfKnown`
and `DatagramOfNew` are the two halves of an iteration of `ngx_event_recvmsg()`.

Datagram *k* of a session is the one that raised `u->requests` to *k*. `chain` is what
waits for the upstream socket in the order of the code's chains (`u->upstream_out`,
then the filter's), `given` and `dropped` are history. A datagram's size matters for
three things: what does not fit into the buffer is cut off, with a full buffer it
is lost, and an empty one is invisible to `ngx_chain_update_sent()` and has size 0 in
`ngx_chain_update_chains()`. `freed` follows what the last costs: see section 5.

The configuration is a record drawn from `Configurations` (`proxy_requests`,
`proxy_responses`, peers to try, resolver, rates, and whether a send buffer may fill
up and calls may fail). Rates are abstracted to the choice of being delayed.

### Slab

A call is one step, because its callers hold the zone's mutex (`ShmMutex`). A page is its
type (whole pages, or the size its chunks have: the low bits of `page->prev` with the shift
in `page->slab`), its `slab`, its bitmap `busy` and its `prev`. The list of free runs and each slot's
list of pages are sequences; being listed is `page->next != NULL`. `prev` is kept for one use that is not a
list: the last page of a free run points to the first, which is how `FreePages` finds
the run on its left.

The three kinds of chunk differ in where the bitmap is and in what tells a full page:
`Reserved` is the number of chunks the bitmap of small ones occupies in their own page, `WasFull`
looks at the bitmap for the exact size and at the list for the others. The properties look at the
blocks that callers hold (`held`), not at the lists: bytes that overlap, room that a failed call missed.

## 3. Runs

| Run | Instance | Distinct states | Shows |
|---|---|---|---|
| `relay` | 3 bytes up, 1 down, buffer 2, socket 1, deferred accept, timeouts | 367k | `RelayFIFO`, `NothingLost`, `NoLostEvent` |
| `rate_limit` | 2 up, upload rate 1, deferred accept, clock of 2 s, half-close, timers of both read events, failing allocations, fair | 207k | rate; what is sent is delivered; a finished session ends |
| `retry_shutdown` | 2 up, buffer 2, socket 1, half-close, resolver, 2 tries, refused connects, resets, shutdown timer, fair | 424k | timers; flushed when closed; shutdown after the last byte; implements `Relay`; the shutdown timer ends every session |
| `shm_mutex` | 3 workers, 2 deaths | 71k | exclusion, wait counter, no lost wakeup, progress, recovery |
| `round_robin` | 3 sessions, 2 peers (weights 3 and 1, max_conns 2 and 1, max_fails 1 and 2), 4 s, workers up to 1 s behind | 2.3M | counts, limits, weights, probes, retries |
| `backup_peers` | 3 sessions, 1 primary and 1 backup peer | 106k | locks across the two lists; nobody is left waiting |
| `marked_live` | as `round_robin`, 2 s | (violated) | the first finding below |
| `process_cycle` | 1 worker, 4 slots, any 3 signals, 2 deaths (one may be fatal), 1 failed fork | 168k | table and children agree; reload, shutdown, respawn |
| `orphaned_workers` | 1 worker, 3 slots, 4 signals, no deaths | (violated) | the second finding below |
| `accept` | pool of 3 (accepting pauses below 2), 2 peers, 2 zones with limits 2 and 1; 2 workers with the mutex and 2 clients and 2 faults or 3 clients and none; 1 worker with `multi_accept` or `dry_run`, 3 clients | 342k | pool, stale events, mutex, counters, waiting clients |
| `udp` | 2 clients, 4 datagrams of 0 or 2 bytes, buffer 3, 4 connections, 2 replies to a session; five configurations | 695k | datagrams in order and accounted for; sessions end |
| `slab` | 4 pages of 12 bytes, chunks of 3 (bitmap in the page), 4 (exact) and 6, 5 callers, requests of 2, 4, 5 and 20 bytes | 137k | blocks disjoint; no failure with room left; every block can be freed |

Why the bounds are enough to see the interesting cases. Two bytes of buffer
and one of socket space give every combination of empty, partly written, full
and rewound; three bytes make the buffer wrap once while a part is queued; one
byte back makes the shared free list change hands. `MaxBufs` is 10, and no
reachable state of any run uses all ten, so the bound hides nothing.
One second gives a limited read, a wait and another read, two give it twice. With deferred
accept the two bytes come before the rate is known, after, or one and one; the clock has to last until the rate
admits all bytes, or `Delivery` would fail for want of a clock. In `round_robin` (`fail_timeout` 1) four seconds
give a failure, a probe and another one, with a worker that is behind at each of them: a late worker's probe sets `checked` to an older time than
the real one, and the next probe is let through after exactly `fail_timeout`, no more; without the `MaxLag` in
`OneProbe` this run violates it. To set `checked` back *between* two probes, by the failure of an older session that was recorded
late, takes a fourth session: that case has only the theorem. Three workers
have an owner, a waiter and a waker at once; two deaths cover a death during the recovery from another. Two
peers, one of which refuses a third session, and three sessions give a full peer, a
disabled one, a probe with a race for it, and retries. Symmetry is used only in
`round_robin` and `slab`, which have no liveness property. `round_robin` also has a view (`RRView`): states that differ only in
what no step and no property of the run reads any more (the peer data of a session that is over, the time of an idle
worker, the history of another run's property) count once.

`process_cycle` has room for a worker, its replacement, the new binary and one
more; three signals are an upgrade, WINCH and a command after it, or two
reloads and a shutdown. Two workers in five slots with two signals (204k states) also
pass. A pool of three is empty with one session that is connected and another that
connects, and lets a connection be closed, taken and closed again inside a batch;
two zones have a first to undo when the second rejects.

In `udp`, four connections hold two sessions with their upstreams, or more sessions whose name
is being resolved; four datagrams fill the buffer of a session (two bytes fit, the next is cut
to one, the last is lost), or give one client two sessions in a row. Each configuration
isolates a hazard: a question and an answer with a resolver, a failing peer and a second one; two
datagrams to a session; no answer expected and a slow socket; rates both ways; only the timeout.

In `slab`, four pages let a run be split, freed between two free ones, and joined from either
side; a page of small or exact chunks has three to give, one of big ones two, so five callers fill a page,
cut another, and empty them in any order. A run of two pages fails beside single free ones. Chunks are
powers of two in the code; nothing in the module depends on it, and 3, 4 and 6 bring all three kinds
into a page that few callers can fill.

Deadlock is checked where the system cannot stop: a session that is over
stutters in an explicit step (`Done`), and a live worker can always ask for the
mutex again. `process_cycle` ends with the master, and in `accept` the clients are finite:
when all are served every worker waits in `epoll_wait()` for good. In `udp` datagrams are
finite and the worker may have shut down. Those runs and `orphaned_workers` do not check it.

### Properties

- `RelayFIFO`, `NothingLost`: the chains and the single buffer, above.
- `NoLostEvent`: when the worker has nothing to do, every unread input and unsent
  output still has a timer or an edge to come.
- `TimerGuards`: a session at rest has the timer that bounds its wait, and the
  connect timer is set whenever `connect_handler()`, which deletes it unasked, may run. `retry_shutdown` has no
  rate, which with its retries and failures would take too long; that a delayed read has its timer
  is, for all rates, the theorem's part.
- `FlushedAtClose`, `HalfCloseAfterFlush`: nothing promised is dropped at the end. They need
  a buffer of two, where an end of input is read while a byte before it is still queued.
- `RateBound`: received ≤ rate × seconds begun, or else nothing but what was read of the client while
  the rate was unknown, at most a buffer. What was read early is not forgiven: it counts against the rate afterwards.
- `Delivery`, `Termination`, `ShutdownEnds`: liveness of a session.
- `ImplementsRelay`: the refinement, with `RelayState` computed from `step` and `outcome`.
- `MutualExclusion`, `WaitAccounting`, `NoLostWakeup`, `Progress`, `Recovery`:
  the mutex. The middle three say nothing once a worker has died: a death between
  lowering `wait` and `sem_post()` loses a wakeup and a death of a counted waiter leaves `wait`
  too high, and the code repairs neither.
- `Exclusion`, `ConnsAccurate`, `MaxConnsKept`, `WeightsBalanced`, `NoRetrySame`, `Settles`: the balancer.
- `OneProbe`: two sessions probe a disabled peer more than `fail_timeout` less `MaxLag` apart, in real time. With equal
  clocks (`MaxLag = 0`) that is the strict spacing one expects of `checked`; with clocks of several workers the code does not give it.
- `ProcessTable`: slots and children correspond, below `ngx_last_process`.
- `OldWorkersRetired`, `NobodyElseTold`: a reload stops all old workers and no other.
  Both are qualified by a failed `fork()`: `ngx_spawn_process()` then returns with the slot's
  channel numbers closed but kept (`os/unix/ngx_process.c:193`), a later close or command goes by
  them, and may reach a new worker's channel.
- `EnoughWorkers`, `WorkersReplaced`: the number of workers is kept up. Excepted
  are the cases in which the code does not: the fatal exit code, a full table, a failed fork (tried again
  only when the next child dies), and a configuration rejected in the very iteration that
  reaps a new binary (`restart` then waits for the next signal, `ngx_process_cycle.c:226`).
- `ProcessCycle!ShutdownEnds`: QUIT ends when workers do, TERM even if they are
  stuck. A reload whose forks all fail leaves `live` at 1 with no child to
  correct it (`ngx_process_cycle.c:241`), hence the exception.
- `PoolIntact`: nothing is freed twice, and no queue holds a free connection.
- `StaleCaught`: the stale check stops every event of a connection that was
  closed and whose structure was taken again. One bit cannot tell two reuses in a
  batch, and the property says exactly that much; such a pass is reachable.
- `HeldIffListening`: the held flag, the registration and the mutex agree at
  every step of a living worker. A worker that skips the mutex while `ngx_accept_disabled` is
  positive does accept without owning it, and the property does not deny it.
- `ConnCounted`: a zone's counter is its holders plus what deaths and the failed
  allocation at `ngx_stream_limit_conn_module.c:276` have lost for good.
- `PendingServed`: waiting clients are accepted. Excepted is a state the code does
  reach: a worker that met EMFILE with the mutex sets `ngx_accept_disabled` to 1, skips the mutex once,
  and with it the timeout of `epoll_wait()` (`event/ngx_event.c:219`); if it has no session
  it sleeps, and if all workers do, clients wait although descriptors are free.

- `RequestsAccounted`: of the datagrams a UDP session has counted each was sent, waits, or
  was dropped where the code drops one (an empty one behind another in a short send, those
  queued while a peer failed); the rest keeps its order, the first datagram is never dropped.
  A session takes `proxy_requests` datagrams, with one exception the code has: with
  `proxy_requests 1` and a name to resolve, a second one comes in before the first is looked at.
- `NoneLingers`: between handlers no UDP session is one that should be over, and the timer that
  ends it is set. A rate delay and the idle timer replace each other on four paths.
- `BlocksDisjoint`, `FailsOnlyWhenFull`, `NeverRefused`: what a caller of the slab allocator relies on,
  said without its lists. A run that was not joined, a page forgotten by its slot's list or a bitmap off by one breaks
  one of them only after several calls. The second allows the failure the code has: a size finds no
  place in pages of other slots.

### Fairness

- `StreamProxy`: the worker's loop keeps running (one weak-fairness condition
  on all its steps: it is one thread, and it is never starved by itself because
  the batch is finite); a timer that stays set expires; a remote end that
  stays connected reads; a connect completes or fails; the clock advances.
  Nothing makes a remote end send, close or reset.
- `ShmMutex`: live processes run, a critical section ends, the master handles
  SIGCHLD. Nobody has to ask, and `Progress` promises the lock to somebody, not
  to everybody: compare-and-set has no queue.
- `UpstreamRR`: weak fairness of each session's lock, dial and free steps. A spin lock
  gives no such guarantee under endless contention, but a session here asks a
  bounded number of times, so contention ends; `Settles` claims that no lock is
  left behind, not that spinning is fair. A session need not end.
- `ProcessCycle`: the kernel delivers pending signals, the interval timer fires,
  a child that was told to stop and is not stuck stops.
- `Accept`: a worker that is not blocked runs, the timer of the accept event is due some
  day even if other timers are due again and again, and the master respawns. Clients need
  not come, and sessions need not end.

## 4. Proofs

`TLAPS` proves the following for all values of the constants under the modules' named
assumptions. `ConstantsAssumption`, `ShmAssumption` and `PeersAssumption` give the types of
the parameters, finite sets of workers and sessions, at least one primary peer, a clock
started later than any fail_timeout, and `MaxLag`, any number, as the bound on the workers' lag. `AcceptAssumption` and `ConnectionAssumption` say that a
worker has connections, and that several workers use the mutex (one does not need it,
`event/ngx_event.c:628`). `UdpAssumption` gives types and at least one peer. `SlabAssumption` says that a
slot's chunks fill a page, and that the bitmap's own chunks leave room for two. `ProcessAssumption` gives types, with at
least one worker and one slot.

| Theorem | Statement | Argument |
|---|---|---|
| `StreamProxyProofs!TypeCorrect` | `Spec => []TypeOK` | `TypeOK` is inductive; one lemma per phase of a handler |
| `StreamProxyProofs!RateNeverExceeded` | `Spec => []RateBound` | `RateInv`: before `connected` the client's buffer holds all that was received, and nothing of the upstream is; `early` fixes it; afterwards only `RecvData` reads, `RecvSize` is at most `Limit`, and the clock only raises the bound. `TimerInv` says which steps may run unconnected |
| `StreamProxyProofs!TimersGuard` | `Spec => []TimerGuards` | `TimerInv` |
| `StreamRelayProofs!BytesInOrder` | `Spec => []RelayFIFO` | `RelayInv` |
| `StreamRelayProofs!NoByteLost` | `Spec => []NothingLost` | `RelayInv`; `FoldCounts` for the fold |
| `StreamRelayProofs!NothingMissingAtClose` | `Spec => []FlushedAtClose` | `RelayInv` |
| `StreamRelayProofs!EndAfterLastByte` | `Spec => HalfCloseAfterFlush` | `RelayInv`; `VisibleStep` shows that only `Finish` shuts down |
| `StreamRelayProofs!SessionRelays` | `Spec => ImplementsRelay` | `MapsInit`, `MapsStep`: step simulation under `RelayInv`, with the mapping of `R` |
| `StreamRelayProofs!NoEdgeLost` | `Spec => []NoLostEvent` | `EdgeInv`, with `RelayInv` and `TimerInv`; one lemma per step for each side's input and output |
| `ShmMutexProofs!TypeCorrect` | `Spec => []TypeOK` | inductive |
| `ShmMutexProofs!Exclusion` | `Spec => []MutualExclusion` | `OwnerInside` |
| `ShmMutexProofs!WaitIsAccounted` | `Spec => []WaitAccounting` | inductive with `TypeOK`; each step moves one worker into or out of `Waiting` or `Posting` |
| `ShmMutexProofs!NoWakeupIsLost` | `Spec => []NoLostWakeup` | `WakeupInv`, which uses `WaitAccounting` |
| `UpstreamRRProofs!ExclusionHolds` | `Spec => []Exclusion` | `LockInv` |
| `UpstreamRRProofs!ConnsAreAccurate` | `Spec => []ConnsAccurate` | `CountInv` |
| `UpstreamRRProofs!MaxConnsIsKept` | `Spec => []MaxConnsKept` | `CountInv` |
| `UpstreamRRProofs!ProbesAreSpaced` | `Spec => []OneProbe` | `ClockInv`, `ProbeInv` |
| `UpstreamRRProofs!RetriesMoveOn` | `Spec => NoRetrySame` | `RetryInv` |
| `UpstreamRRProofs!TypeCorrect` | `Spec => []TypeOK` | `Types`, `WeightInv` |
| `UpstreamRRProofs!WeightsStayBalanced` | `Spec => []WeightsBalanced` | `WeightInv`, and lemmas on sums over finite sets |
| `AcceptProofs!HeldAlways` | `Spec => []HeldIffListening` | `HeldInv` |
| `AcceptProofs!PoolStaysIntact` | `Spec => []PoolIntact` | `Settled`: one lemma for each operator on a worker's memory, then one per action |
| `AcceptProofs!StaleAlwaysCaught` | `Spec => []StaleCaught` | `Settled` (`BatchInv`) |
| `AcceptProofs!ConnAlwaysCounted` | `Spec => []ConnCounted` | `CountInv`, with `Settled` |
| `UdpSessionProofs!SessionsEnd` | `Spec => []NoneLingers` | `LingerInv` |
| `UdpSessionProofs!RequestsAreAccounted` | `Spec => []RequestsAccounted` | `RequestsInv`; one lemma on the account for each of `Take`, `Sent`, `PrependBuffer`, `Forget` |
| `ProcessCycleProofs!TableAgrees` | `Spec => []ProcessTable` | `IInv`: one lemma for each operation of the master on its table |
| `ProcessCycleProofs!OldRetired` | `Spec => []OldWorkersRetired` | `IInv` (`Retired`, `Told`) |
| `ProcessCycleProofs!OnlyOldTold` | `Spec => []NobodyElseTold` | `IInv` (`Leads`, `Told`) |
| `ProcessCycleProofs!WorkersSuffice` | `Spec => []EnoughWorkers` | `IInv` (`Enough`), and the cardinality of what a loop of spawns adds |
| `SlabProofs!PoolConsistent` | `Spec => []SlabInv` | inductive; lemmas about taking and giving back pages (`AllocKeepsRuns`, `FreeKeepsRuns`), one about chunks and blocks for each outcome of a call |
| `SlabProofs!BlocksNeverOverlap` | `Spec => []BlocksDisjoint` | `SlabInv`, and the arithmetic of pages and chunks |
| `SlabProofs!NothingWasted` | `Spec => []FailsOnlyWhenFull` | `SlabInv`: pages that no block touches are in one run |
| `SlabProofs!FreesNeverRefused` | `Spec => []NeverRefused` | `SlabInv` |

Why the strengthenings are needed:

- `TimerGuards` speaks of the idle loop, but what makes it true is decided inside
  handlers: `TimerInv` follows the connect timer from `dial` to `init`, ties a
  rate delay to its timer in every step, and says that relaying before the upstream is connected can only be upwards.
- `RelayFIFO` says nothing of the bytes still inside. `RelayInv` follows them: `Flow` says that what
  a direction has still to write (`Pending`: the filter's chain, with the new one behind it) covers
  the buffer from the first byte not written to `last` without a gap, the ends of input behind the
  data; `MemInv` that the buffer holds the bytes read last; `OwnInv` that every `ngx_buf_t`
  is once in one chain of one direction or in the free chain, which is what makes it safe to share
  the free chain; `FilterInv` that the filter's chain is what is left of the busy and out
  chains, all before it being empty, so that `ngx_chain_update_chains()` frees only what was sent
  and rewinds the buffer only when nothing points into it. `BlockedInv` is the detail that
  carries `UpdateChains`: a filter's chain that is left begins with data, so the first buffer that
  is not empty is the first one it holds. `EndInv` and `FlushInv` relate `eof` and `buffered`
  to these chains: that is why `test_finalize()` need look at nothing else. The lemmas about `Flow` and `Own` speak
  of chains in general and of no state; one lemma per step applies them.
- `NothingLost` says with a fold over a chain what `FlowInv` says with its ends. The library's fold takes the places
  of a chain in an order of its own, so `FoldCounts` proves what it returns for every chain: the number of bytes of the
  buffer that the places hold. `BytesAdd` adds one place, whose bytes no other place holds (`PiecesRise`), `BytesOfChain`
  counts the whole chain, which leaves no gap.
- `NoLostEvent` speaks of a session at rest, but an edge may be lost at any step before. `EdgeInv` follows each end's input
  (`InputOf`) and each blocked output (`OutputOf`) from the kernel's report through epoll's ready list (`armed`,
  `revents`), the flags of the event (`ready`, `available`, `pending_eof`) and the posted queue to the handler that deals
  with it: what is unread is at one of these places at every step, or its read waits for a rate delay or
  for room in the buffer. `RewoundInv` says that a buffer in no chain has been rewound, so that one which is full waits
  for something to be written, and that write wakes the reader. `ShutdownInv` covers a session whose
  worker shuts down: its client's read event stays posted until it is finalized.
- `SessionRelays` needs of a state only `RelayInv`: `Forward` takes bytes that were sent because
  what is written is at most what was read, `PassEnd` and `Close` find their
  direction complete by `PassedOn`, and `Retry` finds nothing relayed by `UnconnectedInv`.
- Mutual exclusion alone is not inductive: nothing in it stops `Unlock` or the
  master's `Reap` from freeing somebody else's lock. `OwnerInside` says that a worker inside owns the
  lock word.
- `NoLostWakeup` names the processes that will still look at the lock. The step
  that could break it is a waker that reads `wait <= 0` and leaves: `CountedSleepers` uses the
  accounting to show that a sleeper then has a post to come. `WakeupInv` adds that who counts itself has a semaphore.
- `LockInv` gives the meaning of the lock words: the list's word is -1 while one
  session writes it and otherwise the number of its readers, a peer's word is
  held by the session that changes it, and a session that has a peer has it in
  the list its `rrp->peers` points to.
- `CountInv` says which positions count a session, that the value of `conns` read
  before the write is still current, and that a picked peer still has room when it
  is taken. The last two use `LockInv`: between the two steps no other session can touch that peer.
- `ClockInv` keeps each worker's time between `now - MaxLag` and `now`. `ProbeInv` relates the times of probes
  to `checked`. A probe leaves `checked` at the prober's time, within `MaxLag` of the real one; whoever writes it later
  (a failure, another pick) may write an older time than is there, but none that is more than `MaxLag` behind the moment of writing, so
  `checked` never falls below a probe's real time less `MaxLag`. A later prober found `checked` more than `fail_timeout`
  before its own time, which is no later than the real one.
- `RetryInv` says that the peer a session had last is among those it has tried, or is a
  primary one that the session has left for the backup list; the reset of `tried` on that way is
  harmless only for this reason. A single peer is never asked for twice, because its `tries` are 0.
- `HeldInv` says where in an iteration a worker may own the mutex: between trylock and
  unlock, also while it runs the accept handler or meets EMFILE. Without it a worker that fails
  to get the mutex could be one that owns it.
- `Settled` is the invariant of a worker's pool. `PoolIntact` speaks of handlers that have returned; inside
  one, some connections are taken and not linked yet, or unlinked and not freed yet. `Pool(wk, D)` is the invariant
  with the connections `D` in somebody's hands, and each operator (`GetConnection`, `CloseConnection`, `Connect`,
  `Finalize`...) has a lemma that says which connections it takes up or puts down. `BatchInv` says that an event keeps the
  instance bit of the time of `epoll_wait()`: `PhaseOf` tells that bit from the one now and the number of times the connection
  was taken since, so that a stale event is told unless the connection was taken twice, the exception `StaleCaught` names.
- `CountInv` says of every zone that its counter is the number of pairs of a worker and a connection whose pool has a
  cleanup for it, plus the lost ones. It needs `Registered`: a session has at most one cleanup for a zone, one being started has
  them only for the zones it has passed, and one not started has none; otherwise the cleanups of a session that is refused by
  its second zone would lower a counter twice or not at all.
- `WeightInv` adds to `WeightsBalanced` the range of the effective weights. Each scan adds to every peer what the total is made of and
  takes the total from the one picked; that the sum over the list stays 0 is then a fact about sums, which the library states
  without proof for folds: `UpstreamRRProofs` proves it for `MapThenFoldSet` by induction over the size of a set. The
  library's induction theorems have an operator as a parameter, which no prover here can instantiate, but `FS_StrictSubsetOrderingWellFounded`
  and `WFMin` have none, and give a least counterexample (`LeastNumber`, `NumbersInduction`).
- `LingerInv` splits the property by where a handler is: inside one (`Running`) the delays agree with
  their timers and the idle timer may be anything, `Finish` then settles the idle timer and the
  end, and what it leaves is `AtRest`. Each handler is a composition of parts that keep `Running`, with `Finish`
  last; a delay of the client that runs out is the one handler that does not end in `Finish`.
- `RequestsInv` keeps apart what `RequestsAccounted` joins: what was sent, what waits and what was dropped
  (`Accounted`) are the numbers 1 to `requests`, each once and in order. Inside a handler (`InOrder`) a session may have all the datagrams
  it may take; `Finish` takes it out of the tree then, so between handlers (`Settled`) one in the tree has room for another.
  The lemma `SentIdsOf` says what the recursive function `SentIds` computes for every chain.
- `IInv` of `ProcessCycleProofs` says of the table as it is between two iterations what each part of an
  iteration keeps; the parts are operators on a working record, and each has a lemma. `Agrees` adds to `ProcessTable` that a free
  slot is clean and that an open channel has a slot that names it, so that `socketpair()` finds a number (`FreeChanFree` counts
  them). As long as no `fork()` has failed, `Leads` says that a channel leads to its own slot's child, and `Told` that
  a child was told to stop if and only if it is marked; with a failed `fork()` both are false, which is why the properties are
  qualified. `Retired` and `NoneNew` carry a reload: the workers it starts are `just_spawn` until the loop that signals the
  others has passed them, and none is left so between iterations. `Enough` is the number of workers: a
  reload counts the new ones (`NewOf`) before the old ones are told, respawns and reaping keep the set, and
  `Begins`, `ToRestart`, `Restarted` follow the `restart` flag of a new binary that dies through an iteration.
  The loops over the table are folds; `SpawnLoop`, `SignalLoop` and `ReapLoop` turn each into the
  sequence of its intermediate records, for an induction by `NumbersInduction`.
- The properties of `Slab` speak of blocks; what makes them true is in the pool. `RunInv` says that the listed
  runs hold exactly the free pages, never touch, and that a run's last page points to its first: that
  is what `FreePages` needs to join on the left, and what makes untouched neighbours one run, so that a
  failed call has looked at all there is. `BlockInv` ties the pages of a block to its first page, `SlotInv` says which
  bits a page that is cut has and that it is listed unless full, `HeldInv` that blocks and bits correspond one to one.
  `RefusedInv` remembers what a failed call saw.

Every safety invariant and action property of the runs that must pass is the statement of a theorem; the
abstract specification too. Model-checked only: all liveness and both `ShutdownEnds` (fairness is out of the
prover's reach). `TypeOK` of `StreamProxy` and `ShmMutex` is the other way round: proved, and in no run.

## 5. Findings

**A peer marked live without a check.** `stream/ngx_stream_upstream_round_robin.c:661` comments "mark peer live if check
passed". The code resets `fails` for any session that frees the peer without
`NGX_PEER_FAILED` once the peer has been picked since its last failure. In the
run's counterexample a disabled peer is picked for a check after
`fail_timeout`; the session is finalized before `connect()` has an outcome (no
socket, no memory, the worker shutting down), and `fails` is 0: the peer gets
its full share again although it never answered. An older session that ends
while the check is pending does the same. `MarkedLiveIfChecked` states the
comment.

**Workers left without a master.** When a new binary runs, HUP brings the old
master's workers back without reading the configuration; the branch
(`os/unix/ngx_process_cycle.c:214-221`) starts them and goes on without setting
`live`. If the previous workers were gone (WINCH), `live` is still 0, and QUIT or TERM,
which the manual (`man/nginx.8:120`, `:125`) says shut the server down, makes the master exit
at lines 177-179 without telling the workers it has just started. They run on
with no master. The next SIGCHLD corrects `live`, so the window lasts until some child
exits. `MasterExitsLast` states what the shutdown should leave behind;
`orphaned_workers` finds USR2, WINCH, HUP, QUIT.

Smaller ones met on the way, kept as exceptions of the properties above: the
channel numbers left by a failed `fork()`, the missing retry, the `live` of a
reload without children, the timeout lost with the skipped mutex. When the
`fork()` for a new binary fails, `new_binary` is left at -1, which later reloads take for a running
one (`ngx_process_cycle.c:214`): HUP then adds workers and replaces none, until an upgrade succeeds.

**An empty UDP datagram freed too early**, also without a run of its own: no document promises
what such a session does. `ngx_chain_update_chains()` frees the buffers of size 0 at the head of the
busy chain (`core/ngx_buf.c:212`). That means "sent", except for an empty datagram that met a full send
buffer: the write filter's chain still holds its buffer. The next datagram, in either
direction, takes the same `ngx_buf_t`. From the client, it is in the chain twice, is sent once, and
its empty shell again and again, as `ngx_chain_update_sent()` never steps over a buffer in memory for 0 bytes,
until the socket is full; the filter then ends the session with "zero size buf in writer"
(`stream/ngx_stream_write_filter_module.c`). A reply that takes the buffer and is sent gives the same end.
`freed` is "taken" or "spent" in these states, and `RequestsAccounted` says nothing of them.

## 6. What is not modelled

Upstream SSL and the PROXY protocol (`StreamProxy`
stands for a plain TCP `proxy_pass`); evaluation of variables and configuration;
`write` of file buffers; `limit_rate` of the send chain; the arithmetic of timers; HTTP and mail, which
the repository's configuration does not use; SSL, HTTP/2, threads, which the
build does not have; logging, and the dumps and `bridge_transaction_layer()`
added by this repository, which only read and print (their source holds
unresolved merge markers). Crashes of workers inside an rwlock or while they
count in `conns` are not modelled: the code has no recovery for either, so every
property of `UpstreamRR` would be qualified away.

In the process modules: single-process mode, the cache manager and loader (no cache is
configured), reading the configuration. In `Accept`: several workers without the mutex, which
share the sockets by EPOLLEXCLUSIVE or reuseport and have nothing to agree on; the queue of
reusable connections, which no stream connection joins; failures of `epoll_ctl()`. In
`LimitConn`: the tree of keys; a zone stands for one key. In `UdpSession`: the local address that is part
of the key of a wildcard socket and the tree's order (a session is found by its client's address), the
PROXY protocol header, seconds and bytes of a rate, several listening sockets; a datagram of a
client is matched with the session `Known`, of which there is at most one. In `Slab`: the
statistics, and what is in the blocks; a worker that is killed in the middle of a call leaves the pool half
changed, and the next owner of the mutex goes on with it, which the code does not repair.

## 7. Plan

Done: `StreamProxy` with `Relay`, `ShmMutex`, `UpstreamRR`, `ProcessCycle`, `ConnPool`,
`LimitConn`, `Accept`, `UdpSession`, `Slab`, and the theorems above. Next, in this order:

1. Other balancers as other definitions of `Pick`.
2. An abstract lock that `ShmMutex` is shown to implement and `Accept` and `Slab` use.
3. Pure algorithms: timer keys modulo 2^w, the red-black tree against a set.

Proof to come: with item 2, that `ShmMutex` implements the abstract lock; with each new module, its
invariants. Of what the present runs check only liveness is without a theorem.

## 8. Running

    tlc -config relay.cfg MCStreamProxy       # likewise for each run
    tlapm StreamProxyProofs.tla               # and the other *Proofs modules
