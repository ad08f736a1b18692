# Dark Med: formal models

Dark Med is an Android application that sends the device's traffic through Tor.
It starts Tor, establishes a VPN whose packets go to a native "tun2socks" tunnel,
and lets the tunnel open SOCKS5 connections to Tor's local port. When something
fails the route is to stay *fail closed*: packets go into the TUN device and nowhere
else. Around this core the repository keeps the wiping of all data, browser
sessions, and the tools of its quality assurance.

This directory holds TLA+ modules of that core, configurations with which TLC checks
them on small instances, and proofs that TLAPS checks for every value of the constants.
`PROJECT.json` lists the components, the runs, the theorems, the hazards and, for every
definition that models code, the lines it models.

Paths below are relative to `src/app/src/main/`; `C` is `java/com/darkmed/app/core/`,
`N` is `jni/hev-socks5-tunnel/`.

## 1. Inventory

| Component | State | Operations | Hard behaviour | What makes it correct |
|---|---|---|---|---|
| **Task mutex** `N third-part/hev-task-system/src/kern/sync/hev-task-mutex.c` | `locker`, a linked stack of waiters whose nodes live on the waiting tasks' stacks | lock, trylock, unlock | unlock wakes one waiter only, any wake-up may resume any task, newcomers overtake | one task inside, no dangling node, no lost wake-up, every waiter gets in |
| **Task scheduler** `N third-part/hev-task-system/src/kern/` | run lists by priority, timer heap, epoll | create, yield, wake-up, join, run | cooperative: whoever does not yield starves all others | a runnable task runs again |
| **Native tunnel** `N src/hev-socks5-tunnel.c`, `hev-main.c` | atomic word `tsync`, event socket pair, `run`, session set, three tasks | main: init, run, fini; stop, from any thread; event, I/O and timer tasks | stop against init, run, fini and the next main; the order in which tasks and sessions end | a stop reaches open descriptors, is not lost, ends everything; timers run while sessions do |
| **JNI engine** `jni/darkmed_tun2socks_jni.cpp`, `C HevTun2Socks.kt` | `g_mutex`, `g_worker`, `g_running`, protector references, `g_protector_mutex` | startNative, stopNative, isRunningNative, the worker, the protect callback | the worker dies by itself; stop deletes references the worker calls through; joins under a mutex | one worker at a time, flags tell the truth, sockets are protected, stop leaves nothing and returns |
| **Protected route state** `C ProtectedRouteState.kt` | an immutable record | pure functions to the next record | READY depends on all parts at once | fail closed unless protected |
| **VPN service** `C DarkMedVpnService.kt` | `tunnelFd`, `engine`, `routeState`, posted monitor callbacks; Android's service life cycle | onStartCommand, startTunnel, stopTunnel, onDestroy, onRevoke (binder thread), engineMonitor | onRevoke unsynchronised with the main thread; detached descriptor numbers; engine death noticed only by polling | reports what is, closes only what is its own, notices a death, can be started again |
| **Orchestrator and Tor service** `C DarkMedNetworkOrchestrator.kt`, `TorForegroundService.kt` | `receiver`, `torBound`, Android's intents, binding and broadcasts | startTorThenVpn, stop, stopWithError, the receiver; Tor's start, stop, onDestroy, connection callbacks | reports that arrive after a stop, starts still queued when a stop comes | a stop wins over everything under way |
| **TCP sessions** `N src/hev-socks5-session.c`, `hev-socks5-session-tcp.c`, `N src/misc/hev-ring-buffer.c` | lwIP pcb, the queue towards the upstream, the ring buffer that lwIP sends from, time-out | connect, handshake, splice in both directions, drain, destruct; the callbacks recv, sent, err; terminate | callbacks between two yields; edge-triggered readiness; partial and failing writes; `tcp_write` keeps references into the ring | no byte lost, reordered or overwritten, no wake-up missed, an end is passed on only when complete, a termination is final |
| **UDP sessions** `N src/hev-socks5-session-udp.c`, `core/src/hev-socks5-udp.c` | frame queue, the batch being sent, messages being read, time-out | connect, handshake, splice in both directions, destruct; the callback recv; terminate | many datagrams share one byte stream; sends and reads stop in the middle of a message and sleep there, while the callback adds frames; a head may be bad | no datagram lost from the queue or sent twice, messages in order, no wake-up missed |
| **Session limit** `N src/hev-socks5-tunnel.c` | list of sessions by last use, a counter | insert, update, delete a session | an evicted session stays in the list, and counts, until its task has ended | only the session used longest ago is told to end, and only at the limit |
| **Mapped DNS** `N src/hev-mapped-dns.c` | names and addresses in least-recently-used order | handle a query, look up | the address of an old name is given to a new one while in use | an answer leads to its name as long as few enough other names are used |
| **Clearing all data** `C ClearAllDataFlow.kt`, `ClearAllDataCoordinator.kt`, `DataWiper.kt` | the dialogue's phase, running wipes, files | ask, cancel, confirm, wipe, show, leave | the wipe runs on another thread while the services still stop, and outlives its screen | it stops what it says, and nothing is written after it is wiped |
| **Profile store** `C ProfileStore.kt` | a list saved as a whole | create, rename, duplicate, delete | none: one screen, one thread | names differ |
| **Engineering contracts** `C EngineeringContracts.kt`, `FailureInjectionMatrix.kt` | submissions by area | submit, releaseGate | dependencies are judged at submission only | the gate opens only when all dependencies still pass |
| **Task orchestrator** `qa/agents/*.py` | task states, retries, assignments under a lock | submit, assign, complete, fail, recover, time-out | fail is two transitions; results carry no attempt | a task ends once, with its own result |
| Browser sessions, configuration writers, screens, tools, third-party code | | | | not modelled, see section 7 |

How they interact:

    user --> orchestrator --intents--> Tor service --binds--> TorService (external)
                 ^   |                      |
                 |   |      <--broadcasts---+   READY, ERROR, STOPPED
                 |   +--intents--> VPN service --HevTun2Socks--> JNI engine
                 |                    ^   ^                        |  ^
         Android: revoke -------------+   +--monitor (polls)-------+  | protect(fd)
                                                                   v  |
                              worker thread: main --> init, run, fini of the tunnel
                              tasks: event, lwIP I/O, lwIP timer, one or two per session,
                              sharing the task mutex

Calls cross threads in four places: `stop` of the tunnel (any thread to worker, over
`tsync` and the event sockets), `protect` (worker to Java), `onRevoke` (binder thread
into the service), and the monitor (main thread, reading the worker's flag).

The hazards this gives rise to, each at its line with the properties that cover it, are
the list `hazards` of `PROJECT.json`; those without a property have a note that says why.

## 2. Modules

| Module | Models | Built on |
|---|---|---|
| `TaskLock` | what the task mutex promises | |
| `HevTaskMutex` | `hev-task-mutex.c` with yield and wake-up | refines `TaskLock` |
| `HevTunnel` | main, init, run, fini, stop, the three tasks, sessions as a set | |
| `MappedDns` | the mapped DNS: names, addresses and their order of use | |
| `TunnelTraffic` | what packets do in the tunnel: ask the DNS, open and use sessions; the session limit | extends `HevTunnel` and `MappedDns`, refines `HevTunnel` |
| `SessionTask` | how a session's task sleeps, is woken, times out and is told to end | |
| `RingBuffer` | the operators of `hev-ring-buffer.c` on a record | |
| `ByteStream` | what a proxy owes to one direction of a connection | |
| `TunnelSession` | one TCP session: its task, the lwIP callbacks, the upstream socket | extends `SessionTask`, `RingBuffer`; refines `ByteStream` twice |
| `UdpSession` | one UDP session in the mode UDP in TCP | extends `SessionTask`; refines `ByteStream` towards the upstream |
| `NativeEngine` | what the engine promises the VPN service | |
| `TunnelEngine` | the JNI engine with the tunnel inside it | extends `HevTunnel`, refines `NativeEngine` |
| `ProtectedRouteState` | the record and functions of `ProtectedRouteState.kt` | |
| `ProtectedRoute` | the state contract: the order of phases, and in which a worker starts and is joined | extends `NativeEngine` |
| `DarkMedVpnService` | the service, over the abstract engine | uses `NativeEngine`, `ProtectedRouteState`; refines `ProtectedRoute` |
| `NetworkOrchestrator` | orchestrator and Tor service, over intents and broadcasts | |
| `ClearAllData` | the dialogue and the wipe of all data on a background thread | extends `NetworkOrchestrator` |
| `MC*` | instances for TLC | |
| `*Proofs` | proofs for TLAPS | |

The chain is: `TunnelEngine` implements `NativeEngine`; `DarkMedVpnService` uses exactly
`NativeEngine`'s actions (`EngineStart`, `EngineDies`, `EngineJoined`), so what is shown of
the service holds over the real engine; and the service implements `ProtectedRoute`.
`NetworkOrchestrator` keeps of the service only whether it holds a TUN descriptor.
`TunnelTraffic` takes only steps of `HevTunnel`, so that what is shown of the tunnel holds with
its packets. `TunnelSession` and `UdpSession` are what `HevTunnel` keeps of a session as open,
terminated or ended: their `TerminateSession` is the tunnel's, their `Destruct` ends the session
there, and `TerminatedNeverSleeps` is the reason why a session the tunnel has terminated ends.

### How state and actions correspond to the code

*`HevTaskMutex`.* Tasks are cooperative, so an action is one stretch from a resume to the
next yield: `LockFree`/`LockTaken` are the two branches of lock, `LockResumed` and
`YieldAgain` the two of its loop, `Unlock` unlinks and wakes the top waiter.
`StrayWakeup` is any other `hev_task_wakeup`.

*`HevTunnel`.* `tsync` is the set of its bits. An action is a stretch between two accesses
to `tsync` or the event sockets by the worker or a stopping thread; `TasksMayRun` says that
no task is in the middle of such a stretch without having yielded. `wpc` is the place of
the worker in main, `spc[t]` that of a thread in `hev_socks5_tunnel_stop`. The I/O task handles
packets without yielding (`IoOpens`, `IoHandles`) until the TUN descriptor has run dry
(`IoWaits`); a packet opens a session, and may have another told to end, or does neither. A session
is open, marked to end (`terminated`) or ended. `IoBreaks` is a read of the descriptor that
fails for good.

*`TunnelTraffic`, `MappedDns`.* `order` is `session_set` and `count` the counter compared with
the limit; `Evicted` is whom `hev_socks5_tunnel_insert_session` tells to end, with the new session
already in the list. A task's yielder moves its session to the tail (`Updates`), the task's end
takes it out (`Deletes`). `Find` is a question of a DNS query, `LookUp` a packet to a mapped
address. The histories `newer` and `since` say who has been used since, without looking at
the lists. Three things about the code that the models make plain: a lookup compares only the
host part of an address (`hev-mapped-dns.c:267`); answers are void when the tunnel is started
again, because the mapping is made anew; and at the limit a burst of new sessions marks
the same head again and again until it ends, while with a limit of one a newcomer marks itself.
Dark Med's own configuration sets neither a limit nor a mapped DNS: the run and the proofs are
about the code as it can be configured.

*`TunnelSession`.* `spc` is the place of the session's task in `hev_socks5_session_run`.
No task yields while it holds the tunnel's mutex, under which the I/O and timer tasks call lwIP
and the session reads and writes the pcb: an action is again a stretch up to the next yield, and a
stretch of several actions keeps `state = "running"`, in which no callback runs.
`Splice` is one turn of the loop, `Forward` and `Backward` its two halves; `WaitIo` is the
yielder, which fails at once when the time-out is zero. Bytes towards the upstream are
counted; those towards the application have numbers and places in the ring, because lwIP
keeps references (`segs`) until they are acknowledged. `WriteResults`, `ReadResults` and the
set `failed` stand for what `writev`, `readv`, `tcp_write` and `tcp_output` may return.

A session implements `ByteStream` in each direction (`Request`, `Response`): bytes arrive in order, once
and without a hole, and an orderly end means that all of them have arrived. The mapping shows two
things about the code that are not symmetric. A reset by the application is never passed on as the end of a
request, but a reset by the upstream is passed on as the end of the response (`broken` allows it): `readv`
of a dead socket gives the same result as an end of stream, and `tcp_shutdown` sends a FIN. And when `tcp_write` refuses the first of the two pieces of a wrapped ring but
takes the second (`hev-socks5-session-tcp.c:113-128`), bytes with a hole before them are queued before the
session gives up: the application may get them (`DeliverLate`), but a FIN never follows.

*`UdpSession`.* A datagram is two units of the stream, so that every send and every read can stop
in the middle of one. `Forward` takes a batch off the front of the queue, `Send` is one turn
of `sendmsg`, which may sleep between them while `AppSends` queues more; `ReadHead` reads the
first unit of a message without waiting, `ReadRest` waits for the second; `msgs` is `msgv`, the batch
that was read. `Deliver` goes through it, message by message: one without data (`Empty`) is skipped and
counts as handled (`SkipEmpty`, `hev-socks5-session-udp.c:138-139`), every other is handed to lwIP
(`HandOver`) or refused, which ends the direction (`Refused`).

What the code does not promise is in the model as it is. A `sendmsg` that gives up in
the middle counts its whole batch as sent and the stream goes on misframed (`cut`). After a read that
gives up, the number of bytes read is taken for a number of messages (`ReadGivesUp`). A head
whose lengths cannot be right, or that announces more than the buffer holds, makes the read fail although
messages before it have been read; they are lost, its own rest stays in the stream, and with the `errno` of an
earlier read that found nothing the failure looks like "try again" (`BadHead`,
`hev-socks5-udp.c:191-201`). After either the stream is no longer read where messages begin (`misread`); what is read
then is garbled, number 0 in `msgs`, and not recorded when it is handed over. A message whose rest does not
come holds up both directions until the time-out. And when lwIP refuses a message that had to be waited for, the
loop sleeps on a result from before the wait.

`NothingMissed` and `UdpCatchesUp` name these cases and hold in all others. What holds in
every case: behind a batch that was cut the upstream is still given no unit twice or out of order, although it
can no longer tell where a datagram begins (`ImplementsStream`, the refinement of `ByteStream`); and the
application gets the messages with data in order up to some point, and none of the upstream's after it
(`MessagesInOrder`), so that a lost message is never followed by a later one. The direction back is no
`ByteStream` of its messages, because the empty ones are left out. That the queue itself loses nothing is
`FramesKept`: a stream that merely stops is still a `ByteStream`.

*`TunnelEngine`.* `cpc[t]` is the place of a calling thread in `startNative` or `stopNative`,
both under `gMutex`; `worker` that of the worker thread; `prot` and `protectorMutex` the
callback `protect_socket`. `WorkerRuns(TaskStep)` is a step of the tunnel's tasks, with
`unprotected` the sessions that still have to create a socket. A main that cannot read its configuration stands also for
a path that has been released before it was read (section 7).

*`DarkMedVpnService`.* Both threads can be in `stopTunnel`; an action is a stretch between
two accesses to a field the other thread may write. `kind[f]` says what descriptor number
`f` denotes, since the code keeps detached numbers, which the process can reuse.
`outrun[t]` records that the other thread has closed the number that `t` is about to close, `disturbed` that
a revocation has run into `startTunnel` or the monitor. `ProtectedRoute` has the transitions of
`state_machine_matrix.md` as far as the service reports them, with the reconnect from FAILED and DEGRADED; the
service takes fewer (section 6).

*`NetworkOrchestrator`.* Everything runs on the main thread: `looper` is what it still has
to run, in order; `mail` the broadcasts on their way to the registered receiver, delivered
in any order. Nothing in the application calls the orchestrator at this commit; it is modelled
as its interface allows it to be called.

*`ClearAllData`.* `phase` is the dialogue's, `job[j]` how far a call of `wipeAfterConfirmation` has
come; leaving the screen drops the first and not the second. The jobs interleave with
everything the main thread does. `data` says whether there is any; `TorStarts` and `ReceiveReady`
write some, because they write a configuration. `restarted` separates what the user has
started since from what was already under way. TorService's own files and the closing
of browser sessions by broadcast are left out; the first could only make more data.

## 3. Runs

Each passing run explores its whole state space.

| Run | Instance | States | Shows |
|---|---|---|---|
| `task_mutex` | 3 tasks, 2 calls each | 1 317 | shape of the waiter stack, no lost wake-up, every waiter gets in, refinement of `TaskLock` |
| `tunnel` | 2 stopping threads, 3 sessions for a limit of 2, 3 names for 2 addresses, up to symmetry | 61 748 | stop protocol: writes reach open descriptors, SENT stands for a byte, few bytes in flight; sessions all told to end; timers run; the limit evicts the session used longest ago; a DNS answer leads to its name |
| `engine` | 2 calling threads, 2 sessions | 8 491 | flags, protector, stop leaves nothing, a stop is heard, refinement of `NativeEngine`, stop returns |
| `tcp_session` | 3 bytes from the application, 4 to it, a ring of 3, a window of 2, room for 1 upstream | 677 585 | bytes lwIP refers to stay intact, each direction is a `ByteStream`, an end of stream is complete, the window is conserved, no wake-up is missed, a terminated session never sleeps; both streams catch up, a closed session ends |
| `udp_session` | 3 datagrams, 3 messages back of which the second is empty, batches of 2, a pool of 1, room for 3 units | 1 359 659 | the queue loses and repeats nothing, messages keep their order, the direction to the upstream is a `ByteStream`, no wake-up is missed, both directions catch up |
| `service` | 2 descriptor numbers, revocations | 180 010 | fail closed, own descriptors only, monitor, STOPPED means stopped, refinement of `ProtectedRoute`, deaths are reported, stops return |
| `orchestrator` | queue shorter than 3 when something new arrives, one wipe at a time | 680 892 | a stop overtakes queued starts and late reports, and takes effect on Tor; so does a wipe |
| `engine_late_stop`, `engine_broken_tun`, `service_revoked`, `service_leak`, `wipe` | as `engine`, `service`; two wipes, a queue shorter than 3 | | disagreements 1 to 5 of section 6 |

Why the bounds are enough:

- *Threads* (2): the application has a main thread and a binder thread that can reach
  `stop`. Two is also the least number at which WAIT, `g_mutex` and a second signal matter.
  The theorems hold for any number.
- *Sessions* (2, 3 for a limit of 2): one to be marked to end while another is opened or ends by
  itself; a limit that is reached, and exceeded while the evicted session has not ended.
- *Names* (3 for 2 addresses): a new name takes the address of an old one while the other is
  in use.
- *Tasks* (3): one inside the mutex, one at the bottom and one at the top of the stack.
  `MaxCalls` (2) lets a task come back and overtake.
- *Bytes*: with a ring of 3 and 4 bytes the buffer wraps in two pieces while lwIP still holds
  bytes of the first turn, and starts over. A window of 2 closes with the third byte still to
  come and opens again; two bytes queued for room for 1 make the writes to the upstream partial, and
  let them find no room. A reset, a FIN or a
  failing write may come at any byte.
- *Datagrams*: batches of 2 from a queue of up to 2 that refills while a batch is sent, a send
  buffer of 3 units that splits a batch anywhere. Back, two messages make up a full batch, the empty
  one at its end or its beginning, and the third is the one that would show a gap. Any head may be bad, with
  messages read before it or none. The proofs hold for any set of empty messages.
- *Descriptors* (2): one for the tunnel, one leaked or reused. Three add only more leaks.
- `MaxLooper` (3): with up to three pieces of work queued a stop finds the start of each service
  before it, and handlers themselves go beyond the bound. The proofs hold for any length.
- *Wipes* (1 in the passing run, 2 in the violation run): the proofs hold for any number.
- The engine can be started and stopped without limit: histories are not bounded, only
  the things that exist at once.

Deadlock is checked in all runs. None of these systems may stop, but for the sessions: their
tasks end, which `Finished` marks.

## 4. Fairness

Liveness is checked under these assumptions and no others.

- `HevTaskMutex`: a runnable task is resumed again and again, because the scheduler moves a
  task that has run behind the others of its priority; a task inside leaves.
- `TunnelEngine`: weak fairness for each thread (`CallerStep`) and each step of the worker's
  main, because the operating system schedules threads. Strong fairness for the steps of
  the event, I/O and timer tasks and for the end of a *terminated* session: other tasks may
  run in between and disable a step for a moment (`TasksMayRun`), but the cooperative scheduler picks
  each runnable task infinitely often. The I/O task never yields while packets wait, so that
  all of this needs that the TUN descriptor runs dry again and again (weak fairness of `IoWaits`):
  packets come from the network and are slower than the loop. Nobody has to call start or stop, packets and
  sessions may come for ever, and a session that was not told to end need not.
- `TunnelSession`: weak fairness for the session's task, because the scheduler runs what is
  ready; the application receives and acknowledges, the upstream takes what it is sent.
  Nobody has to send, close or answer, and no time-out ever has to pass: what is delivered is
  delivered without one.
- `UdpSession`: the same for its task and the upstream.
- `DarkMedVpnService`: both threads make progress, a posted callback runs whenever the main
  thread is free again and again (strong fairness), and a worker that a stop waits for
  returns. The last is what `StopReturns` of `TunnelEngine` shows, except in the window
  and for the broken TUN device of section 6.
- `NetworkOrchestrator`, `ClearAllData`: the main thread runs what is posted to it. Neither the
  user nor Tor nor a wipe has to do anything.

`StopReturns` excludes by name what the code does not deliver: a stop whose STOP comes too
late (`StopTooLate`) and a TUN device that has broken. Both are shown to be real by the violation
runs, and everywhere else the property holds.

## 5. Proofs

TLAPS proves the following for every value of the constants: any set of threads, tasks,
sessions and descriptor numbers, any number of calls. The assumptions are the named ASSUMEs of
the modules: null values differ from real ones, bounds are natural numbers.

- **`HevTaskMutexProofs`.** Types, exclusion, the shape of the stack and no lost wake-up are
  inductive together (`MutexInv`). Exclusion
  needs only the flag; no lost wake-up needs the stack's shape, because unlock wakes the task
  that the top node names. The mutex refines `TaskLock`.
- **`HevTunnelProofs`.** `WritesToOpenFds` is not inductive. It follows from: WAIT is a lock
  (`WaitIsALock`); SEND is set only while the sockets are open (`SendMeansOpen`); a thread
  that signals saw SEND under WAIT, and fini closes the sockets only after it has cleared
  SEND and seen WAIT clear (`SignalMeansOpen`). `SentMeansByte` needs `SentInFlight`,
  which follows SENT from before the tasks start; `NoSessionLeftBehind` needs that `run` is down
  once the byte was read (`RunIsDown`). `FewBytesInFlight` follows from
  `BytesCounted`: while SEND is set one byte at most is in the socket or on its way, and a signal
  that was on its way when fini cleared SEND adds one.
- **`TunnelTrafficProofs`.** Both lists, of the sessions and of the names, hold each element once
  and in the order of its last use, which the histories witness: whoever stands behind another has been
  used since (`SessionsInOrder`, `NamesInOrder`). The head is therefore the one all others
  have been used after, which is `EvictsLeastRecent`; and when the cache is full as many
  other names as there are addresses have been used since the head's name, so that its answer is no
  longer good (`HeadIsForgotten`), which gives `AnswerHolds`. The tunnel with its packets
  implements `HevTunnel` (`TrafficImplementsTunnel`), which carries the theorems over.
- **`TunnelSessionProofs`.** `SessionInv` has six parts. `HalfCloseInOrder`
  (no property of a run of its own: `ImplementsStreams` fails without it) follows from the conservation of the bytes that the application sends (`BytesConserved`) and
  from the fact that a direction once shut down is never taken up again (`ShutIsFinal`).
  `TerminatedNeverSleeps` needs that the task of a destroyed session does not sleep
  (`DoneIsReady`), and `WindowConserved` that the counters stay natural (`CountersOK`). They
  hold for every size of ring, window, send buffer and streams, whatever the ring buffer does;
  `TerminationStays` is the action property that a time-out of zero stays.

  The direction back needs `StreamInv`. While it is alive the ring is in step with what lwIP
  refers to (`RingInStep`): the queued segments are exactly the used part of the ring, in order,
  so that `readv` fills only places outside of it (`SentBytesIntact`), wherever the ring
  wraps. What the application has, followed by what lwIP has queued, is what has been read from the upstream
  (`Complete`), unless a write has failed; then the direction is over and no FIN follows
  (`StreamInOrder`), which gives `FinMeansComplete` (no property of a run of its own either).
  `NothingMissed` is inductive with the two.

  `SessionCarriesStreams` shows that each direction refines `ByteStream`. A read, a write, an
  acknowledgement or a wake-up of `TunnelSession` is a delivery, an end, a giving-up or a stutter of
  it. The refinement needs an invariant that survives a failed write: the bytes that the
  application has got, followed by those lwIP holds, are bytes that have been read, each once and in order
  (`Rising`, `WithinRead`). After a failed write there is a hole, but still no byte twice.
- **`UdpSessionProofs`.** The inductive invariant has one part for each direction and two
  for control: where the task can be and with which results (`ControlOK`), what of the batch is on the wire
  (`ForwardOK`: the wire is the units of the datagrams before the queue, then those of the batch
  that are written), what has been read and delivered (`BackwardOK`: of the messages from the upstream the first have been dealt with, the next
  are in the batch, and what has been read ends there unless it was misread, `Accounted`), and what a sleeping task
  may have missed (`SleepOK`). From it `StreamsIntact`, `NothingMissed`, the types and
  `TerminatedNeverSleeps`. `UdpCarriesStream`, the refinement of `ByteStream`, needs in addition
  what survives a failure, of which `UdpInv` says nothing: the units on the wire rise and stay below
  the `Frontier` of what the session has off its hands, which no step moves back
  (`WireRises`).
- **`TunnelEngineProofs`.** The engine takes only steps of the tunnel (`EngineRunsTunnel`), so
  all of the above holds inside it. The inductive invariant `EngineInv` ties the place of the one
  thread that holds `g_mutex` to the worker (`CallerAndWorker`) and the worker to what exists of
  the tunnel (`WorkerAndTunnel`). From it: flags tell the truth, sessions are protected, stop
  leaves nothing, one worker at a time, and the refinement of `NativeEngine`.

  Of `StopReturns` three parts need no fairness and are proved. While a stop waits in join the
  worker is on its way out, or will find STOP or the byte, or the stop is lost (`StopIsHeard`; by
  `StopSpoken`, which says so from the moment the stop has written its byte, found SENT set, or
  set STOP, and by `SentInFlight` of the tunnel). It is lost in the window of `StopTooLate` only
  (`LostOnlyWhenTooLate`). And nobody waits in a circle (`NoCircularWait`): while one thread joins
  nobody else holds WAIT, for which fini waits, and `g_protector_mutex` is free or the worker's own.
- **`DarkMedVpnServiceProofs`.** As long as no revocation has run into a start or the monitor, a
  thread in `startTunnel` is alone in the service (`StartsAlone`); `stopTunnel` may be run by one thread or
  by both at a time. What they have done can be read off their places (`Starts`, `Stops`): a stop that is
  in the middle when the other ends finds everything undone, perhaps after it has read an engine
  that was still there. The fields describe engine and descriptor (`Owns`), the phase describes the
  fields (`Reports`). The types hold unconditionally except that one callback at most is posted. From
  `ServiceInv` follow all five safety invariants of the run and the refinement of `ProtectedRoute`.
  `ClosesOnlyTheTun` excepts one case of two stops that meet: without an engine both may close the
  number they have read, and the one that is outrun closes whatever has it by then. The theorem says that
  there is no other way to close a number of somebody else.
- **`NetworkOrchestratorProofs`.** After a stop the receiver is unregistered, and then nothing
  is on its way to it (`DoorClosed`); hence no late report starts the VPN (`NoLateVpn`). Of all the
  work that is queued for a service only the last piece decides what becomes of it (`LastOf`): Tor
  is gone, wanted, or its destruction comes last (`TorIsGone`); once the route is stopped, a
  service that is wanted was only started to be told to stop, and has that last
  (`StopComesLast`); the same for the VPN (`VpnWillGo`). Work taken from the head, or put at the
  end for the other service, changes none of this, for a queue of any length, and so do
  the wipes of `ClearAllData`, however many are under way: `StopStopsTor`, `StopOvertakesStart` and
  `WipeStopsTor` follow.

Every inductive invariant was model-checked before it was proved.

Exclusion and WAIT as a lock (`MutexExcludes`, `WaitExcludes`) are proved and are no properties of
a run of their own: `ImplementsLock` and `WritesToOpenFds` fail without them. The same is true of
`NeverTwoWorkers`, which `ImplementsEngine` includes; `LostOnlyWhenTooLate` and `NoCircularWait` hold
on the instance of the run `engine` too.

All safety properties of all passing runs are proved, and so are the action properties and the
refinements. Model-checked only are the liveness properties: `EveryWaiterGetsIn`, `StopReturns`,
`StreamsCatchUp`, `EndsWhenClosed`, `UdpCatchesUp`, `DeathIsReported`, `StopsReturn` and
`StopTakesEffect`. Temporal reasoning under fairness is out of the prover's reach. What is proved of
the sessions by counting (`EvictsLeastRecent`, `AnswerHolds`, `FewBytesInFlight`) uses the
library's theorems on finite sets.

## 6. Where code and documentation disagree

Each but the last has a run in which TLC finds the shortest behaviour that shows it.

1. **A stop can be lost** (`engine_late_stop`). `hev_socks5_tunnel_stop` decides on SEND in one
   atomic operation and sets STOP in another. If init sets SEND and run looks for STOP
   in between, nobody sees the stop; `stopNative` waits in join for ever. (The same two operations
   let a STOP outlive a main that fails before run; the next start then returns at once.)
2. **A broken TUN device starves the stop** (`engine_broken_tun`). The I/O task retries a
   failed read without yielding, so that the event task never sees a quit. Both
   contradict `hev-main.h`: main blocks "until the hev_socks5_tunnel_quit is called or an
   error occurs".
3. **A revocation can break into a start** (`service_revoked`). `onRevoke` is unsynchronised; in
   the middle of `startTunnel` it leaves the service with a TUN descriptor and a state
   that is not fail closed, against what `ProtectedRouteStateTest` says of a TUN only.
4. **The TUN descriptor is left open** (`service_leak`). With an engine, `stopTunnel` relies on
   the tunnel to close the descriptor; the tunnel closes only one it opened itself. The
   runtime findings require it to be closed when the service ends.
5. **Data is written after the wipe** (`wipe`). The wipe asks the services to stop and goes on
   at once to delete and verify, and does not tell the orchestrator. A start of Tor that the main
   thread has still to run, or a READY that comes late, writes a configuration into what has just
   been verified, while the screen says "Completed: local data wipe verified". What the wipe
   does achieve, and a stop as well, is `WipeStopsTor`. (A second, smaller divergence is
   only visible in the text: the message that asks for confirmation,
   `values/strings.xml:32`, speaks of an authentication that the screen does not ask for.)
6. **A reconnect from DEGRADED is ignored** (no run). `state_machine_matrix.md:16` has FAILED and DEGRADED lead to
   STARTING on a reconnect. `startTunnel` returns at once while `tunnelFd` is set
   (`DarkMedVpnService.kt:70`), that is always in DEGRADED, and in FAILED after a native start that
   failed or an engine that died (`StartIgnored`); only a stop leads on. `ProtectedRoute` allows the
   transition, but a step that is never taken violates no refinement: `RouteFollowsContract` shows
   that the service does nothing the contract forbids, not that it does all that the contract offers. The document does not
   say what a reconnect is called in the service; a START is the only thing that could be.

Because of 3, the safety properties of the service are stated for `Undisturbed` histories:
in which no revocation has run while the main thread was in `startTunnel` or ran the monitor. A
revocation at any other moment is part of them, also one that runs into a stop of the main thread, step
by step. `ClosesOnlyTheTun` excepts, in addition, the double close at `DarkMedVpnService.kt:134`: two stops
without an engine read the same number, and the second closes it after the first.

## 7. What is not modelled, and why

- lwIP, yaml, wintun: third-party, and by far most of the lines of C in the repository. `HevTunnel`
  lets packets open any sessions at any time.
- `hev-config.c`, the TUN system calls, `hev-jni.c`: parsing, system calls, and a binding the
  application does not load. That init may fail at any step is modelled.
- The mode UDP in UDP, with its second connection: Dark Med configures UDP in TCP.
- The contents of the SOCKS messages: connect and handshake block, fail or succeed. The server
  side of the SOCKS core is not used.
- lwIP's own states. That it frees a connection in TIME-WAIT without calling `tcp_err_handler`
  is listed as a hazard and not modelled: here a pcb is lost with a call only.
- The memory of the configuration path. `startNative` releases the string (`darkmed_tun2socks_jni.cpp:108`) while
  the worker, which was given the pointer, may still have to read it. A path that cannot be read any more is
  a main that fails at once in the model; what else a read of released memory may do is not in it.
- Garbled messages. Behind a misread head bytes are taken for messages of any length and
  content; the model keeps that they may be handed over, and nothing of what they contain.
- Failing allocations inside lwIP's callbacks: opening a session succeeds or does not happen. The
  hazard at `hev-socks5-tunnel.c:194`, a destructor that locks the mutex its caller holds,
  is below that.
- The bytes of a DNS message, and the tree over the names: what it finds is modelled.
- The statistics, the timer heap and the priorities of the scheduler, except through fairness.
- Android is modelled from how the code uses it and marked external in `PROJECT.json`:
  intents delivered in order, a service destroyed when stopped (or not, while it is bound as
  the VPN service), pending broadcasts dropped when a receiver is unregistered.
- `EngineeringContracts.kt`, `FailureInjectionMatrix.kt` and the task orchestrator under
  `qa/agents`: bookkeeping of the engineering process, called by nothing but their tests.
- `ProfileStore.kt`: pure functions and a list that one screen saves as a whole, on one thread.
- Browser sessions, configuration writers, screens, reports, tools: settings, rendering of
  text, user interface, scripts that keep no state.
- Consent, notifications and file contents in the orchestrator.

## 8. Plan

Done, in this order: the task mutex; the tunnel's life cycle; the JNI engine over it; the
route state and its contract; the VPN service over the abstract engine; the orchestrator; the
TCP session; the UDP session; the tunnel's traffic with the session limit and the mapped DNS; the
wipe over the orchestrator; proofs of each. Then, in the proofs: both kinds of session refine
`ByteStream`; a stop that has been joined was heard, and the one window in which a
stop is lost; nobody waits in a circle; the VPN service under two concurrent stops.

Every safety property that a run checks is a theorem. The liveness properties are not and stay with TLC.

Left, by importance:

1. The VPN service over `TunnelEngine` in place of `NativeEngine`, as one module: so far the two halves
   meet in the refinement `ImplementsEngine` only.
2. The session modules inside `TunnelTraffic` in place of its abstract sessions: the refinement
   is so far by name only (`TerminateSession`, `Destruct`).
3. Allocation failures inside the callbacks, as steps of `HevTunnel` that leave the I/O task
   waiting for itself.
4. The mode UDP in UDP, as a second module over `SessionTask`, should Dark Med ever configure it.
5. `EngineeringContracts` and the task orchestrator, if they come to be used.
