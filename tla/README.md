# Rocket RPC: specifications, model checking, proofs

TLA+ for the Rocket RPC framework (`src/RpcFramework/rocket`): a C++ RPC
library with one event loop per thread, coroutines whose blocking calls are
hooked and turned into registrations with epoll, timers on a timerfd, and
protobuf messages in a framing of its own. Paths below are relative to
`src/RpcFramework/rocket` unless they start with `src/`.

Section 1 is the inventory of the system; 2 says which module models what and
how its state and actions correspond to the code; 3 what each run shows, under
which bounds and fairness; 4 what is proved, and how; 5 what disagrees with
the repository's own words, and what the models say of the code besides; 6
what is not modelled, and why.

## 1. The system

### Threads and who shares what

A server process has a main thread, whose event loop accepts connections, and
a group of IO threads, each with an event loop that serves its connections. A
client makes its calls from a coroutine of some loop. Shared between threads
are: each loop's queue of pending tasks, its timer's queue, the table of
`FdEvent`s, the logger's queues, and the singletons. Everything else belongs
to one thread; a thread reaches another one's loop with `addTask`,
`addCoroutine`, `addEpollEvent`, `stop` and `addTimerEvent`.

| Component | State | Operations | Talks to |
|---|---|---|---|
| `Mutex`, `ScopeMutex` (`common/mutex.h`) | a pthread mutex; the guard's `m_is_lock` | constructor, `lock`, `unlock`, destructor | every shared queue |
| `EventLoop` (`net/eventloop.*`) | `m_pending_tasks`, `m_listen_fds`, `m_stop_flag`, the wakeup fd, epoll | `loop`, `addTask`, `addCoroutine`, `addEpollEvent`, `deleteEpollEvent`, `stop`, `wakeup` | all |
| `FdEvent`, `WakeUpFdEvent` | event mask, read, write and error callbacks | `listen`, `cancel`, `handler`; `wakeup` | the loop's dispatch |
| `FdEventGroup` | the table of `FdEvent`s, by descriptor | `getFdEvent`, which grows it | hooks, connections, all threads |
| `Timer`, `TimerEvent` | multimap of events by arrive time, timerfd | `addTimerEvent`, `deleteTimerEvent`, `resetArriveTime`, `onTimer` | the loop |
| `Coroutine`, `CoroutinePool` | context, stack, `m_is_in_cofunc`; the vector of (coroutine, dispatched) | `setCallBack`, `Resume`, `Yield`; `getCoroutineInstanse`, `returnCoroutine` | hooks, connections |
| hooks (`coroutine/coroutine_hook.cpp`) | locals of a suspended call | `connect`, `read`, `write`, `accept` | `FdEvent`, loop, timer |
| `TcpClient` | descriptor, connection, error code | `sendAndRecvTinyPb` | hooks, timer, connection |
| `TcpConnection` | state, overtime flag, two `TcpBuffer`s, replies by id | `onRead`, `excute`, `onWrite`, `clear`, `shutdown` | coder, hooks, dispatcher |
| `TcpBuffer`, `TinyPBCoder` | vector with a read and a write index | `writeToBuffer`, `resizeBuffer`, `adjustBuffer`, `moveReadIndex`, `moveWriteIndex`; `encode`, `decode` | connection |
| `TcpServer`, `TcpAcceptor` | the listening socket, the accepting coroutine, the service cache | `start`, `onAccept`, `toAccept`, `updateService`, `getServiceWithLoadBalance` | IO threads |
| `IOThread`, `IOThreadGroup` | two semaphores, a loop; round-robin index | `start`, `join`, `getIOThread` | server |
| `RpcChannel`, `RpcController`, `RpcDispatcher`, `RpcRegistry` | call state, service tables, registered addresses | `CallMethod`, `dispatch`, `registerService` | client, server |
| `MsgIDUtil` | thread-local last id | `GenMsgID` | channel |
| `Logger`, `AsyncLogger` | per-type buffers; queue, condition variable, file | `pushLog`, `syncLoop`, `loop`, `stop`, `flush` | timer, a thread of its own |
| `Config`, `RunTime`, `NetAddr`, `util` | configuration, thread-local getters | parse, print | all |

### What is hard about it

* **Two threads at a queue.** `ScopeMutex::unlock` does not clear
  `m_is_lock`, and the destructor does not read it: a guard that was unlocked
  explicitly unlocks again at the end of its scope. The loop, both loggers and
  the registry use guards in this way.
* **A task per event.** The loop does not call the handlers of the events it
  is given: it posts them, through the shared queue, for the next batch. What
  was true when an event was returned need not be when its handler runs, and a
  level-triggered event must not be posted twice meanwhile.
* **Wakeups.** The eventfd is read by a handler that is itself such a task,
  and a connection is handed to an IO thread without one.
* **Resumption without an address.** `Coroutine::Resume` takes a coroutine and
  not the wait it is at. The handler of a socket, the timer of a call, the
  timer of a connection attempt, and those of calls that are over all resume
  the same coroutine at whatever wait it has reached.
* **Timers that outlive calls.** Callbacks capture locals of a coroutine's
  frame by reference; not every path out of a call deletes them.
* **Growth.** The table of events and the coroutine pool grow while others
  hold what is in them.
* **Framing.** `decode` looks for packages in whatever the vector holds, the
  bytes behind the write index included; both indices refuse to reach the end
  of the vector, silently; `onWrite` never moves the read index, so that every
  write sends every earlier message again.
* **Start-up.** A loop is created by its own thread and used by the main one;
  the table of events is a singleton made without a lock; the logger's thread
  may wait for a condition that is initialised afterwards.

### What makes each component correct

* Event loop: the FIFO queue of `TaskQueue`; no handler queued twice; every
  task runs and `stop()` ends the loop.
* `FdEventGroup`: a thread is given the event of the descriptor it asked for;
  there is one table in a server.
* Coroutine pool: a coroutine has one owner, and is idle when handed out.
* Timer: the timerfd is armed for the first event; an event is queued once;
  every event fires.
* Client: a wait has a deadline and a listener; a call returns; a timeout has
  a cause.
* Connection: however the stream is cut into reads, the requests are handled
  once, in order, as they were sent; replies are the dispatcher's, in the
  order of the requests; the coroutine of a peer that closed ends.
* Server: a client is handed to exactly one thread, evenly, not before the
  thread has a loop, and runs on that thread's own coroutines; it is served.
* Logger: a message is lost nowhere between `pushLog` and the file; files
  change when they are too long, whoever left them so; every message is written.
* RPC: a call has one outcome, which is that of its own request, also after its
  channel has connected again; a lookup gives the addresses of the service.

## 2. Modules

| Module | Models | Checked by | Proofs |
|---|---|---|---|
| `ScopeMutex` | constructor, `unlock`, destructor of a guard, as operators on `m_mutex` | in its users | – |
| `TaskQueue` | abstract: what `addTask` promises | refined by `EventLoop` | – |
| `EventLoop`, `MCEventLoop` | the loop, `addTask`, `stop`, registrations, the kernel's pending events | `event_loop`, `event_loop_progress`, `event_loop_guard` | `EventLoopProofs` |
| `FdEventGroup` | `getFdEvent` in several threads | `fd_event_group` | `GrowthProofs` |
| `CoroutinePool` | the pool of one thread and its owners | `coroutine_pool` | `GrowthProofs` |
| `Timer`, `MCTimer` | timer, timerfd, `onTimer`, callbacks | `timer` | `TimerProofs` |
| `TcpClient` | a client's calls: `sendAndRecvTinyPb`, its connection, the hooks, the loop's batch, the socket | `tcp_client` | `TcpClientProofs` |
| `TcpBuffer`, `TinyPBCoder` | the buffer's methods, `encode` and `decode`, on bytes | in `TcpConnection` | lemmas in `TcpConnectionProofs` |
| `ErrorCode`, `RpcDispatcher` | the codes; `registerService`, `dispatch` | in `TcpConnection`, `RpcCall` | lemmas in `RpcCallProofs` |
| `TcpConnection`, `MCTcpConnection` | the server's side of a connection, from bytes to bytes | `connection`, `connection_split` | `TcpConnectionProofs` |
| `AsyncLogger`, `MCAsyncLogger` | both loggers: threads, `syncLoop`, the writing threads | `logger` | `AsyncLoggerProofs` |
| `TcpServer` | start-up, acceptor, IO threads, hand-over of clients | `server` | `TcpServerProofs` |
| `MsgIDUtil`, `PbMessage` | `GenMsgID` on bytes; the generated messages | in `RpcCall` | lemmas in `RpcCallProofs` |
| `RpcCall`, `MCRpcCall` | channel, dispatcher, registry, service cache and an `Order` service | `rpc_call` | `RpcCallProofs` |

How they compose. `EventLoop`, `FdEventGroup` and `RpcCall` extend
`ScopeMutex`: their `m_mutex` is the one of the component, and each guard in
the code appears as `Construct`, `Unlock` where the code unlocks, and
`Destruct` at the end of the scope. `EventLoop` instantiates `TaskQueue` under
a refinement mapping; what it refines is what `TcpServer` takes its IO
threads' loops for (`pending_tasks`, in order, each task some time).
`TcpConnection` is built on the coder, the buffer and the dispatcher;
`RpcCall` on the dispatcher, the ids and the messages, and stands on the
results of `TcpConnection` (messages arrive whole and in order) and of
`TcpClient` (a call is answered, is refused, finds its peer closed, or times
out).

Definitions that start with the comment `Mutant:` are plausible bugs of the
definition that follows them. They are part of no behaviour: each shows, when
it takes the place of that definition, that some property notices.

### State and actions against the code

**EventLoop.** Variables have the names of the members and locals: `temp_tasks`
is what is left of `loop()`'s local queue, `cb` the task run last, `loop_pc`
the statement it is at. `addTask` is one action per statement that another
thread can observe (`AddLock`, `AddPush`, `AddUnlock`, `AddWake`, `AddReturn`),
for every thread, the loop's own included: tasks and the dispatch call it
there. A task is a client's closure, the handler of a descriptor, or the
closure of a registration from outside. `ready` is the kernel's side of epoll,
level-triggered: an event stays until its handler consumes it. `EpollError`
is `epoll_wait` returning -1. Reading the queue while another thread pushes is
undefined; two threads at `m_pending_tasks` (`Raced`) have no next step there,
so the runs say what holds until such a race, and `GuardHolds` shows that the
race can be reached. `m_listen_fds` and `m_stop_flag` are read and written
without a lock by the code too; their operations are single words or happen
on the loop's thread.

**FdEventGroup.** One action per statement; the growing loop takes a step per
`FdEvent`. Reading past the end of the vector yields `OutOfBounds`. The
creation of the singleton is part of `TcpServer`.

**CoroutinePool.** One thread, so one action per call. `Owner` is whoever asks
for a coroutine; `Drop` is an owner that goes away without `returnCoroutine`,
which is what `TcpConnection` does.

**Timer.** A section under the mutex is one step, and so are the steps of
`onTimer` between its callbacks. The queue is a sequence in multimap order;
`Until` is the iterator that `onTimer` and `emplace` find in it. An event that
was cancelled before `onTimer` collected it leaves a hole in the batch
(`NoEvent`). Time is counted down per event, and `Tick` passes one unit
whenever nothing forbids it, in the middle of `onTimer` as well. A thread may
add events from outside (`Adder`): the runs give it no such thread, as the
framework adds its events on the loop's thread only.

**TcpClient.** One coroutine calls up to `MaxCalls` times through one client.
`pc` is where it is: the labels `..._wait` are the `Yield`s of the hooks, and
what follows them starts with `Resume`. Between two yields the thread runs
nothing else, hence an action is what the code does from one system call or
yield to the next. The event loop appears as what a suspended coroutine can
see of it: `EpollWait` takes one batch of at most two handlers (the socket's,
the timerfd's), run in either order, `OnTimer` collects the timers that are
due, and their callbacks run one after the other, each resuming the coroutine
in between. The queue behind it is `EventLoop`'s subject, the arming of the
timerfd `Timer`'s. Abstractions of data, in the module's header: requests and
replies are numbers of calls; a write takes all or nothing (a partial write
starts over, see the hazards); a replaced socket gets the descriptor number
again, which `close` has just freed. `onRead` is a loop: a read that fills the
buffer (`FillsBuffer`, any read may; `moveWriteIndex` refuses what it read, in
whole replies or with a part of one, `0`, that the next read finds) and a read
that fails with another error than `EAGAIN` (`ReadFails`) go round (`again`) into
the hook, which may yield a second time, and only when the loop has ended does
`sendAndRecvTinyPb` ask for `m_is_over_time`. A peer that goes closes the
connection, which is the end of the stream, or resets it: the next system call
reports the error once (`Reported`), those after it find the end. `killed` is `SIGPIPE` on a socket that
is not connected: no handler is installed anywhere. `lost` is the return of a
finished coroutine into nowhere after somebody resumed it once more.

**TcpBuffer, TinyPBCoder.** A buffer is a record of the vector and its two
indices, each method an operator with its refusals. `decode` is split as the
code is: `FirstPackageAt` is the inner loop that looks for `PB_START` and for
`PB_END` at the place the length names, `Parse` the fields with their checks in
order, `Consumed` the read index. All of them read bytes wherever the code
does: behind the write index they are what the vector still holds, outside of
the vector they are `Beyond`, anything.

**TcpConnection.** `pc` is where the connection's coroutine is:
`MainServerLoopCorFunc` calls `onRead`, which ends in `excute`, and `onWrite`.
`Read`, `ReadAgain` are the two calls of `read` in the hook, with any number of
bytes of the stream that fits; `Decode` is one round of decode's loop, `Reply`
one request dispatched and its reply encoded. A partial write changes nothing
that the program keeps, as `onWrite` begins again with the first byte.
`handled`, `sent` and `lost` are history: what was dispatched, what the kernel
took, and whether a read was refused by `moveWriteIndex`.

**AsyncLogger.** The two channels, `rpc` and `app`, each have the vector that
`pushLog` (`pushAppLog`) fills, the queue of batches, the thread that writes
and its file. Each lock, unlock and second unlock is a step. `pc` is the thread
that called `InitGlobalLogger`: the two constructors, each with the thread it
creates, the condition it initialises next and the semaphore it waits for; then
`syncLoop`, which its loop's timer calls. A message is its number, a file its
date and its `m_no`, of which the size is counted in messages. The code opens
files for appending and each process begins with number 0: `Earlier` are the
sizes that earlier processes of the same day may have left behind. As in
`EventLoop`, two threads in one container (`Raced`) have no defined next step.

**TcpServer.** `main_pc` and `turn` are the main thread in the constructor of
the group, in `start()` and in its loop; `accept_pc` its accept coroutine,
which runs while the main thread is inside `Resume` (`InMain` is false);
`io_pc` each `IOThread::Main` with the construction of a `TcpConnection`. The
semaphores are counted. `getFdEvent(-1)`, which a failed accept leads to, is
undefined: `broken` ends the model there. A client is its descriptor: nothing
in a server closes one (`m_clients` is never erased), so that numbers are not
used again.

**RpcCall.** A caller is a thread with one channel at a time. `CallMethod` is
everything up to the request in the out-buffer, with the errors on the way (a
channel without `Init`, a request that cannot be serialised), and
`CallUncontrolled` its return at `rpc_channel.cpp:33`, which leaves the program
neither an error nor an answer. `Connect` is the write of the out-buffer,
earlier requests included. `ConnectFails` is a refused connection
(`ERROR_PEER_CLOSED`) or one that takes longer than the call; `Timeout` the call's
timer, after which the channel has a socket that is not connected (`replaced`).
`PeerCloses` ends a call that waits; the connection's state is then `Closed`, so
that the next call connects again, with the out-buffer of the first connection.
Each of the at most `MaxSockets` connections of a channel is one of the server's,
with a `pc` of its own (`conn`), that goes on with what it has read after the
client has left it. The two methods of the registry take its mutex in steps.
`dispatch`, `GenMsgID` and the messages' `ParseFromString` and
`SerializeToString` are the operators of the other modules; the last fails for
a message of more than `INT_MAX` bytes, which on the server's side is after the
method has run. Two returns of `CallMethod` are left out because nothing leads
to them: `encodeTinyPB` always sets `parse_success` (`tinypb_coder.cpp:204`), so
that `rpc_channel.cpp:68` finds it set, and a response that the server has
serialised parses. Likewise `tcp_client.cpp:83-90`, `ERROR_FAILED_CONNECT`: the
loop before it is left connected, or by a `goto`, or with `is_timeout` set by a
timer that ran inside `connect`, which is asked for at line 61. The callers and the
`Order` service are those of the programs under `testcases`: register two
addresses, look them up, hand them to `updateService`, pick one, place orders.
The properties are about a call whose id is fresh, `IsFresh`: a decoder can
tell it from the ids of all earlier calls on its channel. Ids that differ only
behind a zero byte are one id to `decode` (`CString`), and the second of two
such calls is given the reply of the first; so it is with an id that is used
twice, as the provider may in the run. The consumer's own id there ends in a zero
byte: no reply has it, and its calls time out.

## 3. Runs

Deadlock is not checked where the program may stop or the model has an end of
its own: `stop()` ends the loop (EventLoop), the bound on ids ends the pool's
growth, the coroutine ends (TcpClient, TcpConnection), undefined behaviour has
no next step (AsyncLogger, TcpServer), callers run out of calls (RpcCall).
FdEventGroup and Timer never stop, and there it is checked.

| Run | Bounds | Shows |
|---|---|---|
| `event_loop` | one posting thread, one closure, the wakeup fd and one socket, `MaxEvents` 1 so that more descriptors are ready than are returned; 1.4 million states | `TypeOK`; `HandlerQueuedOnce`; `ImplementsTaskQueue`, the refinement of `TaskQueue` |
| `event_loop_progress` | as above without registrations, with wakeups; under fairness | `PostedTaskRuns`, `StopExits` |
| `event_loop_guard` | two closures, so that the guard of the first `addTask` can end during the next | violates `GuardHolds` |
| `fd_event_group` | three threads, a table of 2, descriptors inside it, just past it and well past it | `TypeOK`, `Exclusive`, `EventOfItsFd` |
| `coroutine_pool` | three owners and a pool of 3, of which index 0 is never dispatched: two owners exhaust it, the third makes it grow | `PoolTypeOK`, `ExclusiveUntilGrown`, `GivenIdle` |
| `timer` | intervals 1, 3 and a repeated 2, retry interval 2: the later event can be added first, and all can be due at once | `TypeOK`, `Armed`, `PendingOnce`; `TimerFires` under fairness |
| `tcp_client` | three calls: the timer of the first can meet the waits of the next two | `TypeOK`, `WaitHasDeadline`, `WaitListens`, `TimeoutHasCause`; `CallReturns` under fairness |
| `connection` | four requests (found, no such service, a name without a dot, data that does not parse), a buffer of 96 bytes that they overflow together; every split into reads | `TypeOK`, `Framed`, `RepliesKept`; `ClosedEnds` under fairness |
| `connection_split` | two requests, the program's 128 bytes | violates `DecodeReturns` |
| `logger` | one thread, three messages, two dates, a file too long after one message, no file or two that are too long already when the process starts; the application's channel is logged to and may be stopped; 0.18 million states | `TypeOK`, `NothingLost`, `OverlongOnce`; `MessageWritten` under fairness |
| `server` | two IO threads, four clients, three descriptors, four returns of accept | `TypeOK`, `LoopExists`, `OneGroup`, `HandedOnce`, `Balanced`, `OwnPool`; `ClientServed` under fairness |
| `rpc_call` | a provider with two registrations, a consumer with a lookup and two orders; an id that the provider may use twice, one of the consumer that ends in a zero byte, random ones, and one whose successor ends in a zero byte; two connections for each channel in `Closing`, the provider's and that of the orders; `INT_MAX` is 5, which the order of five letters exceeds, as does the answer to a lookup of three addresses, one of them registered twice because it was sent again; 0.73 million states | `TypeOK`, `CallHasOneOutcome`, `LookupIsCurrent`, `ReplyFindsCall`, `OrderIsItsOwn` |

Why these bounds are enough. In the loop, a violation of the queue needs a
thread between two statements of `addTask` while the loop is between two of
its own; one posting thread with a closure to hand over again and again, and
registrations with closures of their own, give all such pairs, and the
theorems below lift the three properties to any number. In the table a third
thread can wait at the lock while the second grows what the first has grown.
In the pool, the growth needs an exhausted pool and its consequences one more
owner. In the client, a stale timer is one of a call before: three calls
have a call with two stale ones, and `again` needs no bound, as a flag. In the connection, the indices meet the end
of the vector, the shift of `adjustBuffer` (a third of 96 bytes) and a package
cut at any byte; a fifth request meets what the fourth has met. In the logger a
second file of a day needs two batches and the odd first one a third; two
files that an earlier process left are what it takes for the first step to lead
to one that is too long. In the
server, four returns of accept on two threads go round twice, one of them with
a failure, and three descriptors for four clients make that failure. In the
calls, two requests on a connection are what it takes for an old one to be sent
again, and two connections for it to be sent to a server that has handled it or
has not. Where a bound is met by a theorem, section 4 says so.

### Fairness

* EventLoop: the loop's thread keeps running (weak fairness of `LoopStep`), and
  a thread inside `addTask` or `stop` goes on. Waiting for a mutex is strongly
  fair, because the others hold it again and again: a pthread mutex starves
  nobody for ever on a scheduler that runs everybody. Posting, stopping and
  `epoll_wait` failing are never assumed to happen, nor events to arrive.
* Timer: time passes; the loop's thread goes through its tasks and every
  callback makes finitely many calls.
* TcpClient: the thread runs, be it in the coroutine or the loop, and time
  passes. Nothing is assumed of the network and of the peer: a call
  returns because its timer ends it. `CallReturns` excepts four ends that
  the code really has, and that are listed as hazards: the busy loop of
  `tcp_client.cpp:51` on an error other than `ECONNREFUSED`, `SIGPIPE`,
  the resumption of a finished coroutine, and `Overrun`, a read that goes round
  again after the timer has run and waits for a peer that may be silent.
* TcpConnection: the thread runs the coroutine when it can go on, and a
  connection whose peer has closed is not written to for ever: the peer's
  kernel answers with a reset, and the next write raises `SIGPIPE` (strong
  fairness of `WriteKills`). That the peer closes is not assumed.
* AsyncLogger: each thread runs; the loop's timer is repeated. Weak fairness is
  enough here: the loop takes a writer's mutex only for a batch, of which there
  are as many as messages, and a thread that is kept from the vector for ever
  has pushed nothing yet.
* TcpServer: each thread runs. Clients need not come, and may leave.

`RpcCall` claims no liveness; `TcpClient` and `ClientServed` do for its parts.

## 4. Proofs

All for every value of the constants that satisfies the named assumptions.
The modules `...Proofs` extend the models; the proof of each step has a case
per action.

| Theorem | States | Inductive invariant |
|---|---|---|
| `EventLoopProofs!TypeCorrect` | `[]TypeOK` | `IInv == TypeOK /\ BatchInv /\ PostingInv /\ HandlerInv` |
| `EventLoopProofs!HandlersQueuedOnce` | `[]HandlerQueuedOnce` | the same |
| `EventLoopProofs!Implementation` | `Spec => ImplementsTaskQueue` | the same; every step is a step of `TaskQueue` or stutters |
| `GrowthProofs!TypeCorrect`, `MutualExclusion`, `RightEvent` | `[]TypeOK`, `[]Exclusive`, `[]EventOfItsFd` | `TypeOK`, `Ownership`, `Table`, `EventOfItsFd` |
| `GrowthProofs!PoolTypeCorrect`, `ExclusiveDispatch`, `IdleDispatch` | `[]PoolTypeOK`, `[]ExclusiveUntilGrown`, `GivenIdle` | `TypeOK`, and `FirstSize` until the pool grows |
| `TcpClientProofs!TypeCorrect`, `BoundedWait`, `ListenedWait` | `[]TypeOK`, `[]WaitHasDeadline`, `[]WaitListens` | `TypeOK`, `SocketInv`, `DeadlineInv`, `WaitListens` |
| `TcpClientProofs!TimeoutCaused` | `[]TimeoutHasCause` | `TypeOK`, `CauseInv` (`Once`, `Results`, `Stale`, `Connecting`, `Flagged`) |
| `TcpConnectionProofs!TypeCorrect`, `EveryReplyKept` | `[]TypeOK`, `[]RepliesKept` | `TypeOK`, `OutBuffer`, `RepliesKept` |
| `TcpConnectionProofs!DecodeInvertsEncode` | `decode` gives back what `encode` was given, wherever the package is | none: about the operators |
| `TcpConnectionProofs!FramedRequests` | `[]Framed`, if `Decodable` | the same, and `Framing`, `Drained` |
| `TimerProofs!TypeCorrect`, `AtMostOnce` | `[]TypeOK`, `[]PendingOnce` | `TypeOK`, `Sorted`, `Copied`, `PendingOnce`, `Collected` |
| `TimerProofs!TimerfdInTime` | `[]Armed`, if `Adder = {}` | the same and `Lone` |
| `TcpServerProofs!TypeCorrect`, `LoopBeforeClient`, `SingleGroup`, `ExactlyOnce`, `PoolOfItsThread` | `[]TypeOK`, `[]LoopExists`, `[]OneGroup`, `[]HandedOnce`, `[]OwnPool` | `TypeOK`, `Ready`, `Grouped`, `Placed`, `Apart`, `Owned` |
| `TcpServerProofs!RoundRobin` | `[]Balanced` | the same, and `Counted`, `Even` |
| `AsyncLoggerProofs!TypeCorrect`, `EachInItsPlace`, `OverlongOnlyOnce` | `[]TypeOK`, `[]NothingLost`, `OverlongOnce` | `TypeOK`, `Held`, `Bounded`, `Numbered`, `NothingLost` |
| `RpcCallProofs!TypeCorrect`, `RepliesFindCalls`, `CallsHaveOneOutcome`, `LookupsAreCurrent`, `OrdersAreTheirOwn` | `[]TypeOK`, `[]ReplyFindsCall`, `[]CallHasOneOutcome`, `[]LookupIsCurrent`, `[]OrderIsItsOwn` | `Types`, `Bounded`, `CallerInv`, `Serving`, `RegisteredHeld` |

*Event loop.* `TypeOK` is not inductive alone: what a thread pushes must be a
task (`PostingInv`). `BatchInv` says that the local queue is empty
except from the swap to the end of the batch; without it, the swap would
overwrite tasks and the refinement fail. `HandlerInv` is the argument for
level-triggered events: `epoll_wait` is reached only after the batch has run
and when no handler is in the shared queue, what it returns is posted once,
and only the dispatch posts handlers. None of this uses the mutex: the race is
excluded by the guard `Alone` of the two critical statements, which is what
"until two threads are at the queue together" means.

*FdEventGroup.* This guard is never unlocked explicitly, so a thread in the
table owns the mutex and conversely (`Ownership`); entry *i* is the event of
*i*, and a thread that grows constructs the next missing one (`Table`). The
growth reaches the descriptor because `int(fd * 1.5) > fd` from 2 on
(`NewSizeSuffices`): the reason for `SizeAssumption`, which the 128 of
`GetFdEventGroup` meets.

*CoroutinePool.* Until the pool grows, index and id of a coroutine agree and
what an owner holds is flagged (`FirstSize`). Growth breaks both.

*TcpClient.* The wait is bounded because a timer that has run left
`m_is_over_time` behind, and each path from a resumption to the next yield
asks for it, but for one: `onRead` going round. `DeadlineInv` says where in the
code the flag may be set without the timer being pending, so that this wait,
named in `WaitHasDeadline`, is the only one without a deadline. `SocketInv` is needed for the types: `connect` is
never called on a connected socket. `WaitListens` is inductive with `TypeOK`;
its one interesting step is the error event that takes the descriptor off the
loop while the handler is posted in the same dispatch.

`TimeoutHasCause` is about a flag that a stale timer may set. `Stale`: the timer
of a call that has returned is still in the queue only if that call, or one
before it, found its peer closed. `Flagged`: while the timer of the present
call is still to come, the call is flagged as timed out only by such a timer.
`Connecting` orders a batch of due timers: the one of `connect` comes after
those of its call and of earlier ones, so that a call which it ends has no timer
left in the batch. The proof sorts the actions into a few kinds of steps that `CauseInv`
can tell apart (`Stays`, `Goes`, `Ends`, `Resumes`; the start of a call, its end,
`OnTimer` and `Expire` are their own) and treats each kind once.

*TcpConnection.* The in-buffer: `moveWriteIndex` refuses the end, so after a read
the write index is below it, `decode` moves the read index over what was
written only, and the move to the front keeps the size; the growth in
`onRead` is therefore never taken. The out-buffer: its read index stays 0
(`OutBuffer`), so that `writeToBuffer`, in place or into a vector it has just
grown, appends one reply to what is there, and `Encoded` of one more message is
`Encoded` with its encoding at the end. Lemmas on bytes (`MovedBytes`,
`StoredBytes`) carry this to the buffers (`MovedBuffer`, `StoredBuffer`,
`WriteToBuffer`). What `decode` takes for a message is one whatever the bytes
are (`ParseType`). The theorems assume that the requests are messages and that
a service answers with bytes (`RequestsAssumption`, `ServicesAssumption`). The lemmas
on `FlattenSeq` are those of the logger, repeated.

`Framed` needs more, `Decodable`: that the requests can be told from their bytes.
The code gives three reasons. `Kept`: what `encode` writes must be what `decode`
keeps; an empty id is replaced, a zero ends a string, the strings go into arrays of
100 and 512 bytes with a zero behind them, and a length beyond an `int32_t` wraps.
`Unambiguous`: `decode` tries every place from the read index on, so while a
package is there in part, a `PB_START` inside of it, with four bytes that happen
to lead to a `PB_END`, would be taken for a package; no byte is escaped. And
`Framed` itself ends where a read is dropped for lack of room (`lost`).
TLC evaluates `Decodable` on the requests of both runs (`DecodableAssumption`).

`DecodeInvertsEncode` is the first half of the argument. `EncodeLayout` follows the
buffer of `encodeTinyPB` field by field (`Joint`: what was written stays at its
place); `IntRead`, with `NetBytesRead` for the four bytes in two's complement, and
`BytesRead` recover the fields, and no check of `Parse` fails. The second half is
the invariant `Framing`: until a read is dropped, what was decoded is the first
requests (`InStep`), what can be read is the stream from where they end up to
`pos` (`Follows`), and outside of `excute` that is less than one request
(`Awaits`). `Clean`, no byte behind the write index was ever written, is
the part that is not obvious: `decode` reads beyond what was received when a
package is cut inside its length, and what it reads there decides. With zeros there, and whatever is behind the vector,
the length is too large, or it is 0 (`ShortLength`); in the latter case the
package is found with its end just before its start, moves the read index by
nothing and is dropped (`PartDropped`, `ParseDropped`): nothing is lost, which is
why the loop of `DecodeReturns` is the only thing that goes wrong.
`Drained` says that nothing decoded is left when the coroutine reads again.

*Timer.* `deleteTimerEvent` erases one entry; that none is left is the
invariant `PendingOnce`, which needs `Collected`: while `onTimer` adds the
repeated events of its batch again, what is left of the batch is neither in the
queue nor cancelled, and nothing is in it twice. `Sorted` is the order of the
multimap. The library's `InsertAt`, `RemoveFirst` and `SelectInSeq` are used
through lemmas on the places of an element, proved first (`Until` splits a
sorted queue; an insertion at that place keeps it sorted). For `Armed`,
`Lone` adds that the loop's thread is the only one that may be between
the copy of the queue and the setting of the timerfd, and that its copy is the
present head. With another thread adding events this fails: its copy can be
stale. The premise `Adder = {}` is what the framework's calls satisfy.

*TcpServer.* `Ready` carries the semaphores' argument: a thread that the main
thread has waited for has its loop, and the accept coroutine exists only when
all have been waited for. `Grouped` is why the unguarded singleton is safe:
as long as there is no table, no IO thread has a task. `Placed` and `Apart` say
that an accepted client is somewhere, and nowhere else, without counting;
`ExactlyOnce` then computes the three cardinalities of `HandedOnce`. `Owned`
ties the pools to the threads. For `Balanced`, `Even` says how the loads differ:
the threads below `m_index` are one ahead, all by the same count. Only
`OnAccept` changes a load; the other steps move a client from the queue to the
constructor and on to the set, which `PlacesAppend`, `PlacesTail` (a bijection
between the places of a queue and those of its tail) and `Counted` (the client
under construction is not in the set yet) turn into equal cardinalities.

*AsyncLogger.* `NothingLost` concatenates the batches of a queue. What
`FlattenSeq` makes of a queue that gains a batch at its end or loses one at its
head is proved first, by least counterexample over the natural numbers
(`FlattenAppend`, `FlattenTail`); a step then moves messages from one operand
to the next. Two more facts are needed: `Held`, hands are full exactly from taking a batch
to giving it on, so that taking one never overwrites another; and `Bounded`,
the messages that are anywhere and those a thread is about to push are at most
`MaxLogs`, and `m_no` never exceeds the number of those written, so that the
next file's number exists.
`Numbered` ties `m_no` to the open file, and says that the files behind it are
as they were when the process started: the whole argument for
`OverlongOnce`. The theorems assume finitely many threads and that no file is
`NoFile`.

*RpcCall.* Every property is about a reply that reaches its caller by way of
four queues, at whose ends messages are copied, cut and repeated, so the
invariant follows a request from the out-buffer of its channel to the response.
`RequestsSent`: what is on the wire and in the server's lists, also of a
connection that the channel has left, is what the channel sent, with the
decoder's cut. `RepliesSound`: each reply, in the server's
out-buffer, on the wire or with the client, answers some request that was sent
(`Answers`): its id is that request's up to the cut; its error is `ErrorOf` the
request, if that names no method, and else the method has run and there is no
error but that of serialising; and a reply without an error says what the method
says (`Told`). The
table of the registry changes under all this; that it only grows, at the end of
each list (`Grows`), is why what a lookup was told stays a beginning of the
list, and why an address that was confirmed is in every later list
(`RegisteredHeld`, `ListsKnown`). `ErrorOf` is independent of the table, which is
why an error of finding or reading a request says that the method did not run for
any request that this id stands for (`AnsweredSent`, `Unique`). A call that ended
before its request was in the out-buffer has sent none with its id (`Unsent`,
`Outcome`). `Serving` holds the request while a
method of the registry is between its lock and its second unlock; `Unopened` and
`AtRegistry` say which connection a call is on.

What makes the data provable: `dispatch` is computed once, for any peer and any
registrations (`Dispatched`), `NamesOf` recovers service and method from a full
name, and what is parsed from what was serialised is proved for the three
responses (`ListParsed`, `OrderAnswer`), whether or not it fits `INT_MAX`. A caller's steps are quiet (`QuietStep`) or put a
request into the out-buffer (`CallMethodStep`) or open a channel; a server's are
instances of `ServerStep`. The theorems assume what `Requests`, `UserIds`,
`EarlierIds` and `RandomIds` are made of, that a thread is not the mark of a
free mutex, and `LookupAssumption`: lookups are made at the registry, as the
programs do. Nothing is assumed of how often and in which order callers call, nor
of `INT_MAX` and of how often channels connect again.

Only model-checked: everything about liveness (`PostedTaskRuns`, `StopExits`,
`TimerFires`, `CallReturns`, `ClosedEnds`, `MessageWritten`, `ClientServed`),
which is beyond the prover.

## 5. What the runs found

Two disagreements with what the repository says of itself:

* `event_loop_guard`: the double unlock of a guard (`common/mutex.h:27`) lets
  two threads at `m_pending_tasks`, against the comment at
  `net/fd_event_group.cpp:33`.
* `connection_split`: a package that is cut inside its length
  (`net/coder/tinypb_coder.cpp:40`) makes `decode` find the package before it
  for ever, against the comment at `tinypb_coder.cpp:44`, that what came in
  part is left to the next read.

What the models say besides, where the repository promises nothing:

* The handler of an earlier wakeup eats a later one (`net/eventloop.cpp:163`);
  the loop then blocks, for up to 10 s, with a task pending. `PostedTaskRuns`
  holds because `epoll_wait` times out.
* A grown pool gives one coroutine to two owners
  (`coroutine/coroutine_pool.cpp:50`): hence `ExclusiveUntilGrown`.
* An event cancelled by an earlier callback of its batch is called all the same
  (`net/timer.cpp:67`).
* The path of a peer that closed (`net/tcp/tcp_client.cpp:122`) leaves its timer
  behind, and the next call can fail before its time; `TimeoutHasCause` says
  that this is the only such path. After a timeout the connection's state stays
  `Connected` (`tcp_client.cpp:126`), so that the next call writes to a socket
  that is not.
* A read that fills the in-buffer exactly is dropped (`tcp_buffer.cpp:92`), and
  since the write index never reaches the end, the growth that `onRead` asks
  for is never taken: `TypeOK` of `TcpConnection` says that the in-buffer keeps
  its size.
* The first file of a day that is too long is followed by itself once, `m_no ++`
  (`common/log.cpp:224`), which a comment (`:221`) calls switching the file: hence
  the first exception in `OverlongOnce`.
* `onRead` waits a second time when its read has filled the buffer or failed
  (`net/tcp/tcp_connection.cpp:79`, `:90`), without a look at the flag that the
  call's timer may have set: with a silent peer that call does not return
  (`Overrun`). No comment or test promises that a call returns in time.
* A process appends to the files of an earlier one of the same day and begins
  with number 0 (`common/log.cpp:198`, `:216`), and the size of the file that it
  goes on to is not looked at: hence the second one. Each costs one batch per file.
* A response that cannot be serialised is answered with an error although its
  method has run (`net/rpc/rpc_dispatcher.cpp:84`); the same code from
  `rpc_channel.cpp:58` means that nothing was sent. `CallHasOneOutcome` tells them
  apart by whether the channel has sent the request.
* A call with a controller of another class than `RpcController` leaves the program
  without an error and without its closure (`rpc_channel.cpp:31`).
* After a peer has closed, the next call on the channel sends the requests of all
  earlier calls to the new connection: their methods run again.
* A failed accept is counted, takes its turn in the round robin and is
  constructed as the descriptor -1 (`net/tcp/tcp_acceptor.cpp:50`).
* `getServiceWithLoadBalance` of an empty cache picks from behind the vector
  (`net/tcp/tcp_server.cpp:102`), and a lookup that failed leaves it empty.
* The race at the singleton of `fd_event_group.cpp:13` cannot be reached in a
  server (`SingleGroup`).

## 6. What is not modelled

* The register switch of `coctx_swap.S`, assembly: `Yield` and `Resume` stand
  for it. `sleep_hook` has no user in the framework.
* `Config`, `RunTime`, `NetAddr` and most of `util`: parsing of XML and of
  addresses, clocks, process and thread ids, thread-local getters.
* Wording of logs and errors; the text of a log message and of its level
  (`log.cpp:92-154`); `AsyncLogger::flush` (`log.cpp:247-251`), which nothing calls.
* Of the generated protobuf code: descriptors, arenas, copying and swapping, of
  which the framework makes no use, and the wire format below an item.
* `TcpConnection::shutdown`, `listenRead`, `TcpBuffer::readFromBuffer`,
  `StringCoder`, `IOThread::join` and the destructors of servers, threads and
  groups, which nothing calls.
* `~TcpClient`, which closes a descriptor that the loop still lists
  (`eventloop.cpp:11`): it needs descriptor numbers that are used again, and
  clients that come and go; `TcpClient` has one that lives on.
* In `RpcCall`, a reply that a closed connection has delivered in part, which is
  `TcpConnection`'s subject, and a registry that stops, and loses its table, and
  starts again.
* Threads that add timer events from outside: `Timer` has them (`Adder`), the
  run and `TimerfdInTime` do not, for the framework has no such call.
* The test programs, but for what `RpcCall`'s callers do: they assert nothing.

Left for later: the destructor of `TcpClient` together with the reuse of
descriptor numbers.
