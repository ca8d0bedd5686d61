# A TLA+ model of MuduoLib

MuduoLib is a small C++ network library after muduo: one event loop per thread,
non-blocking sockets over epoll, and a TcpServer that spreads connections over
a pool of loops. This directory holds TLA+ modules of its parts, TLC runs that
check them on small instances, and proofs, checked by TLAPS, of what matters
most for all instances. The repository has no tests and its documentation is
the comments in the code; where a comment and the code disagree, a run shows it.

## 1. The system

| Component | State | Operations | Talks to |
|---|---|---|---|
| EventLoop | `quit_`, `pendingFunctors_` under `mutex_`, eventfd, `callingPendingFunctors_`, `activeChannels_` | `loop`, `quit`, `runInLoop`, `queueInLoop`, `wakeup`, `doPendingFunctors` | any thread that holds its address; EPollPoller; Channel |
| Channel | `events_`, `revents_`, `index_`, `tie_` | `enable*`, `disable*`, `remove`, `handleEvent` | its loop's poller, its owner's callbacks |
| EPollPoller | `channels_`, `events_` (grows), the epoll instance | `poll`, `updateChannel`, `removeChannel` | the kernel, Channel |
| Buffer | `buffer_`, `readerIndex_`, `writerIndex_` | `append`, `retrieve*`, `ensureWritableBytes`, `readFd`, `writeFd` | TcpConnection, the socket |
| TcpConnection | `state_`, its Channel, two Buffers | `send`, `shutdown`, `connectEstablished`, `connectDestroyed`, `handleRead/Write/Close/Error` | its loop (functors), the server (close callback), user callbacks |
| TcpServer | `connctions_`, `started_`, `nextConnId_` | `start`, `newConnection`, `removeConnection`, destructor | Acceptor, pool, connections, on the base loop |
| Acceptor | listening socket and channel | `listen`, `handleRead` | base loop, TcpServer |
| EventLoopThread | `loop_` under `mutex_` and `cond_`, a Thread | `startLoop`, `threadFunc`, destructor | Thread, the EventLoop on the thread's stack |
| EventLoopThreadPool | `threads_`, `loops_`, `next_` | `start`, `getNextLoop` | EventLoopThread |
| Thread | `started_`, `joined_`, a semaphore | `start`, `join` | the system |
| Socket, InetAddress, Timestamp, CurrentThread, logger, DefaultPoller | – | system calls, conversions, output | – |

How they interact. A thread hands work to a loop by `queueInLoop`: it appends a
functor to `pendingFunctors_` and writes the eventfd, which the loop's poller
watches. An iteration of the loop is: `epoll_wait`, the callbacks of the active
channels, the pending functors. A connection lives on one loop; its
`connectEstablished`, the `send`s and `shutdown`s of other threads and
`connectDestroyed` come to it as functors. A close goes from the connection's
loop to the server on the base loop (`removeConnection`), and back
(`connectDestroyed`).

What is hard:

* wakeups: a functor queued at the wrong moment must not wait for a loop that
  sleeps; functors must be executed once and in order while others are queued;
* `quit()` against an iteration, against `loop()` being entered, and against
  the destruction of the loop;
* the handshake of `startLoop` with the new thread, and the unlocked reads of
  `loop_` in the destructor;
* `state_` and the interest of the channel, tested by one thread and changed by
  another, over a close that three parties can begin;
* who still holds a TcpConnection when epoll reports its channel, over closes,
  removals, users who keep it and the end of the server;
* `start()` from several threads, and the destructor of the server against the
  loops of its pool;
* partial writes, and what remains of them;
* `index_`, `channels_` and the kernel's table agreeing after any sequence of
  calls; the size of the event array; the buffer's indices at their limits.

What makes each component correct, in a line: an EventLoop is a FIFO queue of
tasks that never sleeps on a task; a poller knows what its channels know and
leaves none out; a Buffer is a FIFO of bytes; a TcpConnection comes up once, goes
down once, sends in order and is removed in the end; a pool starts with live
loops, shares them out evenly and can be destroyed; a server accepts who waits,
loses no connection while it serves, and leaves no loop behind that could call
it.

## 2. The modules

| Module | Models | Role |
|---|---|---|
| `TaskQueue` | what `queueInLoop` promises | abstract specification |
| `EventLoop` | EventLoop.cc | implements `TaskQueue` (`TQ`, functors in the batch followed by those pending) |
| `EventLoopProofs` | | theorems about `EventLoop` |
| `Channel` | Channel.h, `updateChannel`, `removeChannel`, `update` | operators on a channel, used by `Poller`, `TcpConnection`, `TcpServer` |
| `ChannelProofs` | | lemmas on these operators |
| `Poller` | EPollPoller.cc with its channels | |
| `PollerProofs` | | theorems about `Poller` |
| `Buffer` | Buffer1.h, Buffer1.cc | |
| `BufferProofs` | | theorems about `Buffer` |
| `LoopPool` | what a pool of loops promises the server that uses it | abstract specification |
| `TcpConnection` | TcpConnection.cc, the server and the channel as one connection sees them | extends `Channel` |
| `TcpConnectionProofs` | | theorems about it |
| `EventLoopThreadPool` | EventLoopThreadPool.cc, EventLoopThread.cc, Thread.cc | implements `LoopPool` (`LP`) |
| `EventLoopThreadPoolProofs` | | theorems about it |
| `Connections` | what a server promises of its connections | abstract specification |
| `TcpServer` | TcpServer.cc, Acceptor.cc, the base loop, the pool's loops and the connections | extends `Channel`, implements `Connections` (`C`, by `Phase`) and, in its pool, `LoopPool` (`LP`) |
| `TcpServerProofs` | | theorems about `TcpServer` |
| `ConnectionsProofs` | | the refinement |

`PROJECT.json` maps each definition to its lines. Definitions named `Mut_...`
are bugs one could plausibly write in the definition that follows them; no
specification uses them, and each property is shown to fail for one of them.

### EventLoop

`pc` is the place of the owner: `setup` (before `loop()`, where a
ThreadInitCallback runs), `test`, `poll`, `handle`, `run` for the parts of
`loop()`, and `handler`, `functor` inside user code, which may call
`queueInLoop` and `quit` again. One action makes at most one access to what
threads share: `QueueInLoop(t)` is the `emplace_back`, `Wakeup(t)` the write of
the eventfd that ends it, `Quit(t)` the store to `quit_`. `waking` holds the
threads between the two. `sent`, `done` and `early` are history.
`runInLoop` needs no action: from another thread it is `queueInLoop`, from the
owner a call of user code.

### Channel and Poller

A channel is a record of `events_`, `index_`, and what `channels_` and the epoll
instance hold for it. `CtlAdd`, `CtlMod`, `CtlDel` are `epoll_ctl` with its
refusals; a refused ADD or MOD is the process's end (`fatal`). In `Poller` user
code makes any of the channel calls between polls, events and hangups come at
any time, and the kernel reports any `events_.size()` of the ready descriptors
when there are more.

### Buffer

The record `buf` is the object, `mem` the vector with the code's indices. The
operators have the names of the members and are composed as those are. `in` and
`out` are the bytes that went in and came out. `CallRetrieve` asks for at most
what is readable, as `retrieveAllAsString` and the users of `retrieve` do.

### TcpConnection

Handlers and functors run one at a time on the loop's thread, so each is one
action. `pending` is the connection's part of the loop's queue (that it is a
FIFO that loses nothing is `ImplementsTaskQueue`). `send` and `shutdown` from
other threads are split at each access: the test of `state_`, its store, the
queueing. The server is `inMap`, the removals its base loop has yet to make
(`closing`) and `serverGone`; `LoopStops` is the destruction of the pool that
follows `~TcpServer`. `wire` is what `write()` accepted; `WriteResults` lets it
accept all, a part, nothing, or fail once a side is closed.

After EWOULDBLOCK line 141 reads one byte before the data (line 117 shadows
`nwrote`); that byte is `Garbage`. The functor of a foreign `send` holds
`c_str()` of the caller's string: `RunSend` chooses between the bytes and
garbage. `late` records what came too late: a message callback outside the
connection's life, and a `sendInLoop` executed after the close. The latter arms
the channel again, and a second close and a second callback follow, so
`CallbacksPaired` speaks of behaviours without one; that such a send happens is
the finding of `TcpConnectionReturns`. `shutdown` has the same gap between its
test and its store: it may turn kDisconnected into kDisconnecting.

Line 144 arms the readable event, and nothing else ever arms the writable one, so
`handleWrite` is never called (theorem `NeverWrites`) and has no action. What is
buffered stays where it is, and `shutdownInLoop`, which finds `isWriting()` false,
sends the FIN at once. `ConnectDestroyed` tests and stores `state_`; the stores
that `shutdown` makes on other threads in between are part of it.

### EventLoopThreadPool

`th[i]` is thread i and its EventLoopThread, `cur` the one main starts or
destroys. `setThreadNum` is the choice of `numThreads` in `Init`. The steps of
`startLoop` and `threadFunc` are the accesses to the semaphore, the mutex,
`loop_`, `quit_` and the eventfd. A condition variable may wake for no reason.
A loop may be ended by user code when `UserQuits` holds. The destructor's two
unlocked reads of `loop_` are `Destroy` and `DestroyQuits`; a second read that
finds nullptr is `DestroyCrashes`. `loops_` keeps the address of a loop whose user
has quit it: `ImplementsLoopPool` and `DestroyedIsLeft` say that only such a quit can
make `getNextLoop` hand out a loop that is gone, or make the destructor leave a
thread that has not let go of its mutex.

`LoopPool` is the pool as its user sees it, with no thread and no lock: loops
handed over one by one, `getNextLoop()` going round them, and no loop left that
nobody has told to quit. `EventLoopThreadPool` implements it, and `TcpServer`, which
has the pool without its mutexes and condition variables, implements it too: the
model of the server lets its pool do nothing that `LoopPool` forbids. It adds
that in `TcpServer` only the destructor asks a loop to quit.

### TcpServer

Several connections, from `start()` to the end of `~TcpServer`. Each loop is what
`EventLoop` is shown to be: a queue from which a batch is taken after the handlers
of an iteration. A handler or a functor is one action; so is each thing a thread
of `start()` or of the destructor does to what others see. `conns[c]` is the
TcpConnection numbered c, with `state_`, its loop, its channel, whether the peer
has closed (`fin`), and the callbacks made (`up`, `down`). Its data belongs to
`TcpConnection`, but for what data can do to the channel. `UserSends` and
`SendQueues` are `send()` on a thread that is not the connection's, its test of
`state_` and its `queueInLoop`; the functor, `sendInLoop`, arms the readable event
if bytes are left over (`Armed`), in whatever state the connection is. When the
channel had no interest left, after `handleClose` or `connectDestroyed`, that is
`late`: a second close may follow, with a second callback and a second removal,
and the channel stays in the poller when the last shared_ptr goes. The functor has
the raw `this` and holds nothing (`Holds`). Of undefined behaviour one outcome is
chosen: a `sendInLoop` on a connection that is gone does nothing, a functor
queued to a loop that is gone is lost, `tie_.lock()` on a channel that is gone
fails. C++ may do anything else there, and of that no property speaks.

* `start()`: `StartCounts` is `started_++ == 0`. A later call only counts, which
  changes nothing and is no step. `StartThread` starts a thread of the pool,
  `StartListening` is `runInLoop(listen)`: a call on the base loop's thread, a
  functor from another.
* Base loop: `HandleAccept` is `Acceptor::handleRead` with `newConnection` and
  `getNextLoop`; with EMFILE (`OutOfFds`) it changes nothing and the listening
  socket stays readable. `HandleClose` is `handleClose` with `removeConnection`.
* Loops: `PollReturns`, `HandleEvent`, `DoPendingFunctors`, `RunFunctor`,
  `FunctorsDone`. `Execute` is what each functor does. The test of `quit_` is part of the step that ends the batch. If
  the queue is empty, `DoPendingFunctors` ends it.
* Destructor: `DropConnection` is its body for one connection, `QuitThread` and
  `JoinThread` are `~EventLoopThread` of each thread, `ServerDestroyed` is
  `~Acceptor`. It runs on the base loop's thread when `loop()` has returned, and
  the base EventLoop outlives the server, as in a `main` that declares the loop
  first. `DestroyLoop` drops the functors a loop still has.

A TcpConnection exists as long as a shared_ptr to it does (`Exists`): in
`connctions_`, in a functor that is queued, in one that was executed but whose
vector is still there (`kept`), or with a user who was told that it is up
(`held`). Nothing in the model keeps a connection because it is needed; that it
does exist whenever epoll or `activeChannels_` names its channel is
`EventsHaveTheirObject`. Nobody but the destructor quits a pool's loop here; a
user's quit is in `EventLoopThreadPool`.

`Connections` has no loops, functors, channels or pointers. It says that
connections are accepted in turn while the server serves, that each comes up
once and goes down at most once, and that while the server serves none goes
that was not down. A `send()` may be late for a connection that is down
(`SendsLate`), and then, for that connection only, "down" may be told again.
`TcpServer` implements it with `told` the callbacks made and `late` the
connections that have `late` set.

## 3. The runs

Passing:

| Run | Shows | Bounds |
|---|---|---|
| EventLoop | no lost wakeup, of a functor or of a `quit()`; the batch being run only shrinks; `EventLoop` implements `TaskQueue`; every functor is executed and `quit()` ends the loop, though `epoll_wait` never times out | 2 callers and the owner, 1 functor each, 1 channel |
| Poller | `index_`, `channels_` and epoll agree; `events_` is bounded; no channel starves | 2 channels, room for 1 event, 5 calls |
| Buffer | indices in order; bytes in order, none lost or doubled | vector 1+2, extrabuf 2, calls of up to 3 bytes, 5 in all |
| TcpConnection | one callback up, at most one down; nothing left in the poller; bytes of a sender in order; until it is destroyed the poller listens for its close or its removal is under way; what the peer closes is destroyed | 1 sender and the owner, 2 messages of 2 bytes in all, 1 closer, 1 byte in |
| EventLoopThreadPool | `startLoop` returns a loop; `loop_` is alive; no thread is left behind; neither `startLoop` nor `join` waits for what nobody will give; the pool implements `LoopPool` (loops in turn, none left that was not told to quit); `start()` returns; destruction ends, unless the `quit()` is lost (below) | 0 to 3 threads, 2 picks, user code may end a loop |
| TcpServer | no loop outlives the server; `loops_` is fixed when the server listens; the pool as the server has it is a `LoopPool`; clients are accepted, the destructor ends | 2 threads that call `start()`, 0 to 2 threads in the pool, 2 connections, 1 or 2 descriptors, no `send()` |
| TcpServerSends | with a `send()` that may come too late: channels that epoll names have their object; no connection is lost without a callback but by its user or the end of its loop; none is forgotten in `connctions_`; no functor is queued twice; `TcpServer` implements `Connections`; closed connections are released. What a late `send()` breaks it breaks for its own connection only: `EventsHaveTheirObject`, `QueuedOnce` and `Connections` except that one | the same, with 0 or 1 thread in the pool and 1 `send()` of another thread |

Each of these bounds is reached: three functors of three threads make a batch
with functors queued behind it, and a further functor or message adds no new
place in the code between two others; room for one event makes the array full, grow
and stop growing; a vector of three bytes makes the buffer move, grow, and do
both within one `readFd`; two picks of a pool with one, two and three loops wrap
`next_` and do not; two connections on none, one or two loops meet on the base
loop, on one loop of the pool or on two, and one descriptor makes the second
client wait for the first to be released. The proofs below remove the bounds where they apply.

Deadlock is checked in the runs Poller and Buffer; elsewhere the system may stop: a
loop is left, a pool destroyed, the bounded callers have made their calls.

Violations, each of what a comment says (PROJECT.json quotes it):

| Run | The code |
|---|---|
| TcpConnectionFlush | line 144 calls `enableReading`: what is buffered is never sent |
| TcpConnectionBytes | after EWOULDBLOCK the buffered bytes begin one byte too early |
| TcpConnectionReturns | a `sendInLoop` executed after the destruction puts the removed channel back into the poller |
| EventLoopThreadPoolJoin | `loop()` resets a `quit_` set before it: the destructor waits for ever |
| EventLoopThreadPoolWakeup | `quit()` may write the eventfd of an EventLoop that is gone |

Other disagreements met while reading, which the models contain and which have
no run of their own yet: a functor the owner queues before `loop()` has no wakeup
and waits up to 10 s (EventLoop.h:32, the exception in `NoLostWakeup`);
`loop()` returns without the iteration that would run what was queued before
`quit()` (EventLoop.cc:98); the FIN goes out before the buffered data
(TcpConnection.cc:160, a consequence of line 144); in kDisconnected `sendInLoop`
logs and goes on (TcpConnection.cc:97); a connection in kDisconnecting is
destroyed without the callback (TcpConnection.cc:185); a loop that ends before
`startLoop` has seen it leaves `startLoop` waiting (EventLoopThread.cc:30, the
exception in `PoolStarts`); `~TcpServer` queues `connectDestroyed` to a loop of the
pool, whose loop is to destroy the connection (TcpServer.cc:43-44), and then
quits that loop, which may see `quit_` first and drop the functor: the user is not
told, and the channel leaves epoll only with the poller (the exception in
`GoneWasDown`).

Fairness. A thread that can take a step takes it (weak fairness of each
thread), since the scheduler runs every thread. No call has to be made, no event
has to arrive and `epoll_wait` need not time out. `TcpConnection` assumes also
that the base loop runs (`ServerRemoves`); it does not assume that users or
peers do anything. `TcpServer` assumes it of a `start()` that has begun, of every loop and of
the destructor once begun; users, clients and peers need do nothing, so
`ClosedIsReleased` excepts a connection its user keeps, and `ClientsAreAccepted` a
server without a free descriptor. In the pool a thread that finds the mutex free again and again
gets it (strong fairness of `Publish`): main can be woken for no reason any
number of times, and std::mutex is not made to starve anyone.

## 4. The proofs

Proved for all values of the constants, under the assumptions named in the
modules (`...Assumption`: the owner is not a caller, sizes are natural numbers,
and the like):

* `EventLoopProofs`: `TypeCorrect`, `NoWakeupIsLost`, `BatchOnlyShrinks`,
  `EachFunctorAlwaysOnce`, `RefinesTaskQueue`. The invariant `LoopInv` adds to the types that
  `callingPendingFunctors_` is set exactly while a batch is run (`CallingInside`),
  that only functors queued before `loop()` are early (`EarlyIsSetup`), and the
  heart: whatever is pending is announced by the eventfd, by a thread about to
  write it, or by the owner being on its way to `doPendingFunctors`
  (`PendingIsAnnounced`). `NoLostWakeup` alone is not inductive, as it says
  nothing of the owner outside `epoll_wait`; for `quit_` its half is
  (`QuitIsAnnounced`). For the refinement each step is
  shown to be `Submit`, `Execute` or a stutter. `EachFunctorOnce` is of `done`, the
  batch and what is pending laid end to end: a step appends the next functor of
  one caller to that sequence, or moves a boundary within it and leaves it alone.
* `PollerProofs`: `TypeCorrect`, `PollerAgreesAlways` from the lemmas of
  `ChannelProofs` on each Channel operator, and `CapacityIsAlwaysBounded`, where a
  report that fills `events_` is a subset of the channels. `LeftOutAlwaysGrows` is
  the other side of the same count: a report that leaves one out is full.
* `BufferProofs`: `TypeCorrect`, `IndicesOrdered` and `BytesAlwaysKept`, from a
  lemma for each member that says what it does to the indices and to the
  readable content.
* `TcpConnectionProofs`: `TypeCorrect`, `CallbacksAlwaysPaired`,
  `AlwaysRemovedForGood`, `SendAlwaysInOrder`, `AlwaysHeardOrLeaving`, `NeverWrites`.
  `ConnInv` adds that `connectEstablished` is the first
  functor and is queued once, before which nothing has happened
  (`EstablishedFirst`), and that the channel of a connection that is down or
  destroyed is not registered unless a send has come late (`Unheard`): no
  handler then makes a second callback. Why the queue never gets a second
  `connectEstablished` is one lemma on every step, `QueueStep`.
  `NeverWrites` is what justifies that `handleWrite` has no action: no step puts the
  writable event into `events_`, and epoll's mask is `events_`. `SendOrder` needs
  `Ordered`, which adds the messages still in the queue: each is one its sender has
  made, and comes after all bytes of that sender on their way and after the
  messages queued before it. `HeardOrLeaving` needs `HeardInv`: what `state_` says
  of a connection not yet destroyed (yet to be established, heard, or down with
  its removal under way) survives the stores that `shutdown` makes at the wrong moment.
* `EventLoopThreadPoolProofs`: `AlwaysStartedWithLoop`, `PublishedIsAlwaysAlive`,
  `LoopsAlwaysTakeTurns`, `PickedIsAlwaysAlive`, `DestroyedIsAlwaysLeft`,
  `MainIsAlwaysAnswered`, `RefinesLoopPool`. `PoolInv` adds that `loops_` has exactly the threads
  before `cur` while the pool starts (`LoopsSoFar`), that threads not begun are
  untouched (`NotBegun`), that `loop_` is set only within the life of the
  EventLoop (`LifeSpan`), and that the loops before `next_` are one ahead of the
  others (`Turns`). `AnswerInv` ties each place of main in `startLoop` and in the
  destructor to the places of the thread it waits for: who holds the mutex, that
  `loop_` is set before the notification, and where a `quit()` is lost. Main never
  waits there for an answer that has been given already.

* `TcpServerProofs`: `TypeCorrect`, `EventsAlwaysHaveTheirObject`,
  `ServerAlwaysOutlivesLoops`, `PoolIsAlwaysFixed`, `GoneAlwaysWasDown`,
  `MapIsAlwaysServed`, `QueuedAlwaysOnce`, `PoolRefinesLoopPool`. The
  invariant `ServerInv` has a part for each reason. `ConnOK` ties `state_` to the
  callbacks made and to the channel. `ActiveOK` says that a channel in
  `activeChannels_` is registered, on this loop, until it is handled. `QueuesOK`
  says that `connectEstablished` is queued once, to the connection's own loop,
  before any `connectDestroyed`. `OwnedOK` is the heart: a connection that has yet
  to come up, or whose channel is registered and not by a late `send()` (`InUse`),
  is in `connctions_` or has a `connectDestroyed` queued, so it exists. `PoolOK`, `StartOK` and `DestructorOK`
  say the same kind of thing of the threads: who is in `start()`, that nobody
  listens before, and that the threads before `cur` have been joined.
  `MapIsServed` and `QueuedOnce` are proved together (`ServedOK`): a close that is
  under way is under way once, because the channel it would come from again is no
  longer listened to unless a `send()` is late (`Doubled`, `Watched`), and a `connectDestroyed` in a queue
  means that `connctions_` has let go of its connection. For the pool, `UseOK` says how the
  starter, `next_` and the pool's loops hang together, and each step is shown to
  be one of `LoopPool` or a stutter.
* `ConnectionsProofs`: `RefinesConnections`. Under `ServerInv` each step changes
  the callbacks of one connection at most (`Accept`, `Up`, `Down`), or sets `late` of
  one whose channel nobody listens to (`SendsLate`), or is `Stop`, or
  only lets go of connections (`Release`, of none if nothing goes). That a channel
  without interest is that of a connection which is down needs `MapIsServed`. That nobody
  gets hold of a connection again that everybody had let go of is a lemma on
  each way a loop's queue can change.

Every invariant and action property of the passing runs and the four refinements
are proved. Some theorems state properties that have no run of their own:
`EachFunctorAlwaysOnce`, `LoopsAlwaysTakeTurns` and `PickedIsAlwaysAlive` say of a
component much of what the refinement that a run checks says of it;
`LeftOutAlwaysGrows` is the reason for `NoStarvation`, and `TypeCorrect` of Buffer
stands beside `IndexOrder`.

Only model-checked: the liveness properties, as the prover does no fairness. For some of them the part that is safety is proved all the same: that
nobody waits for a thing that will not come. `NoLostWakeup` is that part of
`Delivered` and `QuitStopsLoop`, `LeftOutGrows` with `CapacityIsBounded` of
`NoStarvation`, `HeardOrLeaving` of `ClosedIsDestroyed`, `MainIsAnswered` of
`PoolStarts` and `DestroyEnds`, `MapIsServed` of `ClosedIsReleased`; what is left
to TLC is that a thread which can go on does. `ClientsAreAccepted` and
`ServerEnds` have no such part proved yet, and rest on their runs alone.

## 5. Not modelled

What the functors of `send` and `shutdown` of a foreign thread do through their raw
`this` when the connection is gone (`TcpConnection` takes the object as given,
`TcpServer` lets them do nothing), and the c_str() beside it except as bytes that may
be anything. `handleWrite`, which is never called; that the FIN overtakes what is
buffered is the consequence of the finding of `TcpConnectionFlush`, and no property
is about it. Two pairs of accesses are one step where no property tells the
difference: test and store of `state_` by a user's `shutdown` in `TcpServer`
(`TcpConnection` has them apart), and in `EventLoopThreadPool` the destructor's
second read of `loop_` with the store to `quit_`.
Channels that user code makes itself. A user who destroys the server elsewhere
than on the base loop's thread, or while its loop runs. SIGPIPE, which nothing in
the library ignores: the process is gone. Numbers that wrap (`nextConnId_`,
`started_`), names, and the callbacks' own code. Conversions, wrappers of system
calls, time and the log (InetAddress, Timestamp, CurrentThread, logger,
DefaultPoller, the options of Socket), which hold no state that control depends
on. PROJECT.json lists the hazards that no property covers.

## 6. Plan

Done, in this order: `TaskQueue` and `EventLoop`; `Channel` and `Poller`; `Buffer`;
`TcpConnection`; `EventLoopThreadPool`; `Connections` and `TcpServer`; each with its
runs and proofs; then `LoopPool` between the pool and the server, and the safety
parts of the liveness properties with their proofs.

What is left:

1. `TcpConnection` over `EventLoop` (several loops' queues) in place of the FIFO
   that stands for it, on a small instance.
2. The lifetime of a connection seen by the functors of `send` and `shutdown`: the
   two modules `TcpConnection` and `TcpServer` as one, for one connection.
3. The disagreements of section 3 that have no run yet, in place of or beside
   the present ones.
4. Proofs: the part of `ServerEnds` that is safety (a loop the destructor joins has
   been told to quit and will wake), and what `LoopPool` and `Connections` themselves
   imply for their users, so that it need be proved once.
