------------------------------ MODULE TcpServer ------------------------------
(***************************************************************************)
(* A TcpServer with its Acceptor, the base loop, the loops of its pool and *)
(* several connections, from start() to the end of ~TcpServer, and who     *)
(* holds a TcpConnection all that time.                                    *)
(*                                                                         *)
(* A loop is what EventLoop is shown to be: a queue, from which batches    *)
(* are taken after the handlers of an iteration.  Handlers and functors    *)
(* run one at a time on the loop's thread and are one action each.  The    *)
(* data of a connection is the business of TcpConnection; here it is up,   *)
(* or closed by the peer, the user or the server.  Of send() on another    *)
(* thread there is what can change that: the functor that arms the channel *)
(* again when it comes too late.                                           *)
(*                                                                         *)
(* A TcpConnection, with its Socket and its Channel, exists as long as a   *)
(* shared_ptr to it does: in connctions_, in a functor, or kept by a user. *)
(***************************************************************************)
EXTENDS Channel, Naturals, Sequences, FiniteSets

CONSTANTS
  Others,      \* threads beside the base loop's that call start()
  MaxThreads,  \* bound: the most that setThreadNum asks for
  MaxConns,    \* bound: connections accepted
  MaxSends,    \* bound: calls of send() on threads other than the connection's
  MaxFds       \* bound: descriptors the process has for connections

Base == 0              \* the base loop, and its thread
Loop == 0..MaxThreads  \* loop i > 0 is that of the pool's thread i
Conn == 1..MaxConns    \* the number in a connection's name
Acceptor == 0          \* acceptChannel_ among the channels of the base loop
Starter == Others \cup {Base}

ASSUME TcpServerAssumption ==
  /\ MaxThreads \in Nat /\ MaxConns \in Nat /\ MaxSends \in Nat /\ MaxFds \in Nat \ {0}
  /\ Others \cap Loop = {}

VARIABLES
  numThreads,  \* numThreads_ of the pool
  maxFds,      \* descriptors the process has for connections, RLIMIT_NOFILE
  starter,     \* "pool": the caller of start() is in it, past the test of started_
  started,     \* started_ is not 0
  loops,       \* loops_ of the pool
  sent,        \* calls of send() on other threads so far
  next,        \* next_ of the pool
  listening,   \* listenning_, and acceptChannel_ in the base loop's poller
  waiting,     \* clients in the backlog of the listening socket
  map,         \* connctions_
  conns,       \* the TcpConnections made, by number; nextConnId_ is one more
  held,        \* connections of which a user keeps a shared_ptr
  loop,        \* the EventLoops
  server,      \* "alive", then ~TcpServer: "connections", "quit" or "join" the
               \* thread cur; "gone"
  cur

start == <<numThreads, maxFds, starter, started, loops, sent>>
accept == <<next, listening, waiting>>
vars == <<start, accept, map, conns, held, loop, server, cur>>

\* pc: "none", "enter" (loop() is about to be called), "test" (quit_ has been
\* reset), "poll", "handle", "run" the parts of loop(), "exited" (loop() has
\* returned), "gone".
\* kept: connections whose functors of the present batch have been executed.
NewLoop == [pc |-> "none", quit |-> FALSE, pending |-> <<>>, batch |-> <<>>,
            kept |-> {}, active |-> {}]

LoopPC == {"none", "enter", "test", "poll", "handle", "run", "exited", "gone"}

Functor(op, c) == [op |-> op, conn |-> c]
Functors ==
  [op : {"connectEstablished", "connectDestroyed", "removeConnectionInLoop", "sendInLoop"},
   conn : Conn]
    \cup {Functor("listen", 0)}

TypeOK ==
  /\ numThreads \in 0..MaxThreads /\ maxFds \in 1..MaxFds
  /\ starter \in [Starter -> {"idle", "pool"}]
  /\ started \in BOOLEAN
  /\ loops \in Seq(1..MaxThreads) /\ next \in 0..Len(loops) /\ (loops # <<>> => next < Len(loops))
  /\ sent \in 0..MaxSends
  /\ listening \in BOOLEAN /\ waiting \in 0..MaxConns
  /\ map \subseteq Conn /\ held \subseteq Conn
  /\ conns \in Seq([state : {"kDisconnected", "kConnecting", "kConnected", "kDisconnecting"},
                    loop : Loop, chan : Channel, up : 0..1, down : Nat, fin : BOOLEAN,
                    calls : Nat, late : BOOLEAN])
  /\ loop \in [Loop -> [pc : LoopPC, quit : BOOLEAN, pending : Seq(Functors),
                        batch : Seq(Functors), kept : SUBSET Conn,
                        active : SUBSET (Conn \cup {Acceptor})]]
  /\ server \in {"alive", "connections", "quit", "join", "gone"}
  /\ cur \in 1..(MaxThreads + 1)

Init ==
  /\ numThreads \in 0..MaxThreads /\ maxFds \in 1..MaxFds
  /\ starter = [t \in Starter |-> "idle"]
  /\ started = FALSE /\ loops = <<>> /\ next = 0 /\ sent = 0
  /\ listening = FALSE /\ waiting = 0
  /\ map = {} /\ conns = <<>> /\ held = {}
  /\ loop = [l \in Loop |-> IF l = Base THEN [NewLoop EXCEPT !.pc = "enter"] ELSE NewLoop]
  /\ server = "alive" /\ cur = 1

------------------------------------------------------------------------------
\* Who holds a TcpConnection.

\* The shared_ptr a functor has; that of send() has the raw this.
Holds(f) == IF f.op = "sendInLoop" THEN {} ELSE {f.conn} \ {0}

Carries(fs, c) == \E i \in DOMAIN fs : c \in Holds(fs[i])

Exists(c) ==
  /\ c \in DOMAIN conns
  /\ \/ c \in map \/ c \in held
     \/ \E l \in Loop :
          c \in loop[l].kept \/ Carries(loop[l].pending, c) \/ Carries(loop[l].batch, c)

\* ~Socket closes the descriptor.
OpenFds == {c \in DOMAIN conns : Exists(c)}

\* accept() fails with EMFILE.
OutOfFds == Cardinality(OpenFds) >= maxFds

Queue(lp, l, f) == [lp EXCEPT ![l].pending = Append(@, f)]

------------------------------------------------------------------------------
\* TcpServer::start.

\* start() without the test of started_.
Mut_StartCounts(t) ==
  /\ starter[t] = "idle" /\ server = "alive"
  /\ t = Base => loop[Base].pc = "enter"
  /\ started' = TRUE
  /\ starter' = [starter EXCEPT ![t] = "pool"]
  /\ UNCHANGED <<numThreads, maxFds, loops, sent, accept, map, conns, held, loop, server, cur>>

\* started_++ == 0 is one atomic step; a later call of start() only counts.  The
\* base loop's thread calls start() before it calls loop().
StartCounts(t) ==
  /\ starter[t] = "idle" /\ server = "alive"
  /\ t = Base => loop[Base].pc = "enter"
  /\ ~started /\ started' = TRUE
  /\ starter' = [starter EXCEPT ![t] = "pool"]
  /\ UNCHANGED <<numThreads, maxFds, loops, sent, accept, map, conns, held, loop, server, cur>>

\* EventLoopThreadPool::start, one thread: startLoop returns when the thread is
\* about to enter its loop.
StartThread(t) ==
  LET i == Len(loops) + 1
  IN /\ starter[t] = "pool"
     /\ i <= numThreads
     /\ loops' = Append(loops, i)
     /\ loop' = [loop EXCEPT ![i].pc = "enter"]
     /\ UNCHANGED <<numThreads, maxFds, starter, started, sent, accept, map, conns, held, server, cur>>

\* runInLoop(&Acceptor::listen).
StartListening(t) ==
  /\ starter[t] = "pool"
  /\ Len(loops) >= numThreads
  /\ starter' = [starter EXCEPT ![t] = "idle"]
  /\ IF t = Base
     THEN listening' = TRUE /\ UNCHANGED loop
     ELSE loop' = Queue(loop, Base, Functor("listen", 0)) /\ UNCHANGED listening
  /\ UNCHANGED <<numThreads, maxFds, started, loops, sent, next, waiting, map, conns, held, server, cur>>

ListenFunctor ==
  /\ listening' = TRUE
  /\ UNCHANGED <<next, waiting, map, conns, held>>

------------------------------------------------------------------------------
\* What becomes of a connection: values of conns.

\* connectEstablished.
Established(cs, c) ==
  [cs EXCEPT ![c].state = "kConnected", ![c].chan = Enable(@, "read"), ![c].up = @ + 1]

\* handleClose up to the close callback.
Closed(cs, c) ==
  [cs EXCEPT ![c].state = "kDisconnected", ![c].chan = DisableAll(@), ![c].down = @ + 1]

\* connectDestroyed looks for kDisconnecting.
Mut_Destroyed(cs, c) ==
  IF cs[c].state = "kDisconnecting"
  THEN [Closed(cs, c) EXCEPT ![c].chan = RemoveChannel(@)]
  ELSE [cs EXCEPT ![c].chan = RemoveChannel(@)]

\* connectDestroyed.
Destroyed(cs, c) ==
  IF cs[c].state = "kConnected"
  THEN [Closed(cs, c) EXCEPT ![c].chan = RemoveChannel(@)]
  ELSE [cs EXCEPT ![c].chan = RemoveChannel(@)]

\* The connection is up, or on its way down with its channel still in the poller.
Watched(r) == r.chan.registered /\ "read" \in r.chan.interest

\* sendInLoop with data left over: line 144.  It is late if there was no
\* interest left to arm, after handleClose or connectDestroyed.
Armed(cs, c) ==
  [cs EXCEPT ![c].chan = Enable(@, "read"), ![c].late = @ \/ ~Watched(cs[c])]

\* The user, told that a connection is up, may keep its shared_ptr.
UserMayKeep(c) == held' = held \/ held' = held \cup {c}

------------------------------------------------------------------------------
\* Acceptor::handleRead and TcpServer::newConnection, on the base loop.

\* next_ is compared with the size before it is incremented.
Mut_Following(n) == IF n >= Len(loops) THEN 0 ELSE n + 1

Following(n) == IF n + 1 >= Len(loops) THEN 0 ELSE n + 1

NewConnection(l) ==
  [state |-> "kConnecting", loop |-> l, chan |-> NewChannel, up |-> 0, down |-> 0,
   fin |-> FALSE, calls |-> 0, late |-> FALSE]

\* The connection is not put into connctions_.
Mut_Accepted(lp) ==
  LET c == Len(conns) + 1
      l == IF loops = <<>> THEN Base ELSE loops[next + 1]
      cs == Append(conns, NewConnection(l))
  IN /\ next' = IF loops = <<>> THEN next ELSE Following(next)
     /\ IF l = Base
        THEN conns' = Established(cs, c) /\ UserMayKeep(c) /\ loop' = lp
        ELSE /\ conns' = cs /\ UNCHANGED held
             /\ loop' = Queue(lp, l, Functor("connectEstablished", c))
     /\ UNCHANGED map

\* newConnection, with getNextLoop; connectEstablished is called at once if the
\* connection's loop is the base loop.  lp is loop, with the event taken.
Accepted(lp) ==
  LET c == Len(conns) + 1
      l == IF loops = <<>> THEN Base ELSE loops[next + 1]
      cs == Append(conns, NewConnection(l))
  IN /\ next' = IF loops = <<>> THEN next ELSE Following(next)
     /\ map' = map \cup {c}
     /\ IF l = Base
        THEN conns' = Established(cs, c) /\ UserMayKeep(c) /\ loop' = lp
        ELSE /\ conns' = cs /\ UNCHANGED held
             /\ loop' = Queue(lp, l, Functor("connectEstablished", c))

\* The Acceptor stops listening when there is no descriptor left.
Mut_HandleAccept(lp) ==
  IF OutOfFds
  THEN listening' = FALSE /\ loop' = lp /\ UNCHANGED <<next, waiting, map, conns, held>>
  ELSE waiting' = waiting - 1 /\ UNCHANGED listening /\ Accepted(lp)

\* Acceptor::handleRead: one accept() for an event.  With EMFILE the client
\* stays in the backlog.  A client that has already reset is accepted like any
\* other.
HandleAccept(lp) ==
  IF OutOfFds
  THEN loop' = lp /\ UNCHANGED <<accept, map, conns, held>>
  ELSE waiting' = waiting - 1 /\ UNCHANGED listening /\ Accepted(lp)

------------------------------------------------------------------------------
\* The close of a connection and its removal.

\* Nothing is taken from connctions_.
Mut_Erased(c) == map

Erased(c) == map \ {c}

\* handleRead with n = 0, or a hangup, on the connection's loop: handleClose,
\* then removeConnection.  On the base loop removeConnectionInLoop is called at
\* once.
HandleClose(c, lp) ==
  /\ conns' = Closed(conns, c)
  /\ IF conns[c].loop = Base
     THEN /\ map' = Erased(c)
          /\ loop' = Queue(lp, Base, Functor("connectDestroyed", c))
     ELSE /\ loop' = Queue(lp, Base, Functor("removeConnectionInLoop", c))
          /\ UNCHANGED map
  /\ UNCHANGED <<accept, held>>

------------------------------------------------------------------------------
\* EventLoop::loop, for the base loop and the loops of the pool.

\* The channels of loop l that epoll reports.
Reportable(l) ==
  {c \in DOMAIN conns :
      /\ Exists(c) /\ conns[c].loop = l
      /\ conns[c].chan.registered /\ "read" \in conns[c].chan.interest /\ conns[c].fin}
    \cup {a \in {Acceptor} : l = Base /\ listening /\ waiting > 0}

Quiet == UNCHANGED <<start, accept, map, conns, held, server, cur>>

\* loop() forgets a quit that came before.  The base loop's thread has
\* returned from start(), if it is in it.
EnterLoop(l) ==
  /\ loop[l].pc = "enter"
  /\ l = Base => starter[Base] # "pool"
  /\ loop' = [loop EXCEPT ![l].pc = "test", ![l].quit = FALSE]
  /\ Quiet

\* The test of quit_ and, if it holds, the end of loop().
AfterTest(l) == IF loop[l].quit THEN "exited" ELSE "poll"

TestQuit(l) ==
  /\ loop[l].pc = "test"
  /\ loop' = [loop EXCEPT ![l].pc = AfterTest(l)]
  /\ Quiet

\* epoll_wait does not return for a quit.
Mut_PollReturns(l) ==
  /\ loop[l].pc = "poll"
  /\ Reportable(l) # {} \/ loop[l].pending # <<>>
  /\ loop' = [loop EXCEPT ![l].pc = "handle", ![l].active = Reportable(l)]
  /\ Quiet

\* epoll_wait returns for an event, or for the wakeup that comes with a functor
\* or with quit().
PollReturns(l) ==
  /\ loop[l].pc = "poll"
  /\ Reportable(l) # {} \/ loop[l].pending # <<>> \/ loop[l].quit
  /\ loop' = [loop EXCEPT ![l].pc = "handle", ![l].active = Reportable(l)]
  /\ Quiet

PollTimeout(l) ==
  /\ loop[l].pc = "poll" /\ Reportable(l) = {}
  /\ loop' = [loop EXCEPT ![l].pc = "handle"]
  /\ Quiet

\* Channel::handleEvent of a channel in activeChannels_.  Of a connection, tie_
\* is locked first, which keeps it for the time of the handler.  If the
\* connection is gone its Channel is too, and the lock is undefined in C++: here
\* it fails.
HandleEvent(l) ==
  /\ loop[l].pc = "handle"
  /\ \E c \in loop[l].active :
       LET lp == [loop EXCEPT ![l].active = @ \ {c}]
       IN IF c = Acceptor THEN HandleAccept(lp)
          ELSE IF Exists(c) THEN HandleClose(c, lp)
          ELSE loop' = lp /\ UNCHANGED <<accept, map, conns, held>>
  /\ UNCHANGED <<start, server, cur>>

\* doPendingFunctors: the queue is swapped for an empty vector.  If it is empty
\* itself, the test of quit_ follows.
DoPendingFunctors(l) ==
  /\ loop[l].pc = "handle" /\ loop[l].active = {}
  /\ loop' = [loop EXCEPT ![l].pc = IF loop[l].pending = <<>> THEN AfterTest(l) ELSE "run",
                          ![l].batch = loop[l].pending, ![l].pending = <<>>]
  /\ Quiet

\* What functor f does; lp is loop, with f taken.  sendInLoop arms the channel if
\* data is left over, in whatever state the connection is: the test of state_
\* does not return.  On a connection that is gone it is undefined in C++; of what
\* it may do, here it does nothing.
Execute(f, lp) ==
  \/ /\ f.op = "listen"
     /\ ListenFunctor
     /\ loop' = lp
  \/ /\ f.op = "connectEstablished"
     /\ conns' = Established(conns, f.conn)
     /\ UserMayKeep(f.conn)
     /\ loop' = lp
     /\ UNCHANGED <<accept, map>>
  \/ /\ f.op = "connectDestroyed"
     /\ conns' = Destroyed(conns, f.conn)
     /\ loop' = lp
     /\ UNCHANGED <<accept, map, held>>
  \/ /\ f.op = "removeConnectionInLoop"
     /\ map' = Erased(f.conn)
     /\ loop' = Queue(lp, conns[f.conn].loop, Functor("connectDestroyed", f.conn))
     /\ UNCHANGED <<accept, conns, held>>
  \/ /\ f.op = "sendInLoop"
     /\ conns' = conns \/ (Exists(f.conn) /\ conns' = Armed(conns, f.conn))
     /\ loop' = lp
     /\ UNCHANGED <<accept, map, held>>

\* One functor of the batch is executed; it holds its connection until the
\* vector goes.
RunFunctor(l) ==
  /\ loop[l].pc = "run" /\ loop[l].batch # <<>>
  /\ LET f == Head(loop[l].batch)
     IN  Execute(f, [loop EXCEPT ![l].batch = Tail(@), ![l].kept = @ \cup Holds(f)])
  /\ UNCHANGED <<start, server, cur>>

\* The vector goes, and quit_ is tested.
FunctorsDone(l) ==
  /\ loop[l].pc = "run" /\ loop[l].batch = <<>>
  /\ loop' = [loop EXCEPT ![l].pc = AfterTest(l), ![l].kept = {}]
  /\ Quiet

\* ~EventLoop drops the functors it still has.  A loop of the pool is a local
\* of threadFunc; the base loop outlives the server.
DestroyLoop(l) ==
  /\ loop[l].pc = "exited"
  /\ l = Base => server = "gone"
  /\ loop' = [loop EXCEPT ![l].pc = "gone", ![l].pending = <<>>]
  /\ Quiet

------------------------------------------------------------------------------
\* ~TcpServer, on the base loop's thread: its loop has been left, and so has
\* every start().

DestroyServer ==
  /\ server = "alive"
  /\ loop[Base].pc = "exited"
  /\ \A t \in Starter : starter[t] # "pool"
  /\ server' = "connections"
  /\ UNCHANGED <<start, accept, map, conns, held, loop, cur>>

\* connectDestroyed is called on the destructor's thread.
Mut_DropConnection ==
  /\ server = "connections"
  /\ \E c \in map :
       /\ map' = map \ {c}
       /\ conns' = Destroyed(conns, c)
  /\ UNCHANGED <<start, accept, held, loop, server, cur>>

\* The body, for one connection: the map's order is any order.
DropConnection ==
  /\ server = "connections"
  /\ \E c \in map :
       /\ map' = map \ {c}
       /\ IF conns[c].loop = Base
          THEN conns' = Destroyed(conns, c) /\ UNCHANGED loop
          ELSE /\ loop' = Queue(loop, conns[c].loop, Functor("connectDestroyed", c))
               /\ UNCHANGED conns
  /\ UNCHANGED <<start, accept, held, server, cur>>

\* The members go, threadPool_ and acceptor_ last.
DropThreads ==
  /\ server = "connections" /\ map = {}
  /\ server' = "quit"
  /\ UNCHANGED <<start, accept, map, conns, held, loop, cur>>

\* ~EventLoopThread of the thread cur: quit(), then join().
QuitThread ==
  /\ server = "quit" /\ cur <= Len(loops)
  /\ server' = "join"
  /\ loop' = [loop EXCEPT ![loops[cur]].quit = TRUE]
  /\ UNCHANGED <<start, accept, map, conns, held, cur>>

\* The destructor does not wait for the thread.
Mut_JoinThread ==
  /\ server = "join"
  /\ server' = "quit" /\ cur' = cur + 1
  /\ UNCHANGED <<start, accept, map, conns, held, loop>>

JoinThread ==
  /\ server = "join" /\ loop[loops[cur]].pc = "gone"
  /\ server' = "quit" /\ cur' = cur + 1
  /\ UNCHANGED <<start, accept, map, conns, held, loop>>

\* ~Acceptor removes acceptChannel_ and closes the listening socket.
ServerDestroyed ==
  /\ server = "quit" /\ cur > Len(loops)
  /\ server' = "gone"
  /\ listening' = FALSE /\ waiting' = 0
  /\ UNCHANGED <<start, next, map, conns, held, loop, cur>>

------------------------------------------------------------------------------
\* Users, clients and peers.

UserReleases(c) ==
  /\ c \in held /\ conns[c].calls = 0
  /\ held' = held \ {c}
  /\ UNCHANGED <<start, accept, map, conns, loop, server, cur>>

\* shutdown() by a user that keeps the connection, up to setSate: what follows
\* is the business of TcpConnection.
UserShutsDown(c) ==
  /\ c \in held
  /\ conns[c].state = "kConnected"
  /\ conns' = [conns EXCEPT ![c].state = "kDisconnecting"]
  /\ UNCHANGED <<start, accept, map, held, loop, server, cur>>

\* send() on another thread: state_ is tested, then the functor is queued.  What
\* is queued to a loop that has been destroyed is lost: undefined in C++, where
\* it may do anything.
UserSends(c) ==
  /\ c \in held
  /\ conns[c].state = "kConnected"
  /\ sent < MaxSends /\ sent' = sent + 1
  /\ conns' = [conns EXCEPT ![c].calls = @ + 1]
  /\ UNCHANGED <<numThreads, maxFds, starter, started, loops, accept, map, held, loop, server, cur>>

SendQueues(c) ==
  /\ c \in DOMAIN conns /\ conns[c].calls > 0
  /\ conns' = [conns EXCEPT ![c].calls = @ - 1]
  /\ IF loop[conns[c].loop].pc = "gone" THEN UNCHANGED loop
     ELSE loop' = Queue(loop, conns[c].loop, Functor("sendInLoop", c))
  /\ UNCHANGED <<start, accept, map, held, server, cur>>

\* The program ends the base loop, from any thread.
QuitBase ==
  /\ loop[Base].pc \notin {"exited", "gone"} /\ ~loop[Base].quit
  /\ loop' = [loop EXCEPT ![Base].quit = TRUE]
  /\ Quiet

ClientConnects ==
  /\ listening
  /\ Len(conns) + waiting < MaxConns
  /\ waiting' = waiting + 1
  /\ UNCHANGED <<start, next, listening, map, conns, held, loop, server, cur>>

PeerCloses(c) ==
  /\ c \in DOMAIN conns /\ Exists(c) /\ ~conns[c].fin
  /\ conns' = [conns EXCEPT ![c].fin = TRUE]
  /\ UNCHANGED <<start, accept, map, held, loop, server, cur>>

------------------------------------------------------------------------------
StartStep(t) == StartThread(t) \/ StartListening(t)

LoopStep(l) ==
  \/ EnterLoop(l) \/ TestQuit(l) \/ PollReturns(l) \/ HandleEvent(l)
  \/ DoPendingFunctors(l) \/ RunFunctor(l) \/ FunctorsDone(l) \/ DestroyLoop(l)

DestructorStep ==
  \/ DropConnection \/ DropThreads \/ QuitThread \/ JoinThread \/ ServerDestroyed

UserStep ==
  \/ \E t \in Starter : StartCounts(t)
  \/ \E c \in Conn : UserReleases(c) \/ UserShutsDown(c) \/ UserSends(c) \/ SendQueues(c)
  \/ QuitBase \/ DestroyServer

Next ==
  \/ \E t \in Starter : StartStep(t)
  \/ \E l \in Loop : LoopStep(l) \/ PollTimeout(l)
  \/ DestructorStep
  \/ UserStep
  \/ ClientConnects \/ \E c \in Conn : PeerCloses(c)

Spec == Init /\ [][Next]_vars

\* Threads run: a start() that has begun, every loop, the destructor.  Users,
\* clients and peers need do nothing, and epoll_wait need not time out.
FairSpec ==
  /\ Spec
  /\ WF_vars(\E t \in Starter : StartStep(t))
  /\ \A l \in Loop : WF_vars(LoopStep(l))
  /\ WF_vars(DestructorStep)

------------------------------------------------------------------------------
\* Properties.

\* A send() has come too late for the connection: its channel is back in the
\* poller, for a second close, and nobody need hold it (the run
\* TcpConnectionReturns).
Late(c) == c \in DOMAIN conns /\ conns[c].late

Phase(c) ==
  CASE c \notin DOMAIN conns -> "none"
    [] c \in DOMAIN conns /\ ~Exists(c) -> "gone"
    [] OTHER -> CASE conns[c].down > 0 -> "down"
                  [] conns[c].up = 1 /\ conns[c].down = 0 -> "up"
                  [] OTHER -> "accepted"

C == INSTANCE Connections
       WITH phase <- [c \in Conn |-> Phase(c)], serving <- server = "alive",
            told <- [c \in Conn |-> IF c \in DOMAIN conns THEN conns[c].down ELSE 0],
            late <- {c \in Conn : Late(c)}

\* The server keeps what Connections promises: whatever the order of closes,
\* removals, user's releases and the destructor, every connection comes up once,
\* goes down at most once unless a send() was late for it, and while the server
\* serves none is lost before.
ImplementsConnections == C!Spec

\* The channels that a poller has and those it has just reported are those of
\* connections that exist: epoll never hands out a dangling Channel*, although
\* the last shared_ptr may be dropped by any thread.  A late send() breaks this:
\* the channel it puts back stays when a user drops the last shared_ptr.
EventsHaveTheirObject ==
  /\ \A l \in Loop, c \in Conn : c \in loop[l].active => Exists(c) \/ Late(c)
  /\ \A c \in DOMAIN conns :
       conns[c].chan.registered /\ loop[conns[c].loop].pc \notin {"exited", "gone"}
         => Exists(c) \/ Late(c)

\* The close callback and removeConnectionInLoop have the raw this of the
\* server: when the server is gone no loop is left that could call them.
ServerOutlivesLoops ==
  server = "gone" => \A l \in Loop : loop[l].pc \in {"none", "exited", "gone"}

\* getNextLoop and start() use loops_ without a lock: while the base loop
\* accepts, no thread is in start(), however many have called it.
PoolIsFixed == listening => \A t \in Starter : starter[t] # "pool"

InQueue(l, f) ==
  \/ \E i \in DOMAIN loop[l].batch : loop[l].batch[i] = f
  \/ \E i \in DOMAIN loop[l].pending : loop[l].pending[i] = f

\* A connection in connctions_ is not forgotten there: its loop has yet to
\* establish it, or its poller listens to it, or the base loop has yet to run
\* removeConnectionInLoop.
MapIsServed ==
  \A c \in map :
    \/ InQueue(conns[c].loop, Functor("connectEstablished", c))
    \/ Watched(conns[c])
    \/ InQueue(Base, Functor("removeConnectionInLoop", c))

\* No functor is queued to a loop twice: a connection is established, removed
\* from connctions_ and destroyed once each, though its loop, the base loop and
\* the destructor can all begin it.  Calls of send() are queued as they come, and
\* after a late one the second close is followed by a second removal.
QueuedOnce ==
  \A l \in Loop : LET q == loop[l].batch \o loop[l].pending
                  IN  \A i, j \in 1..Len(q) :
                        q[i] = q[j] /\ q[i].op # "sendInLoop" /\ ~Late(q[i].conn) => i = j

\* A connection that came up goes without the user being told only if a user
\* shut it down (connectDestroyed looks for kConnected alone) or its loop was
\* left before it could run connectDestroyed.
GoneWasDown ==
  \A c \in DOMAIN conns :
    ~Exists(c) /\ conns[c].up > conns[c].down
      => \/ conns[c].state = "kDisconnecting"
         \/ loop[conns[c].loop].pc \in {"exited", "gone"}

\* What TcpServer has of its pool is what the pool promises.
LP == INSTANCE LoopPool
        WITH size <- numThreads, begun <- Len(loops), open <- server = "alive",
             asked <- {i \in 1..MaxThreads : i < cur \/ (i = cur /\ server = "join")},
             left <- {i \in 1..MaxThreads : loop[i].pc \in {"exited", "gone"}}

ImplementsLoopPool == LP!Spec

\* A connection that its peer has closed is released, with its descriptor, when
\* no user keeps it: the close goes to the base loop and back.
Left(l) == loop[l].quit \/ loop[l].pc \in {"exited", "gone"}

ClosedIsReleased ==
  \A c \in Conn :
    (c \in DOMAIN conns /\ conns[c].fin)
      ~> (~Exists(c) \/ c \in held \/ Left(Base) \/ Left(conns[c].loop))

\* A client that waits is accepted, unless the program quits or there are no
\* descriptors: once one is free again, the client's turn comes.
ClientsAreAccepted ==
  (waiting > 0)
    ~> (waiting = 0 \/ OutOfFds \/ Left(Base) \/ server # "alive")

\* ~TcpServer ends, unless it has called quit() on a loop that had yet to be
\* entered.
ServerEnds ==
  (server # "alive") ~> (server = "gone" \/ (server = "join" /\ ~loop[loops[cur]].quit))
==============================================================================
