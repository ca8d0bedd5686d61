---------------------------- MODULE TcpConnection ----------------------------
(***************************************************************************)
(* One TcpConnection: its loop's thread, threads that call send() and      *)
(* shutdown() on it from outside, the TcpServer that owns it, the peer.    *)
(*                                                                         *)
(* Handlers and functors run one at a time on the loop's thread and are    *)
(* one action each; what other threads do between them is interleaved at   *)
(* each access to state_ and to the loop's queue.  That the loop executes  *)
(* queued functors once and in order is what TaskQueue says of EventLoop.  *)
(*                                                                         *)
(* A message is MsgLen bytes, a byte is <<sender, message, position>>.     *)
(***************************************************************************)
EXTENDS Channel, Naturals, Integers, Sequences, SequencesExt

CONSTANTS
  Owner,      \* the thread of the loop
  Senders,    \* other threads that call send()
  Closers,    \* other threads that call shutdown()
  HighWater,  \* highWaterMark_
  MsgLen,
  MaxSends,   \* bound: send() calls of all threads
  MaxIn       \* bound: bytes the peer sends

ASSUME TcpConnectionAssumption ==
  /\ Owner \notin Senders
  /\ HighWater \in Nat /\ MsgLen \in Nat \ {0} /\ MaxSends \in Nat /\ MaxIn \in Nat

VARIABLES
  state,     \* state_
  chan,      \* channel_ and what the poller and epoll hold of it
  outBuf,    \* outputBuffer_
  pending,   \* functors of this connection in the loop's queue
  doing,     \* what each other thread is in the middle of
  sent,      \* send() calls of each thread
  wire,      \* bytes the kernel has accepted
  eof,       \* shutdownWrite() has been called
  in,        \* bytes of the peer: [came, unread]
  fin,       \* the peer has closed or reset the connection
  err,       \* the socket has an error nobody has read
  inMap,     \* connctions_ of the server has the connection
  closing,   \* removeConnectionInLoop calls the base loop has yet to make
  serverGone,\* the body of ~TcpServer has run
  stopped,   \* the loop has been left
  destroyed, \* connectDestroyed() has run
  up, down,  \* history: calls of the connection callback
  late       \* history: "message": a message callback before "up" or after
             \* "down"; "send": a sendInLoop functor run after the close or destruction

user == <<doing, sent>>
net == <<in, fin, err>>
server == <<inMap, closing, serverGone, stopped>>
log == <<destroyed, up, down, late>>
vars == <<state, chan, outBuf, pending, user, wire, eof, net, server, log>>

Threads == Senders \cup {Owner}
Bytes == Threads \X Nat \X Nat
Message(t, k) == [i \in 1..MsgLen |-> <<t, k, i>>]
Garbage == <<Owner, 0, 0>>

Functor(op) == [op |-> op, data |-> <<>>]
Send(data) == [op |-> "sendInLoop", data |-> data]
Ops == {"connectEstablished", "connectDestroyed", "sendInLoop",
        "shutdownInLoop", "writeComplete", "highWater"}

States == {"kDisconnected", "kConnecting", "kConnected", "kDisconnecting"}

TypeOK ==
  /\ state \in States
  /\ chan \in Channel
  /\ outBuf \in Seq(Bytes) /\ wire \in Seq(Bytes)
  /\ pending \in Seq([op : Ops, data : Seq(Bytes)])
  /\ doing \in [Senders \cup Closers -> {"idle", "send", "shutdown", "queue"}]
  /\ sent \in [Threads -> Nat]
  /\ in \in [came : 0..MaxIn, unread : 0..MaxIn]
  /\ eof \in BOOLEAN /\ fin \in BOOLEAN /\ err \in BOOLEAN
  /\ inMap \in BOOLEAN /\ serverGone \in BOOLEAN /\ stopped \in BOOLEAN
  /\ closing \in Nat
  /\ destroyed \in BOOLEAN /\ late \in SUBSET {"message", "send"}
  /\ up \in Nat /\ down \in Nat

\* TcpServer::newConnection has made the connection and has queued
\* connectEstablished to its loop.
Init ==
  /\ state = "kConnecting"
  /\ chan = NewChannel
  /\ outBuf = <<>> /\ wire = <<>>
  /\ pending = <<Functor("connectEstablished")>>
  /\ doing = [t \in Senders \cup Closers |-> "idle"]
  /\ sent = [t \in Threads |-> 0]
  /\ in = [came |-> 0, unread |-> 0]
  /\ eof = FALSE /\ fin = FALSE /\ err = FALSE
  /\ inMap = TRUE /\ closing = 0 /\ serverGone = FALSE /\ stopped = FALSE
  /\ destroyed = FALSE /\ up = 0 /\ down = 0 /\ late = {}

------------------------------------------------------------------------------
\* Sending, on the thread of the loop.

\* What write() may do with data: accept some of it, accept none (EWOULDBLOCK,
\* n = -1), or fail with EPIPE or ECONNRESET once either side is closed.
WriteResults(data) ==
  LET fails == {[n |-> -1, fault |-> TRUE]}
  IN  IF eof THEN fails
      ELSE {[n |-> k, fault |-> FALSE] : k \in -1..Len(data)}
             \cup IF fin THEN fails ELSE {}

\* Line 141: data+nwrote for the remaining bytes.  Line 117 declares another
\* nwrote, so that after EWOULDBLOCK this one is still -1.
Remaining(data, n) ==
  IF n = -1 THEN <<Garbage>> \o SubSeq(data, 1, Len(data) - 1)
  ELSE SubSeq(data, n + 1, Len(data))

\* Data is written past what waits in outputBuffer_.
Mut_SendInLoop(data, rest) ==
  \E r \in WriteResults(data) :
    LET buffered == IF r.fault THEN <<>> ELSE Remaining(data, r.n)
    IN  /\ wire' = wire \o SubSeq(data, 1, r.n)
        /\ outBuf' = outBuf \o buffered
        /\ chan' = IF buffered # <<>> THEN Enable(chan, "read") ELSE chan
        /\ pending' = rest

\* sendInLoop, up to the functors it queues behind rest.  In kDisconnected it
\* logs an error and goes on.  Line 144 arms the readable event, which is the
\* one its comment does not name.
SendInLoop(data, rest) ==
  LET direct == ~IsWriting(chan) /\ outBuf = <<>>
  IN  \E r \in IF direct THEN WriteResults(data) ELSE {[n |-> 0, fault |-> FALSE]} :
        LET buffered == IF r.fault THEN <<>> ELSE Remaining(data, r.n)
            isHigh == /\ buffered # <<>> /\ Len(outBuf) < HighWater
                      /\ Len(outBuf) + Len(buffered) >= HighWater
        IN  /\ wire' = wire \o SubSeq(data, 1, r.n)
            /\ outBuf' = outBuf \o buffered
            /\ chan' = IF buffered # <<>> /\ ~IsWriting(chan)
                       THEN Enable(chan, "read") ELSE chan
            /\ pending' =
                 rest \o (IF direct /\ r.n = Len(data)
                          THEN <<Functor("writeComplete")>> ELSE <<>>)
                      \o (IF isHigh THEN <<Functor("highWater")>> ELSE <<>>)

\* shutdownInLoop.  IsWriting is never true, so that the FIN does not wait for
\* what is in outputBuffer_.
ShutdownInLoop == eof' = (eof \/ ~IsWriting(chan))

------------------------------------------------------------------------------
\* Functors.

Runs(op) == pending # <<>> /\ Head(pending).op = op

ConnectEstablished ==
  /\ Runs("connectEstablished")
  /\ pending' = Tail(pending)
  /\ state' = "kConnected"
  /\ chan' = Enable(chan, "read")
  /\ up' = up + 1
  /\ UNCHANGED <<outBuf, user, wire, eof, net, server, destroyed, down, late>>

\* The functor holds c_str() of the caller's string, whose bytes are anything
\* when the caller has not kept it (line 82).
RunSend ==
  /\ Runs("sendInLoop")
  /\ \E data \in {Head(pending).data, [i \in 1..MsgLen |-> Garbage]} :
       SendInLoop(data, Tail(pending))
  /\ late' = IF down > 0 \/ destroyed THEN late \cup {"send"} ELSE late
  /\ UNCHANGED <<state, user, eof, net, server, destroyed, up, down>>

RunShutdown ==
  /\ Runs("shutdownInLoop")
  /\ pending' = Tail(pending)
  /\ ShutdownInLoop
  /\ UNCHANGED <<state, chan, outBuf, user, wire, net, server, log>>

\* writeCompleteCallback_ and highWaterMarkCallback_: user code.
RunUserCallback ==
  /\ Runs("writeComplete") \/ Runs("highWater")
  /\ pending' = Tail(pending)
  /\ UNCHANGED <<state, chan, outBuf, user, wire, eof, net, server, log>>

\* The connection is destroyed without its channel being removed.
Mut_ConnectDestroyed ==
  /\ Runs("connectDestroyed")
  /\ pending' = Tail(pending)
  /\ state' = IF state = "kConnected" THEN "kDisconnected" ELSE state
  /\ down' = IF state = "kConnected" THEN down + 1 ELSE down
  /\ destroyed' = TRUE
  /\ UNCHANGED <<chan, outBuf, user, wire, eof, net, server, up, late>>

\* Other threads in shutdown() may store their state_ between the test and the
\* store of this one, which is then the last.
ConnectDestroyed ==
  /\ Runs("connectDestroyed")
  /\ pending' = Tail(pending)
  /\ IF state = "kConnected"
     THEN /\ state' = "kDisconnected"
          /\ chan' = RemoveChannel(DisableAll(chan))
          /\ down' = down + 1
          /\ \E S \in SUBSET {t \in Closers : doing[t] = "shutdown"} :
               doing' = [t \in DOMAIN doing |-> IF t \in S THEN "queue" ELSE doing[t]]
     ELSE chan' = RemoveChannel(chan) /\ UNCHANGED <<state, down, doing>>
  /\ destroyed' = TRUE
  /\ UNCHANGED <<outBuf, sent, wire, eof, net, server, up, late>>

------------------------------------------------------------------------------
\* Events epoll reports, and Channel::handleEventWithGuard.

Readable == chan.registered /\ "read" \in chan.interest /\ (in.unread > 0 \/ fin)

\* EPOLLHUP: both directions are closed, or the peer has reset.
HangsUp == chan.registered /\ (err \/ (fin /\ eof))

\* The channel keeps its interest after the close.
Mut_HandleClose ==
  /\ state' = "kDisconnected"
  /\ down' = down + 1
  /\ closing' = IF serverGone THEN closing ELSE closing + 1
  /\ UNCHANGED <<chan, inMap, serverGone, stopped, destroyed, up, late>>

\* handleClose: the connection callback, then TcpServer::removeConnection.
HandleClose ==
  /\ state' = "kDisconnected"
  /\ chan' = DisableAll(chan)
  /\ down' = down + 1
  /\ closing' = IF serverGone THEN closing ELSE closing + 1
  /\ UNCHANGED <<inMap, serverGone, stopped, destroyed, up, late>>

\* handleRead with n > 0: everything that has come is read.
HandleMessage ==
  /\ Readable
  /\ in.unread > 0
  /\ in' = [in EXCEPT !.unread = 0]
  /\ late' = IF up = 0 \/ down > 0 THEN late \cup {"message"} ELSE late
  /\ UNCHANGED <<state, chan, outBuf, pending, user, wire, eof, fin, err,
                 server, destroyed, up, down>>

\* handleRead with n = 0.  A pending error has been read by handleError, which
\* EPOLLERR calls first.
HandleEndOfStream ==
  /\ Readable
  /\ in.unread = 0
  /\ err' = FALSE
  /\ HandleClose
  /\ UNCHANGED <<outBuf, pending, user, wire, eof, in, fin>>

\* handleRead with n < 0: the reset came after epoll_wait returned.
HandleReadError ==
  /\ Readable
  /\ err
  /\ err' = FALSE
  /\ UNCHANGED <<state, chan, outBuf, pending, user, wire, eof, in, fin, server, log>>

\* EPOLLHUP without EPOLLIN: closeCallback_.
HandleHangup ==
  /\ HangsUp
  /\ "read" \notin chan.interest
  /\ err' = FALSE
  /\ HandleClose
  /\ UNCHANGED <<outBuf, pending, user, wire, eof, in, fin>>

\* handleWrite, and with it disableWriting, has no action: nothing arms the
\* writable event (the run TcpConnectionFlush and the theorem NeverWrites), and
\* epoll reports no other.

------------------------------------------------------------------------------
\* User code.

CanSend == FoldFunction(+, 0, sent) < MaxSends

\* send() and shutdown() on the thread of the loop: nothing is queued.
OwnerSends ==
  /\ state = "kConnected"
  /\ CanSend
  /\ sent' = [sent EXCEPT ![Owner] = @ + 1]
  /\ SendInLoop(Message(Owner, sent[Owner] + 1), pending)
  /\ UNCHANGED <<state, doing, eof, net, server, log>>

OwnerShutsDown ==
  /\ state = "kConnected"
  /\ state' = "kDisconnecting"
  /\ ShutdownInLoop
  /\ UNCHANGED <<chan, outBuf, pending, user, wire, net, server, log>>

Does(t, from, to) == doing[t] = from /\ doing' = [doing EXCEPT ![t] = to]

\* send() from another thread: state_ is read, then the functor is queued.
SendChecks(t) ==
  /\ t \in Senders /\ state = "kConnected" /\ CanSend
  /\ Does(t, "idle", "send")
  /\ sent' = [sent EXCEPT ![t] = @ + 1]
  /\ UNCHANGED <<state, chan, outBuf, pending, wire, eof, net, server, log>>

SendQueues(t) ==
  /\ Does(t, "send", "idle")
  /\ pending' = Append(pending, Send(Message(t, sent[t])))
  /\ UNCHANGED <<state, chan, outBuf, sent, wire, eof, net, server, log>>

\* shutdown() from another thread: state_ is read, written, and the functor is
\* queued.
ShutdownChecks(t) ==
  /\ t \in Closers /\ state = "kConnected"
  /\ Does(t, "idle", "shutdown")
  /\ UNCHANGED <<state, chan, outBuf, pending, sent, wire, eof, net, server, log>>

ShutdownSetsState(t) ==
  /\ Does(t, "shutdown", "queue")
  /\ state' = "kDisconnecting"
  /\ UNCHANGED <<chan, outBuf, pending, sent, wire, eof, net, server, log>>

ShutdownQueues(t) ==
  /\ Does(t, "queue", "idle")
  /\ pending' = Append(pending, Functor("shutdownInLoop"))
  /\ UNCHANGED <<state, chan, outBuf, sent, wire, eof, net, server, log>>

------------------------------------------------------------------------------
\* The server, on the thread of the base loop.

\* The removal is run without having been asked for.
Mut_ServerRemoves ==
  /\ ~serverGone
  /\ closing' = closing - 1
  /\ inMap' = FALSE
  /\ pending' = Append(pending, Functor("connectDestroyed"))
  /\ UNCHANGED <<state, chan, outBuf, user, wire, eof, net, serverGone,
                 stopped, log>>

\* removeConnectionInLoop.
ServerRemoves ==
  /\ closing > 0 /\ ~serverGone
  /\ closing' = closing - 1
  /\ inMap' = FALSE
  /\ pending' = Append(pending, Functor("connectDestroyed"))
  /\ UNCHANGED <<state, chan, outBuf, user, wire, eof, net, serverGone,
                 stopped, log>>

\* ~TcpServer drops its connections and destroys none.
Mut_ServerDies ==
  /\ ~serverGone
  /\ serverGone' = TRUE
  /\ inMap' = FALSE
  /\ closing' = 0
  /\ UNCHANGED <<state, chan, outBuf, pending, user, wire, eof, net, stopped, log>>

\* ~TcpServer: the base loop has stopped, and with it the removals it had yet
\* to make.
ServerDies ==
  /\ ~serverGone
  /\ serverGone' = TRUE
  /\ inMap' = FALSE
  /\ closing' = 0
  /\ pending' = IF inMap THEN Append(pending, Functor("connectDestroyed")) ELSE pending
  /\ UNCHANGED <<state, chan, outBuf, user, wire, eof, net, stopped, log>>

\* ~TcpServer goes on to destroy the threads of the pool, which quits their
\* loops: a loop runs no functor and handles no event any more.
LoopStops ==
  /\ serverGone /\ ~stopped
  /\ stopped' = TRUE
  /\ UNCHANGED <<state, chan, outBuf, pending, user, wire, eof, net,
                 inMap, closing, serverGone, log>>

------------------------------------------------------------------------------
\* The peer.

PeerSends ==
  /\ ~fin /\ in.came < MaxIn
  /\ in' = [came |-> in.came + 1, unread |-> in.unread + 1]
  /\ UNCHANGED <<state, chan, outBuf, pending, user, wire, eof, fin, err, server, log>>

PeerCloses ==
  /\ ~fin
  /\ fin' = TRUE
  /\ UNCHANGED <<state, chan, outBuf, pending, user, wire, eof, in, err, server, log>>

PeerResets ==
  /\ ~fin
  /\ fin' = TRUE /\ err' = TRUE
  /\ in' = [in EXCEPT !.unread = 0]
  /\ UNCHANGED <<state, chan, outBuf, pending, user, wire, eof, server, log>>

------------------------------------------------------------------------------
\* The loop's thread, while it is in the loop.
RunFunctor ==
  /\ ~stopped
  /\ \/ ConnectEstablished \/ ConnectDestroyed
     \/ RunSend \/ RunShutdown \/ RunUserCallback

HandleInput ==
  /\ ~stopped
  /\ HandleMessage \/ HandleEndOfStream \/ HandleReadError \/ HandleHangup

OwnerCalls == ~stopped /\ (OwnerSends \/ OwnerShutsDown)

ThreadStep ==
  \E t \in Senders \cup Closers :
    SendQueues(t) \/ ShutdownSetsState(t) \/ ShutdownQueues(t)

Next ==
  \/ RunFunctor \/ HandleInput \/ OwnerCalls
  \/ ThreadStep
  \/ \E t \in Senders : SendChecks(t)
  \/ \E t \in Closers : ShutdownChecks(t)
  \/ ServerRemoves \/ ServerDies \/ LoopStops
  \/ PeerSends \/ PeerCloses \/ PeerResets

Spec == Init /\ [][Next]_vars

\* A running loop executes its functors and handles what epoll reports, threads
\* finish the calls they have begun, the base loop makes its removals.
Fairness ==
  /\ WF_vars(RunFunctor) /\ WF_vars(HandleInput)
  /\ WF_vars(ThreadStep) /\ WF_vars(ServerRemoves)

FairSpec == Spec /\ Fairness

------------------------------------------------------------------------------
\* Properties.

\* The user sees a connection come up once and go down at most once, after it
\* came up, and messages only in between (connectEstablished, handleClose and
\* connectDestroyed all make the same callback).  A send() that comes late arms
\* the channel again and with it a second close: it is excluded here.
CallbacksPaired ==
  "send" \notin late => up <= 1 /\ down <= up /\ "message" \notin late

\* connectDestroyed leaves nothing of the channel in the poller, and nothing but
\* a send() that comes late puts it back: no handler, no second close.
RemovedForGood ==
  [][destroyed' /\ (chan'.registered \/ chan'.mapped) =>
       \/ destroyed /\ (chan.registered \/ chan.mapped)
       \/ destroyed /\ Runs("sendInLoop")]_vars

\* A connection that is not destroyed is heard or about to leave: the poller
\* waits for its readable event, with which the close of the peer comes, or it
\* has yet to be established, or its removal is on the way, by the server's
\* queue or by its own loop's.
HeardOrLeaving ==
  \/ destroyed
  \/ chan.registered /\ "read" \in chan.interest
  \/ closing > 0
  \/ \E i \in DOMAIN pending : pending[i].op \in {"connectEstablished", "connectDestroyed"}

\* TcpConnection.cc:187, "the connection is down, the channel is removed from
\* the poller": nothing puts it back, and the poller holds no pointer to it.
ChannelStaysRemoved == destroyed => ~chan.registered /\ ~chan.mapped

\* Bytes of a sender reach the kernel in the order of its send() calls: a byte
\* never overtakes one that waits in outputBuffer_.
Before(a, b) == a[2] < b[2] \/ (a[2] = b[2] /\ a[3] < b[3])

SendOrder ==
  LET all == wire \o outBuf
  IN  \A i \in 1..Len(all), j \in 1..Len(all) :
        /\ i < j
        /\ all[i] # Garbage /\ all[j] # Garbage
        /\ all[i][1] = all[j][1]
        => Before(all[i], all[j])

\* A connection the peer has closed is destroyed, whichever of the peer, the
\* users and the server closes first, unless its loop is stopped before.
ClosedIsDestroyed == fin ~> (destroyed \/ stopped)

\* TcpConnection.cc:129-131: what could not be sent is kept, and the poller
\* reports the writable event until all of it is sent.
BufferIsFlushed == (outBuf # <<>>) ~> (outBuf = <<>> \/ fin \/ destroyed \/ stopped)

\* TcpConnection.cc:140, "the data that could not be sent is written to the
\* buffer": no other bytes are.
BufferHoldsSentBytes == Garbage \notin ToSet(outBuf)
==============================================================================
