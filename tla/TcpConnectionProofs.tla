------------------------- MODULE TcpConnectionProofs -------------------------
(***************************************************************************)
(* Proofs about TcpConnection, for any number of threads that send and     *)
(* shut down, any length and number of messages and any high water mark.   *)
(***************************************************************************)
EXTENDS TcpConnection, ChannelProofs, SequenceTheorems, TLAPS

Functors == [op : Ops, data : Seq(Bytes)]

Types ==
  /\ state \in States
  /\ chan \in Channel /\ Agrees(chan)
  /\ outBuf \in Seq(Bytes) /\ wire \in Seq(Bytes)
  /\ pending \in Seq(Functors)
  /\ doing \in [Senders \cup Closers -> {"idle", "send", "shutdown", "queue"}]
  /\ \A t \in Senders \cup Closers : doing[t] = "send" => t \in Senders
  /\ sent \in [Threads -> Nat]
  /\ in \in [came : 0..MaxIn, unread : 0..MaxIn] /\ in.unread <= in.came
  /\ eof \in BOOLEAN /\ fin \in BOOLEAN /\ err \in BOOLEAN
  /\ inMap \in BOOLEAN /\ serverGone \in BOOLEAN /\ stopped \in BOOLEAN
  /\ closing \in Nat
  /\ destroyed \in BOOLEAN /\ late \in SUBSET {"message", "send"}
  /\ up \in 0..1 /\ down \in Nat

\* connectEstablished is the first functor of the connection and is queued
\* once; nothing has happened to the connection before.
EstablishedFirst ==
  /\ up = 0 => /\ pending # <<>> /\ pending[1].op = "connectEstablished"
               /\ state = "kConnecting" /\ chan = NewChannel /\ outBuf = <<>>
               /\ \A t \in Senders \cup Closers : doing[t] = "idle"
               /\ down = 0 /\ late = {} /\ ~destroyed
  /\ \A i \in 1..Len(pending) : pending[i].op = "connectEstablished" => i = 1 /\ up = 0

\* Unless a send() has come late, the channel of a connection that is down or
\* destroyed is not registered.
Unheard ==
  /\ state = "kConnected" => ~destroyed
  /\ "send" \notin late =>
       /\ chan.registered => down = 0 /\ ~destroyed
       /\ state = "kConnected" => down = 0
       /\ down <= 1 /\ "message" \notin late

ConnInv == Types /\ EstablishedFirst /\ Unheard

------------------------------------------------------------------------------
\* Lemmas on channels.

LEMMA CallEvents ==
  ASSUME NEW ch \in Channel, Agrees(ch), NEW ev \in Events
  PROVE  /\ Enable(ch, ev).events = ch.events \cup {ev}
         /\ Disable(ch, ev).events = ch.events \ {ev}
         /\ DisableAll(ch).events = {}
         /\ RemoveChannel(ch).events = ch.events
         /\ ~RemoveChannel(ch).mapped
<1>1. ASSUME NEW evs \in SUBSET Events
      PROVE  UpdateChannel([ch EXCEPT !.events = evs]).events = evs
  <2> DEFINE c == [ch EXCEPT !.events = evs]
  <2>1. c \in Channel /\ c.events = evs
    BY DEF Channel
  <2> HIDE DEF c
  <2>2. CASE c.index # "kAdded"
    <3> DEFINE d == [c EXCEPT !.index = "kAdded", !.mapped = @ \/ c.index = "kNew"]
    <3>1. d.events = evs
      BY <2>1 DEF Channel
    <3>2. UpdateChannel(c) = CtlAdd(d)
      BY <2>2 DEF UpdateChannel
    <3>3. DOMAIN d = {"events", "index", "mapped", "registered", "interest", "fatal"}
      BY <2>1 DEF Channel
    <3> HIDE DEF d
    <3>4. CtlAdd(d).events = evs
      BY <3>1, <3>3 DEF CtlAdd
    <3>. QED  BY <3>2, <3>4 DEF c
  <2>3. CASE c.index = "kAdded"
    <3>1. UpdateChannel(c).events = evs
      BY <2>1, <2>3 DEF UpdateChannel, CtlDel, CtlMod, Channel
    <3>. QED  BY <3>1 DEF c
  <2>. QED  BY <2>2, <2>3
<1>2. RemoveChannel(ch).events = ch.events /\ ~RemoveChannel(ch).mapped
  BY DEF RemoveChannel, CtlDel, Channel
<1>3. ch.events \in SUBSET Events
  BY DEF Channel
<1>4. Enable(ch, ev).events = ch.events \cup {ev}
  BY <1>1, <1>3 DEF Enable
<1>5. Disable(ch, ev).events = ch.events \ {ev}
  <2>1. ch.events \ {ev} \in SUBSET Events
    BY <1>3
  <2>2. UpdateChannel([ch EXCEPT !.events = ch.events \ {ev}]).events = ch.events \ {ev}
    BY <1>1, <2>1
  <2>. QED  BY <2>2 DEF Disable
<1>6. DisableAll(ch).events = {}
  <2>1. {} \in SUBSET Events
    OBVIOUS
  <2>2. UpdateChannel([ch EXCEPT !.events = {}]).events = {}
    BY <1>1, <2>1
  <2>. QED  BY <2>2 DEF DisableAll
<1>. QED  BY <1>2, <1>4, <1>5, <1>6

------------------------------------------------------------------------------
\* Lemmas on what is written.

LEMMA Messages ==
  /\ \A t \in Threads, k \in Nat : /\ Message(t, k) \in Seq(Bytes)
                                   /\ Len(Message(t, k)) = MsgLen
  /\ Garbage \in Bytes
  /\ [i \in 1..MsgLen |-> Garbage] \in Seq(Bytes) /\ MsgLen \in Nat
<1>1. MsgLen \in Nat /\ Owner \in Threads
  BY TcpConnectionAssumption DEF Threads
<1>2. Garbage \in Bytes
  BY <1>1 DEF Garbage, Bytes
<1>3. [i \in 1..MsgLen |-> Garbage] \in Seq(Bytes)
  BY <1>1, <1>2
<1>4. ASSUME NEW t \in Threads, NEW k \in Nat
      PROVE  Message(t, k) \in Seq(Bytes) /\ Len(Message(t, k)) = MsgLen
  <2>1. \A i \in 1..MsgLen : <<t, k, i>> \in Bytes
    BY <1>1 DEF Bytes
  <2>2. Message(t, k) \in [1..MsgLen -> Bytes]
    BY <2>1 DEF Message
  <2>. QED  BY <1>1, <2>2
<1>. QED  BY <1>1, <1>2, <1>3, <1>4

LEMMA PartType ==
  ASSUME NEW data \in Seq(Bytes), NEW m \in 1..(Len(data) + 1), NEW n \in Int, n <= Len(data)
  PROVE  SubSeq(data, m, n) \in Seq(Bytes)
<1>1. \A i \in m..n : i \in 1..Len(data)
  OBVIOUS
<1>2. \A i \in m..n : data[i] \in Bytes
  BY <1>1
<1>. QED  BY <1>2, SubSeqProperties

Results(data) == {r \in [n : -1..Len(data), fault : BOOLEAN] : r.fault => r.n = -1}

LEMMA WriteIs ==
  ASSUME NEW data \in Seq(Bytes)
  PROVE  /\ WriteResults(data) \subseteq Results(data)
         /\ [n |-> 0, fault |-> FALSE] \in Results(data)
         /\ eof => \A r \in WriteResults(data) : r.fault
<1>1. Len(data) \in Nat
  OBVIOUS
<1>2. [n |-> -1, fault |-> TRUE] \in Results(data) /\ [n |-> 0, fault |-> FALSE] \in Results(data)
  BY <1>1 DEF Results
<1>3. \A k \in -1..Len(data) : [n |-> k, fault |-> FALSE] \in Results(data)
  BY <1>1 DEF Results
<1>4. CASE eof
  <2>1. WriteResults(data) = {[n |-> -1, fault |-> TRUE]}
    BY <1>4 DEF WriteResults
  <2>. QED  BY <1>2, <2>1
<1>5. CASE ~eof
  <2>1. \A r \in WriteResults(data) : \/ \E k \in -1..Len(data) : r = [n |-> k, fault |-> FALSE]
                                      \/ r = [n |-> -1, fault |-> TRUE]
    BY <1>5 DEF WriteResults
  <2>. QED  BY <1>2, <1>3, <1>5, <2>1
<1>. QED  BY <1>4, <1>5

LEMMA RemainingType ==
  ASSUME NEW data \in Seq(Bytes), NEW n \in -1..Len(data)
  PROVE  Remaining(data, n) \in Seq(Bytes)
<1>1. CASE n = -1
  <2>1. SubSeq(data, 1, Len(data) - 1) \in Seq(Bytes)
    BY PartType
  <2>2. <<Garbage>> \in Seq(Bytes)
    BY Messages
  <2>. QED  BY <1>1, <2>1, <2>2, ConcatProperties DEF Remaining
<1>2. CASE n # -1
  <2>1. n + 1 \in 1..(Len(data) + 1)
    BY <1>2
  <2>2. SubSeq(data, n + 1, Len(data)) \in Seq(Bytes)
    BY <2>1, PartType
  <2>. QED  BY <1>2, <2>2 DEF Remaining
<1>. QED  BY <1>1, <1>2

\* What sendInLoop does: the functors it queues are those of user callbacks, and
\* the channel is armed when something is put into outputBuffer_.
SendFacts(rest) ==
  /\ wire' \in Seq(Bytes) /\ outBuf' \in Seq(Bytes)
  /\ chan' \in Channel /\ Agrees(chan')
  /\ pending' \in Seq(Functors) /\ Len(pending') >= Len(rest)
  /\ \A i \in 1..Len(rest) : pending'[i] = rest[i]
  /\ \A i \in 1..Len(pending') :
       i > Len(rest) => pending'[i].op \in {"writeComplete", "highWater"}
  /\ \/ chan' = chan /\ (outBuf' = outBuf \/ (outBuf' # <<>> /\ IsWriting(chan)))
     \/ chan' = Enable(chan, "read") /\ outBuf' # <<>>
  /\ eof /\ ~IsWriting(chan) /\ outBuf = <<>> => outBuf' = <<>>

LEMMA SendDoes ==
  ASSUME Types, NEW data \in Seq(Bytes), NEW rest \in Seq(Functors), SendInLoop(data, rest)
  PROVE  SendFacts(rest)
<1> DEFINE direct == ~IsWriting(chan) /\ outBuf = <<>>
<1>1. PICK r \in IF direct THEN WriteResults(data) ELSE {[n |-> 0, fault |-> FALSE]} :
        LET buffered == IF r.fault THEN <<>> ELSE Remaining(data, r.n)
            isHigh == /\ buffered # <<>> /\ Len(outBuf) < HighWater
                      /\ Len(outBuf) + Len(buffered) >= HighWater
        IN  /\ wire' = wire \o SubSeq(data, 1, r.n)
            /\ outBuf' = outBuf \o buffered
            /\ chan' = IF buffered # <<>> /\ ~IsWriting(chan)
                       THEN Enable(chan, "read") ELSE chan
            /\ pending' =
                 rest \o (IF direct /\ r.n = Len(data)
                          THEN <<Functor("writeComplete")>> ELSE <<>>)
                      \o (IF isHigh THEN <<Functor("highWater")>> ELSE <<>>)
  BY DEF SendInLoop
<1> DEFINE buffered == IF r.fault THEN <<>> ELSE Remaining(data, r.n)
           isHigh == /\ buffered # <<>> /\ Len(outBuf) < HighWater
                     /\ Len(outBuf) + Len(buffered) >= HighWater
           q1 == IF direct /\ r.n = Len(data) THEN <<Functor("writeComplete")>> ELSE <<>>
           q2 == IF isHigh THEN <<Functor("highWater")>> ELSE <<>>
<1>2. /\ wire' = wire \o SubSeq(data, 1, r.n) /\ outBuf' = outBuf \o buffered
      /\ chan' = IF buffered # <<>> /\ ~IsWriting(chan) THEN Enable(chan, "read") ELSE chan
      /\ pending' = rest \o q1 \o q2
  BY <1>1
<1>3. r \in Results(data) /\ (direct /\ eof => r.fault)
  BY <1>1, WriteIs
<1>4. r.n \in -1..Len(data) /\ r.fault \in BOOLEAN
  BY <1>3 DEF Results
<1>5. buffered \in Seq(Bytes) /\ (r.fault => buffered = <<>>)
  BY <1>4, RemainingType
<1>6. wire \in Seq(Bytes) /\ outBuf \in Seq(Bytes) /\ chan \in Channel /\ Agrees(chan)
  BY DEF Types
<1>7. /\ q1 \in Seq(Functors) /\ q2 \in Seq(Functors)
      /\ \A i \in 1..Len(q1) : q1[i].op \in {"writeComplete", "highWater"}
      /\ \A i \in 1..Len(q2) : q2[i].op \in {"writeComplete", "highWater"}
  <2>1. Functor("writeComplete") \in Functors /\ Functor("highWater") \in Functors
    BY EmptySeq DEF Functor, Functors, Ops
  <2>2. Functor("writeComplete").op = "writeComplete" /\ Functor("highWater").op = "highWater"
    BY DEF Functor
  <2> HIDE DEF direct, isHigh
  <2>. QED  BY <2>1, <2>2
<1> HIDE DEF q1, q2, buffered
<1>8. wire' \in Seq(Bytes) /\ outBuf' \in Seq(Bytes)
  <2>1. SubSeq(data, 1, r.n) \in Seq(Bytes)
    BY <1>4, PartType
  <2>. QED  BY <1>2, <1>5, <1>6, <2>1, ConcatProperties
<1>9. chan' \in Channel /\ Agrees(chan')
  BY <1>2, <1>6, CallAgrees DEF Events
<1>10. /\ pending' \in Seq(Functors) /\ Len(pending') >= Len(rest)
       /\ \A i \in 1..Len(rest) : pending'[i] = rest[i]
       /\ \A i \in 1..Len(pending') :
            i > Len(rest) => pending'[i].op \in {"writeComplete", "highWater"}
  <2> DEFINE s == rest \o q1
  <2>1. /\ s \in Seq(Functors) /\ Len(s) = Len(rest) + Len(q1)
        /\ \A i \in 1..(Len(rest) + Len(q1)) :
             s[i] = IF i <= Len(rest) THEN rest[i] ELSE q1[i - Len(rest)]
    BY <1>7, ConcatProperties
  <2>2. pending' = s \o q2
    BY <1>2
  <2> HIDE DEF s
  <2>3. /\ pending' \in Seq(Functors) /\ Len(pending') = Len(s) + Len(q2)
        /\ \A i \in 1..(Len(s) + Len(q2)) :
             pending'[i] = IF i <= Len(s) THEN s[i] ELSE q2[i - Len(s)]
    BY <1>7, <2>1, <2>2, ConcatProperties
  <2>4. Len(rest) \in Nat /\ Len(q1) \in Nat /\ Len(q2) \in Nat
    BY <1>7
  <2>5. \A i \in 1..Len(rest) : pending'[i] = rest[i]
    BY <2>1, <2>3, <2>4
  <2>6. \A i \in 1..Len(pending') :
          i > Len(rest) => \/ i - Len(rest) \in 1..Len(q1) /\ pending'[i] = q1[i - Len(rest)]
                           \/ i - Len(s) \in 1..Len(q2) /\ pending'[i] = q2[i - Len(s)]
    BY <2>1, <2>3, <2>4
  <2>7. ASSUME NEW i \in 1..Len(pending'), i > Len(rest)
        PROVE  pending'[i].op \in {"writeComplete", "highWater"}
    <3>1. CASE i - Len(rest) \in 1..Len(q1) /\ pending'[i] = q1[i - Len(rest)]
      BY <1>7, <3>1
    <3>2. CASE i - Len(s) \in 1..Len(q2) /\ pending'[i] = q2[i - Len(s)]
      BY <1>7, <3>2
    <3>. QED  BY <2>6, <2>7, <3>1, <3>2
  <2>8. Len(pending') >= Len(rest)
    BY <2>1, <2>3, <2>4
  <2>. QED  BY <2>3, <2>5, <2>7, <2>8
<1>11. buffered = <<>> => outBuf' = outBuf
  BY <1>2, <1>6, ConcatEmptySeq
<1>12. buffered # <<>> => outBuf' # <<>>
  BY <1>2, <1>5, <1>6, ConcatEqualIffEmpty
<1>13. \/ chan' = chan /\ (outBuf' = outBuf \/ (outBuf' # <<>> /\ IsWriting(chan)))
       \/ chan' = Enable(chan, "read") /\ outBuf' # <<>>
  BY <1>2, <1>11, <1>12
<1>14. eof /\ ~IsWriting(chan) /\ outBuf = <<>> => outBuf' = <<>>
  BY <1>3, <1>5, <1>11
<1>. QED  BY <1>8, <1>9, <1>10, <1>13, <1>14 DEF SendFacts

------------------------------------------------------------------------------
\* The functors of the connection.  A step puts functors behind those that wait,
\* or behind all of them but the first, which it has run.
Grows(rest) ==
  /\ pending' \in Seq(Functors) /\ Len(pending') >= Len(rest)
  /\ \A i \in 1..Len(rest) : pending'[i] = rest[i]
  /\ \A i \in 1..Len(pending') : i > Len(rest) => pending'[i].op # "connectEstablished"

LEMMA FunctorTypes ==
  /\ \A op \in Ops : Functor(op) \in Functors /\ Functor(op).op = op
  /\ \A data \in Seq(Bytes) : Send(data) \in Functors /\ Send(data).op = "sendInLoop"
<1>1. ASSUME NEW op \in Ops
      PROVE  Functor(op) \in Functors /\ Functor(op).op = op
  BY <1>1, EmptySeq DEF Functor, Functors
<1>2. ASSUME NEW data \in Seq(Bytes)
      PROVE  Send(data) \in Functors /\ Send(data).op = "sendInLoop"
  BY DEF Send, Functors, Ops
<1>. QED  BY <1>1, <1>2

LEMMA Unqueued ==
  ASSUME NEW rest \in Seq(Functors), pending' = rest
  PROVE  Grows(rest)
<1>1. Len(rest) \in Nat
  OBVIOUS
<1>. QED  BY <1>1 DEF Grows

LEMMA Queued ==
  ASSUME NEW rest \in Seq(Functors), NEW f \in Functors, f.op # "connectEstablished",
         pending' = Append(rest, f)
  PROVE  Grows(rest)
<1>1. /\ pending' \in Seq(Functors) /\ Len(pending') = Len(rest) + 1
      /\ \A i \in 1..Len(rest) : pending'[i] = rest[i]
      /\ pending'[Len(rest) + 1] = f /\ Len(rest) \in Nat
  BY AppendProperties
<1>2. \A i \in 1..Len(pending') : i > Len(rest) => i = Len(rest) + 1
  BY <1>1
<1>. QED  BY <1>1, <1>2 DEF Grows

LEMMA SendGrows ==
  ASSUME NEW rest \in Seq(Functors), SendFacts(rest)
  PROVE  Grows(rest)
BY DEF SendFacts, Grows

LEMMA Rest ==
  ASSUME Types, pending # <<>>
  PROVE  /\ Tail(pending) \in Seq(Functors) /\ Len(Tail(pending)) = Len(pending) - 1
         /\ \A i \in 1..Len(Tail(pending)) : Tail(pending)[i] = pending[i + 1]
         /\ Head(pending) = pending[1] /\ Head(pending) \in Functors
         /\ Len(pending) \in Nat /\ Len(pending) >= 1
<1>1. pending \in Seq(Functors)
  BY DEF Types
<1>. QED  BY <1>1, HeadTailProperties

\* A functor other than connectEstablished is run by a connection that is up.
LEMMA UpWhenRun ==
  ASSUME Types, EstablishedFirst, NEW op, op # "connectEstablished", Runs(op)
  PROVE  up = 1
<1>1. pending # <<>> /\ pending[1].op = op
  BY Rest DEF Runs
<1>. QED  BY <1>1 DEF EstablishedFirst, Types

\* The channel's calls keep what is known of it.
LEMMA SendRuns ==
  ASSUME Types, RunSend
  PROVE  SendFacts(Tail(pending))
<1>1. pending # <<>>
  BY DEF RunSend, Runs
<1>2. Head(pending).data \in Seq(Bytes) /\ Tail(pending) \in Seq(Functors)
  BY <1>1, Rest DEF Functors
<1>. QED  BY <1>2, SendDoes, Messages DEF RunSend

LEMMA SendCalled ==
  ASSUME Types, OwnerSends
  PROVE  SendFacts(pending)
<1>1. Owner \in Threads /\ sent[Owner] + 1 \in Nat /\ pending \in Seq(Functors)
  BY DEF Types, Threads
<1>2. Message(Owner, sent[Owner] + 1) \in Seq(Bytes)
  BY <1>1, Messages
<1>. QED  BY <1>1, <1>2, SendDoes DEF OwnerSends

RunsFunctor ==
  ConnectEstablished \/ ConnectDestroyed \/ RunSend \/ RunShutdown \/ RunUserCallback

\* Every step leaves the queue grown, behind what it has run.
LEMMA QueueStep ==
  ASSUME Types, EstablishedFirst, [Next]_vars
  PROVE  Grows(pending) \/ (pending # <<>> /\ Grows(Tail(pending)) /\ RunsFunctor)
<1> USE DEF user, net, server, log
<1>0. pending \in Seq(Functors)
  BY DEF Types
<1>1. CASE UNCHANGED pending
  BY <1>0, <1>1, Unqueued
<1>2. CASE pending # <<>> /\ pending' = Tail(pending) /\ RunsFunctor
  BY <1>2, Unqueued, Rest
<1>3. CASE RunSend
  BY <1>3, SendRuns, SendGrows, Rest DEF RunSend, Runs, RunsFunctor
<1>4. CASE OwnerSends
  BY <1>0, <1>4, SendCalled, SendGrows
<1>6. ASSUME NEW t \in Senders \cup Closers, SendQueues(t)
      PROVE  Grows(pending)
  <2>1. t \in Threads /\ sent[t] \in Nat
    BY <1>6 DEF SendQueues, Does, Types, Threads
  <2>2. Send(Message(t, sent[t])) \in Functors /\ Send(Message(t, sent[t])).op = "sendInLoop"
    BY <2>1, Messages, FunctorTypes
  <2>. QED  BY <1>0, <1>6, <2>2, Queued DEF SendQueues
<1>7. CASE ServerRemoves \/ ServerDies \/ \E t \in Senders \cup Closers : ShutdownQueues(t)
  <2>1. \/ UNCHANGED pending
        \/ pending' = Append(pending, Functor("connectDestroyed"))
        \/ pending' = Append(pending, Functor("shutdownInLoop"))
    BY <1>7 DEF ServerRemoves, ServerDies, ShutdownQueues
  <2>2. /\ Functor("connectDestroyed") \in Functors
        /\ Functor("connectDestroyed").op = "connectDestroyed"
        /\ Functor("shutdownInLoop") \in Functors
        /\ Functor("shutdownInLoop").op = "shutdownInLoop"
    BY FunctorTypes DEF Ops
  <2>. QED  BY <1>0, <1>1, <2>1, <2>2, Queued
<1>8. CASE ConnectEstablished \/ ConnectDestroyed \/ RunShutdown \/ RunUserCallback
  BY <1>2, <1>8 DEF ConnectEstablished, ConnectDestroyed, RunShutdown, RunUserCallback, Runs,
       RunsFunctor
<1>9. CASE HandleInput \/ OwnerShutsDown \/ LoopStops \/ PeerSends \/ PeerCloses \/ PeerResets
           \/ \E t \in Senders \cup Closers : SendChecks(t) \/ ShutdownChecks(t) \/ ShutdownSetsState(t)
  BY <1>1, <1>9 DEF HandleInput, HandleMessage, HandleEndOfStream, HandleReadError, HandleHangup,
       OwnerShutsDown, LoopStops, PeerSends, PeerCloses, PeerResets, SendChecks, ShutdownChecks,
       ShutdownSetsState
<1>10. CASE UNCHANGED vars
  BY <1>1, <1>10 DEF vars
<1>. QED  BY <1>1, <1>3, <1>4, <1>6, <1>7, <1>8, <1>9, <1>10
       DEF Next, RunFunctor, OwnerCalls, ThreadStep

------------------------------------------------------------------------------
\* The inductive invariant.

LEMMA EstablishRuns ==
  ASSUME Types, EstablishedFirst, ConnectEstablished
  PROVE  /\ up = 0 /\ up' = 1
         /\ pending # <<>> /\ pending' = Tail(pending)
         /\ chan' = Enable(chan, "read")
<1>1. pending # <<>> /\ pending[1].op = "connectEstablished"
  BY Rest DEF ConnectEstablished, Runs
<1>2. 1 \in 1..Len(pending)
  BY <1>1, Rest
<1>3. up = 0
  BY <1>1, <1>2 DEF EstablishedFirst
<1>. QED  BY <1>1, <1>3 DEF ConnectEstablished

LEMMA NextChannel ==
  ASSUME Types, [Next]_vars
  PROVE  chan' \in Channel /\ Agrees(chan')
<1> USE DEF user, net, server, log
<1>0. chan \in Channel /\ Agrees(chan)
  BY DEF Types
<1>1. CASE RunSend
  BY <1>1, SendRuns DEF SendFacts
<1>2. CASE OwnerSends
  BY <1>2, SendCalled DEF SendFacts
<1>4. CASE ConnectEstablished
  <2>1. chan' = Enable(chan, "read") /\ "read" \in Events
    BY <1>4 DEF ConnectEstablished, Events
  <2>. QED  BY <1>0, <2>1, CallAgrees
<1>5. CASE ConnectDestroyed
  <2>1. DisableAll(chan) \in Channel /\ Agrees(DisableAll(chan))
    BY <1>0, CallAgrees DEF Events
  <2>2. chan' = RemoveChannel(DisableAll(chan)) \/ chan' = RemoveChannel(chan)
    BY <1>5 DEF ConnectDestroyed
  <2>. QED  BY <1>0, <2>1, <2>2, RemoveAgrees
<1>6. CASE HandleEndOfStream \/ HandleHangup
  <2>1. chan' = DisableAll(chan)
    BY <1>6 DEF HandleEndOfStream, HandleHangup, HandleClose
  <2>. QED  BY <1>0, <2>1, CallAgrees DEF Events
<1>7. CASE UNCHANGED chan
  BY <1>0, <1>7
<1>8. CASE \/ RunShutdown \/ RunUserCallback \/ HandleMessage \/ HandleReadError
           \/ OwnerShutsDown \/ ThreadStep \/ \E t \in Senders : SendChecks(t)
           \/ \E t \in Closers : ShutdownChecks(t)
           \/ ServerRemoves \/ ServerDies \/ LoopStops
           \/ PeerSends \/ PeerCloses \/ PeerResets \/ UNCHANGED vars
  BY <1>7, <1>8 DEF RunShutdown, RunUserCallback, HandleMessage, HandleReadError, OwnerShutsDown,
       ThreadStep, SendQueues, ShutdownSetsState, ShutdownQueues, SendChecks, ShutdownChecks,
       ServerRemoves, ServerDies, LoopStops, PeerSends, PeerCloses, PeerResets, vars
<1>. QED  BY <1>1, <1>2, <1>4, <1>5, <1>6, <1>8
       DEF Next, RunFunctor, HandleInput, OwnerCalls

\* The threads whose store to state_ comes before that of connectDestroyed go on
\* to queue their functor.
LEMMA DestroyedThreads ==
  ASSUME Types, ConnectDestroyed
  PROVE  /\ doing' \in [Senders \cup Closers -> {"idle", "send", "shutdown", "queue"}]
         /\ \A t \in Senders \cup Closers : doing'[t] = doing[t] \/ doing'[t] = "queue"
<1>1. doing \in [Senders \cup Closers -> {"idle", "send", "shutdown", "queue"}]
  BY DEF Types
<1>2. \/ UNCHANGED doing
      \/ \E S : doing' = [t \in DOMAIN doing |-> IF t \in S THEN "queue" ELSE doing[t]]
  BY DEF ConnectDestroyed
<1>. QED  BY <1>1, <1>2

LEMMA NextTypes ==
  ASSUME Types, EstablishedFirst, [Next]_vars
  PROVE  Types'
<1> USE DEF user, net, server, log
<1>0. pending' \in Seq(Functors)
  BY QueueStep DEF Grows
<1>1. chan' \in Channel /\ Agrees(chan')
  BY NextChannel
<1>2. CASE RunSend
  <2>1. wire' \in Seq(Bytes) /\ outBuf' \in Seq(Bytes)
    BY <1>2, SendRuns DEF SendFacts
  <2>. QED  BY <1>0, <1>1, <1>2, <2>1 DEF Types, RunSend
<1>3. CASE OwnerSends
  <2>1. wire' \in Seq(Bytes) /\ outBuf' \in Seq(Bytes)
    BY <1>3, SendCalled DEF SendFacts
  <2>2. Owner \in Threads /\ sent' = [sent EXCEPT ![Owner] = @ + 1] /\ sent \in [Threads -> Nat]
    BY <1>3 DEF OwnerSends, Types, Threads
  <2>3. sent' \in [Threads -> Nat]
    BY <2>2
  <2>. QED  BY <1>0, <1>1, <1>3, <2>1, <2>3 DEF Types, OwnerSends
<1>5. CASE ConnectEstablished
  <2>1. up' \in 0..1
    BY <1>5, EstablishRuns
  <2>. QED  BY <1>0, <1>1, <1>5, <2>1 DEF Types, ConnectEstablished, States
<1>6. CASE ConnectDestroyed
  <2>1. /\ doing' \in [Senders \cup Closers -> {"idle", "send", "shutdown", "queue"}]
        /\ \A t \in Senders \cup Closers : doing'[t] = "send" => doing[t] = "send"
    BY <1>6, DestroyedThreads
  <2>. QED  BY <1>0, <1>1, <1>6, <2>1 DEF Types, ConnectDestroyed, States
<1>7. CASE RunShutdown
  BY <1>0, <1>1, <1>7 DEF Types, RunShutdown, ShutdownInLoop
<1>8. CASE RunUserCallback
  BY <1>0, <1>1, <1>8 DEF Types, RunUserCallback
<1>9. CASE HandleMessage
  <2>1. in' \in [came : 0..MaxIn, unread : 0..MaxIn] /\ in'.unread <= in'.came
    <3>1. /\ in' = [in EXCEPT !.unread = 0] /\ in \in [came : 0..MaxIn, unread : 0..MaxIn]
          /\ MaxIn \in Nat
      BY <1>9, TcpConnectionAssumption DEF Types, HandleMessage
    <3>. QED  BY <3>1
  <2>2. late' \in SUBSET {"message", "send"}
    BY <1>9 DEF Types, HandleMessage
  <2>. QED  BY <1>0, <1>1, <1>9, <2>1, <2>2 DEF Types, HandleMessage
<1>10. CASE HandleEndOfStream
  <2>1. down' \in Nat /\ closing' \in Nat
    BY <1>10 DEF Types, HandleEndOfStream, HandleClose
  <2>2. state' \in States
    BY <1>10 DEF HandleEndOfStream, HandleClose, States
  <2>. QED  BY <1>0, <1>1, <1>10, <2>1, <2>2 DEF Types, HandleEndOfStream, HandleClose
<1>11. CASE HandleReadError
  BY <1>0, <1>1, <1>11 DEF Types, HandleReadError
<1>12. CASE HandleHangup
  <2>1. down' \in Nat /\ closing' \in Nat
    BY <1>12 DEF Types, HandleHangup, HandleClose
  <2>2. state' \in States
    BY <1>12 DEF HandleHangup, HandleClose, States
  <2>. QED  BY <1>0, <1>1, <1>12, <2>1, <2>2 DEF Types, HandleHangup, HandleClose
<1>13. CASE OwnerShutsDown
  BY <1>0, <1>1, <1>13 DEF Types, OwnerShutsDown, ShutdownInLoop, States
<1>14. ASSUME NEW t \in Senders \cup Closers, SendQueues(t)
       PROVE  Types'
  BY <1>0, <1>1, <1>14 DEF Types, SendQueues, Does
<1>15. ASSUME NEW t \in Senders \cup Closers, ShutdownSetsState(t)
       PROVE  Types'
  BY <1>0, <1>1, <1>15 DEF Types, ShutdownSetsState, Does, States
<1>16. ASSUME NEW t \in Senders \cup Closers, ShutdownQueues(t)
       PROVE  Types'
  BY <1>0, <1>1, <1>16 DEF Types, ShutdownQueues, Does
<1>17. ASSUME NEW t \in Senders, SendChecks(t)
       PROVE  Types'
  BY <1>0, <1>1, <1>17 DEF Types, SendChecks, Does, Threads
<1>18. ASSUME NEW t \in Closers, ShutdownChecks(t)
       PROVE  Types'
  BY <1>0, <1>1, <1>18 DEF Types, ShutdownChecks, Does
<1>19. CASE ServerRemoves
  <2>1. closing' \in Nat
    BY <1>19 DEF Types, ServerRemoves
  <2>. QED  BY <1>0, <1>1, <1>19, <2>1 DEF Types, ServerRemoves
<1>20. CASE ServerDies
  BY <1>0, <1>1, <1>20 DEF Types, ServerDies
<1>21. CASE LoopStops
  BY <1>0, <1>1, <1>21 DEF Types, LoopStops
<1>22. CASE PeerSends
  <2>1. /\ in'.came = in.came + 1 /\ in'.unread = in.unread + 1
        /\ in' \in [came : 0..MaxIn, unread : 0..MaxIn] /\ in'.unread <= in'.came
    BY <1>22, TcpConnectionAssumption DEF Types, PeerSends
  <2>. QED  BY <1>0, <1>1, <1>22, <2>1 DEF Types, PeerSends
<1>23. CASE PeerCloses
  BY <1>0, <1>1, <1>23 DEF Types, PeerCloses
<1>24. CASE PeerResets
  <2>1. in' \in [came : 0..MaxIn, unread : 0..MaxIn] /\ in'.unread <= in'.came
    <3>1. /\ in' = [in EXCEPT !.unread = 0] /\ in \in [came : 0..MaxIn, unread : 0..MaxIn]
          /\ MaxIn \in Nat
      BY <1>24, TcpConnectionAssumption DEF Types, PeerResets
    <3>. QED  BY <3>1
  <2>. QED  BY <1>0, <1>1, <1>24, <2>1 DEF Types, PeerResets
<1>25. CASE UNCHANGED vars
  BY <1>0, <1>1, <1>25 DEF Types, vars
<1>. QED  BY <1>2, <1>3, <1>5, <1>6, <1>7, <1>8, <1>9, <1>10, <1>11, <1>12, <1>13, <1>14,
             <1>15, <1>16, <1>17, <1>18, <1>19, <1>20, <1>21, <1>22, <1>23, <1>24, <1>25
       DEF Next, RunFunctor, HandleInput, OwnerCalls, ThreadStep

\* Before connectEstablished has run, only the server and the peer do anything.
LEMMA Fresh ==
  ASSUME Types, EstablishedFirst, up = 0, [Next]_vars, ~ConnectEstablished
  PROVE  /\ UNCHANGED <<state, chan, outBuf, doing, up, down, late, destroyed>>
         /\ Grows(pending)
<1> USE DEF user, net, server, log
<1>0. /\ state = "kConnecting" /\ ~chan.registered /\ pending \in Seq(Functors)
      /\ \A t \in Senders \cup Closers : doing[t] = "idle"
  BY DEF EstablishedFirst, NewChannel, Types
<1>1. ~RunSend /\ ~RunShutdown /\ ~RunUserCallback /\ ~ConnectDestroyed
  BY UpWhenRun DEF RunSend, RunShutdown, RunUserCallback, ConnectDestroyed
<1>2. ~HandleInput
  BY <1>0 DEF HandleInput, HandleMessage, HandleEndOfStream, HandleReadError, HandleHangup,
       Readable, HangsUp
<1>3. ~OwnerSends /\ ~OwnerShutsDown
  BY <1>0 DEF OwnerSends, OwnerShutsDown
<1>4. \A t \in Senders \cup Closers :
        /\ ~SendQueues(t) /\ ~ShutdownSetsState(t) /\ ~ShutdownQueues(t)
        /\ ~SendChecks(t) /\ ~ShutdownChecks(t)
  BY <1>0 DEF SendQueues, ShutdownSetsState, ShutdownQueues, SendChecks, ShutdownChecks, Does
<1>5. \/ ServerRemoves \/ ServerDies \/ LoopStops
      \/ PeerSends \/ PeerCloses \/ PeerResets \/ UNCHANGED vars
  BY <1>1, <1>2, <1>3, <1>4 DEF Next, RunFunctor, OwnerCalls, ThreadStep
<1>6. UNCHANGED <<state, chan, outBuf, doing, up, down, late, destroyed>>
  BY <1>5 DEF ServerRemoves, ServerDies, LoopStops, PeerSends, PeerCloses, PeerResets, vars
<1>7. pending' = pending \/ pending' = Append(pending, Functor("connectDestroyed"))
  BY <1>5 DEF ServerRemoves, ServerDies, LoopStops, PeerSends, PeerCloses, PeerResets, vars
<1>8. Functor("connectDestroyed") \in Functors
      /\ Functor("connectDestroyed").op = "connectDestroyed"
  BY FunctorTypes DEF Ops
<1>. QED  BY <1>0, <1>6, <1>7, <1>8, Unqueued, Queued

LEMMA UpStays ==
  ASSUME Types, EstablishedFirst, up = 1, [Next]_vars
  PROVE  UNCHANGED up
<1>1. ~ConnectEstablished
  BY EstablishRuns
<1>. QED  BY <1>1 DEF Next, RunFunctor, HandleInput, OwnerCalls, ThreadStep,
       ConnectDestroyed, RunSend, RunShutdown, RunUserCallback, HandleMessage,
       HandleEndOfStream, HandleReadError, HandleHangup, HandleClose, OwnerSends,
       OwnerShutsDown, SendChecks, SendQueues, ShutdownChecks, ShutdownSetsState, ShutdownQueues,
       ServerRemoves, ServerDies, LoopStops, PeerSends, PeerCloses, PeerResets, vars,
       user, net, server, log

LEMMA NextEstablished ==
  ASSUME Types, EstablishedFirst, [Next]_vars
  PROVE  EstablishedFirst'
<1>0. up \in 0..1 /\ pending \in Seq(Functors)
  BY DEF Types
<1>1. ASSUME up' = 1, pending # <<>>, Grows(Tail(pending))
      PROVE  EstablishedFirst'
  <2>1. \A i \in 1..Len(Tail(pending)) : Tail(pending)[i].op # "connectEstablished"
    <3>1. ASSUME NEW i \in 1..Len(Tail(pending))
          PROVE  Tail(pending)[i].op # "connectEstablished"
      <4>1. i + 1 \in 1..Len(pending) /\ i + 1 # 1 /\ Tail(pending)[i] = pending[i + 1]
        BY <1>1, Rest
      <4>. QED  BY <4>1 DEF EstablishedFirst
    <3>. QED  BY <3>1
  <2>2. \A i \in 1..Len(pending') : pending'[i].op # "connectEstablished"
    <3>1. Len(Tail(pending)) \in Nat /\ Len(pending') \in Nat
      BY <1>1, Rest DEF Grows
    <3>. QED  BY <1>1, <2>1, <3>1 DEF Grows
  <2>. QED  BY <1>1, <2>2 DEF EstablishedFirst
<1>2. CASE up = 0 /\ ConnectEstablished
  <2>1. Grows(Tail(pending)) /\ up' = 1 /\ pending # <<>>
    BY <1>2, EstablishRuns, Rest, Unqueued
  <2>. QED  BY <1>1, <2>1
<1>3. CASE up = 0 /\ ~ConnectEstablished
  <2>1. UNCHANGED <<state, chan, outBuf, doing, up, down, late, destroyed>> /\ Grows(pending)
    BY <1>3, Fresh
  <2>2. pending # <<>> /\ pending[1].op = "connectEstablished"
    BY <1>3 DEF EstablishedFirst
  <2>3. Len(pending) \in Nat /\ Len(pending) >= 1
    BY <2>2, Rest
  <2>4. pending'[1] = pending[1] /\ pending' # <<>>
    BY <2>1, <2>3 DEF Grows
  <2>5. \A i \in 1..Len(pending') : pending'[i].op = "connectEstablished" => i = 1
    <3>1. ASSUME NEW i \in 1..Len(pending'), pending'[i].op = "connectEstablished"
          PROVE  i = 1
      <4>1. i <= Len(pending)
        BY <2>1, <2>3, <3>1 DEF Grows
      <4>2. i \in 1..Len(pending) /\ pending'[i] = pending[i]
        BY <2>1, <2>3, <4>1 DEF Grows
      <4>. QED  BY <3>1, <4>2 DEF EstablishedFirst
    <3>. QED  BY <3>1
  <2>. QED  BY <1>3, <2>1, <2>2, <2>4, <2>5 DEF EstablishedFirst
<1>4. CASE up = 1
  <2>1. up' = 1
    BY <1>4, UpStays
  <2>2. CASE Grows(pending)
    <3>1. \A i \in 1..Len(pending) : pending[i].op # "connectEstablished"
      BY <1>4 DEF EstablishedFirst
    <3>2. \A i \in 1..Len(pending') : pending'[i].op # "connectEstablished"
      <4>1. Len(pending) \in Nat /\ Len(pending') \in Nat
        BY <1>0, <2>2 DEF Grows
      <4>. QED  BY <2>2, <3>1, <4>1 DEF Grows
    <3>. QED  BY <2>1, <3>2 DEF EstablishedFirst
  <2>. QED  BY <1>1, <2>1, <2>2, QueueStep
<1>. QED  BY <1>0, <1>2, <1>3, <1>4

LEMMA NextUnheard ==
  ASSUME Types, EstablishedFirst, Unheard, [Next]_vars
  PROVE  Unheard'
<1> USE DEF user, net, server, log
<1>0. /\ chan \in Channel /\ Agrees(chan) /\ late \in SUBSET {"message", "send"}
      /\ down \in Nat /\ up \in 0..1
  BY DEF Types
<1>1. CASE RunSend
  <2>1. CASE down > 0 \/ destroyed
    <3>1. "send" \in late' /\ UNCHANGED <<state, destroyed>>
      BY <1>1, <2>1 DEF RunSend
    <3>. QED  BY <3>1 DEF Unheard
  <2>2. CASE ~(down > 0 \/ destroyed)
    <3>1. UNCHANGED <<late, state, down, destroyed>> /\ down = 0 /\ ~destroyed
      BY <1>0, <1>1, <2>2 DEF RunSend
    <3>. QED  BY <3>1 DEF Unheard
  <2>. QED  BY <2>1, <2>2
<1>2. CASE OwnerSends
  <2>1. UNCHANGED <<late, state, down, destroyed>> /\ state = "kConnected"
    BY <1>2 DEF OwnerSends
  <2>. QED  BY <2>1 DEF Unheard
<1>4. CASE ConnectEstablished
  <2>1. down = 0 /\ late = {} /\ ~destroyed
    BY <1>4, EstablishRuns DEF EstablishedFirst
  <2>2. UNCHANGED <<late, down, destroyed>>
    BY <1>4 DEF ConnectEstablished
  <2>. QED  BY <2>1, <2>2 DEF Unheard
<1>5. CASE ConnectDestroyed
  <2>1. UNCHANGED late /\ state' # "kConnected"
    BY <1>5 DEF ConnectDestroyed
  <2>2. ~chan'.registered
    <3>1. DisableAll(chan) \in Channel /\ Agrees(DisableAll(chan))
      BY <1>0, CallAgrees DEF Events
    <3>2. chan' = RemoveChannel(DisableAll(chan)) \/ chan' = RemoveChannel(chan)
      BY <1>5 DEF ConnectDestroyed
    <3>. QED  BY <1>0, <3>1, <3>2, RemoveUnregisters
  <2>3. down' = down \/ (state = "kConnected" /\ down' = down + 1)
    BY <1>5 DEF ConnectDestroyed
  <2>. QED  BY <1>0, <2>1, <2>2, <2>3 DEF Unheard
<1>6. CASE HandleEndOfStream \/ HandleHangup
  <2>1. /\ chan.registered /\ chan' = DisableAll(chan) /\ state' = "kDisconnected"
        /\ down' = down + 1 /\ UNCHANGED <<late, destroyed>>
    BY <1>6 DEF HandleEndOfStream, HandleHangup, HandleClose, Readable, HangsUp
  <2>2. ~chan'.registered
    BY <1>0, <2>1, DisableUnregisters
  <2>. QED  BY <1>0, <2>1, <2>2 DEF Unheard
<1>7. CASE HandleMessage
  <2>1. /\ UNCHANGED <<state, chan, down, destroyed>> /\ chan.registered
        /\ late' = IF up = 0 \/ down > 0 THEN late \cup {"message"} ELSE late
    BY <1>7 DEF HandleMessage, Readable
  <2>2. up # 0
    BY <2>1 DEF EstablishedFirst, NewChannel
  <2>3. CASE "send" \in late
    BY <2>1, <2>3 DEF Unheard
  <2>4. CASE "send" \notin late
    <3>1. late' = late
      BY <1>0, <2>1, <2>2, <2>4 DEF Unheard
    <3>. QED  BY <2>1, <3>1 DEF Unheard
  <2>. QED  BY <2>3, <2>4
<1>8. CASE UNCHANGED <<chan, down, late, destroyed>> /\ (state' = state \/ state' = "kDisconnecting")
  BY <1>8 DEF Unheard
<1>9. CASE \/ RunShutdown \/ RunUserCallback \/ HandleReadError
           \/ OwnerShutsDown \/ ThreadStep \/ \E t \in Senders : SendChecks(t)
           \/ \E t \in Closers : ShutdownChecks(t)
           \/ ServerRemoves \/ ServerDies \/ LoopStops
           \/ PeerSends \/ PeerCloses \/ PeerResets \/ UNCHANGED vars
  BY <1>8, <1>9 DEF RunShutdown, RunUserCallback, HandleReadError, OwnerShutsDown,
       ThreadStep, SendQueues, ShutdownSetsState, ShutdownQueues, SendChecks, ShutdownChecks,
       ServerRemoves, ServerDies, LoopStops, PeerSends, PeerCloses, PeerResets, vars
<1>. QED  BY <1>1, <1>2, <1>4, <1>5, <1>6, <1>7, <1>9
       DEF Next, RunFunctor, HandleInput, OwnerCalls

LEMMA InitConn == Init => ConnInv
<1> SUFFICES ASSUME Init PROVE ConnInv
  OBVIOUS
<1>1. pending \in Seq(Functors) /\ pending # <<>> /\ Len(pending) = 1
      /\ pending[1].op = "connectEstablished"
  BY FunctorTypes DEF Init, Ops
<1>2. Types
  <2>1. outBuf \in Seq(Bytes) /\ wire \in Seq(Bytes)
    BY EmptySeq DEF Init
  <2>2. in \in [came : 0..MaxIn, unread : 0..MaxIn] /\ in.unread <= in.came
    BY TcpConnectionAssumption DEF Init
  <2>3. sent \in [Threads -> Nat] /\ doing \in [Senders \cup Closers -> {"idle"}]
    BY DEF Init
  <2>4. /\ doing \in [Senders \cup Closers -> {"idle", "send", "shutdown", "queue"}]
        /\ \A t \in Senders \cup Closers : doing[t] = "idle"
    BY <2>3
  <2>5. state \in States /\ chan \in Channel /\ Agrees(chan) /\ up \in 0..1 /\ down \in Nat
        /\ closing \in Nat
    BY NewAgrees DEF Init, States
  <2>6. /\ eof \in BOOLEAN /\ fin \in BOOLEAN /\ err \in BOOLEAN
        /\ inMap \in BOOLEAN /\ serverGone \in BOOLEAN /\ stopped \in BOOLEAN
        /\ destroyed \in BOOLEAN /\ late \in SUBSET {"message", "send"}
    BY DEF Init
  <2>. QED  BY <1>1, <2>1, <2>2, <2>3, <2>4, <2>5, <2>6 DEF Types
<1>3. EstablishedFirst
  BY <1>1 DEF Init, EstablishedFirst
<1>4. Unheard
  BY DEF Init, Unheard, NewChannel
<1>. QED  BY <1>2, <1>3, <1>4 DEF ConnInv

LEMMA AlwaysConn == Spec => []ConnInv
<1>1. ConnInv /\ [Next]_vars => ConnInv'
  BY NextTypes, NextEstablished, NextUnheard DEF ConnInv
<1>. QED  BY <1>1, InitConn, PTL DEF Spec

\* The variables stay in their types: in particular the queue holds functors of
\* the connection only, and no step takes more removals than were asked for.
THEOREM TypeCorrect == Spec => []TypeOK
<1>1. ConnInv => TypeOK
  <2> SUFFICES ASSUME ConnInv PROVE TypeOK
    OBVIOUS
  <2>1. up \in Nat
    BY DEF ConnInv, Types
  <2>. QED  BY <2>1 DEF ConnInv, Types, TypeOK, Functors
<1>. QED  BY <1>1, AlwaysConn, PTL

\* The user sees the connection come up once, go down at most once and after
\* that, and messages only in between, unless a send() has come late
\* (TcpConnection.cc: connectEstablished, handleClose, connectDestroyed).
THEOREM CallbacksAlwaysPaired == Spec => []CallbacksPaired
<1>1. ConnInv => CallbacksPaired
  BY DEF ConnInv, Types, EstablishedFirst, Unheard, CallbacksPaired
<1>. QED  BY <1>1, AlwaysConn, PTL

\* connectDestroyed leaves nothing of the channel in the poller, and only a
\* send() that comes late puts it back (TcpConnection.cc:187, EPollPoller.cc).
THEOREM AlwaysRemovedForGood == Spec => RemovedForGood
<1> DEFINE Heard == chan.registered \/ chan.mapped
           Stays == destroyed' /\ Heard' => destroyed /\ (Heard \/ Runs("sendInLoop"))
<1>1. ASSUME ConnInv, [Next]_vars
      PROVE  Stays
  <2> USE DEF user, net, server, log
  <2>0. Types /\ chan \in Channel /\ Agrees(chan) /\ EstablishedFirst /\ Unheard
    BY <1>1 DEF ConnInv, Types
  <2>1. CASE RunSend
    BY <2>1 DEF RunSend
  <2>2. CASE OwnerSends
    BY <2>0, <2>2 DEF OwnerSends, Unheard
  <2>4. CASE ConnectEstablished
    BY <2>0, <2>4, EstablishRuns DEF ConnectEstablished, EstablishedFirst
  <2>5. CASE ConnectDestroyed
    <3>1. DisableAll(chan) \in Channel /\ Agrees(DisableAll(chan))
      BY <2>0, CallAgrees DEF Events
    <3>2. chan' = RemoveChannel(DisableAll(chan)) \/ chan' = RemoveChannel(chan)
      BY <2>5 DEF ConnectDestroyed
    <3>3. ~chan'.registered
      BY <2>0, <3>1, <3>2, RemoveUnregisters
    <3>4. ~chan'.mapped
      BY <2>0, <3>1, <3>2, CallEvents DEF Events
    <3>. QED  BY <3>3, <3>4
  <2>6. CASE HandleEndOfStream \/ HandleHangup
    BY <2>6 DEF HandleEndOfStream, HandleHangup, HandleClose, Readable, HangsUp
  <2>7. CASE UNCHANGED <<chan, destroyed>>
    BY <2>7
  <2>8. CASE \/ RunShutdown \/ RunUserCallback \/ HandleMessage \/ HandleReadError
             \/ OwnerShutsDown \/ ThreadStep \/ \E t \in Senders : SendChecks(t)
             \/ \E t \in Closers : ShutdownChecks(t)
             \/ ServerRemoves \/ ServerDies \/ LoopStops
             \/ PeerSends \/ PeerCloses \/ PeerResets \/ UNCHANGED vars
    BY <2>7, <2>8 DEF RunShutdown, RunUserCallback, HandleMessage, HandleReadError,
         OwnerShutsDown, ThreadStep, SendQueues, ShutdownSetsState, ShutdownQueues, SendChecks,
         ShutdownChecks, ServerRemoves, ServerDies, LoopStops, PeerSends, PeerCloses, PeerResets,
         vars
  <2>. QED  BY <1>1, <2>1, <2>2, <2>4, <2>5, <2>6, <2>8
         DEF Next, RunFunctor, HandleInput, OwnerCalls
<1>2. ConnInv /\ [Next]_vars =>
        [destroyed' /\ (chan'.registered \/ chan'.mapped) =>
           \/ destroyed /\ (chan.registered \/ chan.mapped)
           \/ destroyed /\ Runs("sendInLoop")]_vars
  BY <1>1
<1>. QED  BY <1>2, AlwaysConn, PTL DEF Spec, RemovedForGood

------------------------------------------------------------------------------
\* Who hears the close of the peer.

Leaving == \E i \in 1..Len(pending) : pending[i].op = "connectDestroyed"
Listens == chan.registered /\ "read" \in chan.interest

\* The server has the connection, or has let its loop know that it has not.
Released ==
  /\ inMap \/ destroyed \/ Leaving
  /\ serverGone => ~inMap

HeardInv == Released /\ HeardOrLeaving

LEMMA InitHeard == Init => HeardInv
<1> SUFFICES ASSUME Init PROVE HeardInv
  OBVIOUS
<1>1. /\ pending = <<Functor("connectEstablished")>>
      /\ Functor("connectEstablished").op = "connectEstablished"
      /\ inMap /\ ~serverGone
  BY DEF Init, Functor
<1>2. 1 \in DOMAIN pending /\ pending[1].op = "connectEstablished"
  BY <1>1
<1>. QED  BY <1>1, <1>2 DEF HeardInv, Released, HeardOrLeaving

\* The functor that destroys the connection waits until it has run.
LEMMA LeavingStays ==
  ASSUME Types, EstablishedFirst, [Next]_vars, Leaving
  PROVE  Leaving' \/ destroyed'
<1>1. PICK i \in 1..Len(pending) : pending[i].op = "connectDestroyed"
  BY DEF Leaving
<1>2. CASE Grows(pending)
  <2>1. i \in 1..Len(pending') /\ pending'[i].op = "connectDestroyed"
    BY <1>1, <1>2 DEF Grows
  <2>. QED  BY <2>1 DEF Leaving
<1>3. CASE pending # <<>> /\ Grows(Tail(pending)) /\ RunsFunctor
  <2>1. CASE i = 1
    <3>1. Head(pending).op = "connectDestroyed"
      BY <1>1, <1>3, <2>1, Rest
    <3>2. ConnectDestroyed
      BY <1>3, <3>1 DEF RunsFunctor, ConnectEstablished, RunSend, RunShutdown, RunUserCallback,
           Runs
    <3>. QED  BY <3>2 DEF ConnectDestroyed
  <2>2. CASE i # 1
    <3>1. /\ i - 1 \in 1..Len(Tail(pending)) /\ Tail(pending)[i - 1] = pending[i]
          /\ Len(Tail(pending)) \in Nat /\ Len(pending') \in Nat
      BY <1>3, <2>2, Rest DEF Grows
    <3>2. i - 1 \in 1..Len(pending') /\ pending'[i - 1].op = "connectDestroyed"
      BY <1>1, <1>3, <3>1 DEF Grows
    <3>. QED  BY <3>2 DEF Leaving
  <2>. QED  BY <2>1, <2>2
<1>. QED  BY <1>2, <1>3, QueueStep

\* connectDestroyed is queued.
LEMMA Leaves ==
  ASSUME Types, pending' = Append(pending, Functor("connectDestroyed"))
  PROVE  Leaving'
<1>1. Functor("connectDestroyed") \in Functors /\ Functor("connectDestroyed").op = "connectDestroyed"
  BY FunctorTypes DEF Ops
<1>2. pending \in Seq(Functors)
  BY DEF Types
<1>3. Len(pending) + 1 \in 1..Len(pending') /\ pending'[Len(pending) + 1].op = "connectDestroyed"
  BY <1>1, <1>2
<1>. QED  BY <1>3 DEF Leaving

\* Arming the readable event leaves it armed.
LEMMA ListensOn ==
  ASSUME NEW ch \in Channel, Agrees(ch), ch.registered
  PROVE  Enable(ch, "read").registered /\ "read" \in Enable(ch, "read").interest
<1>1. "read" \in Events
  BY DEF Events
<1>2. Enable(ch, "read").registered
  BY <1>1, EnableRegisters
<1>3. "read" \in Enable(ch, "read").events
  BY <1>1, CallEvents
<1>4. Agrees(Enable(ch, "read"))
  BY <1>1, CallAgrees
<1>. QED  BY <1>2, <1>3, <1>4 DEF Agrees

LEMMA NextHeard == ConnInv /\ HeardInv /\ [Next]_vars => HeardInv'
<1> SUFFICES ASSUME ConnInv, HeardInv, [Next]_vars PROVE HeardInv'
  OBVIOUS
<1> USE DEF user, net, server, log
<1>0. /\ Types /\ EstablishedFirst /\ chan \in Channel /\ Agrees(chan)
      /\ pending \in Seq(Functors) /\ closing \in Nat /\ DOMAIN pending = 1..Len(pending)
      /\ inMap \/ destroyed \/ Leaving
      /\ serverGone => ~inMap
  <2>1. pending \in Seq(Functors)
    BY DEF ConnInv, Types
  <2>. QED  BY <2>1 DEF ConnInv, Types, HeardInv, Released
<1>1. pending' \in Seq(Functors) /\ DOMAIN pending' = 1..Len(pending')
  <2>1. pending' \in Seq(Functors)
    BY <1>0, QueueStep DEF Grows
  <2>. QED  BY <2>1
\* While the connection has yet to be established its functor is the first.
<1>2. destroyed \/ Listens \/ closing > 0 \/ Leaving \/ up = 0
  BY <1>0 DEF HeardInv, HeardOrLeaving, Listens, Leaving, EstablishedFirst
<1>3. destroyed' \/ Listens' \/ closing' > 0 \/ Leaving' \/ up' = 0 => HeardOrLeaving'
  <2>1. up' = 0 => 1 \in 1..Len(pending') /\ pending'[1].op = "connectEstablished"
    <3>1. EstablishedFirst'
      BY <1>0, NextEstablished DEF ConnInv
    <3>. QED  BY <1>1, <3>1 DEF EstablishedFirst
  <2>. QED  BY <1>1, <2>1 DEF HeardOrLeaving, Listens, Leaving
<1>4. Leaving => Leaving' \/ destroyed'
  BY <1>0, LeavingStays
<1>5. ASSUME UNCHANGED <<inMap, serverGone, closing>>, destroyed => destroyed',
             Listens => Listens' \/ closing' > 0 \/ destroyed' \/ Leaving',
             up = 0 => up' = 0 \/ Listens'
      PROVE  HeardInv'
  BY <1>0, <1>2, <1>3, <1>4, <1>5 DEF HeardInv, Released
<1>6. CASE UNCHANGED <<chan, inMap, serverGone, closing, destroyed, up>>
  BY <1>5, <1>6 DEF Listens
<1>7. CASE RunSend \/ OwnerSends
  <2>1. chan' = chan \/ chan' = Enable(chan, "read")
    BY <1>0, <1>7, SendRuns, SendCalled DEF SendFacts
  <2>2. UNCHANGED <<inMap, serverGone, closing, destroyed, up>>
    BY <1>7 DEF RunSend, OwnerSends
  <2>3. Listens => Listens'
    BY <1>0, <2>1, ListensOn DEF Listens
  <2>. QED  BY <1>5, <2>2, <2>3
<1>9. CASE ConnectEstablished
  <2>1. UNCHANGED <<inMap, serverGone, closing, destroyed>>
    BY <1>9 DEF ConnectEstablished
  <2>2. chan' = Enable(chan, "read") /\ "read" \in Events
    BY <1>9 DEF ConnectEstablished, Events
  <2>3. Listens'
    BY <1>0, <2>2, EnableRegisters, CallEvents, CallAgrees DEF Listens, Agrees
  <2>. QED  BY <1>5, <2>1, <2>3
<1>10. CASE ConnectDestroyed
  <2>1. UNCHANGED <<inMap, serverGone, closing, up>> /\ destroyed'
    BY <1>10 DEF ConnectDestroyed
  <2>. QED  BY <1>5, <2>1
\* The close: the base loop hears of it, or has gone and left the functor.
<1>11. CASE HandleEndOfStream \/ HandleHangup
  <2>1. /\ UNCHANGED <<inMap, serverGone, destroyed, pending>>
        /\ closing' = IF serverGone THEN closing ELSE closing + 1
    BY <1>11 DEF HandleEndOfStream, HandleHangup, HandleClose
  <2>2. Released'
    BY <1>0, <2>1 DEF Released, Leaving
  <2>3. closing' > 0 \/ destroyed' \/ Leaving'
    BY <1>0, <2>1 DEF Leaving
  <2>. QED  BY <1>3, <2>2, <2>3 DEF HeardInv
<1>12. CASE ServerRemoves
  <2>1. Leaving' /\ UNCHANGED <<serverGone, destroyed>> /\ ~inMap'
    BY <1>0, <1>12, Leaves DEF ServerRemoves
  <2>. QED  BY <1>3, <2>1 DEF HeardInv, Released
<1>13. CASE ServerDies
  <2>1. /\ destroyed' = destroyed /\ ~inMap'
        /\ inMap => pending' = Append(pending, Functor("connectDestroyed"))
    BY <1>13 DEF ServerDies
  <2>2. destroyed' \/ Leaving'
    BY <1>0, <1>4, <2>1, Leaves
  <2>. QED  BY <1>3, <2>1, <2>2 DEF HeardInv, Released
<1>14. CASE \/ RunShutdown \/ RunUserCallback \/ HandleMessage \/ HandleReadError
            \/ OwnerShutsDown \/ ThreadStep \/ \E t \in Senders : SendChecks(t)
            \/ \E t \in Closers : ShutdownChecks(t)
            \/ LoopStops
            \/ PeerSends \/ PeerCloses \/ PeerResets \/ UNCHANGED vars
  BY <1>6, <1>14 DEF RunShutdown, RunUserCallback, HandleMessage, HandleReadError,
       OwnerShutsDown, ThreadStep, SendQueues, ShutdownSetsState, ShutdownQueues, SendChecks,
       ShutdownChecks, LoopStops, PeerSends, PeerCloses, PeerResets, vars
<1>. QED  BY <1>7, <1>9, <1>10, <1>11, <1>12, <1>13, <1>14
       DEF Next, RunFunctor, HandleInput, OwnerCalls

\* No connection is forgotten: until it is destroyed the poller waits for its
\* readable event, or somebody still has a functor to run for it
\* (TcpConnection.cc:167-189 and 260-270, TcpServer.cc:36-46 and 106-119).
THEOREM AlwaysHeardOrLeaving == Spec => []HeardOrLeaving
<1>1. HeardInv => HeardOrLeaving
  BY DEF HeardInv
<1>. QED  BY <1>1, AlwaysConn, InitHeard, NextHeard, PTL DEF Spec

------------------------------------------------------------------------------
\* The event that nothing arms.
Unarmed == ~IsWriting(chan)

LEMMA NextUnarmed ==
  ASSUME Types, Unarmed, [Next]_vars
  PROVE  Unarmed'
<1> USE DEF Unarmed, user, net, server, log
<1>0. chan \in Channel /\ Agrees(chan)
  BY DEF Types
<1>1. CASE \/ chan' = chan \/ chan' = Enable(chan, "read") \/ chan' = DisableAll(chan)
           \/ chan' = RemoveChannel(chan)
  BY <1>0, <1>1, CallEvents DEF IsWriting, Events
<1>2. CASE RunSend
  BY <1>1, <1>2, SendRuns DEF SendFacts
<1>3. CASE OwnerSends
  BY <1>1, <1>3, SendCalled DEF SendFacts
<1>4. CASE ConnectDestroyed
  <2>1. DisableAll(chan) \in Channel /\ Agrees(DisableAll(chan)) /\ DisableAll(chan).events = {}
    BY <1>0, CallAgrees, CallEvents DEF Events
  <2>2. RemoveChannel(DisableAll(chan)).events = {}
    BY <2>1, CallEvents DEF Events
  <2>3. chan' = RemoveChannel(DisableAll(chan)) \/ chan' = RemoveChannel(chan)
    BY <1>4 DEF ConnectDestroyed
  <2>. QED  BY <1>1, <2>2, <2>3 DEF IsWriting
<1>5. CASE ConnectEstablished \/ HandleEndOfStream \/ HandleHangup
  BY <1>1, <1>5 DEF ConnectEstablished, HandleEndOfStream, HandleHangup, HandleClose
<1>6. CASE \/ RunShutdown \/ RunUserCallback \/ HandleMessage \/ HandleReadError
           \/ OwnerShutsDown \/ ThreadStep
           \/ \E t \in Senders : SendChecks(t)
           \/ \E t \in Closers : ShutdownChecks(t)
           \/ ServerRemoves \/ ServerDies \/ LoopStops
           \/ PeerSends \/ PeerCloses \/ PeerResets \/ UNCHANGED vars
  BY <1>1, <1>6 DEF RunShutdown, RunUserCallback, HandleMessage, HandleReadError, OwnerShutsDown,
       ThreadStep, SendQueues, ShutdownSetsState, ShutdownQueues, SendChecks, ShutdownChecks,
       ServerRemoves, ServerDies, LoopStops, PeerSends, PeerCloses, PeerResets, vars
<1>. QED  BY <1>2, <1>3, <1>4, <1>5, <1>6 DEF Next, RunFunctor, HandleInput, OwnerCalls

\* epoll never waits for the writable event of a connection, so that handleWrite
\* is never called: sendInLoop arms the readable event (TcpConnection.cc:144).
THEOREM NeverWrites == Spec => []("write" \notin chan.interest)
<1>1. Init => Unarmed
  BY DEF Init, Unarmed, IsWriting, NewChannel
<1>2. ConnInv /\ Unarmed /\ [Next]_vars => Unarmed'
  BY NextUnarmed DEF ConnInv
<1>3. ConnInv /\ Unarmed => "write" \notin chan.interest
  BY DEF ConnInv, Types, Agrees, Unarmed, IsWriting
<1>. QED  BY <1>1, <1>2, <1>3, AlwaysConn, PTL DEF Spec

------------------------------------------------------------------------------
\* The order of the bytes.  First what is said of the bytes a on their way, in
\* wire and outputBuffer_, of the queue q, of the calls n made and of what the
\* threads are doing, d: the bytes are sorted, every message is one its sender has
\* made, and a message in the queue comes after the bytes on their way and after
\* the messages before it.
Sorted(q) ==
  \A i \in 1..Len(q), j \in 1..Len(q) :
    i < j /\ q[i] # Garbage /\ q[j] # Garbage /\ q[i][1] = q[j][1] => Before(q[i], q[j])

Made(n, d, t, k) ==
  /\ t \in Threads /\ k \in Nat /\ k <= n[t]
  /\ t \in Senders /\ d[t] = "send" => k < n[t]

Waits(f, t, k) == f.op = "sendInLoop" /\ f.data = Message(t, k)

OrderOK(a, q, n, d) ==
  /\ Sorted(a)
  /\ \A i \in 1..Len(a) : a[i] # Garbage => Made(n, d, a[i][1], a[i][2])
  /\ \A j \in 1..Len(q) : q[j].op = "sendInLoop" =>
       \E t \in Senders, k \in Nat : Waits(q[j], t, k) /\ Made(n, d, t, k)
  /\ \A i \in 1..Len(a), j \in 1..Len(q), t \in Senders, k \in Nat :
       a[i] # Garbage /\ a[i][1] = t /\ Waits(q[j], t, k) => a[i][2] < k
  /\ \A i \in 1..Len(q), j \in 1..Len(q), t \in Senders, k \in Nat, m \in Nat :
       i < j /\ Waits(q[i], t, k) /\ Waits(q[j], t, m) => k < m

Ordered == OrderOK(wire \o outBuf, pending, sent, doing)

\* Bytes of message k of thread t, in order, or garbage.
Piece(x, t, k) ==
  /\ Sorted(x)
  /\ \A i \in 1..Len(x) : x[i] # Garbage => x[i][1] = t /\ x[i][2] = k

LEMMA MessageIs ==
  ASSUME NEW t, NEW k, NEW u, NEW m, Message(t, k) = Message(u, m)
  PROVE  t = u /\ k = m
<1>1. 1 \in 1..MsgLen
  BY TcpConnectionAssumption
<1>2. Message(t, k)[1] = <<t, k, 1>> /\ Message(u, m)[1] = <<u, m, 1>>
  BY <1>1 DEF Message
<1>. QED  BY <1>2

LEMMA SortedExtends ==
  ASSUME NEW a \in Seq(Bytes), NEW x \in Seq(Bytes), NEW t, NEW k \in Nat,
         Sorted(a), Piece(x, t, k),
         \A i \in 1..Len(a) : a[i] # Garbage /\ a[i][1] = t => a[i][2] < k
  PROVE  Sorted(a \o x)
<1> DEFINE s == a \o x
<1>1. /\ Len(s) = Len(a) + Len(x) /\ Len(a) \in Nat /\ Len(x) \in Nat
      /\ \A i \in 1..(Len(a) + Len(x)) : s[i] = IF i <= Len(a) THEN a[i] ELSE x[i - Len(a)]
  BY ConcatProperties
<1> HIDE DEF s
<1>2. SUFFICES ASSUME NEW i \in 1..Len(s), NEW j \in 1..Len(s), i < j,
                      s[i] # Garbage, s[j] # Garbage, s[i][1] = s[j][1]
               PROVE  Before(s[i], s[j])
  BY DEF Sorted, s
<1>3. CASE j <= Len(a)
  <2>1. i \in 1..Len(a) /\ j \in 1..Len(a) /\ s[i] = a[i] /\ s[j] = a[j]
    BY <1>1, <1>2, <1>3
  <2>. QED  BY <1>2, <2>1 DEF Sorted
<1>4. CASE i > Len(a)
  <2>1. /\ i - Len(a) \in 1..Len(x) /\ j - Len(a) \in 1..Len(x) /\ i - Len(a) < j - Len(a)
        /\ s[i] = x[i - Len(a)] /\ s[j] = x[j - Len(a)]
    BY <1>1, <1>2, <1>4
  <2>. QED  BY <1>2, <2>1 DEF Piece, Sorted
<1>5. CASE i <= Len(a) /\ j > Len(a)
  <2>1. /\ i \in 1..Len(a) /\ s[i] = a[i]
        /\ j - Len(a) \in 1..Len(x) /\ s[j] = x[j - Len(a)]
    BY <1>1, <1>2, <1>5
  <2>2. s[j][1] = t /\ s[j][2] = k
    BY <1>2, <2>1 DEF Piece
  <2>3. s[i][2] < s[j][2]
    BY <1>2, <2>1, <2>2
  <2>. QED  BY <2>3 DEF Before
<1>6. i \in Int /\ j \in Int
  OBVIOUS
<1>. QED  BY <1>1, <1>3, <1>4, <1>5, <1>6

\* The bytes of a message join those on their way.
LEMMA Extends ==
  ASSUME NEW a \in Seq(Bytes), NEW x \in Seq(Bytes), NEW q \in Seq(Functors), NEW n, NEW d,
         OrderOK(a, q, n, d), NEW t, NEW k \in Nat, Piece(x, t, k), Made(n, d, t, k),
         \A i \in 1..Len(a) : a[i] # Garbage /\ a[i][1] = t => a[i][2] < k,
         \A j \in 1..Len(q), m \in Nat : t \in Senders /\ Waits(q[j], t, m) => k < m
  PROVE  OrderOK(a \o x, q, n, d)
<1> DEFINE s == a \o x
<1>1. /\ Len(s) = Len(a) + Len(x) /\ Len(a) \in Nat /\ Len(x) \in Nat
      /\ \A i \in 1..(Len(a) + Len(x)) : s[i] = IF i <= Len(a) THEN a[i] ELSE x[i - Len(a)]
  BY ConcatProperties
<1>2. Sorted(s)
  BY SortedExtends DEF OrderOK
<1> HIDE DEF s
<1>3. ASSUME NEW i \in 1..Len(s), s[i] # Garbage
      PROVE  \/ i \in 1..Len(a) /\ s[i] = a[i]
             \/ s[i][1] = t /\ s[i][2] = k
  <2>1. \/ i \in 1..Len(a) /\ s[i] = a[i]
        \/ i - Len(a) \in 1..Len(x) /\ s[i] = x[i - Len(a)]
    BY <1>1
  <2>. QED  BY <1>3, <2>1 DEF Piece
<1>4. \A i \in 1..Len(s) : s[i] # Garbage => Made(n, d, s[i][1], s[i][2])
  BY <1>3 DEF OrderOK
<1>5. ASSUME NEW i \in 1..Len(s), NEW j \in 1..Len(q), NEW u \in Senders, NEW m \in Nat,
             s[i] # Garbage, s[i][1] = u, Waits(q[j], u, m)
      PROVE  s[i][2] < m
  <2>1. CASE i \in 1..Len(a) /\ s[i] = a[i]
    BY <1>5, <2>1 DEF OrderOK
  <2>2. CASE s[i][1] = t /\ s[i][2] = k
    BY <1>5, <2>2
  <2>. QED  BY <1>3, <1>5, <2>1, <2>2
<1>6. OrderOK(s, q, n, d)
  BY <1>2, <1>4, <1>5 DEF OrderOK
<1>. QED  BY <1>6 DEF s

\* The first functor, or none, leaves the queue, and others than sendInLoop join.
SendsFrom(q, r, e) ==
  \A j \in 1..Len(r) : r[j].op = "sendInLoop" => j + e \in 1..Len(q) /\ r[j] = q[j + e]

LEMMA Fewer ==
  ASSUME NEW a \in Seq(Bytes), NEW q \in Seq(Functors), NEW r \in Seq(Functors), NEW n, NEW d,
         NEW e \in Nat, OrderOK(a, q, n, d), SendsFrom(q, r, e)
  PROVE  OrderOK(a, r, n, d)
<1>1. \A j \in 1..Len(r) : \A t, k :
        Waits(r[j], t, k) => j + e \in 1..Len(q) /\ Waits(q[j + e], t, k)
  BY DEF SendsFrom, Waits
<1>2. ASSUME NEW j \in 1..Len(r), r[j].op = "sendInLoop"
      PROVE  \E t \in Senders, k \in Nat : Waits(r[j], t, k) /\ Made(n, d, t, k)
  <2>1. j + e \in 1..Len(q) /\ r[j] = q[j + e]
    BY <1>2 DEF SendsFrom
  <2>. QED  BY <1>2, <2>1 DEF OrderOK
<1>3. \A i \in 1..Len(a), j \in 1..Len(r), t \in Senders, k \in Nat :
        a[i] # Garbage /\ a[i][1] = t /\ Waits(r[j], t, k) => a[i][2] < k
  BY <1>1 DEF OrderOK
<1>4. ASSUME NEW i \in 1..Len(r), NEW j \in 1..Len(r), NEW t \in Senders, NEW k \in Nat,
             NEW m \in Nat, i < j, Waits(r[i], t, k), Waits(r[j], t, m)
      PROVE  k < m
  <2>1. i + e < j + e
    BY <1>4
  <2>2. /\ i + e \in 1..Len(q) /\ Waits(q[i + e], t, k)
        /\ j + e \in 1..Len(q) /\ Waits(q[j + e], t, m)
    BY <1>1, <1>4
  <2>. QED  BY <2>1, <2>2 DEF OrderOK
<1>. QED  BY <1>2, <1>3, <1>4 DEF OrderOK

\* A thread makes a call, or goes on with one.
LEMMA Recounted ==
  ASSUME NEW a, NEW q, NEW n, NEW d, NEW n2, NEW d2, OrderOK(a, q, n, d),
         \A t, k : Made(n, d, t, k) => Made(n2, d2, t, k)
  PROVE  OrderOK(a, q, n2, d2)
<1>1. \A i \in 1..Len(a) : a[i] # Garbage => Made(n2, d2, a[i][1], a[i][2])
  BY DEF OrderOK
<1>2. \A j \in 1..Len(q) : q[j].op = "sendInLoop" =>
        \E t \in Senders, k \in Nat : Waits(q[j], t, k) /\ Made(n2, d2, t, k)
  BY DEF OrderOK
<1>. QED  BY <1>1, <1>2 DEF OrderOK

\* A message joins the queue.
LEMMA Joins ==
  ASSUME NEW a \in Seq(Bytes), NEW q \in Seq(Functors), NEW r \in Seq(Functors), NEW n, NEW d,
         NEW d2, OrderOK(a, q, n, d), NEW t \in Senders, n[t] \in Nat, d[t] = "send",
         \A u \in Senders : u # t => d2[u] = d[u], d2[t] # "send",
         NEW f \in Functors, Waits(f, t, n[t]), r = Append(q, f)
  PROVE  OrderOK(a, r, n, d2)
<1>1. /\ Len(r) = Len(q) + 1 /\ Len(q) \in Nat /\ r[Len(q) + 1] = f
      /\ \A j \in 1..Len(q) : r[j] = q[j]
  BY AppendProperties
<1>2. \A j \in 1..Len(r) : (j \in 1..Len(q) /\ r[j] = q[j]) \/ (j = Len(q) + 1 /\ r[j] = f)
  BY <1>1
<1>3. \A u, k : Made(n, d, u, k) => Made(n, d2, u, k)
  BY DEF Made
<1>4. Made(n, d2, t, n[t])
  BY DEF Made, Threads
<1>5. ASSUME NEW j \in 1..Len(q), NEW k \in Nat, Waits(q[j], t, k)
      PROVE  k < n[t]
  <2>1. PICK u \in Senders, m \in Nat : Waits(q[j], u, m) /\ Made(n, d, u, m)
    BY <1>5 DEF OrderOK, Waits
  <2>2. Message(u, m) = Message(t, k)
    BY <1>5, <2>1 DEF Waits
  <2>3. u = t /\ m = k
    BY <2>2, MessageIs
  <2>. QED  BY <2>1, <2>3 DEF Made
<1>6. ASSUME NEW u, NEW k, Waits(f, u, k)
      PROVE  u = t /\ k = n[t]
  <2>1. Message(u, k) = Message(t, n[t])
    BY <1>6 DEF Waits
  <2>. QED  BY <2>1, MessageIs
<1>8. OrderOK(a, q, n, d2)
  BY <1>3, Recounted
<1>9. \A j \in 1..Len(r) : r[j].op = "sendInLoop" =>
        \E u \in Senders, k \in Nat : Waits(r[j], u, k) /\ Made(n, d2, u, k)
  BY <1>2, <1>4, <1>8 DEF OrderOK
<1>10. ASSUME NEW i \in 1..Len(a), NEW j \in 1..Len(r), NEW u \in Senders, NEW k \in Nat,
              a[i] # Garbage, a[i][1] = u, Waits(r[j], u, k)
       PROVE  a[i][2] < k
  <2>1. CASE j \in 1..Len(q) /\ r[j] = q[j]
    BY <1>10, <2>1 DEF OrderOK
  <2>2. CASE j = Len(q) + 1 /\ r[j] = f
    <3>1. u = t /\ k = n[t]
      BY <1>6, <1>10, <2>2
    <3>2. Made(n, d, t, a[i][2])
      BY <1>10, <3>1 DEF OrderOK
    <3>. QED  BY <3>1, <3>2 DEF Made
  <2>. QED  BY <1>2, <2>1, <2>2
<1>11. ASSUME NEW i \in 1..Len(r), NEW j \in 1..Len(r), NEW u \in Senders, NEW k \in Nat,
              NEW m \in Nat, i < j, Waits(r[i], u, k), Waits(r[j], u, m)
       PROVE  k < m
  <2>0. i \in 1..Len(q) /\ r[i] = q[i]
    BY <1>1, <1>11
  <2>1. CASE j \in 1..Len(q) /\ r[j] = q[j]
    BY <1>11, <2>0, <2>1 DEF OrderOK
  <2>2. CASE j = Len(q) + 1 /\ r[j] = f
    BY <1>5, <1>6, <1>11, <2>0, <2>2
  <2>. QED  BY <1>2, <2>1, <2>2
<1>. QED  BY <1>8, <1>9, <1>10, <1>11 DEF OrderOK

\* What sendInLoop puts on its way: nothing, the data, or all but the last byte
\* of it behind the byte that happens to be before it.
Writes(x, data) ==
  \/ x = <<>>
  \/ x = data
  \/ x = <<Garbage>> \o SubSeq(data, 1, Len(data) - 1)

\* z is x followed by y.
IsConcat(z, x, y) ==
  /\ z \in Seq(Bytes) /\ Len(z) = Len(x) + Len(y)
  /\ \A i \in 1..(Len(x) + Len(y)) : z[i] = IF i <= Len(x) THEN x[i] ELSE y[i - Len(x)]

LEMMA Concats ==
  ASSUME NEW x \in Seq(Bytes), NEW y \in Seq(Bytes)
  PROVE  IsConcat(x \o y, x, y)
BY ConcatProperties DEF IsConcat

LEMMA Associates ==
  ASSUME NEW a \in Seq(Bytes), NEW b \in Seq(Bytes), NEW c \in Seq(Bytes),
         NEW ab, NEW bc, NEW l, NEW r,
         IsConcat(ab, a, b), IsConcat(bc, b, c), IsConcat(l, ab, c), IsConcat(r, a, bc)
  PROVE  l = r
<1>1. /\ Len(a) \in Nat /\ Len(b) \in Nat /\ Len(c) \in Nat
      /\ Len(ab) = Len(a) + Len(b) /\ Len(bc) = Len(b) + Len(c)
      /\ Len(l) = Len(ab) + Len(c) /\ Len(r) = Len(a) + Len(bc)
      /\ l \in Seq(Bytes) /\ r \in Seq(Bytes)
  BY DEF IsConcat
<1>2. ASSUME NEW i \in 1..Len(l)
      PROVE  l[i] = r[i]
  <2>0. i \in 1..(Len(ab) + Len(c)) /\ i \in 1..(Len(a) + Len(bc)) /\ i \in Int
    BY <1>1
  <2>1. /\ l[i] = IF i <= Len(ab) THEN ab[i] ELSE c[i - Len(ab)]
        /\ r[i] = IF i <= Len(a) THEN a[i] ELSE bc[i - Len(a)]
    BY <2>0 DEF IsConcat
  <2>2. CASE i <= Len(ab)
    <3>1. i \in 1..(Len(a) + Len(b))
      BY <1>1, <2>0, <2>2
    <3>2. ab[i] = IF i <= Len(a) THEN a[i] ELSE b[i - Len(a)]
      BY <3>1 DEF IsConcat
    <3>3. CASE i <= Len(a)
      BY <2>1, <2>2, <3>2, <3>3
    <3>4. CASE ~(i <= Len(a))
      <4>1. i - Len(a) \in 1..(Len(b) + Len(c)) /\ i - Len(a) <= Len(b)
        BY <1>1, <2>0, <2>2, <3>4
      <4>2. bc[i - Len(a)] = b[i - Len(a)]
        BY <4>1 DEF IsConcat
      <4>. QED  BY <2>1, <2>2, <3>2, <3>4, <4>2
    <3>. QED  BY <3>3, <3>4
  <2>3. CASE ~(i <= Len(ab))
    <3>1. /\ i - Len(a) \in 1..(Len(b) + Len(c)) /\ ~(i - Len(a) <= Len(b)) /\ ~(i <= Len(a))
          /\ (i - Len(a)) - Len(b) = i - Len(ab)
      BY <1>1, <2>0, <2>3
    <3>2. bc[i - Len(a)] = c[(i - Len(a)) - Len(b)]
      BY <3>1 DEF IsConcat
    <3>. QED  BY <2>1, <2>3, <3>1, <3>2
  <2>. QED  BY <2>2, <2>3
<1>3. Len(l) = Len(r)
  BY <1>1
<1>. QED  BY <1>1, <1>2, <1>3, SeqEqual

LEMMA Joined ==
  ASSUME NEW a \in Seq(Bytes), NEW b \in Seq(Bytes), NEW c \in Seq(Bytes)
  PROVE  (a \o b) \o c = a \o (b \o c)
<1>1. IsConcat(a \o b, a, b) /\ IsConcat(b \o c, b, c)
  BY Concats
<1>2. a \o b \in Seq(Bytes) /\ b \o c \in Seq(Bytes)
  BY ConcatProperties
<1>3. IsConcat((a \o b) \o c, a \o b, c) /\ IsConcat(a \o (b \o c), a, b \o c)
  BY <1>2, Concats
<1>. QED  BY <1>1, <1>3, Associates

LEMMA SendWrites ==
  ASSUME Types, NEW data \in Seq(Bytes), NEW rest \in Seq(Functors), SendInLoop(data, rest)
  PROVE  \E x \in Seq(Bytes) : wire' \o outBuf' = (wire \o outBuf) \o x /\ Writes(x, data)
<1> DEFINE direct == ~IsWriting(chan) /\ outBuf = <<>>
<1>1. PICK r \in IF direct THEN WriteResults(data) ELSE {[n |-> 0, fault |-> FALSE]} :
        /\ wire' = wire \o SubSeq(data, 1, r.n)
        /\ outBuf' = outBuf \o (IF r.fault THEN <<>> ELSE Remaining(data, r.n))
  BY DEF SendInLoop
<1>2. r \in Results(data) /\ (r.n \in -1..0 \/ outBuf = <<>>)
  <2>1. CASE direct
    BY <1>1, <2>1, WriteIs
  <2>2. CASE ~direct
    <3>1. r = [n |-> 0, fault |-> FALSE]
      BY <1>1, <2>2
    <3>. QED  BY <3>1, WriteIs
  <2>. QED  BY <2>1, <2>2
<1>3. /\ r.n \in -1..Len(data) /\ r.fault \in BOOLEAN /\ (r.fault => r.n = -1)
      /\ Len(data) \in Nat /\ wire \in Seq(Bytes) /\ outBuf \in Seq(Bytes) /\ <<>> \in Seq(Bytes)
  BY <1>2, EmptySeq DEF Results, Types
<1>4. CASE r.n \in -1..0
  <2> DEFINE x == IF r.fault THEN <<>> ELSE Remaining(data, r.n)
  <2>1. SubSeq(data, 1, r.n) = <<>>
    BY <1>4, SubSeqEmpty
  <2>2. x \in Seq(Bytes)
    BY <1>3, RemainingType
  <2>3. Writes(x, data)
    <3>1. CASE r.fault
      BY <3>1 DEF Writes
    <3>2. CASE ~r.fault /\ r.n = -1
      BY <3>2 DEF Writes, Remaining
    <3>3. CASE ~r.fault /\ r.n = 0
      <4>1. x = SubSeq(data, 1, Len(data))
        BY <3>3 DEF Remaining
      <4>. QED  BY <4>1, SubSeqFull DEF Writes
    <3>. QED  BY <1>3, <1>4, <3>1, <3>2, <3>3
  <2>4. wire' = wire /\ outBuf' = outBuf \o x
    BY <1>1, <1>3, <2>1, ConcatEmptySeq
  <2> HIDE DEF x
  <2>5. (wire \o outBuf) \o x = wire \o (outBuf \o x)
    BY <1>3, <2>2, Joined
  <2>. QED  BY <2>2, <2>3, <2>4, <2>5
<1>5. CASE r.n \notin -1..0
  <2> DEFINE u == SubSeq(data, 1, r.n)
             v == SubSeq(data, r.n + 1, Len(data))
  <2>1. outBuf = <<>> /\ ~r.fault /\ r.n \in 1..Len(data)
    BY <1>2, <1>3, <1>5
  <2>2. u \in Seq(Bytes) /\ v \in Seq(Bytes) /\ u \o v = SubSeq(data, 1, Len(data))
    <3>1. /\ 1 \in 1..(Len(data) + 1) /\ r.n + 1 \in 1..(Len(data) + 1)
          /\ r.n \in 1 - 1..Len(data) /\ Len(data) \in r.n..Len(data)
          /\ r.n \in Int /\ r.n <= Len(data) /\ Len(data) \in Int
      BY <1>3, <2>1
    <3>2. u \in Seq(Bytes)
      BY <3>1, PartType
    <3>3. v \in Seq(Bytes)
      BY <3>1, PartType
    <3>4. u \o v = SubSeq(data, 1, Len(data))
      BY <3>1, ConcatAdjacentSubSeq
    <3>. QED  BY <3>2, <3>3, <3>4
  <2>3. u \o v = data
    BY <2>2, SubSeqFull
  <2>4. Remaining(data, r.n) = v
    BY <2>1 DEF Remaining
  <2>5. wire' = wire \o u /\ outBuf' = v /\ wire \o outBuf = wire
    BY <1>1, <1>3, <2>1, <2>2, <2>4, ConcatEmptySeq
  <2> HIDE DEF u, v
  <2>6. (wire \o u) \o v = wire \o (u \o v)
    BY <1>3, <2>2, Joined
  <2>7. wire' \o outBuf' = (wire \o outBuf) \o data
    BY <2>3, <2>5, <2>6
  <2>. QED  BY <2>7 DEF Writes
<1>. QED  BY <1>4, <1>5

LEMMA SortedMessage ==
  ASSUME NEW t \in Threads, NEW k \in Nat
  PROVE  /\ Piece(Message(t, k), t, k)
         /\ Piece(<<Garbage>> \o SubSeq(Message(t, k), 1, Len(Message(t, k)) - 1), t, k)
<1> DEFINE m == Message(t, k)
           g == <<Garbage>> \o SubSeq(m, 1, Len(m) - 1)
<1>1. /\ m \in Seq(Bytes) /\ Len(m) = MsgLen /\ MsgLen \in Nat
      /\ \A i \in 1..MsgLen : m[i] = <<t, k, i>>
  BY Messages DEF Message
<1>2. MsgLen >= 1 /\ Garbage \in Bytes
  BY Messages, TcpConnectionAssumption
<1> HIDE DEF m
<1>3. Piece(m, t, k)
  BY <1>1 DEF Piece, Sorted, Before
<1>4. /\ SubSeq(m, 1, MsgLen - 1) \in Seq(Bytes) /\ Len(SubSeq(m, 1, MsgLen - 1)) = MsgLen - 1
      /\ \A i \in 1..(MsgLen - 1) : SubSeq(m, 1, MsgLen - 1)[i] = m[i]
  <2>1. \A i \in 1..(MsgLen - 1) : m[i] \in Bytes
    BY <1>1
  <2>. QED  BY <1>1, <1>2, <2>1, SubSeqProperties
<1>5. <<Garbage>> \in Seq(Bytes) /\ Len(<<Garbage>>) = 1 /\ <<Garbage>>[1] = Garbage
  BY <1>2
<1>6. /\ Len(g) = MsgLen
      /\ \A i \in 1..MsgLen : g[i] = IF i <= 1 THEN <<Garbage>>[i]
                                     ELSE SubSeq(m, 1, MsgLen - 1)[i - 1]
  BY <1>1, <1>4, <1>5, ConcatProperties
<1> HIDE DEF g
<1>7. \A i \in 1..MsgLen : g[i] # Garbage => i > 1 /\ g[i] = <<t, k, i - 1>>
  <2>1. ASSUME NEW i \in 1..MsgLen, i > 1
        PROVE  g[i] = <<t, k, i - 1>>
    <3>1. i - 1 \in 1..(MsgLen - 1) /\ i - 1 \in 1..MsgLen /\ ~(i <= 1)
      BY <1>1, <2>1
    <3>. QED  BY <1>1, <1>4, <1>6, <3>1
  <2>2. ASSUME NEW i \in 1..MsgLen, ~(i > 1)
        PROVE  g[i] = Garbage
    <3>1. i = 1 /\ i <= 1
      BY <1>1, <2>2
    <3>. QED  BY <1>5, <1>6, <3>1
  <2>. QED  BY <2>1, <2>2
<1>8. Piece(g, t, k)
  <2>1. ASSUME NEW i \in 1..MsgLen, NEW j \in 1..MsgLen, i < j, g[i] # Garbage, g[j] # Garbage
        PROVE  Before(g[i], g[j])
    <3>1. g[i] = <<t, k, i - 1>> /\ g[j] = <<t, k, j - 1>> /\ i - 1 < j - 1
      BY <1>7, <2>1
    <3>. QED  BY <3>1 DEF Before
  <2>2. \A i \in 1..MsgLen : g[i] # Garbage => g[i][1] = t /\ g[i][2] = k
    BY <1>7
  <2>. QED  BY <1>6, <2>1, <2>2 DEF Piece, Sorted
<1>. QED  BY <1>3, <1>8 DEF g, m

LEMMA PieceOf ==
  ASSUME NEW t \in Threads, NEW k \in Nat, NEW data, NEW x,
         data = Message(t, k) \/ data = [i \in 1..MsgLen |-> Garbage], Writes(x, data)
  PROVE  Piece(x, t, k)
<1>1. CASE x = <<>>
  BY <1>1 DEF Piece, Sorted
<1>2. CASE data = Message(t, k) /\ x # <<>>
  BY <1>2, SortedMessage DEF Writes
<1>3. CASE data = [i \in 1..MsgLen |-> Garbage] /\ x # <<>>
  <2>1. \A i \in 1..Len(x) : x[i] = Garbage
    <3>1. /\ data \in Seq(Bytes) /\ MsgLen \in Nat /\ MsgLen >= 1 /\ Len(data) = MsgLen
          /\ Garbage \in Bytes
      BY <1>3, Messages, TcpConnectionAssumption
    <3>2. \A i \in 1..MsgLen : data[i] = Garbage
      BY <1>3
    <3>3. CASE x = data
      BY <3>1, <3>2, <3>3
    <3>4. CASE x = <<Garbage>> \o SubSeq(data, 1, Len(data) - 1)
      <4>1. /\ SubSeq(data, 1, MsgLen - 1) \in Seq(Bytes)
            /\ Len(SubSeq(data, 1, MsgLen - 1)) = MsgLen - 1
            /\ \A i \in 1..(MsgLen - 1) : SubSeq(data, 1, MsgLen - 1)[i] = data[i]
        <5>1. \A i \in 1..(MsgLen - 1) : data[i] \in Bytes
          BY <3>1
        <5>. QED  BY <3>1, <5>1, SubSeqProperties
      <4>2. <<Garbage>> \in Seq(Bytes) /\ Len(<<Garbage>>) = 1 /\ <<Garbage>>[1] = Garbage
        BY <3>1
      <4>3. /\ Len(x) = MsgLen
            /\ \A i \in 1..MsgLen : x[i] = IF i <= 1 THEN <<Garbage>>[i]
                                           ELSE SubSeq(data, 1, MsgLen - 1)[i - 1]
        BY <3>1, <3>4, <4>1, <4>2, ConcatProperties
      <4>4. ASSUME NEW i \in 1..MsgLen
            PROVE  x[i] = Garbage
        <5>1. CASE i = 1
          <6>1. i <= 1
            BY <5>1
          <6>. QED  BY <4>2, <4>3, <5>1, <6>1
        <5>2. CASE i # 1
          <6>1. ~(i <= 1) /\ i - 1 \in 1..(MsgLen - 1) /\ i - 1 \in 1..MsgLen
            BY <3>1, <5>2
          <6>. QED  BY <3>2, <4>1, <4>3, <6>1
        <5>. QED  BY <5>1, <5>2
      <4>. QED  BY <4>3, <4>4
    <3>. QED  BY <1>3, <3>3, <3>4 DEF Writes
  <2>. QED  BY <2>1 DEF Piece, Sorted
<1>. QED  BY <1>1, <1>2, <1>3

\* What joins the queue behind rest is no sendInLoop.
Quietly(rest) ==
  /\ pending' \in Seq(Functors) /\ Len(pending') >= Len(rest)
  /\ \A i \in 1..Len(rest) : pending'[i] = rest[i]
  /\ \A i \in 1..Len(pending') : i > Len(rest) => pending'[i].op # "sendInLoop"

LEMMA QuietKeeps ==
  ASSUME Types, Quietly(pending)
  PROVE  SendsFrom(pending, pending', 0)
<1>1. Len(pending) \in Nat /\ Len(pending') \in Nat
  BY DEF Types, Quietly
<1>2. ASSUME NEW j \in 1..Len(pending'), pending'[j].op = "sendInLoop"
      PROVE  j + 0 \in 1..Len(pending) /\ pending'[j] = pending[j + 0]
  <2>1. j <= Len(pending)
    BY <1>1, <1>2 DEF Quietly
  <2>2. j \in 1..Len(pending) /\ j + 0 = j
    BY <1>1, <2>1
  <2>. QED  BY <2>2 DEF Quietly
<1>. QED  BY <1>2 DEF SendsFrom

LEMMA QuietTakes ==
  ASSUME Types, pending # <<>>, Quietly(Tail(pending))
  PROVE  SendsFrom(pending, pending', 1)
<1>1. Len(pending) \in Nat /\ Len(pending') \in Nat /\ Len(Tail(pending)) = Len(pending) - 1
  BY Rest DEF Types, Quietly
<1>2. ASSUME NEW j \in 1..Len(pending'), pending'[j].op = "sendInLoop"
      PROVE  j + 1 \in 1..Len(pending) /\ pending'[j] = pending[j + 1]
  <2>1. j <= Len(Tail(pending))
    BY <1>1, <1>2 DEF Quietly
  <2>2. j \in 1..Len(Tail(pending)) /\ j + 1 \in 1..Len(pending)
    BY <1>1, <2>1
  <2>. QED  BY <2>2, Rest DEF Quietly
<1>. QED  BY <1>2 DEF SendsFrom

LEMMA QuietSame ==
  ASSUME NEW rest \in Seq(Functors), pending' = rest
  PROVE  Quietly(rest)
<1>1. Len(rest) \in Nat
  OBVIOUS
<1>. QED  BY <1>1 DEF Quietly

LEMMA QuietAppend ==
  ASSUME NEW rest \in Seq(Functors), NEW f \in Functors, f.op # "sendInLoop",
         pending' = Append(rest, f)
  PROVE  Quietly(rest)
<1>1. /\ pending' \in Seq(Functors) /\ Len(pending') = Len(rest) + 1
      /\ \A i \in 1..Len(rest) : pending'[i] = rest[i]
      /\ pending'[Len(rest) + 1] = f /\ Len(rest) \in Nat
  BY AppendProperties
<1>2. \A i \in 1..Len(pending') : i > Len(rest) => i = Len(rest) + 1
  BY <1>1
<1>. QED  BY <1>1, <1>2 DEF Quietly

LEMMA QuietSend ==
  ASSUME NEW rest \in Seq(Functors), SendFacts(rest)
  PROVE  Quietly(rest)
BY DEF SendFacts, Quietly

LEMMA RunSendOrdered ==
  ASSUME Types, Ordered, RunSend
  PROVE  Ordered'
<1> DEFINE a == wire \o outBuf
<1>1. /\ pending # <<>> /\ pending[1].op = "sendInLoop" /\ pending[1] = Head(pending)
      /\ 1 \in 1..Len(pending) /\ Tail(pending) \in Seq(Functors) /\ pending \in Seq(Functors)
  BY Rest DEF RunSend, Runs, Types
<1>2. OrderOK(a, pending, sent, doing) /\ a \in Seq(Bytes)
  BY ConcatProperties DEF Ordered, Types
<1>3. PICK t \in Senders, k \in Nat : Waits(pending[1], t, k) /\ Made(sent, doing, t, k)
  BY <1>1, <1>2 DEF OrderOK
<1>4. PICK data \in {Head(pending).data, [i \in 1..MsgLen |-> Garbage]} :
        SendInLoop(data, Tail(pending))
  BY DEF RunSend
<1>5. t \in Threads /\ data \in Seq(Bytes)
      /\ (data = Message(t, k) \/ data = [i \in 1..MsgLen |-> Garbage])
  BY <1>1, <1>3, <1>4, Messages DEF Waits, Threads
<1>6. PICK x \in Seq(Bytes) : wire' \o outBuf' = a \o x /\ Writes(x, data)
  BY <1>1, <1>4, <1>5, SendWrites
<1>7. Piece(x, t, k)
  BY <1>5, <1>6, PieceOf
<1>8. Quietly(Tail(pending))
  BY <1>1, SendRuns, QuietSend
<1>9. SendsFrom(pending, pending', 1) /\ pending' \in Seq(Functors)
  BY <1>1, <1>8, QuietTakes DEF Quietly
<1> HIDE DEF a
<1>10. OrderOK(a, pending', sent, doing)
  BY <1>1, <1>2, <1>9, Fewer
<1>11. \A i \in 1..Len(a) : a[i] # Garbage /\ a[i][1] = t => a[i][2] < k
  BY <1>1, <1>2, <1>3 DEF OrderOK
<1>12. ASSUME NEW j \in 1..Len(pending'), NEW m \in Nat, Waits(pending'[j], t, m)
       PROVE  k < m
  <2>1. j + 1 \in 1..Len(pending) /\ Waits(pending[j + 1], t, m) /\ 1 < j + 1
    BY <1>9, <1>12 DEF SendsFrom, Waits
  <2>. QED  BY <1>1, <1>2, <1>3, <2>1 DEF OrderOK
<1>13. OrderOK(a \o x, pending', sent, doing)
  BY <1>2, <1>3, <1>7, <1>9, <1>10, <1>11, <1>12, Extends
<1>14. UNCHANGED <<sent, doing>>
  BY DEF RunSend, user
<1>. QED  BY <1>6, <1>13, <1>14 DEF Ordered

LEMMA OwnerSendsOrdered ==
  ASSUME Types, Ordered, OwnerSends
  PROVE  Ordered'
<1> DEFINE a == wire \o outBuf
           k == sent[Owner] + 1
<1>1. /\ pending \in Seq(Functors) /\ Owner \in Threads /\ Owner \notin Senders
      /\ sent \in [Threads -> Nat] /\ k \in Nat
  BY TcpConnectionAssumption DEF Types, Threads
<1>2. OrderOK(a, pending, sent, doing) /\ a \in Seq(Bytes)
  BY ConcatProperties DEF Ordered, Types
<1>3. /\ SendInLoop(Message(Owner, k), pending) /\ UNCHANGED doing
      /\ sent' = [sent EXCEPT ![Owner] = @ + 1]
  BY DEF OwnerSends
<1>4. Message(Owner, k) \in Seq(Bytes)
  BY <1>1, Messages
<1>5. PICK x \in Seq(Bytes) : wire' \o outBuf' = a \o x /\ Writes(x, Message(Owner, k))
  BY <1>1, <1>3, <1>4, SendWrites
<1>6. Piece(x, Owner, k)
  BY <1>1, <1>5, PieceOf
<1>7. Quietly(pending)
  BY <1>1, SendCalled, QuietSend
<1>8. SendsFrom(pending, pending', 0) /\ pending' \in Seq(Functors)
  BY <1>7, QuietKeeps DEF Quietly
<1>9. sent'[Owner] = k /\ \A t \in Threads : sent[t] <= sent'[t] /\ sent[t] \in Nat /\ sent'[t] \in Nat
  BY <1>1, <1>3
<1>10. \A t, m : Made(sent, doing, t, m) => Made(sent', doing', t, m)
  BY <1>3, <1>9 DEF Made
<1>11. \A m : Made(sent, doing, Owner, m) => m < k
  BY <1>1 DEF Made
<1>12. Made(sent', doing', Owner, k)
  BY <1>1, <1>9 DEF Made
<1> HIDE DEF a, k
<1>13. OrderOK(a, pending', sent, doing)
  BY <1>1, <1>2, <1>8, Fewer
<1>14. OrderOK(a, pending', sent', doing')
  BY <1>10, <1>13, Recounted
<1>15. \A i \in 1..Len(a) : a[i] # Garbage /\ a[i][1] = Owner => a[i][2] < k
  BY <1>2, <1>11 DEF OrderOK
<1>16. OrderOK(a \o x, pending', sent', doing')
  BY <1>1, <1>2, <1>6, <1>8, <1>12, <1>14, <1>15, Extends
<1>. QED  BY <1>5, <1>16 DEF Ordered

LEMMA NextOrdered ==
  ASSUME Types, Ordered, [Next]_vars
  PROVE  Ordered'
<1> USE DEF user, net, server, log
<1>0. /\ pending \in Seq(Functors) /\ wire \o outBuf \in Seq(Bytes)
      /\ doing \in [Senders \cup Closers -> {"idle", "send", "shutdown", "queue"}]
      /\ sent \in [Threads -> Nat]
  BY ConcatProperties DEF Types
<1>1. ASSUME wire' \o outBuf' = wire \o outBuf, UNCHANGED <<sent, doing>>,
             Quietly(pending) \/ (pending # <<>> /\ Quietly(Tail(pending)))
      PROVE  Ordered'
  <2>1. PICK e \in {0, 1} : SendsFrom(pending, pending', e)
    BY <1>1, QuietKeeps, QuietTakes
  <2>2. pending' \in Seq(Functors)
    BY <1>1 DEF Quietly
  <2>3. OrderOK(wire \o outBuf, pending', sent, doing)
    BY <1>0, <2>1, <2>2, Fewer DEF Ordered
  <2>. QED  BY <1>1, <2>3 DEF Ordered
<1>3. CASE ServerRemoves \/ ServerDies
  <2>1. /\ UNCHANGED <<wire, outBuf, sent, doing>>
        /\ UNCHANGED pending \/ pending' = Append(pending, Functor("connectDestroyed"))
    BY <1>3 DEF ServerRemoves, ServerDies
  <2>2. Functor("connectDestroyed") \in Functors
        /\ Functor("connectDestroyed").op = "connectDestroyed"
    BY FunctorTypes DEF Ops
  <2>3. Quietly(pending)
    BY <1>0, <2>1, <2>2, QuietSame, QuietAppend
  <2>. QED  BY <1>1, <2>1, <2>3
<1>4. CASE ConnectEstablished \/ RunShutdown \/ RunUserCallback
  <2>1. /\ UNCHANGED <<wire, outBuf, sent, doing>>
        /\ pending # <<>> /\ pending' = Tail(pending)
    BY <1>4 DEF ConnectEstablished, RunShutdown, RunUserCallback, Runs
  <2>2. Quietly(Tail(pending))
    BY <2>1, Rest, QuietSame
  <2>. QED  BY <1>1, <2>1, <2>2
<1>5. CASE UNCHANGED <<wire, outBuf, sent, doing, pending>>
  BY <1>0, <1>1, <1>5, QuietSame
<1>6. CASE HandleInput \/ OwnerShutsDown \/ LoopStops \/ PeerSends \/ PeerCloses \/ PeerResets
           \/ UNCHANGED vars
  BY <1>5, <1>6 DEF HandleInput, HandleMessage, HandleEndOfStream, HandleReadError, HandleHangup,
       OwnerShutsDown, LoopStops, PeerSends, PeerCloses, PeerResets, vars
<1>7. ASSUME NEW t \in Senders \cup Closers, SendQueues(t)
      PROVE  Ordered'
  <2> DEFINE f == Send(Message(t, sent[t]))
  <2>1. t \in Senders /\ t \in Threads /\ sent[t] \in Nat /\ doing[t] = "send"
    BY <1>7 DEF SendQueues, Does, Types, Threads
  <2>2. f \in Functors /\ Waits(f, t, sent[t])
    BY <2>1, Messages, FunctorTypes DEF Waits, Send
  <2>3. /\ pending' = Append(pending, f) /\ UNCHANGED <<wire, outBuf, sent>>
        /\ doing' = [doing EXCEPT ![t] = "idle"]
    BY <1>7 DEF SendQueues, Does
  <2> HIDE DEF f
  <2>4. /\ \A u \in Senders : u # t => doing'[u] = doing[u]
        /\ doing'[t] # "send"
    BY <1>0, <2>1, <2>3
  <2>5. pending' \in Seq(Functors)
    BY <1>0, <2>2, <2>3, AppendProperties
  <2>6. OrderOK(wire \o outBuf, pending', sent, doing')
    BY <1>0, <2>1, <2>2, <2>3, <2>4, <2>5, Joins DEF Ordered
  <2>. QED  BY <2>3, <2>6 DEF Ordered
<1>8. ASSUME NEW t \in Senders \cup Closers, ShutdownQueues(t)
      PROVE  Ordered'
  <2>1. /\ UNCHANGED <<wire, outBuf, sent>> /\ doing' = [doing EXCEPT ![t] = "idle"]
        /\ pending' = Append(pending, Functor("shutdownInLoop"))
    BY <1>8 DEF ShutdownQueues, Does
  <2>2. Functor("shutdownInLoop") \in Functors
        /\ Functor("shutdownInLoop").op = "shutdownInLoop"
    BY FunctorTypes DEF Ops
  <2>3. SendsFrom(pending, pending', 0) /\ pending' \in Seq(Functors)
    BY <1>0, <2>1, <2>2, QuietAppend, QuietKeeps DEF Quietly
  <2>4. OrderOK(wire \o outBuf, pending', sent, doing)
    BY <1>0, <2>3, Fewer DEF Ordered
  <2>5. \A u \in Senders : doing'[u] = doing[u] \/ doing'[u] = "idle"
    BY <1>0, <2>1
  <2>6. \A u, k : Made(sent, doing, u, k) => Made(sent', doing', u, k)
    BY <2>1, <2>5 DEF Made
  <2>7. OrderOK(wire \o outBuf, pending', sent', doing')
    BY <2>4, <2>6, Recounted
  <2>. QED  BY <2>1, <2>7 DEF Ordered
<1>9. ASSUME NEW t \in Senders, SendChecks(t)
      PROVE  Ordered'
  <2>1. /\ UNCHANGED <<wire, outBuf, pending>> /\ sent' = [sent EXCEPT ![t] = @ + 1]
        /\ doing' = [doing EXCEPT ![t] = "send"]
    BY <1>9 DEF SendChecks, Does
  <2>2. /\ \A u \in Threads : sent[u] \in Nat /\ sent'[u] = IF u = t THEN sent[u] + 1 ELSE sent[u]
        /\ \A u \in Senders : u # t => doing'[u] = doing[u]
    BY <1>0, <2>1 DEF Threads
  <2>3. \A u, k : Made(sent, doing, u, k) => Made(sent', doing', u, k)
    BY <2>2 DEF Made
  <2>4. OrderOK(wire \o outBuf, pending, sent', doing')
    BY <2>3, Recounted DEF Ordered
  <2>. QED  BY <2>1, <2>4 DEF Ordered
<1>10. ASSUME NEW t \in Senders \cup Closers, ShutdownChecks(t) \/ ShutdownSetsState(t)
       PROVE  Ordered'
  <2>1. /\ UNCHANGED <<wire, outBuf, pending, sent>>
        /\ doing' = [doing EXCEPT ![t] = "shutdown"] \/ doing' = [doing EXCEPT ![t] = "queue"]
    BY <1>10 DEF ShutdownChecks, ShutdownSetsState, Does
  <2>2. \A u \in Senders : doing'[u] = doing[u] \/ doing'[u] # "send"
    BY <1>0, <2>1
  <2>3. \A u, k : Made(sent, doing, u, k) => Made(sent', doing', u, k)
    BY <2>1, <2>2 DEF Made
  <2>4. OrderOK(wire \o outBuf, pending, sent', doing')
    BY <2>3, Recounted DEF Ordered
  <2>. QED  BY <2>1, <2>4 DEF Ordered
<1>11. CASE ConnectDestroyed
  <2>1. /\ UNCHANGED <<wire, outBuf, sent>> /\ pending # <<>> /\ pending' = Tail(pending)
    BY <1>11 DEF ConnectDestroyed, Runs
  <2>2. SendsFrom(pending, pending', 1) /\ pending' \in Seq(Functors)
    BY <2>1, Rest, QuietSame, QuietTakes DEF Quietly
  <2>3. OrderOK(wire \o outBuf, pending', sent, doing)
    BY <1>0, <2>2, Fewer DEF Ordered
  <2>4. \A u \in Senders : doing'[u] = doing[u] \/ doing'[u] # "send"
    BY <1>11, DestroyedThreads
  <2>5. \A u, k : Made(sent, doing, u, k) => Made(sent', doing', u, k)
    BY <2>1, <2>4 DEF Made
  <2>6. OrderOK(wire \o outBuf, pending', sent', doing')
    BY <2>3, <2>5, Recounted
  <2>. QED  BY <2>1, <2>6 DEF Ordered
<1>. QED  BY <1>3, <1>4, <1>6, <1>7, <1>8, <1>9, <1>10, <1>11, RunSendOrdered, OwnerSendsOrdered
       DEF Next, RunFunctor, OwnerCalls, ThreadStep

\* Whatever write() accepts and whichever threads send, no byte of a sender
\* overtakes an earlier one of his (TcpConnection.cc: send, sendInLoop).
THEOREM SendAlwaysInOrder == Spec => []SendOrder
<1>1. Init => Ordered
  <2> SUFFICES ASSUME Init PROVE Ordered
    OBVIOUS
  <2>1. wire \o outBuf = <<>> /\ Len(pending) = 1 /\ pending[1].op = "connectEstablished"
    BY ConcatEmptySeq, EmptySeq DEF Init, Functor
  <2>. QED  BY <2>1 DEF Ordered, OrderOK, Sorted, Waits
<1>2. ConnInv /\ Ordered /\ [Next]_vars => Ordered'
  BY NextOrdered DEF ConnInv
<1>3. Ordered => SendOrder
  BY DEF Ordered, OrderOK, Sorted, SendOrder
<1>. QED  BY <1>1, <1>2, <1>3, AlwaysConn, PTL DEF Spec

==============================================================================
