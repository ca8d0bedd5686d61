--------------------------- MODULE TcpServerProofs ---------------------------
(***************************************************************************)
(* Proofs about TcpServer, for any number of threads in the pool, of       *)
(* connections, of descriptors and of callers of start().                  *)
(***************************************************************************)
EXTENDS TcpServer, ChannelProofs, TLAPS

States == {"kDisconnected", "kConnecting", "kConnected", "kDisconnecting"}

ConnRecord == [state : States, loop : Loop, chan : Channel, up : 0..1, down : Nat, fin : BOOLEAN,
               calls : Nat, late : BOOLEAN]

LoopRecord == [pc : LoopPC, quit : BOOLEAN, pending : Seq(Functors), batch : Seq(Functors),
               kept : SUBSET Conn, active : SUBSET (Conn \cup {Acceptor})]

\* What state_ says of the callbacks made and of the channel, which a late send()
\* may have put back into the poller.
ConnOK(r) ==
  /\ r \in ConnRecord
  /\ Agrees(r.chan)
  /\ r.state = "kConnecting" =>
       r.up = 0 /\ r.down = 0 /\ r.chan = NewChannel /\ r.loop # Base /\ r.calls = 0 /\ ~r.late
  /\ r.state = "kConnected" => r.up = 1 /\ r.down = 0 /\ Watched(r) /\ ~r.late
  /\ r.state = "kDisconnecting" => r.up = 1 /\ r.down = 0
  /\ r.state = "kDisconnected" =>
       r.up = 1 /\ r.down # 0 /\ (~r.late => r.down = 1 /\ ~r.chan.registered)

------------------------------------------------------------------------------
\* Functors in a queue.

Ops == {"connectEstablished", "connectDestroyed", "removeConnectionInLoop", "sendInLoop"}

Is(f, op, c) == f.op = op /\ f.conn = c

Has(fs, op, c) == \E i \in 1..Len(fs) : Is(fs[i], op, c)

Twice(fs, op, c) ==
  \E i \in 1..Len(fs), j \in 1..Len(fs) : i < j /\ Is(fs[i], op, c) /\ Is(fs[j], op, c)

\* A connectDestroyed with no connectEstablished before it.
Alone(fs, c) ==
  \E j \in 1..Len(fs) :
    /\ Is(fs[j], "connectDestroyed", c)
    /\ \A i \in 1..Len(fs) : i < j => ~Is(fs[i], "connectEstablished", c)

Queued(lp, op, c, l) == Has(lp[l].batch, op, c) \/ Has(lp[l].pending, op, c)

------------------------------------------------------------------------------
\* The inductive invariant: first what it says of the loops lp, the connections
\* cs, connctions_ mp, the connections hd held by users, and the clients w that
\* wait.

Ended(r) == r.pc \in {"exited", "gone"}

\* The active channels of a loop are its own, and are registered until they
\* have been handled.
ActiveOK(lp, cs, w) ==
  \A l \in Loop :
    /\ lp[l].pc # "handle" => lp[l].active = {}
    /\ lp[l].pc # "run" => lp[l].batch = <<>>
    /\ Acceptor \in lp[l].active => l = Base /\ w > 0
    /\ \A c \in Conn : c \in lp[l].active =>
         c \in 1..Len(cs) /\ cs[c].loop = l /\ cs[c].chan.registered

\* A connection that has not been made is not referred to.
RefersTo(lp, mp, hd, c) ==
  \/ c \in mp \/ c \in hd
  \/ \E l \in Loop : c \in lp[l].kept \/ \E op \in Ops : Queued(lp, op, c, l)

RefsOK(lp, cs, mp, hd) ==
  \A c \in Conn : RefersTo(lp, mp, hd, c) => c \in 1..Len(cs)

\* connectEstablished is queued once, to the connection's loop, before any
\* connectDestroyed.
QueuesOK(lp, cs) ==
  \A c \in 1..Len(cs), l \in Loop :
    /\ Queued(lp, "connectEstablished", c, l) =>
         /\ l = cs[c].loop /\ cs[c].up = 0
         /\ ~Twice(lp[l].batch, "connectEstablished", c)
         /\ ~Twice(lp[l].pending, "connectEstablished", c)
         /\ ~(/\ Has(lp[l].batch, "connectEstablished", c)
              /\ Has(lp[l].pending, "connectEstablished", c))
    /\ l = cs[c].loop /\ cs[c].up = 0 /\ lp[l].pc # "gone" =>
         /\ Queued(lp, "connectEstablished", c, l)
         /\ ~Alone(lp[l].batch, c)
         /\ Alone(lp[l].pending, c) => Has(lp[l].batch, "connectEstablished", c)
    /\ Queued(lp, "connectDestroyed", c, l) => l = cs[c].loop
    /\ Queued(lp, "removeConnectionInLoop", c, l) => cs[c].down # 0
    /\ Queued(lp, "sendInLoop", c, l) => cs[c].up = 1

\* The connection's loop is yet to establish it, or has its channel, and not
\* because of a late send().
InUse(r) == r.up = 0 \/ (r.chan.registered /\ ~r.late)

\* A connection that its loop may still use is in connctions_ or waits for
\* connectDestroyed; one that is not in connctions_ is down.
OwnedOK(lp, cs, mp, alive) ==
  \A c \in 1..Len(cs) :
    /\ InUse(cs[c]) /\ ~Ended(lp[cs[c].loop])
         => c \in mp \/ Queued(lp, "connectDestroyed", c, cs[c].loop)
    /\ alive /\ c \notin mp => cs[c].down # 0

DataOK(lp, cs, mp, hd, w, alive) ==
  /\ lp \in [Loop -> LoopRecord] /\ cs \in Seq(ConnRecord)
  /\ mp \in SUBSET Conn /\ hd \in SUBSET Conn
  /\ w \in Nat /\ Len(cs) + w <= MaxConns
  /\ \A c \in 1..Len(cs) : ConnOK(cs[c])
  /\ ActiveOK(lp, cs, w) /\ RefsOK(lp, cs, mp, hd)
  /\ QueuesOK(lp, cs) /\ OwnedOK(lp, cs, mp, alive)

Data == DataOK(loop, conns, map, held, waiting, server = "alive")

\* Then the control: the types of the other variables.
ControlType ==
  /\ numThreads \in 0..MaxThreads /\ maxFds \in 1..MaxFds /\ sent \in 0..MaxSends
  /\ starter \in [Starter -> {"idle", "pool"}]
  /\ started \in BOOLEAN /\ listening \in BOOLEAN
  /\ loops \in Seq(1..MaxThreads) /\ next \in 0..Len(loops) /\ (loops # <<>> => next < Len(loops))
  /\ server \in {"alive", "connections", "quit", "join", "gone"}
  /\ cur \in Nat \ {0}

\* loops_ has the loops of the threads begun, in turn.
PoolOK ==
  /\ Len(loops) <= numThreads
  /\ \A k \in 1..Len(loops) : loops[k] = k
  /\ \A l \in Loop : loop[l].pc = "none" <=> l > Len(loops)

\* One thread is in start(), once, and nobody listens before it is through.
NobodyListens == ~listening /\ \A l \in Loop : ~Queued(loop, "listen", 0, l)

StartOK ==
  /\ \A t \in Starter : starter[t] = "pool" =>
       /\ started /\ server = "alive" /\ NobodyListens
       /\ \A u \in Starter : starter[u] = "pool" => u = t
  /\ ~started => NobodyListens

\* The destructor begins when the base loop has been left and start() is over,
\* and joins the threads one by one.
DestructorOK ==
  /\ server # "alive" => Ended(loop[Base]) /\ \A t \in Starter : starter[t] # "pool"
  /\ cur <= Len(loops) + 1
  /\ server = "join" => cur <= Len(loops)
  /\ server = "gone" => cur = Len(loops) + 1
  /\ \A k \in 1..Len(loops) : k < cur => loop[k].pc = "gone"

ServerInv == Data /\ ControlType /\ PoolOK /\ StartOK /\ DestructorOK

------------------------------------------------------------------------------
\* Lemmas on connections.

\* ds is cs with another value of connection c, which has what state_ says.
Changed(cs, ds, c) ==
  /\ ds \in Seq(ConnRecord) /\ Len(ds) = Len(cs) /\ c \in 1..Len(cs)
  /\ \A d \in 1..Len(cs) : d # c => ds[d] = cs[d]
  /\ ConnOK(ds[c])
  /\ ds[c].loop = cs[c].loop

LEMMA NewConnectionOK ==
  ASSUME NEW l \in Loop
  PROVE  /\ NewConnection(l) \in ConnRecord
         /\ l # Base => ConnOK(NewConnection(l))
BY NewAgrees DEF NewConnection, ConnRecord, ConnOK, States

LEMMA EnableReads ==
  ASSUME NEW ch \in Channel, Agrees(ch)
  PROVE  /\ Enable(ch, "read") \in Channel /\ Agrees(Enable(ch, "read"))
         /\ Enable(ch, "read").registered /\ "read" \in Enable(ch, "read").interest
<1>1. "read" \in Events
  BY DEF Events
<1>2. Enable(ch, "read") \in Channel /\ Agrees(Enable(ch, "read")) /\ Enable(ch, "read").registered
  BY <1>1, CallAgrees, EnableRegisters
<1>3. "read" \in Enable(ch, "read").events
  <2> DEFINE d == [ch EXCEPT !.events = @ \cup {"read"}]
  <2>1. d \in Channel /\ d.events = ch.events \cup {"read"}
    BY <1>1 DEF Channel
  <2> HIDE DEF d
  <2>2. UpdateChannel(d).events = d.events
    BY <2>1 DEF UpdateChannel, CtlAdd, CtlMod, CtlDel, Channel
  <2>. QED  BY <2>1, <2>2 DEF Enable, d
<1>. QED  BY <1>2, <1>3 DEF Agrees

\* connectEstablished, of a connection just made.
LEMMA EstablishedOK ==
  ASSUME NEW cs \in Seq(ConnRecord), NEW c \in 1..Len(cs),
         cs[c].up = 0, cs[c].down = 0, cs[c].chan = NewChannel, ~cs[c].late
  PROVE  /\ Changed(cs, Established(cs, c), c)
         /\ Established(cs, c)[c].up = 1 /\ Established(cs, c)[c].down = 0
         /\ Established(cs, c)[c].chan.registered
         /\ ~Established(cs, c)[c].late /\ Watched(Established(cs, c)[c])
<1> DEFINE e == Enable(NewChannel, "read")
           r == [cs[c] EXCEPT !.state = "kConnected", !.chan = Enable(@, "read"), !.up = @ + 1]
<1>1. cs[c] \in ConnRecord
  OBVIOUS
<1>2. e \in Channel /\ Agrees(e) /\ e.registered /\ "read" \in e.interest
  BY NewAgrees, EnableReads
<1>3. Established(cs, c) = [cs EXCEPT ![c] = r]
  BY DEF Established
<1>4. r = [cs[c] EXCEPT !.state = "kConnected", !.chan = e, !.up = 1]
  OBVIOUS
<1> HIDE DEF e, r
<1>5. r \in ConnRecord /\ r.up = 1 /\ r.down = 0 /\ r.state = "kConnected"
      /\ r.chan = e /\ r.loop = cs[c].loop /\ ~r.late
  <2>1. r.up = 1 /\ r.state = "kConnected" /\ r.chan = e
    BY <1>1, <1>2, <1>4 DEF ConnRecord, States
  <2>2. r.down = 0 /\ r.loop = cs[c].loop /\ ~r.late
    BY <1>1, <1>2, <1>4 DEF ConnRecord, States
  <2>3. "kConnected" \in States /\ 1 \in 0..1
    BY DEF States
  <2>4. r \in ConnRecord
    BY <1>1, <1>2, <1>4, <2>3 DEF ConnRecord
  <2>. QED  BY <2>1, <2>2, <2>4
<1>6. Watched(r) /\ ConnOK(r)
  BY <1>2, <1>5 DEF ConnOK, Watched
<1>7. Changed(cs, Established(cs, c), c) /\ Established(cs, c)[c] = r
  BY <1>3, <1>5, <1>6 DEF Changed
<1>. QED  BY <1>2, <1>5, <1>6, <1>7

\* handleClose, of a connection that is registered.
LEMMA ClosedOK ==
  ASSUME NEW cs \in Seq(ConnRecord), NEW c \in 1..Len(cs), ConnOK(cs[c]),
         cs[c].chan.registered
  PROVE  /\ Changed(cs, Closed(cs, c), c)
         /\ Closed(cs, c)[c].up = 1 /\ Closed(cs, c)[c].down = cs[c].down + 1
         /\ Closed(cs, c)[c].state = "kDisconnected"
         /\ ~Closed(cs, c)[c].chan.registered
         /\ Closed(cs, c)[c].late = cs[c].late
         /\ cs[c].up = 1 /\ cs[c].down \in Nat /\ (~cs[c].late => cs[c].down = 0)
<1> DEFINE e == DisableAll(cs[c].chan)
           r == [cs[c] EXCEPT !.state = "kDisconnected", !.chan = DisableAll(@), !.down = @ + 1]
<1>1. /\ cs[c] \in ConnRecord /\ cs[c].up = 1 /\ cs[c].down \in Nat
      /\ ~cs[c].late => cs[c].down = 0
  BY DEF ConnOK, ConnRecord, States, NewChannel
<1>2. e \in Channel /\ Agrees(e) /\ ~e.registered
  <2>1. "read" \in Events /\ cs[c].chan \in Channel /\ Agrees(cs[c].chan)
    BY <1>1 DEF Events, ConnOK, ConnRecord
  <2>. QED  BY <2>1, CallAgrees, DisableUnregisters
<1>3. Closed(cs, c) = [cs EXCEPT ![c] = r]
  BY DEF Closed
<1>4. r = [cs[c] EXCEPT !.state = "kDisconnected", !.chan = e, !.down = cs[c].down + 1]
  BY <1>1
<1> HIDE DEF e, r
<1>5. r \in ConnRecord /\ r.up = 1 /\ r.down = cs[c].down + 1 /\ r.state = "kDisconnected"
      /\ r.chan = e /\ r.loop = cs[c].loop /\ r.late = cs[c].late
  <2>1. /\ r.up = 1 /\ r.down = cs[c].down + 1 /\ r.state = "kDisconnected"
        /\ r.chan = e /\ r.loop = cs[c].loop
    BY <1>1, <1>4 DEF ConnRecord
  <2>2. r.late = cs[c].late
    BY <1>1, <1>4 DEF ConnRecord
  <2>3. cs[c].down + 1 \in Nat /\ "kDisconnected" \in States
    BY <1>1 DEF States
  <2>4. r \in ConnRecord
    BY <1>1, <1>2, <1>4, <2>3 DEF ConnRecord
  <2>. QED  BY <2>1, <2>2, <2>4
<1>6. ConnOK(r)
  BY <1>1, <1>2, <1>5 DEF ConnOK
<1>7. Changed(cs, Closed(cs, c), c) /\ Closed(cs, c)[c] = r
  BY <1>3, <1>5, <1>6 DEF Changed
<1>. QED  BY <1>1, <1>2, <1>5, <1>7

\* connectDestroyed, of a connection that came up.
LEMMA DestroyedOK ==
  ASSUME NEW cs \in Seq(ConnRecord), NEW c \in 1..Len(cs), ConnOK(cs[c]), cs[c].up = 1
  PROVE  /\ Changed(cs, Destroyed(cs, c), c)
         /\ Destroyed(cs, c)[c].up = 1
         /\ Destroyed(cs, c)[c].down >= cs[c].down
         /\ ~Destroyed(cs, c)[c].chan.registered
         /\ Destroyed(cs, c)[c].late = cs[c].late
<1>1. cs[c] \in ConnRecord
  OBVIOUS
<1>2. CASE cs[c].state = "kConnected"
  <2> DEFINE ds == Closed(cs, c)
             r == [ds[c] EXCEPT !.chan = RemoveChannel(@)]
  <2>1. cs[c].chan.registered /\ cs[c].down = 0
    BY <1>2 DEF ConnOK, Watched
  <2>2. Changed(cs, ds, c) /\ ds[c].up = 1 /\ ds[c].down = 1 /\ ds[c].state = "kDisconnected"
        /\ ds[c].late = cs[c].late
    BY <2>1, ClosedOK
  <2> HIDE DEF ds
  <2>3. ds[c] \in ConnRecord /\ ds[c].chan \in Channel /\ Agrees(ds[c].chan)
    BY <2>2 DEF Changed, ConnOK, ConnRecord
  <2>4. /\ RemoveChannel(ds[c].chan) \in Channel /\ Agrees(RemoveChannel(ds[c].chan))
        /\ ~RemoveChannel(ds[c].chan).registered
    BY <2>3, RemoveAgrees, RemoveUnregisters
  <2>5. /\ r \in ConnRecord /\ r.up = 1 /\ r.down = 1 /\ r.state = "kDisconnected"
        /\ r.chan = RemoveChannel(ds[c].chan) /\ r.loop = ds[c].loop /\ r.late = cs[c].late
    BY <2>2, <2>3, <2>4 DEF ConnRecord
  <2>6. ConnOK(r)
    BY <2>4, <2>5 DEF ConnOK
  <2>7. Destroyed(cs, c) = [ds EXCEPT ![c] = r]
    BY <1>2 DEF Destroyed, ds
  <2> HIDE DEF r
  <2>8. Changed(ds, Destroyed(cs, c), c) /\ Destroyed(cs, c)[c] = r
    <3>1. ds \in Seq(ConnRecord) /\ c \in 1..Len(ds)
      BY <2>2 DEF Changed
    <3>. QED  BY <3>1, <2>5, <2>6, <2>7 DEF Changed
  <2>9. Changed(cs, Destroyed(cs, c), c)
    BY <2>2, <2>8 DEF Changed
  <2>. QED  BY <2>1, <2>4, <2>5, <2>8, <2>9
<1>3. CASE cs[c].state # "kConnected"
  <2> DEFINE r == [cs[c] EXCEPT !.chan = RemoveChannel(@)]
  <2>1. /\ RemoveChannel(cs[c].chan) \in Channel /\ Agrees(RemoveChannel(cs[c].chan))
        /\ ~RemoveChannel(cs[c].chan).registered
    BY <1>1, RemoveAgrees, RemoveUnregisters DEF ConnOK, ConnRecord
  <2>2. /\ r \in ConnRecord /\ r.up = 1 /\ r.down = cs[c].down /\ r.state = cs[c].state
        /\ r.chan = RemoveChannel(cs[c].chan) /\ r.loop = cs[c].loop
        /\ r.late = cs[c].late /\ r.calls = cs[c].calls
    BY <1>1, <2>1 DEF ConnRecord
  <2>3. ConnOK(r)
    BY <1>3, <2>1, <2>2 DEF ConnOK
  <2>4. Destroyed(cs, c) = [cs EXCEPT ![c] = r]
    BY <1>3 DEF Destroyed
  <2>5. cs[c].down \in Nat
    BY <1>1 DEF ConnRecord
  <2> HIDE DEF r
  <2>6. Changed(cs, Destroyed(cs, c), c) /\ Destroyed(cs, c)[c] = r
    BY <2>2, <2>3, <2>4 DEF Changed
  <2>. QED  BY <2>1, <2>2, <2>5, <2>6
<1>. QED  BY <1>2, <1>3

\* sendInLoop with data left over, of a connection that came up.
LEMMA ArmedOK ==
  ASSUME NEW cs \in Seq(ConnRecord), NEW c \in 1..Len(cs), ConnOK(cs[c]), cs[c].up = 1
  PROVE  /\ Changed(cs, Armed(cs, c), c)
         /\ Armed(cs, c)[c].up = 1 /\ Armed(cs, c)[c].down = cs[c].down
         /\ Watched(Armed(cs, c)[c]) /\ Armed(cs, c)[c].state = cs[c].state
         /\ Armed(cs, c)[c].late <=> cs[c].late \/ ~Watched(cs[c])
<1> DEFINE e == Enable(cs[c].chan, "read")
           n == cs[c].late \/ ~Watched(cs[c])
           r == [cs[c] EXCEPT !.chan = Enable(@, "read"), !.late = @ \/ ~Watched(cs[c])]
<1>1. cs[c] \in ConnRecord /\ cs[c].chan \in Channel /\ Agrees(cs[c].chan) /\ n \in BOOLEAN
  BY DEF ConnOK, ConnRecord, Watched
<1>2. e \in Channel /\ Agrees(e) /\ e.registered /\ "read" \in e.interest
  BY <1>1, EnableReads
<1>3. Armed(cs, c) = [cs EXCEPT ![c] = r]
  BY DEF Armed
<1>4. r = [cs[c] EXCEPT !.chan = e, !.late = n]
  OBVIOUS
<1>5. n <=> cs[c].late \/ ~Watched(cs[c])
  OBVIOUS
<1> HIDE DEF e, r, n
<1>6. /\ r \in ConnRecord /\ r.chan = e /\ r.late = n /\ r.up = cs[c].up /\ r.down = cs[c].down
      /\ r.state = cs[c].state /\ r.loop = cs[c].loop /\ r.calls = cs[c].calls
  BY <1>1, <1>2, <1>4 DEF ConnRecord
<1>7. Watched(r)
  BY <1>2, <1>6 DEF Watched
<1>8. ConnOK(r)
  <2>1. cs[c].state = "kConnected" => ~n
    BY <1>5 DEF ConnOK
  <2>2. cs[c].state = "kDisconnected" => n
    BY <1>5 DEF ConnOK, Watched
  <2>. QED  BY <1>2, <1>6, <1>7, <2>1, <2>2 DEF ConnOK
<1>9. Changed(cs, Armed(cs, c), c) /\ Armed(cs, c)[c] = r
  BY <1>3, <1>6, <1>8 DEF Changed
<1>. QED  BY <1>5, <1>6, <1>7, <1>9

------------------------------------------------------------------------------
\* Lemmas on queues.

LEMMA EmptyQueue ==
  /\ <<>> \in Seq(Functors)
  /\ \A op, c : ~Has(<<>>, op, c) /\ ~Twice(<<>>, op, c)
  /\ \A c : ~Alone(<<>>, c)
BY DEF Has, Twice, Alone

LEMMA Appended ==
  ASSUME NEW fs \in Seq(Functors), NEW f \in Functors
  PROVE  /\ Append(fs, f) \in Seq(Functors)
         /\ \A op, c : Has(Append(fs, f), op, c) <=> Has(fs, op, c) \/ Is(f, op, c)
         /\ \A op, c : Twice(Append(fs, f), op, c)
                         => Twice(fs, op, c) \/ (Has(fs, op, c) /\ Is(f, op, c))
         /\ \A c : Alone(Append(fs, f), c)
                     => \/ Alone(fs, c)
                        \/ Is(f, "connectDestroyed", c) /\ ~Has(fs, "connectEstablished", c)
<1> DEFINE gs == Append(fs, f)
<1>1. /\ gs \in Seq(Functors) /\ Len(gs) = Len(fs) + 1 /\ Len(fs) \in Nat
      /\ \A i \in 1..Len(fs) : gs[i] = fs[i]
      /\ gs[Len(fs) + 1] = f
  OBVIOUS
<1> HIDE DEF gs
<1>2. ASSUME NEW op, NEW c
      PROVE  Has(gs, op, c) <=> Has(fs, op, c) \/ Is(f, op, c)
  <2>1. Has(gs, op, c) => Has(fs, op, c) \/ Is(f, op, c)
    BY <1>1 DEF Has
  <2>2. Has(fs, op, c) => Has(gs, op, c)
    BY <1>1 DEF Has
  <2>3. Is(f, op, c) => Has(gs, op, c)
    <3>1. Len(fs) + 1 \in 1..Len(gs)
      BY <1>1
    <3>. QED  BY <1>1, <3>1 DEF Has
  <2>. QED  BY <2>1, <2>2, <2>3
<1>3. ASSUME NEW op, NEW c, Twice(gs, op, c)
      PROVE  Twice(fs, op, c) \/ (Has(fs, op, c) /\ Is(f, op, c))
  <2>1. PICK i \in 1..Len(gs), j \in 1..Len(gs) : i < j /\ Is(gs[i], op, c) /\ Is(gs[j], op, c)
    BY <1>3 DEF Twice
  <2>2. i \in 1..Len(fs) /\ Is(fs[i], op, c)
    BY <1>1, <2>1
  <2>3. CASE j \in 1..Len(fs)
    BY <1>1, <2>1, <2>2, <2>3 DEF Twice
  <2>4. CASE j = Len(fs) + 1
    BY <1>1, <2>1, <2>2, <2>4 DEF Has
  <2>. QED  BY <1>1, <2>3, <2>4
<1>4. ASSUME NEW c, Alone(gs, c)
      PROVE  \/ Alone(fs, c)
             \/ Is(f, "connectDestroyed", c) /\ ~Has(fs, "connectEstablished", c)
  <2>1. PICK j \in 1..Len(gs) :
          /\ Is(gs[j], "connectDestroyed", c)
          /\ \A i \in 1..Len(gs) : i < j => ~Is(gs[i], "connectEstablished", c)
    BY <1>4 DEF Alone
  <2>2. CASE j \in 1..Len(fs)
    BY <1>1, <2>1, <2>2 DEF Alone
  <2>3. CASE j = Len(fs) + 1
    BY <1>1, <2>1, <2>3 DEF Has
  <2>. QED  BY <1>1, <2>2, <2>3
<1>. QED  BY <1>1, <1>2, <1>3, <1>4 DEF gs

LEMMA Taken ==
  ASSUME NEW fs \in Seq(Functors), fs # <<>>
  PROVE  /\ Head(fs) \in Functors /\ Tail(fs) \in Seq(Functors)
         /\ \A op, c : Has(fs, op, c) <=> Is(Head(fs), op, c) \/ Has(Tail(fs), op, c)
         /\ \A op, c : Twice(Tail(fs), op, c) => Twice(fs, op, c)
         /\ \A op, c : Is(Head(fs), op, c) /\ Has(Tail(fs), op, c) => Twice(fs, op, c)
         /\ \A c : Alone(Tail(fs), c) => Alone(fs, c) \/ Is(Head(fs), "connectEstablished", c)
         /\ \A c : Is(Head(fs), "connectDestroyed", c) => Alone(fs, c)
<1> DEFINE gs == Tail(fs)
<1>1. /\ gs \in Seq(Functors) /\ Len(gs) = Len(fs) - 1 /\ Len(fs) \in Nat \ {0}
      /\ \A i \in 1..Len(gs) : gs[i] = fs[i + 1]
      /\ Head(fs) = fs[1] /\ Head(fs) \in Functors
  OBVIOUS
<1> HIDE DEF gs
<1>2. \A i \in 1..Len(gs) : i + 1 \in 1..Len(fs)
  BY <1>1
<1>3. \A i \in 1..Len(fs) : i = 1 \/ (i - 1 \in 1..Len(gs) /\ gs[i - 1] = fs[i])
  BY <1>1
<1>4. ASSUME NEW op, NEW c
      PROVE  Has(fs, op, c) <=> Is(Head(fs), op, c) \/ Has(gs, op, c)
  <2>1. Has(fs, op, c) => Is(Head(fs), op, c) \/ Has(gs, op, c)
    BY <1>1, <1>3 DEF Has
  <2>2. Has(gs, op, c) => Has(fs, op, c)
    BY <1>1, <1>2 DEF Has
  <2>3. Is(Head(fs), op, c) => Has(fs, op, c)
    <3>1. 1 \in 1..Len(fs)
      BY <1>1
    <3>. QED  BY <1>1, <3>1 DEF Has
  <2>. QED  BY <2>1, <2>2, <2>3
<1>5. ASSUME NEW op, NEW c, Twice(gs, op, c)
      PROVE  Twice(fs, op, c)
  <2>1. PICK i \in 1..Len(gs), j \in 1..Len(gs) : i < j /\ Is(gs[i], op, c) /\ Is(gs[j], op, c)
    BY <1>5 DEF Twice
  <2>2. /\ i + 1 \in 1..Len(fs) /\ j + 1 \in 1..Len(fs) /\ i + 1 < j + 1
        /\ Is(fs[i + 1], op, c) /\ Is(fs[j + 1], op, c)
    BY <1>1, <1>2, <2>1
  <2>. QED  BY <2>2 DEF Twice
<1>6. ASSUME NEW op, NEW c, Is(Head(fs), op, c), Has(gs, op, c)
      PROVE  Twice(fs, op, c)
  <2>1. PICK i \in 1..Len(gs) : Is(gs[i], op, c)
    BY <1>6 DEF Has
  <2>2. /\ 1 \in 1..Len(fs) /\ i + 1 \in 1..Len(fs) /\ 1 < i + 1
        /\ Is(fs[1], op, c) /\ Is(fs[i + 1], op, c)
    BY <1>1, <1>2, <1>6, <2>1
  <2>. QED  BY <2>2 DEF Twice
<1>7. ASSUME NEW c, Alone(gs, c), ~Is(Head(fs), "connectEstablished", c)
      PROVE  Alone(fs, c)
  <2>1. PICK j \in 1..Len(gs) :
          /\ Is(gs[j], "connectDestroyed", c)
          /\ \A i \in 1..Len(gs) : i < j => ~Is(gs[i], "connectEstablished", c)
    BY <1>7 DEF Alone
  <2>2. j + 1 \in 1..Len(fs) /\ Is(fs[j + 1], "connectDestroyed", c)
    BY <1>1, <1>2, <2>1
  <2>3. ASSUME NEW i \in 1..Len(fs), i < j + 1
        PROVE  ~Is(fs[i], "connectEstablished", c)
    <3>1. CASE i = 1
      BY <1>1, <1>7, <3>1
    <3>2. CASE i # 1
      BY <1>1, <1>3, <2>1, <2>3, <3>2
    <3>. QED  BY <3>1, <3>2
  <2>. QED  BY <2>2, <2>3 DEF Alone
<1>8. ASSUME NEW c, Is(Head(fs), "connectDestroyed", c)
      PROVE  Alone(fs, c)
  <2>1. 1 \in 1..Len(fs) /\ Is(fs[1], "connectDestroyed", c) /\ \A i \in 1..Len(fs) : ~(i < 1)
    BY <1>1, <1>8
  <2>. QED  BY <2>1 DEF Alone
<1>. QED  BY <1>1, <1>4, <1>5, <1>6, <1>7, <1>8 DEF gs

------------------------------------------------------------------------------
\* Lemmas on the data: what the steps are composed of keeps DataOK.

\* lp2 is lp with another value for loop l.
OnlyLoop(lp, lp2, l) ==
  /\ lp2 \in [Loop -> LoopRecord]
  /\ \A k \in Loop : k # l => lp2[k] = lp[k]

LEMMA ConnTypes ==
  ASSUME NEW lp, NEW cs, NEW mp, NEW hd, NEW w, NEW alive, DataOK(lp, cs, mp, hd, w, alive),
         NEW c \in 1..Len(cs)
  PROVE  /\ cs[c] \in ConnRecord /\ cs[c].loop \in Loop /\ c \in Conn
         /\ cs[c].up \in 0..1 /\ cs[c].down \in Nat /\ ConnOK(cs[c])
<1>1. ConnOK(cs[c])
  BY DEF DataOK
<1>2. cs[c] \in ConnRecord
  BY <1>1 DEF ConnOK
<1>3. cs \in Seq(ConnRecord) /\ w \in Nat /\ Len(cs) + w <= MaxConns
  BY DEF DataOK
<1>4. c \in Conn
  BY <1>3, TcpServerAssumption DEF Conn
<1>. QED  BY <1>1, <1>2, <1>4 DEF ConnRecord

\* A connection is closed or destroyed or armed, or nothing but its state_, its
\* peer or the calls of send() change.
LEMMA ChangeConn ==
  ASSUME NEW lp, NEW cs, NEW mp, NEW hd, NEW w, NEW alive, DataOK(lp, cs, mp, hd, w, alive),
         NEW c, NEW ds, Changed(cs, ds, c),
         ds[c].up = cs[c].up,
         cs[c].down # 0 => ds[c].down # 0,
         InUse(ds[c]) => InUse(cs[c]),
         \A l \in Loop : c \in lp[l].active => ds[c].chan.registered
  PROVE  DataOK(lp, ds, mp, hd, w, alive)
<1>1. /\ \A d \in 1..Len(cs) : d # c => ds[d] = cs[d]
      /\ Len(ds) = Len(cs) /\ ds[c].loop = cs[c].loop /\ c \in 1..Len(cs)
      /\ ds \in Seq(ConnRecord) /\ ConnOK(ds[c])
  BY DEF Changed
<1>2. \A d \in 1..Len(cs) : /\ ds[d].loop = cs[d].loop /\ ds[d].up = cs[d].up
                            /\ cs[d].down # 0 => ds[d].down # 0
                            /\ InUse(ds[d]) => InUse(cs[d])
                            /\ ConnOK(ds[d])
  BY <1>1 DEF DataOK
<1>3. ActiveOK(lp, ds, w)
  BY <1>1 DEF DataOK, ActiveOK
<1>4. RefsOK(lp, ds, mp, hd)
  BY <1>1 DEF DataOK, RefsOK
<1>5. QueuesOK(lp, ds)
  BY <1>1, <1>2 DEF DataOK, QueuesOK
<1>6. OwnedOK(lp, ds, mp, alive)
  BY <1>1, <1>2 DEF DataOK, OwnedOK
<1>. QED  BY <1>1, <1>2, <1>3, <1>4, <1>5, <1>6 DEF DataOK

\* A loop goes on, without its queue or with the pending functors as the batch.
LEMMA MoveLoop ==
  ASSUME NEW lp, NEW cs, NEW mp, NEW hd, NEW w, NEW alive, DataOK(lp, cs, mp, hd, w, alive),
         NEW l \in Loop, NEW lp2, OnlyLoop(lp, lp2, l),
         lp2[l].pc # "handle" => lp2[l].active = {},
         lp2[l].pc # "run" => lp2[l].batch = <<>>,
         Acceptor \in lp2[l].active => l = Base /\ w > 0,
         \A c \in Conn : c \in lp2[l].active =>
            c \in 1..Len(cs) /\ cs[c].loop = l /\ cs[c].chan.registered,
         Ended(lp[l]) => Ended(lp2[l]),
         lp[l].pc = "gone" => lp2[l].pc = "gone",
         lp2[l].kept \subseteq lp[l].kept,
         \/ lp2[l].batch = lp[l].batch /\ lp2[l].pending = lp[l].pending
         \/ lp[l].batch = <<>> /\ lp2[l].batch = lp[l].pending /\ lp2[l].pending = <<>>
         \/ lp2[l].batch = <<>> /\ lp2[l].pending = <<>> /\ lp2[l].pc = "gone"
  PROVE  DataOK(lp2, cs, mp, hd, w, alive)
<1>1. lp2 \in [Loop -> LoopRecord] /\ \A k \in Loop : k # l => lp2[k] = lp[k]
  BY DEF OnlyLoop
<1>2. \A op, c : ~Has(<<>>, op, c) /\ ~Twice(<<>>, op, c) /\ ~Alone(<<>>, c)
  BY EmptyQueue
<1>3. \A op, c : \A k \in Loop : Queued(lp2, op, c, k) => Queued(lp, op, c, k)
  <2>1. \A op, c : Queued(lp2, op, c, l) => Queued(lp, op, c, l)
    BY <1>2 DEF Queued
  <2>2. \A op, c : \A k \in Loop : k # l => (Queued(lp2, op, c, k) <=> Queued(lp, op, c, k))
    BY <1>1 DEF Queued
  <2>. QED  BY <2>1, <2>2
<1>4. \A op, c : lp2[l].pc # "gone" => (Queued(lp2, op, c, l) <=> Queued(lp, op, c, l))
  BY <1>2 DEF Queued
<1>5. ActiveOK(lp2, cs, w)
  <2>1. ASSUME NEW k \in Loop, k # l
        PROVE  lp2[k] = lp[k]
    BY <1>1, <2>1
  <2>. QED  BY <2>1 DEF DataOK, ActiveOK
<1>6. RefsOK(lp2, cs, mp, hd)
  <2>1. \A c : \A k \in Loop : c \in lp2[k].kept => c \in lp[k].kept
    BY <1>1
  <2>2. \A c \in Conn : RefersTo(lp2, mp, hd, c) => RefersTo(lp, mp, hd, c)
    BY <1>3, <2>1 DEF RefersTo
  <2>. QED  BY <2>2 DEF DataOK, RefsOK
<1>7. QueuesOK(lp2, cs)
  <2> SUFFICES ASSUME NEW c \in 1..Len(cs), NEW k \in Loop
      PROVE
    /\ Queued(lp2, "connectEstablished", c, k) =>
         /\ k = cs[c].loop /\ cs[c].up = 0
         /\ ~Twice(lp2[k].batch, "connectEstablished", c)
         /\ ~Twice(lp2[k].pending, "connectEstablished", c)
         /\ ~(/\ Has(lp2[k].batch, "connectEstablished", c)
              /\ Has(lp2[k].pending, "connectEstablished", c))
    /\ k = cs[c].loop /\ cs[c].up = 0 /\ lp2[k].pc # "gone" =>
         /\ Queued(lp2, "connectEstablished", c, k)
         /\ ~Alone(lp2[k].batch, c)
         /\ Alone(lp2[k].pending, c) => Has(lp2[k].batch, "connectEstablished", c)
    /\ Queued(lp2, "connectDestroyed", c, k) => k = cs[c].loop
    /\ Queued(lp2, "removeConnectionInLoop", c, k) => cs[c].down # 0
    /\ Queued(lp2, "sendInLoop", c, k) => cs[c].up = 1
    BY DEF QueuesOK
  <2>1. QueuesOK(lp, cs)
    BY DEF DataOK
  <2>2. CASE k # l
    <3>1. lp2[k] = lp[k]
      BY <1>1, <2>2
    <3>. QED  BY <2>1, <3>1 DEF QueuesOK, Queued
  <2>3. CASE k = l /\ lp2[l].batch = lp[l].batch /\ lp2[l].pending = lp[l].pending
    BY <2>1, <2>3 DEF QueuesOK, Queued
  <2>4. CASE k = l /\ lp[l].batch = <<>> /\ lp2[l].batch = lp[l].pending /\ lp2[l].pending = <<>>
    BY <1>2, <2>1, <2>4 DEF QueuesOK, Queued
  <2>5. CASE k = l /\ lp2[l].batch = <<>> /\ lp2[l].pending = <<>> /\ lp2[l].pc = "gone"
    BY <1>2, <2>1, <2>5 DEF QueuesOK, Queued
  <2>. QED  BY <2>2, <2>3, <2>4, <2>5
<1>8. OwnedOK(lp2, cs, mp, alive)
  <2> SUFFICES ASSUME NEW c \in 1..Len(cs), ~Ended(lp2[cs[c].loop]),
                      InUse(cs[c]), c \notin mp
               PROVE  Queued(lp2, "connectDestroyed", c, cs[c].loop)
    BY DEF DataOK, OwnedOK
  <2>1. cs[c].loop \in Loop
    BY ConnTypes
  <2>2. ~Ended(lp[cs[c].loop])
    BY <1>1, <2>1
  <2>3. Queued(lp, "connectDestroyed", c, cs[c].loop)
    BY <2>2 DEF DataOK, OwnedOK
  <2>4. CASE cs[c].loop = l
    <3>1. lp2[l].pc # "gone"
      BY <2>4 DEF Ended
    <3>. QED  BY <1>4, <2>3, <2>4, <3>1
  <2>5. CASE cs[c].loop # l
    BY <1>1, <2>1, <2>3, <2>5 DEF Queued
  <2>. QED  BY <2>4, <2>5
<1>. QED  BY <1>1, <1>5, <1>6, <1>7, <1>8 DEF DataOK

\* Clients come and are accepted, users keep and release connections, the
\* destructor begins.
LEMMA ChangeRest ==
  ASSUME NEW lp, NEW cs, NEW mp, NEW hd, NEW w, NEW alive, DataOK(lp, cs, mp, hd, w, alive),
         NEW hd2 \in SUBSET Conn, \A c \in hd2 : c \in hd \/ c \in 1..Len(cs),
         NEW w2 \in Nat, Len(cs) + w2 <= MaxConns, w2 > 0 \/ Acceptor \notin lp[Base].active,
         NEW alive2, alive2 => alive
  PROVE  DataOK(lp, cs, mp, hd2, w2, alive2)
<1>1. ActiveOK(lp, cs, w2)
  BY DEF DataOK, ActiveOK
<1>2. RefsOK(lp, cs, mp, hd2)
  BY DEF DataOK, RefsOK, RefersTo
<1>3. OwnedOK(lp, cs, mp, alive2)
  BY DEF DataOK, OwnedOK
<1>. QED  BY <1>1, <1>2, <1>3 DEF DataOK

\* A connection is taken from connctions_.
LEMMA EraseConn ==
  ASSUME NEW lp, NEW cs, NEW mp, NEW hd, NEW w, NEW alive, DataOK(lp, cs, mp, hd, w, alive),
         NEW c \in 1..Len(cs), alive => cs[c].down # 0,
         \/ Queued(lp, "connectDestroyed", c, cs[c].loop)
         \/ ~InUse(cs[c])
  PROVE  DataOK(lp, cs, mp \ {c}, hd, w, alive)
<1>1. RefsOK(lp, cs, mp \ {c}, hd)
  BY DEF DataOK, RefsOK, RefersTo
<1>2. OwnedOK(lp, cs, mp \ {c}, alive)
  BY DEF DataOK, OwnedOK
<1>. QED  BY <1>1, <1>2 DEF DataOK

\* A functor is queued.
LEMMA QueueTypes ==
  ASSUME NEW lp \in [Loop -> LoopRecord], NEW m \in Loop, NEW f \in Functors
  PROVE  /\ OnlyLoop(lp, Queue(lp, m, f), m)
         /\ Queue(lp, m, f)[m].pending = Append(lp[m].pending, f)
         /\ Queue(lp, m, f)[m].batch = lp[m].batch
         /\ Queue(lp, m, f)[m].pc = lp[m].pc
         /\ Queue(lp, m, f)[m].kept = lp[m].kept
         /\ Queue(lp, m, f)[m].active = lp[m].active
         /\ \A op, c : \A l \in Loop :
              Queued(Queue(lp, m, f), op, c, l)
                <=> Queued(lp, op, c, l) \/ (l = m /\ Is(f, op, c))
<1> DEFINE lp2 == Queue(lp, m, f)
           r == [lp[m] EXCEPT !.pending = Append(@, f)]
<1>1. lp[m] \in LoopRecord /\ lp[m].pending \in Seq(Functors)
  BY DEF LoopRecord
<1>2. Append(lp[m].pending, f) \in Seq(Functors)
  BY <1>1, Appended
<1>3. /\ r \in LoopRecord /\ r.pending = Append(lp[m].pending, f)
      /\ r.batch = lp[m].batch /\ r.pc = lp[m].pc /\ r.kept = lp[m].kept
      /\ r.active = lp[m].active
  BY <1>1, <1>2 DEF LoopRecord
<1>4. lp2 = [lp EXCEPT ![m] = r]
  BY DEF Queue
<1> HIDE DEF r
<1>5. lp2[m] = r /\ \A k \in Loop : k # m => lp2[k] = lp[k]
  BY <1>4
<1>6. lp2 \in [Loop -> LoopRecord]
  BY <1>3, <1>4
<1> HIDE DEF lp2
<1>7. \A op, c : \A l \in Loop :
        Queued(lp2, op, c, l) <=> Queued(lp, op, c, l) \/ (l = m /\ Is(f, op, c))
  <2>1. \A op, c : Has(Append(lp[m].pending, f), op, c) <=> Has(lp[m].pending, op, c) \/ Is(f, op, c)
    BY <1>1, Appended
  <2>2. lp2[m].pending = Append(lp[m].pending, f) /\ lp2[m].batch = lp[m].batch
    BY <1>3, <1>5
  <2>3. \A op, c : Queued(lp2, op, c, m) <=> Queued(lp, op, c, m) \/ Is(f, op, c)
    BY <2>1, <2>2 DEF Queued
  <2>. QED  BY <1>5, <2>3 DEF Queued
<1>. QED  BY <1>3, <1>5, <1>6, <1>7 DEF lp2, OnlyLoop

\* The queue of loop m grows: what Twice and Alone say of it.
LEMMA QueueMore ==
  ASSUME NEW lp \in [Loop -> LoopRecord], NEW m \in Loop, NEW f \in Functors
  PROVE  /\ \A op, c : Twice(Queue(lp, m, f)[m].pending, op, c)
               => Twice(lp[m].pending, op, c) \/ (Has(lp[m].pending, op, c) /\ Is(f, op, c))
         /\ \A op, c : Has(Queue(lp, m, f)[m].pending, op, c)
               <=> Has(lp[m].pending, op, c) \/ Is(f, op, c)
         /\ \A c : Alone(Queue(lp, m, f)[m].pending, c)
               => \/ Alone(lp[m].pending, c)
                  \/ /\ Is(f, "connectDestroyed", c)
                     /\ ~Has(lp[m].pending, "connectEstablished", c)
<1>1. lp[m].pending \in Seq(Functors)
  BY DEF LoopRecord
<1>2. Queue(lp, m, f)[m].pending = Append(lp[m].pending, f)
  BY QueueTypes
<1>. QED  BY <1>1, <1>2, Appended

LEMMA QueueFunctor ==
  ASSUME NEW lp, NEW cs, NEW mp, NEW hd, NEW w, NEW alive, DataOK(lp, cs, mp, hd, w, alive),
         NEW m \in Loop, NEW f \in Functors,
         f.op # "connectEstablished",
         f.conn \in Conn => f.conn \in 1..Len(cs),
         f.op = "connectDestroyed" => m = cs[f.conn].loop,
         f.op = "removeConnectionInLoop" => cs[f.conn].down # 0,
         f.op = "sendInLoop" => cs[f.conn].up = 1
  PROVE  DataOK(Queue(lp, m, f), cs, mp, hd, w, alive)
<1> DEFINE lp2 == Queue(lp, m, f)
<1>0. lp \in [Loop -> LoopRecord]
  BY DEF DataOK
<1>1. /\ OnlyLoop(lp, lp2, m)
      /\ lp2[m].batch = lp[m].batch /\ lp2[m].pc = lp[m].pc /\ lp2[m].kept = lp[m].kept
      /\ lp2[m].active = lp[m].active
      /\ \A op, c : \A l \in Loop :
           Queued(lp2, op, c, l) <=> Queued(lp, op, c, l) \/ (l = m /\ Is(f, op, c))
  BY <1>0, QueueTypes
<1>2. /\ \A op, c : Twice(lp2[m].pending, op, c)
               => Twice(lp[m].pending, op, c) \/ (Has(lp[m].pending, op, c) /\ Is(f, op, c))
      /\ \A op, c : Has(lp2[m].pending, op, c) <=> Has(lp[m].pending, op, c) \/ Is(f, op, c)
      /\ \A c : Alone(lp2[m].pending, c)
               => \/ Alone(lp[m].pending, c)
                  \/ /\ Is(f, "connectDestroyed", c)
                     /\ ~Has(lp[m].pending, "connectEstablished", c)
  BY <1>0, QueueMore
<1> HIDE DEF lp2
<1>3. /\ \A k \in Loop : k # m => lp2[k] = lp[k]
      /\ lp2 \in [Loop -> LoopRecord]
      /\ \A k \in Loop : /\ lp2[k].batch = lp[k].batch /\ lp2[k].pc = lp[k].pc
                         /\ lp2[k].kept = lp[k].kept /\ lp2[k].active = lp[k].active
  BY <1>1 DEF OnlyLoop
<1>4. ActiveOK(lp2, cs, w)
  BY <1>3 DEF DataOK, ActiveOK
<1>5. RefsOK(lp2, cs, mp, hd)
  <2>1. \A c \in Conn : RefersTo(lp2, mp, hd, c) => RefersTo(lp, mp, hd, c) \/ f.conn = c
    BY <1>1, <1>3 DEF RefersTo, Is
  <2>. QED  BY <2>1 DEF DataOK, RefsOK
<1>6. QueuesOK(lp2, cs)
  <2> SUFFICES ASSUME NEW c \in 1..Len(cs), NEW k \in Loop
      PROVE
    /\ Queued(lp2, "connectEstablished", c, k) =>
         /\ k = cs[c].loop /\ cs[c].up = 0
         /\ ~Twice(lp2[k].batch, "connectEstablished", c)
         /\ ~Twice(lp2[k].pending, "connectEstablished", c)
         /\ ~(/\ Has(lp2[k].batch, "connectEstablished", c)
              /\ Has(lp2[k].pending, "connectEstablished", c))
    /\ k = cs[c].loop /\ cs[c].up = 0 /\ lp2[k].pc # "gone" =>
         /\ Queued(lp2, "connectEstablished", c, k)
         /\ ~Alone(lp2[k].batch, c)
         /\ Alone(lp2[k].pending, c) => Has(lp2[k].batch, "connectEstablished", c)
    /\ Queued(lp2, "connectDestroyed", c, k) => k = cs[c].loop
    /\ Queued(lp2, "removeConnectionInLoop", c, k) => cs[c].down # 0
    /\ Queued(lp2, "sendInLoop", c, k) => cs[c].up = 1
    BY DEF QueuesOK
  <2>1. QueuesOK(lp, cs) /\ cs[c].up \in 0..1
    BY ConnTypes DEF DataOK
  <2>2. CASE k # m
    <3>1. lp2[k] = lp[k]
      BY <1>3, <2>2
    <3>. QED  BY <2>1, <3>1 DEF QueuesOK, Queued
  <2>3. CASE k = m
    <3>1. Queued(lp2, "connectEstablished", c, m) <=> Queued(lp, "connectEstablished", c, m)
      BY <1>1 DEF Is
    <3>2. Has(lp2[m].pending, "connectEstablished", c) <=> Has(lp[m].pending, "connectEstablished", c)
      BY <1>2 DEF Is
    <3>3. Twice(lp2[m].pending, "connectEstablished", c) => Twice(lp[m].pending, "connectEstablished", c)
      BY <1>2 DEF Is
    <3>4. /\ Queued(lp2, "connectDestroyed", c, m) => m = cs[c].loop
          /\ Queued(lp2, "removeConnectionInLoop", c, m) => cs[c].down # 0
          /\ Queued(lp2, "sendInLoop", c, m) => cs[c].up = 1
      BY <1>1, <2>1 DEF QueuesOK, Is
    <3>5. lp2[m].batch = lp[m].batch /\ lp2[m].pc = lp[m].pc
      BY <1>1
    <3>6. \A op : Queued(lp, op, c, m) <=> Has(lp[m].batch, op, c) \/ Has(lp[m].pending, op, c)
      BY DEF Queued
    <3>7. m = cs[c].loop /\ cs[c].up = 0 /\ lp[m].pc # "gone" =>
            /\ Queued(lp2, "connectEstablished", c, m)
            /\ ~Alone(lp2[m].batch, c)
            /\ Alone(lp2[m].pending, c) => Has(lp2[m].batch, "connectEstablished", c)
      BY <1>2, <2>1, <3>1, <3>5, <3>6 DEF QueuesOK
    <3>8. Queued(lp2, "connectEstablished", c, m) =>
         /\ m = cs[c].loop /\ cs[c].up = 0
         /\ ~Twice(lp2[m].batch, "connectEstablished", c)
         /\ ~Twice(lp2[m].pending, "connectEstablished", c)
         /\ ~(/\ Has(lp2[m].batch, "connectEstablished", c)
              /\ Has(lp2[m].pending, "connectEstablished", c))
      BY <2>1, <3>1, <3>2, <3>3, <3>5 DEF QueuesOK
    <3>. QED  BY <2>3, <3>4, <3>5, <3>7, <3>8
  <2>. QED  BY <2>2, <2>3
<1>7. OwnedOK(lp2, cs, mp, alive)
  <2>1. \A c \in 1..Len(cs) : cs[c].loop \in Loop
    BY ConnTypes
  <2>2. \A c \in 1..Len(cs) : Ended(lp2[cs[c].loop]) <=> Ended(lp[cs[c].loop])
    BY <1>3, <2>1 DEF Ended
  <2>3. \A c \in 1..Len(cs) : Queued(lp, "connectDestroyed", c, cs[c].loop)
                                => Queued(lp2, "connectDestroyed", c, cs[c].loop)
    BY <1>1, <2>1
  <2>. QED  BY <2>2, <2>3 DEF DataOK, OwnedOK
<1>. QED  BY <1>3, <1>4, <1>5, <1>6, <1>7 DEF DataOK, lp2

\* lp2 is lp with the first functor of the batch of loop l taken.
Takes(lp, lp2, l) ==
  /\ OnlyLoop(lp, lp2, l)
  /\ lp[l].pc = "run" /\ lp[l].batch # <<>>
  /\ lp2[l].batch = Tail(lp[l].batch) /\ lp2[l].pending = lp[l].pending
  /\ lp2[l].pc = "run" /\ lp2[l].active = lp[l].active
  /\ lp2[l].kept = lp[l].kept \cup Holds(Head(lp[l].batch))

TakeFacts(lp, lp2, l, f) ==
  /\ lp2 \in [Loop -> LoopRecord] /\ \A k \in Loop : k # l => lp2[k] = lp[k]
  /\ f \in Functors
  /\ \A k \in Loop : lp2[k].pc = lp[k].pc /\ lp2[k].active = lp[k].active
  /\ \A op, c : Has(lp[l].batch, op, c) <=> Is(f, op, c) \/ Has(lp2[l].batch, op, c)
  /\ \A op, c : Twice(lp2[l].batch, op, c) => Twice(lp[l].batch, op, c)
  /\ \A op, c : Is(f, op, c) /\ Has(lp2[l].batch, op, c) => Twice(lp[l].batch, op, c)
  /\ \A c : Alone(lp2[l].batch, c)
              => Alone(lp[l].batch, c) \/ Is(f, "connectEstablished", c)
  /\ \A c : Is(f, "connectDestroyed", c) => Alone(lp[l].batch, c)
  /\ \A op, c : \A k \in Loop :
       Queued(lp, op, c, k) <=> Queued(lp2, op, c, k) \/ (k = l /\ Is(f, op, c))

LEMMA TakeTypes ==
  ASSUME NEW lp \in [Loop -> LoopRecord], NEW l \in Loop, NEW lp2, Takes(lp, lp2, l)
  PROVE  TakeFacts(lp, lp2, l, Head(lp[l].batch))
<1> DEFINE f == Head(lp[l].batch)
<1>1. lp[l].batch \in Seq(Functors) /\ lp[l].batch # <<>> /\ lp2[l].batch = Tail(lp[l].batch)
  BY DEF Takes, LoopRecord
<1>2. lp2 \in [Loop -> LoopRecord] /\ \A k \in Loop : k # l => lp2[k] = lp[k]
  BY DEF Takes, OnlyLoop
<1>3. \A k \in Loop : lp2[k].pc = lp[k].pc /\ lp2[k].active = lp[k].active
  BY <1>2 DEF Takes
<1>4. /\ f \in Functors
      /\ \A op, c : Has(lp[l].batch, op, c) <=> Is(f, op, c) \/ Has(lp2[l].batch, op, c)
      /\ \A op, c : Twice(lp2[l].batch, op, c) => Twice(lp[l].batch, op, c)
      /\ \A op, c : Is(f, op, c) /\ Has(lp2[l].batch, op, c) => Twice(lp[l].batch, op, c)
      /\ \A c : Alone(lp2[l].batch, c)
                  => Alone(lp[l].batch, c) \/ Is(f, "connectEstablished", c)
      /\ \A c : Is(f, "connectDestroyed", c) => Alone(lp[l].batch, c)
  BY <1>1, Taken
<1>5. \A op, c : \A k \in Loop :
        Queued(lp, op, c, k) <=> Queued(lp2, op, c, k) \/ (k = l /\ Is(f, op, c))
  <2>1. lp2[l].pending = lp[l].pending
    BY DEF Takes
  <2>2. \A op, c : Queued(lp, op, c, l) <=> Queued(lp2, op, c, l) \/ Is(f, op, c)
    BY <1>4, <2>1 DEF Queued
  <2>. QED  BY <1>2, <2>2 DEF Queued
<1>. QED  BY <1>2, <1>3, <1>4, <1>5 DEF TakeFacts

\* connectDestroyed finds a connection that has come up.
LEMMA DestroyedIsUp ==
  ASSUME NEW lp, NEW cs, NEW mp, NEW hd, NEW w, NEW alive, DataOK(lp, cs, mp, hd, w, alive),
         NEW l \in Loop, lp[l].pc = "run", lp[l].batch # <<>>, NEW f, f = Head(lp[l].batch),
         f.op \in Ops
  PROVE  /\ f.conn \in 1..Len(cs)
         /\ f.op = "connectDestroyed" => cs[f.conn].up = 1 /\ cs[f.conn].loop = l
         /\ f.op = "connectEstablished" =>
              cs[f.conn].up = 0 /\ cs[f.conn].loop = l /\ ~Has(lp[l].pending, f.op, f.conn)
         /\ f.op = "removeConnectionInLoop" => cs[f.conn].down # 0
         /\ f.op = "sendInLoop" => cs[f.conn].up = 1
<1>1. lp[l].batch \in Seq(Functors)
  BY DEF DataOK, LoopRecord
<1>2. /\ f \in Functors
      /\ \A op, c : Is(f, op, c) => Has(lp[l].batch, op, c)
      /\ \A c : Is(f, "connectDestroyed", c) => Alone(lp[l].batch, c)
  BY <1>1, Taken
<1>3. f.conn \in Conn /\ Is(f, f.op, f.conn) /\ Queued(lp, f.op, f.conn, l)
      /\ Has(lp[l].batch, f.op, f.conn)
  <2>1. f.conn \in Conn
    BY <1>2 DEF Functors, Functor, Ops
  <2>. QED  BY <1>2, <2>1 DEF Is, Queued
<1>4. f.conn \in 1..Len(cs)
  BY <1>3 DEF DataOK, RefsOK, RefersTo
<1>5. QueuesOK(lp, cs) /\ cs[f.conn].up \in 0..1
  BY <1>4, ConnTypes DEF DataOK
<1>6. f.op = "connectDestroyed" => cs[f.conn].up = 1 /\ cs[f.conn].loop = l
  <2> SUFFICES ASSUME f.op = "connectDestroyed" PROVE cs[f.conn].up = 1 /\ cs[f.conn].loop = l
    OBVIOUS
  <2>1. cs[f.conn].loop = l
    BY <1>3, <1>4, <1>5 DEF QueuesOK
  <2>2. Alone(lp[l].batch, f.conn)
    BY <1>2, <1>3
  <2>3. cs[f.conn].up # 0
    BY <1>4, <1>5, <2>1, <2>2 DEF QueuesOK
  <2>. QED  BY <1>5, <2>1, <2>3
<1>7. f.op = "connectEstablished" =>
        cs[f.conn].up = 0 /\ cs[f.conn].loop = l /\ ~Has(lp[l].pending, f.op, f.conn)
  BY <1>3, <1>4, <1>5 DEF QueuesOK
<1>8. /\ f.op = "removeConnectionInLoop" => cs[f.conn].down # 0
      /\ f.op = "sendInLoop" => cs[f.conn].up = 1
  BY <1>3, <1>4, <1>5 DEF QueuesOK
<1>. QED  BY <1>4, <1>6, <1>7, <1>8

\* A functor other than connectEstablished is done with.
LEMMA TakeFunctor ==
  ASSUME NEW lp, NEW cs, NEW mp, NEW hd, NEW w, NEW alive, DataOK(lp, cs, mp, hd, w, alive),
         NEW l \in Loop, NEW lp2, Takes(lp, lp2, l), NEW f, f = Head(lp[l].batch),
         f.op # "connectEstablished",
         f.op = "connectDestroyed" => ~InUse(cs[f.conn])
  PROVE  DataOK(lp2, cs, mp, hd, w, alive)
<1>0. lp \in [Loop -> LoopRecord] /\ lp[l].pc = "run" /\ lp[l].batch # <<>>
  BY DEF DataOK, Takes
<1>1. /\ lp2 \in [Loop -> LoopRecord] /\ \A k \in Loop : k # l => lp2[k] = lp[k]
      /\ f \in Functors
      /\ \A k \in Loop : lp2[k].pc = lp[k].pc /\ lp2[k].active = lp[k].active
      /\ \A op, c : Has(lp[l].batch, op, c) <=> Is(f, op, c) \/ Has(lp2[l].batch, op, c)
      /\ \A op, c : Twice(lp2[l].batch, op, c) => Twice(lp[l].batch, op, c)
      /\ \A c : Alone(lp2[l].batch, c)
                  => Alone(lp[l].batch, c) \/ Is(f, "connectEstablished", c)
      /\ \A op, c : \A k \in Loop :
           Queued(lp, op, c, k) <=> Queued(lp2, op, c, k) \/ (k = l /\ Is(f, op, c))
  <2>1. TakeFacts(lp, lp2, l, f)
    BY <1>0, TakeTypes
  <2>. QED  BY <2>1 DEF TakeFacts
<1>2. /\ lp2[l].pending = lp[l].pending
      /\ lp2[l].kept \subseteq lp[l].kept \cup {f.conn}
  BY DEF Takes, Holds
<1>3. f.conn \in Conn => f.conn \in 1..Len(cs)
  <2>1. f.conn \in Conn => f.op \in Ops
    BY <1>1 DEF Functors, Functor, Ops, Conn
  <2>. QED  BY <1>0, <2>1, DestroyedIsUp
<1>4. ActiveOK(lp2, cs, w)
  <2>1. \A k \in Loop : lp2[k].pc # "run" => lp2[k].batch = lp[k].batch
    BY <1>0, <1>1
  <2>. QED  BY <1>1, <2>1 DEF DataOK, ActiveOK
<1>5. RefsOK(lp2, cs, mp, hd)
  <2>1. \A c \in Conn : RefersTo(lp2, mp, hd, c) => RefersTo(lp, mp, hd, c) \/ c = f.conn
    BY <1>1, <1>2 DEF RefersTo
  <2>. QED  BY <1>3, <2>1 DEF DataOK, RefsOK
<1>6. QueuesOK(lp2, cs)
  <2> SUFFICES ASSUME NEW c \in 1..Len(cs), NEW k \in Loop
      PROVE
    /\ Queued(lp2, "connectEstablished", c, k) =>
         /\ k = cs[c].loop /\ cs[c].up = 0
         /\ ~Twice(lp2[k].batch, "connectEstablished", c)
         /\ ~Twice(lp2[k].pending, "connectEstablished", c)
         /\ ~(/\ Has(lp2[k].batch, "connectEstablished", c)
              /\ Has(lp2[k].pending, "connectEstablished", c))
    /\ k = cs[c].loop /\ cs[c].up = 0 /\ lp2[k].pc # "gone" =>
         /\ Queued(lp2, "connectEstablished", c, k)
         /\ ~Alone(lp2[k].batch, c)
         /\ Alone(lp2[k].pending, c) => Has(lp2[k].batch, "connectEstablished", c)
    /\ Queued(lp2, "connectDestroyed", c, k) => k = cs[c].loop
    /\ Queued(lp2, "removeConnectionInLoop", c, k) => cs[c].down # 0
    /\ Queued(lp2, "sendInLoop", c, k) => cs[c].up = 1
    BY DEF QueuesOK
  <2>1. QueuesOK(lp, cs)
    BY DEF DataOK
  <2>2. CASE k # l
    <3>1. lp2[k] = lp[k]
      BY <1>1, <2>2
    <3>. QED  BY <2>1, <3>1 DEF QueuesOK, Queued
  <2>3. CASE k = l
    <3>1. ~Is(f, "connectEstablished", c)
      BY DEF Is
    <3>2. /\ \A op : Queued(lp2, op, c, l) => Queued(lp, op, c, l)
          /\ Queued(lp, "connectEstablished", c, l) => Queued(lp2, "connectEstablished", c, l)
      BY <1>1, <3>1
    <3>3. /\ Has(lp2[l].batch, "connectEstablished", c) <=> Has(lp[l].batch, "connectEstablished", c)
          /\ Twice(lp2[l].batch, "connectEstablished", c) => Twice(lp[l].batch, "connectEstablished", c)
          /\ Alone(lp2[l].batch, c) => Alone(lp[l].batch, c)
      BY <1>1, <3>1
    <3>. QED  BY <1>1, <1>2, <2>1, <2>3, <3>2, <3>3 DEF QueuesOK
  <2>. QED  BY <2>2, <2>3
<1>7. OwnedOK(lp2, cs, mp, alive)
  <2> SUFFICES ASSUME NEW c \in 1..Len(cs), ~Ended(lp2[cs[c].loop]),
                      InUse(cs[c]), c \notin mp
               PROVE  Queued(lp2, "connectDestroyed", c, cs[c].loop)
    BY DEF DataOK, OwnedOK
  <2>1. cs[c].loop \in Loop
    BY ConnTypes
  <2>2. ~Ended(lp[cs[c].loop])
    BY <1>1, <2>1 DEF Ended
  <2>3. Queued(lp, "connectDestroyed", c, cs[c].loop)
    BY <2>2 DEF DataOK, OwnedOK
  <2>4. ~Is(f, "connectDestroyed", c)
    BY DEF Is
  <2>. QED  BY <1>1, <2>1, <2>3, <2>4
<1>. QED  BY <1>1, <1>4, <1>5, <1>6, <1>7 DEF DataOK

\* connectEstablished is executed.
LEMMA TakeEstablished ==
  ASSUME NEW lp, NEW cs, NEW mp, NEW hd, NEW w, NEW alive, DataOK(lp, cs, mp, hd, w, alive),
         NEW l \in Loop, NEW lp2, Takes(lp, lp2, l), NEW f, f = Head(lp[l].batch),
         f.op = "connectEstablished", cs[f.conn].down = 0,
         NEW ds, Changed(cs, ds, f.conn), ds[f.conn].up = 1, ds[f.conn].chan.registered
  PROVE  DataOK(lp2, ds, mp, hd, w, alive)
<1> DEFINE e == f.conn
<1>0. lp \in [Loop -> LoopRecord] /\ lp[l].pc = "run" /\ lp[l].batch # <<>>
  BY DEF DataOK, Takes
<1>1. /\ lp2 \in [Loop -> LoopRecord] /\ \A k \in Loop : k # l => lp2[k] = lp[k]
      /\ \A k \in Loop : lp2[k].pc = lp[k].pc /\ lp2[k].active = lp[k].active
      /\ \A op, c : Has(lp[l].batch, op, c) <=> Is(f, op, c) \/ Has(lp2[l].batch, op, c)
      /\ \A op, c : Twice(lp2[l].batch, op, c) => Twice(lp[l].batch, op, c)
      /\ \A op, c : Is(f, op, c) /\ Has(lp2[l].batch, op, c) => Twice(lp[l].batch, op, c)
      /\ \A c : Alone(lp2[l].batch, c)
                  => Alone(lp[l].batch, c) \/ Is(f, "connectEstablished", c)
      /\ \A op, c : \A k \in Loop :
           Queued(lp, op, c, k) <=> Queued(lp2, op, c, k) \/ (k = l /\ Is(f, op, c))
  <2>1. TakeFacts(lp, lp2, l, f)
    BY <1>0, TakeTypes
  <2>. QED  BY <2>1 DEF TakeFacts
<1>2. /\ lp2[l].pending = lp[l].pending
      /\ lp2[l].kept \subseteq lp[l].kept \cup {e}
  BY DEF Takes, Holds
<1>3. /\ e \in 1..Len(cs) /\ cs[e].up = 0 /\ cs[e].loop = l
      /\ ~Has(lp[l].pending, "connectEstablished", e)
  BY <1>0, DestroyedIsUp DEF Ops
<1>4. /\ \A d \in 1..Len(cs) : d # e => ds[d] = cs[d]
      /\ Len(ds) = Len(cs) /\ ds[e].loop = cs[e].loop
      /\ ds \in Seq(ConnRecord) /\ ConnOK(ds[e])
  BY DEF Changed
<1> HIDE DEF e
<1>5. QueuesOK(lp, cs) /\ OwnedOK(lp, cs, mp, alive) /\ ActiveOK(lp, cs, w)
      /\ RefsOK(lp, cs, mp, hd)
  BY DEF DataOK
<1>6. \A d \in 1..Len(cs) : ConnOK(ds[d]) /\ ds[d].loop = cs[d].loop
  BY <1>4 DEF DataOK
<1>7. ActiveOK(lp2, ds, w)
  <2>1. \A k \in Loop : lp2[k].pc # "run" => lp2[k].batch = lp[k].batch
    BY <1>0, <1>1
  <2>2. ds[e].chan.registered
    BY DEF e
  <2>. QED  BY <1>1, <1>4, <1>5, <2>1, <2>2 DEF ActiveOK
<1>8. RefsOK(lp2, ds, mp, hd)
  <2>1. \A c \in Conn : RefersTo(lp2, mp, hd, c) => RefersTo(lp, mp, hd, c) \/ c = e
    BY <1>1, <1>2 DEF RefersTo
  <2>. QED  BY <1>3, <1>4, <1>5, <2>1 DEF RefsOK
<1>9. QueuesOK(lp2, ds)
  <2> SUFFICES ASSUME NEW c \in 1..Len(ds), NEW k \in Loop
      PROVE
    /\ Queued(lp2, "connectEstablished", c, k) =>
         /\ k = ds[c].loop /\ ds[c].up = 0
         /\ ~Twice(lp2[k].batch, "connectEstablished", c)
         /\ ~Twice(lp2[k].pending, "connectEstablished", c)
         /\ ~(/\ Has(lp2[k].batch, "connectEstablished", c)
              /\ Has(lp2[k].pending, "connectEstablished", c))
    /\ k = ds[c].loop /\ ds[c].up = 0 /\ lp2[k].pc # "gone" =>
         /\ Queued(lp2, "connectEstablished", c, k)
         /\ ~Alone(lp2[k].batch, c)
         /\ Alone(lp2[k].pending, c) => Has(lp2[k].batch, "connectEstablished", c)
    /\ Queued(lp2, "connectDestroyed", c, k) => k = ds[c].loop
    /\ Queued(lp2, "removeConnectionInLoop", c, k) => ds[c].down # 0
    /\ Queued(lp2, "sendInLoop", c, k) => ds[c].up = 1
    BY DEF QueuesOK
  <2>1. c \in 1..Len(cs)
    BY <1>4
  <2>2. CASE c # e /\ k # l
    <3>1. lp2[k] = lp[k] /\ ds[c] = cs[c]
      BY <1>1, <1>4, <2>1, <2>2
    <3>. QED  BY <1>5, <2>1, <3>1 DEF QueuesOK, Queued
  <2>3. CASE c # e /\ k = l
    <3>1. ~Is(f, "connectEstablished", c) /\ ds[c] = cs[c]
      BY <1>4, <2>1, <2>3 DEF Is, e
    <3>2. /\ \A op : Queued(lp2, op, c, l) => Queued(lp, op, c, l)
          /\ Queued(lp, "connectEstablished", c, l) => Queued(lp2, "connectEstablished", c, l)
      BY <1>1, <3>1
    <3>3. /\ Has(lp2[l].batch, "connectEstablished", c) <=> Has(lp[l].batch, "connectEstablished", c)
          /\ Twice(lp2[l].batch, "connectEstablished", c) => Twice(lp[l].batch, "connectEstablished", c)
          /\ Alone(lp2[l].batch, c) => Alone(lp[l].batch, c)
      BY <1>1, <3>1
    <3>. QED  BY <1>1, <1>2, <1>5, <2>1, <2>3, <3>1, <3>2, <3>3 DEF QueuesOK
  <2>4. CASE c = e
    <3>1. \A op : Queued(lp2, op, e, k) => Queued(lp, op, e, k)
      BY <1>1
    <3>2. ~Queued(lp2, "connectEstablished", e, k)
      <4> SUFFICES ASSUME Queued(lp2, "connectEstablished", e, k) PROVE FALSE
        OBVIOUS
      <4>1. Queued(lp, "connectEstablished", e, k)
        BY <3>1
      <4>2. k = l /\ ~Twice(lp[l].batch, "connectEstablished", e)
        BY <1>3, <1>5, <4>1 DEF QueuesOK
      <4>3. Has(lp2[l].batch, "connectEstablished", e)
        BY <1>2, <1>3, <4>2 DEF Queued
      <4>4. Is(f, "connectEstablished", e)
        BY DEF Is, e
      <4>. QED  BY <1>1, <4>2, <4>3, <4>4
    <3>3. ds[e].up = 1 /\ cs[e].down = 0
      BY DEF e
    <3>4. Queued(lp2, "connectDestroyed", e, k) => k = ds[e].loop
      BY <1>3, <1>4, <1>5, <3>1 DEF QueuesOK
    <3>5. ~Queued(lp2, "removeConnectionInLoop", e, k) /\ ~Queued(lp2, "sendInLoop", e, k)
      BY <1>3, <1>5, <3>1, <3>3 DEF QueuesOK
    <3>. QED  BY <2>4, <3>2, <3>3, <3>4, <3>5
  <2>. QED  BY <2>2, <2>3, <2>4
<1>10. OwnedOK(lp2, ds, mp, alive)
  <2>1. ASSUME NEW c \in 1..Len(ds), ~Ended(lp2[ds[c].loop]),
               InUse(ds[c]), c \notin mp
        PROVE  Queued(lp2, "connectDestroyed", c, ds[c].loop)
    <3>0. c \in 1..Len(cs)
      BY <1>4
    <3>1. cs[c].loop \in Loop /\ ds[c].loop = cs[c].loop
      BY <1>6, <3>0, ConnTypes
    <3>2. ~Ended(lp[cs[c].loop])
      BY <1>1, <2>1, <3>1 DEF Ended
    <3>3. InUse(cs[c])
      BY <1>3, <1>4, <2>1, <3>0 DEF InUse
    <3>4. Queued(lp, "connectDestroyed", c, cs[c].loop)
      BY <1>5, <2>1, <3>0, <3>2, <3>3 DEF OwnedOK
    <3>5. ~Is(f, "connectDestroyed", c)
      BY DEF Is
    <3>. QED  BY <1>1, <3>1, <3>4, <3>5
  <2>2. ASSUME NEW c \in 1..Len(ds), alive, c \notin mp
        PROVE  ds[c].down # 0
    <3>1. c \in 1..Len(cs) /\ cs[c].down # 0
      BY <1>4, <1>5, <2>2 DEF OwnedOK
    <3>2. c # e
      BY <3>1 DEF e
    <3>. QED  BY <1>4, <3>1, <3>2
  <2>. QED  BY <2>1, <2>2 DEF OwnedOK
<1>11. /\ ds \in Seq(ConnRecord) /\ mp \in SUBSET Conn /\ hd \in SUBSET Conn
       /\ w \in Nat /\ Len(ds) + w <= MaxConns
  BY <1>4 DEF DataOK
<1>12. \A c \in 1..Len(ds) : ConnOK(ds[c])
  BY <1>4, <1>6
<1>. QED  BY <1>1, <1>7, <1>8, <1>9, <1>10, <1>11, <1>12 DEF DataOK

LEMMA TwiceAndAlone ==
  ASSUME NEW fs, NEW c
  PROVE  /\ \A op : Twice(fs, op, c) => Has(fs, op, c)
         /\ Alone(fs, c) => Has(fs, "connectDestroyed", c)
BY DEF Twice, Alone, Has

\* A connection is made: it is up at once, or connectEstablished is queued.
LEMMA AddConn ==
  ASSUME NEW lp, NEW cs, NEW mp, NEW hd, NEW w, NEW alive, DataOK(lp, cs, mp, hd, w, alive),
         w > 0, Acceptor \notin lp[Base].active,
         NEW e, e = Len(cs) + 1,
         NEW ds \in Seq(ConnRecord), Len(ds) = e, \A d \in 1..Len(cs) : ds[d] = cs[d],
         ConnOK(ds[e]),
         NEW f, f = Functor("connectEstablished", e),
         NEW lp2, \/ lp2 = lp /\ ds[e].up = 1
                  \/ lp2 = Queue(lp, ds[e].loop, f) /\ ds[e].up = 0
  PROVE  DataOK(lp2, ds, mp \cup {e}, hd, w - 1, alive)
<1>1. /\ lp \in [Loop -> LoopRecord] /\ cs \in Seq(ConnRecord) /\ w \in Nat
      /\ Len(cs) + w <= MaxConns /\ Len(cs) \in Nat /\ MaxConns \in Nat
  BY TcpServerAssumption DEF DataOK
<1>2. e \in Conn /\ e \notin 1..Len(cs) /\ 1..Len(ds) = 1..Len(cs) \cup {e}
      /\ e \in 1..Len(ds)
  BY <1>1 DEF Conn
<1>3. f \in Functors /\ f.op = "connectEstablished" /\ f.conn = e
  BY <1>2 DEF Functor, Functors
<1>4. ~RefersTo(lp, mp, hd, e)
  BY <1>2 DEF DataOK, RefsOK
<1>5. \A op \in Ops, k \in Loop : ~Queued(lp, op, e, k)
  BY <1>4 DEF RefersTo
<1>6. \A k \in Loop : e \notin lp[k].active
  BY <1>2 DEF DataOK, ActiveOK
<1>7. ds[e].loop \in Loop /\ ds[e].up \in 0..1
  BY DEF ConnOK, ConnRecord
<1>8. /\ lp2 \in [Loop -> LoopRecord]
      /\ \A k \in Loop : /\ lp2[k].batch = lp[k].batch /\ lp2[k].pc = lp[k].pc
                         /\ lp2[k].kept = lp[k].kept /\ lp2[k].active = lp[k].active
      /\ \A k \in Loop : k # ds[e].loop \/ ds[e].up = 1 => lp2[k] = lp[k]
      /\ \A op, c : \A k \in Loop :
           Queued(lp2, op, c, k)
             <=> \/ Queued(lp, op, c, k)
                 \/ k = ds[e].loop /\ ds[e].up = 0 /\ Is(f, op, c)
  <2>1. CASE lp2 = lp /\ ds[e].up = 1
    BY <1>1, <2>1
  <2>2. CASE lp2 = Queue(lp, ds[e].loop, f) /\ ds[e].up = 0
    <3> DEFINE m == ds[e].loop
    <3>1. /\ OnlyLoop(lp, lp2, m)
          /\ lp2[m].batch = lp[m].batch /\ lp2[m].pc = lp[m].pc /\ lp2[m].kept = lp[m].kept
          /\ lp2[m].active = lp[m].active
          /\ \A op, c : \A l \in Loop :
               Queued(lp2, op, c, l) <=> Queued(lp, op, c, l) \/ (l = m /\ Is(f, op, c))
      BY <1>1, <1>3, <1>7, <2>2, QueueTypes
    <3>. QED  BY <2>2, <3>1 DEF OnlyLoop
  <2>. QED  BY <2>1, <2>2
<1>9. ds[e].up = 0 =>
        /\ \A op, c : Twice(lp2[ds[e].loop].pending, op, c)
               => \/ Twice(lp[ds[e].loop].pending, op, c)
                  \/ Has(lp[ds[e].loop].pending, op, c) /\ Is(f, op, c)
        /\ \A op, c : Has(lp2[ds[e].loop].pending, op, c)
               <=> Has(lp[ds[e].loop].pending, op, c) \/ Is(f, op, c)
        /\ \A c : Alone(lp2[ds[e].loop].pending, c)
               => Alone(lp[ds[e].loop].pending, c) \/ Is(f, "connectDestroyed", c)
  BY <1>1, <1>3, <1>7, QueueMore
<1>10. QueuesOK(lp, cs) /\ OwnedOK(lp, cs, mp, alive) /\ ActiveOK(lp, cs, w)
       /\ RefsOK(lp, cs, mp, hd)
  BY DEF DataOK
<1>11. ActiveOK(lp2, ds, w - 1)
  <2>1. \A k \in Loop : Acceptor \notin lp[k].active
    BY <1>10 DEF ActiveOK
  <2>. QED  BY <1>2, <1>8, <1>10, <2>1 DEF ActiveOK
<1>12. RefsOK(lp2, ds, mp \cup {e}, hd)
  <2>1. \A c \in Conn : RefersTo(lp2, mp \cup {e}, hd, c) => RefersTo(lp, mp, hd, c) \/ c = e
    BY <1>3, <1>8 DEF RefersTo, Is
  <2>. QED  BY <1>2, <1>10, <2>1 DEF RefsOK
<1>13. QueuesOK(lp2, ds)
  <2> SUFFICES ASSUME NEW c \in 1..Len(ds), NEW k \in Loop
      PROVE
    /\ Queued(lp2, "connectEstablished", c, k) =>
         /\ k = ds[c].loop /\ ds[c].up = 0
         /\ ~Twice(lp2[k].batch, "connectEstablished", c)
         /\ ~Twice(lp2[k].pending, "connectEstablished", c)
         /\ ~(/\ Has(lp2[k].batch, "connectEstablished", c)
              /\ Has(lp2[k].pending, "connectEstablished", c))
    /\ k = ds[c].loop /\ ds[c].up = 0 /\ lp2[k].pc # "gone" =>
         /\ Queued(lp2, "connectEstablished", c, k)
         /\ ~Alone(lp2[k].batch, c)
         /\ Alone(lp2[k].pending, c) => Has(lp2[k].batch, "connectEstablished", c)
    /\ Queued(lp2, "connectDestroyed", c, k) => k = ds[c].loop
    /\ Queued(lp2, "removeConnectionInLoop", c, k) => ds[c].down # 0
    /\ Queued(lp2, "sendInLoop", c, k) => ds[c].up = 1
    BY DEF QueuesOK
  <2>1. CASE c # e /\ lp2[k] = lp[k]
    <3>1. c \in 1..Len(cs) /\ ds[c] = cs[c]
      BY <1>2, <2>1
    <3>. QED  BY <1>10, <2>1, <3>1 DEF QueuesOK, Queued
  <2>2. CASE c # e /\ k = ds[e].loop /\ ds[e].up = 0
    <3>1. c \in 1..Len(cs) /\ ds[c] = cs[c]
      BY <1>2, <2>2
    <3>2. \A op : ~Is(f, op, c)
      BY <1>3, <2>2 DEF Is
    <3>3. \A op : Queued(lp2, op, c, k) <=> Queued(lp, op, c, k)
      BY <1>8, <3>2
    <3>4. /\ \A op : Twice(lp2[k].pending, op, c) => Twice(lp[k].pending, op, c)
          /\ \A op : Has(lp2[k].pending, op, c) <=> Has(lp[k].pending, op, c)
          /\ Alone(lp2[k].pending, c) => Alone(lp[k].pending, c)
      BY <1>9, <2>2, <3>2
    <3>5. lp2[k].batch = lp[k].batch /\ lp2[k].pc = lp[k].pc
      BY <1>8
    <3>. QED  BY <1>10, <3>1, <3>3, <3>4, <3>5 DEF QueuesOK
  <2>3. CASE c = e
    <3>1. \A op \in Ops : ~Queued(lp, op, e, k)
      BY <1>5
    <3>2. ~Is(f, "connectDestroyed", e) /\ ~Is(f, "removeConnectionInLoop", e)
          /\ ~Is(f, "sendInLoop", e) /\ Is(f, "connectEstablished", e)
      BY <1>3 DEF Is
    <3>3. ~Queued(lp2, "connectDestroyed", e, k) /\ ~Queued(lp2, "removeConnectionInLoop", e, k)
          /\ ~Queued(lp2, "sendInLoop", e, k)
      BY <1>8, <3>1, <3>2 DEF Ops
    <3>4. Queued(lp2, "connectEstablished", e, k) <=> k = ds[e].loop /\ ds[e].up = 0
      BY <1>8, <3>1, <3>2 DEF Ops
    <3>5. /\ ~Has(lp[k].batch, "connectEstablished", e) /\ ~Has(lp[k].batch, "connectDestroyed", e)
          /\ ~Has(lp[k].pending, "connectEstablished", e) /\ ~Has(lp[k].pending, "connectDestroyed", e)
      BY <3>1 DEF Queued, Ops
    <3>6. /\ ~Twice(lp2[k].batch, "connectEstablished", e) /\ ~Alone(lp2[k].batch, e)
          /\ ~Twice(lp[k].pending, "connectEstablished", e) /\ ~Alone(lp[k].pending, e)
      BY <1>8, <3>5, TwiceAndAlone
    <3>7. ~Has(lp2[k].batch, "connectEstablished", e)
      BY <1>8, <3>5
    <3>8. k = ds[e].loop /\ ds[e].up = 0 =>
            ~Twice(lp2[k].pending, "connectEstablished", e) /\ ~Alone(lp2[k].pending, e)
      BY <1>9, <3>2, <3>5, <3>6
    <3>. QED  BY <2>3, <3>3, <3>4, <3>6, <3>7, <3>8
  <2>. QED  BY <1>7, <1>8, <2>1, <2>2, <2>3
<1>14. OwnedOK(lp2, ds, mp \cup {e}, alive)
  <2>1. \A c \in 1..Len(ds) : c # e => c \in 1..Len(cs) /\ ds[c] = cs[c] /\ cs[c].loop \in Loop
    BY <1>2, ConnTypes
  <2>2. \A c \in 1..Len(ds) : c # e /\ ~Ended(lp2[ds[c].loop]) => ~Ended(lp[cs[c].loop])
    BY <1>8, <2>1 DEF Ended
  <2>3. \A c \in 1..Len(ds) :
          c # e /\ Queued(lp, "connectDestroyed", c, cs[c].loop)
            => Queued(lp2, "connectDestroyed", c, ds[c].loop)
    BY <1>8, <2>1
  <2>. QED  BY <1>10, <2>1, <2>2, <2>3 DEF OwnedOK
<1>15. w - 1 \in Nat /\ Len(ds) + (w - 1) <= MaxConns
  BY <1>1
<1>16. mp \cup {e} \in SUBSET Conn /\ hd \in SUBSET Conn
  BY <1>2 DEF DataOK
<1>17. \A c \in 1..Len(ds) : ConnOK(ds[c])
  BY <1>2 DEF DataOK
<1>. QED  BY <1>8, <1>11, <1>12, <1>13, <1>14, <1>15, <1>16, <1>17 DEF DataOK

------------------------------------------------------------------------------
\* The steps keep the data.

LoopVars == <<conns, map, held, waiting, server>>

LEMMA ElementOf ==
  ASSUME NEW S, NEW s \in Seq(S), NEW i \in 1..Len(s)
  PROVE  s[i] \in S
OBVIOUS

LEMMA LoopTypes ==
  ASSUME Data
  PROVE  /\ loop \in [Loop -> LoopRecord]
         /\ \A l \in Loop : /\ loop[l] \in LoopRecord
                            /\ loop[l].pending \in Seq(Functors)
                            /\ loop[l].pc # "handle" => loop[l].active = {}
                            /\ loop[l].pc # "run" => loop[l].batch = <<>>
BY DEF Data, DataOK, ActiveOK, LoopRecord

LEMMA ReportableOK ==
  ASSUME Data, NEW l \in Loop
  PROVE  /\ Reportable(l) \in SUBSET (Conn \cup {Acceptor})
         /\ Acceptor \in Reportable(l) => l = Base /\ waiting > 0
         /\ \A c \in Conn : c \in Reportable(l) =>
              c \in 1..Len(conns) /\ conns[c].loop = l /\ conns[c].chan.registered
<1>1. DOMAIN conns = 1..Len(conns)
  BY DEF Data, DataOK
<1>2. \A c \in DOMAIN conns : c \in Conn /\ c # Acceptor
  <2>1. Acceptor \notin Conn
    BY TcpServerAssumption DEF Conn, Acceptor
  <2>. QED  BY <1>1, <2>1, ConnTypes DEF Data
<1>3. \A c \in Reportable(l) :
        \/ c \in DOMAIN conns /\ conns[c].loop = l /\ conns[c].chan.registered
        \/ c = Acceptor /\ l = Base /\ waiting > 0
  BY DEF Reportable
<1>4. Acceptor \notin Conn
  BY TcpServerAssumption DEF Conn, Acceptor
<1>. QED  BY <1>1, <1>2, <1>3, <1>4

\* The steps of a loop that run no handler and no functor.
LEMMA LoopData ==
  ASSUME Data, NEW l \in Loop,
         \/ EnterLoop(l) \/ TestQuit(l) \/ PollReturns(l) \/ PollTimeout(l)
         \/ DoPendingFunctors(l) \/ FunctorsDone(l) \/ DestroyLoop(l)
  PROVE  Data'
<1>1. /\ loop \in [Loop -> LoopRecord] /\ loop[l] \in LoopRecord
      /\ loop[l].pending \in Seq(Functors)
      /\ loop[l].pc # "handle" => loop[l].active = {}
      /\ loop[l].pc # "run" => loop[l].batch = <<>>
  BY LoopTypes
<1>2. UNCHANGED LoopVars
  BY DEF EnterLoop, TestQuit, PollReturns, PollTimeout, DoPendingFunctors, FunctorsDone,
     DestroyLoop, Quiet, accept, LoopVars
<1> DEFINE Active == \A c \in Conn : c \in loop'[l].active =>
                        c \in 1..Len(conns) /\ conns[c].loop = l /\ conns[c].chan.registered
           Moved == /\ OnlyLoop(loop, loop', l)
                    /\ loop'[l].pc # "handle" => loop'[l].active = {}
                    /\ loop'[l].pc # "run" => loop'[l].batch = <<>>
                    /\ Acceptor \in loop'[l].active => l = Base /\ waiting > 0
                    /\ Active
                    /\ Ended(loop[l]) => Ended(loop'[l])
                    /\ loop[l].pc = "gone" => loop'[l].pc = "gone"
                    /\ loop'[l].kept \subseteq loop[l].kept
                    /\ \/ loop'[l].batch = loop[l].batch /\ loop'[l].pending = loop[l].pending
                       \/ /\ loop[l].batch = <<>>
                          /\ loop'[l].batch = loop[l].pending /\ loop'[l].pending = <<>>
                       \/ loop'[l].batch = <<>> /\ loop'[l].pending = <<>> /\ loop'[l].pc = "gone"
<1>3. ASSUME Moved PROVE Data'
  <2>1. DataOK(loop', conns, map, held, waiting, server = "alive")
    BY <1>3, MoveLoop DEF Data
  <2>. QED  BY <1>2, <2>1 DEF Data, LoopVars
<1>4. AfterTest(l) \in {"exited", "poll"}
  BY DEF AfterTest
<1>5. CASE EnterLoop(l)
  BY <1>1, <1>3, <1>5 DEF EnterLoop, OnlyLoop, LoopRecord, LoopPC, Ended
<1>6. CASE TestQuit(l)
  BY <1>1, <1>3, <1>4, <1>6 DEF TestQuit, OnlyLoop, LoopRecord, LoopPC, Ended
<1>7. CASE PollReturns(l)
  <2>1. /\ OnlyLoop(loop, loop', l)
        /\ loop'[l].pc = "handle" /\ loop'[l].active = Reportable(l)
        /\ loop'[l].batch = loop[l].batch /\ loop'[l].pending = loop[l].pending
        /\ loop'[l].kept = loop[l].kept /\ loop[l].pc = "poll"
    BY <1>1, <1>7, ReportableOK DEF PollReturns, OnlyLoop, LoopRecord, LoopPC
  <2>. QED  BY <1>1, <1>3, <2>1, ReportableOK DEF Ended
<1>8. CASE PollTimeout(l)
  BY <1>1, <1>3, <1>8 DEF PollTimeout, OnlyLoop, LoopRecord, LoopPC, Ended
<1>9. CASE DoPendingFunctors(l)
  <2>1. /\ OnlyLoop(loop, loop', l)
        /\ loop'[l].batch = loop[l].pending /\ loop'[l].pending = <<>>
        /\ loop'[l].kept = loop[l].kept /\ loop'[l].active = loop[l].active
        /\ loop[l].pc = "handle" /\ loop[l].active = {}
        /\ loop'[l].pc # "handle" /\ loop'[l].pc # "gone"
        /\ loop'[l].pc # "run" => loop'[l].batch = <<>>
    BY <1>1, <1>4, <1>9, EmptyQueue DEF DoPendingFunctors, OnlyLoop, LoopRecord, LoopPC
  <2>. QED  BY <1>1, <1>3, <2>1 DEF Ended
<1>10. CASE FunctorsDone(l)
  BY <1>1, <1>3, <1>4, <1>10 DEF FunctorsDone, OnlyLoop, LoopRecord, LoopPC, Ended
<1>11. CASE DestroyLoop(l)
  BY <1>1, <1>3, <1>11, EmptyQueue DEF DestroyLoop, OnlyLoop, LoopRecord, LoopPC, Ended
<1>. QED  BY <1>5, <1>6, <1>7, <1>8, <1>9, <1>10, <1>11

\* quit_ is set, or the loop of a thread of the pool begins.
LEMMA MarkLoop ==
  ASSUME Data, NEW l \in Loop, UNCHANGED <<conns, map, held, waiting>>,
         server' = "alive" => server = "alive",
         \/ loop' = [loop EXCEPT ![l].quit = TRUE]
         \/ loop' = [loop EXCEPT ![l].pc = "enter"] /\ loop[l].pc = "none"
  PROVE  Data'
<1>1. /\ loop \in [Loop -> LoopRecord] /\ loop[l] \in LoopRecord
      /\ loop[l].pc # "handle" => loop[l].active = {}
      /\ loop[l].pc # "run" => loop[l].batch = <<>>
  BY LoopTypes
<1>2. /\ OnlyLoop(loop, loop', l)
      /\ loop'[l].batch = loop[l].batch /\ loop'[l].pending = loop[l].pending
      /\ loop'[l].kept = loop[l].kept /\ loop'[l].active = loop[l].active
      /\ loop'[l].pc = loop[l].pc \/ (loop[l].pc = "none" /\ loop'[l].pc = "enter")
  <2>1. CASE loop' = [loop EXCEPT ![l].quit = TRUE]
    BY <1>1, <2>1 DEF OnlyLoop, LoopRecord
  <2>2. CASE loop' = [loop EXCEPT ![l].pc = "enter"] /\ loop[l].pc = "none"
    BY <1>1, <2>2 DEF OnlyLoop, LoopRecord, LoopPC
  <2>. QED  BY <2>1, <2>2
<1>3. /\ Acceptor \in loop[l].active => l = Base /\ waiting > 0
      /\ \A c \in Conn : c \in loop[l].active =>
           c \in 1..Len(conns) /\ conns[c].loop = l /\ conns[c].chan.registered
  BY DEF Data, DataOK, ActiveOK
<1>4. DataOK(loop', conns, map, held, waiting, server = "alive")
  BY <1>1, <1>2, <1>3, MoveLoop DEF Data, Ended
<1>5. waiting \in Nat /\ held \in SUBSET Conn /\ Len(conns) + waiting <= MaxConns
      /\ (waiting > 0 \/ Acceptor \notin loop'[Base].active)
  <2>1. Base \in Loop
    BY TcpServerAssumption DEF Loop, Base
  <2>. QED  BY <1>4, <2>1 DEF DataOK, ActiveOK
<1>6. DataOK(loop', conns, map, held, waiting, server' = "alive")
  BY <1>4, <1>5, ChangeRest
<1>. QED  BY <1>6 DEF Data

\* s differs from r only in what does not concern the loops.
SameUse(r, s) ==
  /\ s.loop = r.loop /\ s.up = r.up /\ s.down = r.down /\ s.chan = r.chan /\ s.late = r.late

LEMMA RestData ==
  ASSUME ServerInv,
         \/ \E t \in Starter : StartCounts(t) \/ StartStep(t)
         \/ DestroyServer \/ DropThreads \/ QuitThread \/ JoinThread \/ ServerDestroyed
         \/ \E c \in Conn : \/ UserReleases(c) \/ UserShutsDown(c) \/ PeerCloses(c)
                           \/ UserSends(c) \/ SendQueues(c)
         \/ QuitBase \/ ClientConnects \/ UNCHANGED vars
  PROVE  Data'
<1>1. Data /\ ControlType /\ PoolOK /\ DestructorOK
  BY DEF ServerInv
<1>2. Base \in Loop /\ \A k \in 1..MaxThreads : k \in Loop
  BY TcpServerAssumption DEF Loop, Base
<1>3. /\ conns \in Seq(ConnRecord) /\ waiting \in Nat /\ held \in SUBSET Conn
      /\ Len(conns) + waiting <= MaxConns /\ Len(conns) \in Nat /\ MaxConns \in Nat
  BY <1>1, TcpServerAssumption DEF Data, DataOK
<1>4. waiting > 0 \/ Acceptor \notin loop[Base].active
  BY <1>1, <1>2 DEF Data, DataOK, ActiveOK
<1>5. ASSUME UNCHANGED <<loop, conns, map, held, waiting>>, server' = "alive" => server = "alive"
      PROVE  Data'
  <2>1. DataOK(loop, conns, map, held, waiting, server' = "alive")
    BY <1>1, <1>3, <1>4, <1>5, ChangeRest DEF Data
  <2>. QED  BY <1>5, <2>1 DEF Data
<1>6. CASE \E t \in Starter : StartCounts(t)
  BY <1>5, <1>6 DEF StartCounts, accept
<1>7. ASSUME NEW t \in Starter, StartThread(t) PROVE Data'
  <2> DEFINE i == Len(loops) + 1
  <2>1. i \in 1..MaxThreads /\ i > Len(loops)
    <3>1. i <= numThreads
      BY <1>7 DEF StartThread
    <3>2. numThreads \in 0..MaxThreads /\ Len(loops) \in Nat /\ MaxThreads \in Nat
      BY <1>1, TcpServerAssumption DEF ControlType
    <3>. QED  BY <3>1, <3>2
  <2>2. loop[i].pc = "none"
    BY <1>1, <1>2, <2>1 DEF PoolOK
  <2>3. loop' = [loop EXCEPT ![i].pc = "enter"] /\ UNCHANGED <<conns, map, held, waiting, server>>
    BY <1>7 DEF StartThread, accept
  <2> HIDE DEF i
  <2>. QED  BY <1>1, <1>2, <2>1, <2>2, <2>3, MarkLoop
<1>8. ASSUME NEW t \in Starter, StartListening(t) PROVE Data'
  <2>1. CASE UNCHANGED loop
    BY <1>5, <1>8, <2>1 DEF StartListening
  <2>2. CASE loop' = Queue(loop, Base, Functor("listen", 0))
    <3> DEFINE f == Functor("listen", 0)
    <3>1. f \in Functors /\ f.op = "listen" /\ f.conn = 0 /\ 0 \notin Conn
      BY TcpServerAssumption DEF Functors, Functor, Conn
    <3> HIDE DEF f
    <3>2. DataOK(Queue(loop, Base, f), conns, map, held, waiting, server = "alive")
      BY <1>1, <1>2, <3>1, QueueFunctor DEF Data
    <3>. QED  BY <1>8, <2>2, <3>2 DEF Data, StartListening, f
  <2>. QED  BY <1>8, <2>1, <2>2 DEF StartListening
<1>9. CASE DestroyServer \/ DropThreads \/ JoinThread
  BY <1>5, <1>9 DEF DestroyServer, DropThreads, JoinThread, accept
<1>10. CASE QuitThread
  <2>1. loops[cur] \in Loop
    <3>1. cur <= Len(loops)
      BY <1>10 DEF QuitThread
    <3>2. cur \in Nat \ {0} /\ loops \in Seq(1..MaxThreads)
      BY <1>1 DEF ControlType
    <3>3. cur \in 1..Len(loops)
      BY <3>1, <3>2
    <3>4. loops[cur] \in 1..MaxThreads
      BY <3>2, <3>3, ElementOf
    <3>. QED  BY <1>2, <3>4
  <2>2. /\ loop' = [loop EXCEPT ![loops[cur]].quit = TRUE]
        /\ UNCHANGED <<conns, map, held, waiting>> /\ server' # "alive"
    BY <1>10 DEF QuitThread, accept
  <2>. QED  BY <1>1, <2>1, <2>2, MarkLoop
<1>11. CASE ServerDestroyed
  <2>1. loop[Base].active = {}
    <3>1. server # "alive"
      BY <1>11 DEF ServerDestroyed
    <3>. QED  BY <1>1, <1>2, <3>1, LoopTypes DEF DestructorOK, Ended
  <2>2. waiting' = 0 /\ UNCHANGED <<loop, conns, map, held>> /\ server' # "alive"
    BY <1>11 DEF ServerDestroyed
  <2>3. Len(conns) + 0 <= MaxConns
    BY <1>3
  <2>4. DataOK(loop, conns, map, held, 0, server' = "alive")
    BY <1>1, <1>3, <2>1, <2>2, <2>3, ChangeRest DEF Data
  <2>. QED  BY <2>2, <2>4 DEF Data
<1>12. ASSUME NEW c \in Conn, UserReleases(c) PROVE Data'
  <2>1. held' \in SUBSET Conn /\ \A d \in held' : d \in held
    BY <1>3, <1>12 DEF UserReleases
  <2>2. DataOK(loop, conns, map, held', waiting, server = "alive")
    BY <1>1, <1>3, <1>4, <2>1, ChangeRest DEF Data
  <2>. QED  BY <1>12, <2>2 DEF Data, UserReleases, accept
<1>13. ASSUME NEW c \in Conn, \/ UserShutsDown(c) \/ PeerCloses(c)
                             \/ UserSends(c) \/ SendQueues(c)
       PROVE Data'
  <2>1. c \in 1..Len(conns)
    BY <1>1, <1>3, <1>13
    DEF UserShutsDown, PeerCloses, UserSends, SendQueues, Data, DataOK, RefsOK, RefersTo
  <2>2. conns[c] \in ConnRecord /\ ConnOK(conns[c])
    BY <1>1, <2>1, ConnTypes DEF Data
  <2>3. \E q \in ConnRecord : conns' = [conns EXCEPT ![c] = q] /\ ConnOK(q) /\ SameUse(conns[c], q)
    <3>1. CASE UserShutsDown(c)
      <4> DEFINE q == [conns[c] EXCEPT !.state = "kDisconnecting"]
      <4>1. conns' = [conns EXCEPT ![c] = q] /\ conns[c].state = "kConnected"
        BY <3>1 DEF UserShutsDown
      <4>2. q \in ConnRecord /\ q.state = "kDisconnecting" /\ SameUse(conns[c], q)
        BY <2>2 DEF ConnRecord, States, SameUse
      <4> HIDE DEF q
      <4>3. ConnOK(q)
        BY <2>2, <4>1, <4>2 DEF ConnOK, SameUse
      <4>. QED  BY <4>1, <4>2, <4>3
    <3>2. CASE PeerCloses(c)
      <4> DEFINE q == [conns[c] EXCEPT !.fin = TRUE]
      <4>1. conns' = [conns EXCEPT ![c] = q]
        BY <3>2 DEF PeerCloses
      <4>2. /\ q \in ConnRecord /\ q.state = conns[c].state /\ q.calls = conns[c].calls
            /\ SameUse(conns[c], q)
        BY <2>2 DEF ConnRecord, States, SameUse
      <4> HIDE DEF q
      <4>3. ConnOK(q)
        BY <2>2, <4>2 DEF ConnOK, SameUse, Watched
      <4>. QED  BY <4>1, <4>2, <4>3
    <3>3. CASE UserSends(c) \/ SendQueues(c)
      <4>1. PICK n \in Nat : conns' = [conns EXCEPT ![c] = [conns[c] EXCEPT !.calls = n]]
        <5>1. conns[c].calls \in Nat
          BY <2>2 DEF ConnRecord
        <5>. QED  BY <3>3, <5>1 DEF UserSends, SendQueues
      <4>2. conns[c].state # "kConnecting"
        BY <2>2, <3>3 DEF UserSends, SendQueues, ConnOK
      <4> DEFINE q == [conns[c] EXCEPT !.calls = n]
      <4>3. q \in ConnRecord /\ q.state = conns[c].state /\ SameUse(conns[c], q)
        BY <2>2, <4>1 DEF ConnRecord, States, SameUse
      <4>4. conns' = [conns EXCEPT ![c] = q]
        BY <4>1
      <4> HIDE DEF q
      <4>5. ConnOK(q)
        BY <2>2, <4>2, <4>3 DEF ConnOK, SameUse, Watched
      <4>. QED  BY <4>3, <4>4, <4>5
    <3>. QED  BY <1>13, <3>1, <3>2, <3>3
  <2>4. Changed(conns, conns', c) /\ SameUse(conns[c], conns'[c])
    BY <1>3, <2>1, <2>3 DEF Changed, SameUse
  <2>5. \A l \in Loop : c \in loop[l].active => conns'[c].chan.registered
    BY <1>1, <2>4 DEF Data, DataOK, ActiveOK, SameUse
  <2>6. DataOK(loop, conns', map, held, waiting, server = "alive")
    BY <1>1, <2>4, <2>5, ChangeConn DEF Data, SameUse, InUse
  <2>7. CASE UNCHANGED loop
    BY <1>13, <2>6, <2>7
    DEF Data, UserShutsDown, PeerCloses, UserSends, SendQueues, accept
  <2>8. CASE SendQueues(c) /\ loop' = Queue(loop, conns[c].loop, Functor("sendInLoop", c))
    <3> DEFINE f == Functor("sendInLoop", c)
    <3>1. f \in Functors /\ f.op = "sendInLoop" /\ f.conn = c
      BY DEF Functors, Functor
    <3>2. conns'[c].up = 1
      BY <2>2, <2>4, <2>8 DEF SendQueues, ConnOK, SameUse, ConnRecord, States
    <3>3. conns[c].loop \in Loop /\ c \in 1..Len(conns')
      BY <2>2, <2>4 DEF ConnRecord, Changed
    <3> HIDE DEF f
    <3>4. DataOK(Queue(loop, conns[c].loop, f), conns', map, held, waiting, server = "alive")
      BY <2>6, <3>1, <3>2, <3>3, QueueFunctor
    <3>. QED  BY <2>8, <3>4 DEF Data, SendQueues, accept, f
  <2>. QED  BY <1>13, <2>7, <2>8 DEF UserShutsDown, PeerCloses, UserSends, SendQueues
<1>14. CASE QuitBase
  BY <1>1, <1>2, <1>14, MarkLoop DEF QuitBase, Quiet, accept
<1>15. CASE ClientConnects
  <2>1. waiting' = waiting + 1 /\ Len(conns) + waiting < MaxConns
        /\ UNCHANGED <<loop, conns, map, held, server>>
    BY <1>15 DEF ClientConnects
  <2>2. waiting + 1 \in Nat /\ Len(conns) + (waiting + 1) <= MaxConns /\ waiting + 1 > 0
    BY <1>3, <2>1
  <2>3. DataOK(loop, conns, map, held, waiting + 1, server = "alive")
    BY <1>1, <1>3, <2>2, ChangeRest DEF Data
  <2>. QED  BY <2>1, <2>3 DEF Data
<1>16. CASE UNCHANGED vars
  BY <1>5, <1>16 DEF vars, accept
<1>. QED  BY <1>6, <1>7, <1>8, <1>9, <1>10, <1>11, <1>12, <1>13, <1>14, <1>15, <1>16
          DEF StartStep

\* An event is taken from activeChannels_.
Without(l, c) == [loop EXCEPT ![l].active = @ \ {c}]

WithoutFacts(lp, l, c) ==
  /\ DataOK(lp, conns, map, held, waiting, server = "alive")
  /\ OnlyLoop(loop, lp, l)
  /\ \A k \in Loop : /\ lp[k].pc = loop[k].pc /\ lp[k].pending = loop[k].pending
                    /\ lp[k].batch = loop[k].batch /\ lp[k].kept = loop[k].kept
  /\ lp[l].active = loop[l].active \ {c}

LEMMA TakeEvent ==
  ASSUME Data, NEW l \in Loop, loop[l].pc = "handle", NEW c \in loop[l].active
  PROVE  WithoutFacts(Without(l, c), l, c)
<1> DEFINE lp == Without(l, c)
<1>1. loop \in [Loop -> LoopRecord] /\ loop[l] \in LoopRecord
  BY LoopTypes
<1>2. /\ OnlyLoop(loop, lp, l)
      /\ lp[l].pc = "handle" /\ lp[l].active = loop[l].active \ {c}
      /\ lp[l].batch = loop[l].batch /\ lp[l].pending = loop[l].pending
      /\ lp[l].kept = loop[l].kept
  BY <1>1 DEF OnlyLoop, LoopRecord, Without
<1> HIDE DEF lp
<1>3. /\ Acceptor \in loop[l].active => l = Base /\ waiting > 0
      /\ \A d \in Conn : d \in loop[l].active =>
           d \in 1..Len(conns) /\ conns[d].loop = l /\ conns[d].chan.registered
      /\ loop[l].batch = <<>>
  BY DEF Data, DataOK, ActiveOK
<1>4. /\ Acceptor \in lp[l].active => l = Base /\ waiting > 0
      /\ \A d \in Conn : d \in lp[l].active =>
           d \in 1..Len(conns) /\ conns[d].loop = l /\ conns[d].chan.registered
      /\ ~Ended(loop[l]) /\ lp[l].batch = <<>>
  BY <1>2, <1>3 DEF Ended
<1>5. DataOK(lp, conns, map, held, waiting, server = "alive")
  BY <1>2, <1>4, MoveLoop DEF Data
<1>. QED  BY <1>2, <1>5 DEF OnlyLoop, WithoutFacts, lp

\* Acceptor::handleRead with newConnection.
LEMMA AcceptData ==
  ASSUME ServerInv, NEW lp, DataOK(lp, conns, map, held, waiting, server = "alive"),
         waiting > 0, Acceptor \notin lp[Base].active, HandleAccept(lp), UNCHANGED server
  PROVE  Data'
<1>1. Data /\ ControlType
  BY DEF ServerInv
<1>2. /\ conns \in Seq(ConnRecord) /\ waiting \in Nat /\ held \in SUBSET Conn
      /\ Len(conns) + waiting <= MaxConns /\ Len(conns) \in Nat /\ MaxConns \in Nat
  BY <1>1, TcpServerAssumption DEF Data, DataOK
<1>3. CASE OutOfFds
  BY <1>3 DEF HandleAccept, accept, Data
<1>4. CASE ~OutOfFds
  <2> DEFINE e == Len(conns) + 1
             l == IF loops = <<>> THEN Base ELSE loops[next + 1]
             cs == Append(conns, NewConnection(l))
             f == Functor("connectEstablished", e)
  <2>1. /\ waiting' = waiting - 1
        /\ map' = map \cup {e}
        /\ IF l = Base
           THEN conns' = Established(cs, e) /\ (held' = held \/ held' = held \cup {e}) /\ loop' = lp
           ELSE conns' = cs /\ UNCHANGED held /\ loop' = Queue(lp, l, f)
    BY <1>4 DEF HandleAccept, Accepted, UserMayKeep
  <2>2. l \in Loop
    <3>1. CASE loops = <<>>
      BY <3>1, TcpServerAssumption DEF Loop, Base
    <3>2. CASE loops # <<>>
      <4>1. loops \in Seq(1..MaxThreads) /\ next \in Nat /\ next < Len(loops) /\ Len(loops) \in Nat
        BY <1>1, <3>2 DEF ControlType
      <4>2. next + 1 \in 1..Len(loops)
        BY <4>1
      <4>3. loops[next + 1] \in 1..MaxThreads
        BY <4>1, <4>2, ElementOf
      <4>. QED  BY <3>2, <4>3, TcpServerAssumption DEF Loop
    <3>. QED  BY <3>1, <3>2
  <2>3. /\ NewConnection(l) \in ConnRecord /\ (l # Base => ConnOK(NewConnection(l)))
        /\ NewConnection(l).loop = l /\ NewConnection(l).up = 0 /\ NewConnection(l).down = 0
        /\ NewConnection(l).chan = NewChannel /\ ~NewConnection(l).late
    BY <2>2, NewConnectionOK DEF NewConnection
  <2> HIDE DEF l
  <2>4. /\ cs \in Seq(ConnRecord) /\ Len(cs) = e /\ cs[e] = NewConnection(l)
        /\ \A d \in 1..Len(conns) : cs[d] = conns[d]
        /\ e \in 1..Len(cs)
    BY <1>2, <2>3
  <2> HIDE DEF cs, e, f
  <2>5. e \in Conn /\ e \in 1..Len(cs)
    BY <1>2, <2>4 DEF e, Conn
  <2>6. CASE l = Base
    <3>1. /\ Changed(cs, conns', e) /\ conns'[e].up = 1
      BY <2>1, <2>3, <2>4, <2>6, EstablishedOK
    <3>2. /\ conns' \in Seq(ConnRecord) /\ Len(conns') = e /\ ConnOK(conns'[e])
          /\ \A d \in 1..Len(conns) : conns'[d] = conns[d]
      <4>1. \A d \in 1..Len(conns) : d \in 1..Len(cs) /\ d # e
        BY <1>2, <2>4 DEF e
      <4>. QED  BY <2>4, <3>1, <4>1 DEF Changed
    <3>3. DataOK(lp, conns', map \cup {e}, held, waiting - 1, server = "alive")
      BY <3>1, <3>2, AddConn DEF e, f
    <3>4. held' \in SUBSET Conn /\ \A c \in held' : c \in held \/ c \in 1..Len(conns')
      BY <1>2, <2>1, <2>4, <2>5, <2>6, <3>2
    <3>5. /\ waiting - 1 \in Nat /\ Len(conns') + (waiting - 1) <= MaxConns
      BY <1>2, <3>2 DEF e
    <3>6. DataOK(lp, conns', map \cup {e}, held', waiting - 1, server = "alive")
      BY <3>3, <3>4, <3>5, ChangeRest
    <3>. QED  BY <2>1, <2>6, <3>6 DEF Data
  <2>7. CASE l # Base
    <3>1. DataOK(Queue(lp, l, f), cs, map \cup {e}, held, waiting - 1, server = "alive")
      BY <2>3, <2>4, <2>7, AddConn DEF e, f
    <3>. QED  BY <2>1, <2>7, <3>1 DEF Data
  <2>. QED  BY <2>6, <2>7
<1>. QED  BY <1>3, <1>4

\* handleClose with removeConnection.
LEMMA CloseData ==
  ASSUME Data, NEW lp, DataOK(lp, conns, map, held, waiting, server = "alive"),
         NEW c \in 1..Len(conns), conns[c].chan.registered,
         \A l \in Loop : c \notin lp[l].active,
         HandleClose(c, lp), UNCHANGED server
  PROVE  Data'
<1>1. conns \in Seq(ConnRecord) /\ conns[c].loop \in Loop /\ c \in Conn /\ ConnOK(conns[c])
      /\ Base \in Loop
  <2>1. conns \in Seq(ConnRecord)
    BY DEF Data, DataOK
  <2>2. Base \in Loop
    BY TcpServerAssumption DEF Base, Loop
  <2>. QED  BY <2>1, <2>2, ConnTypes
<1>2. conns' = Closed(conns, c) /\ UNCHANGED <<held, waiting>>
  BY DEF HandleClose, accept
<1>3. /\ Changed(conns, conns', c)
      /\ conns'[c].up = 1 /\ conns'[c].down # 0 /\ ~InUse(conns'[c])
      /\ ~conns'[c].chan.registered /\ conns[c].up = 1
  BY <1>1, <1>2, ClosedOK DEF InUse
<1>4. DataOK(lp, conns', map, held, waiting, server = "alive")
  BY <1>3, ChangeConn
<1>5. c \in 1..Len(conns') /\ conns'[c].loop = conns[c].loop
  BY <1>3 DEF Changed
<1>6. CASE conns[c].loop = Base
  <2> DEFINE f == Functor("connectDestroyed", c)
  <2>1. f \in Functors /\ f.op = "connectDestroyed" /\ f.conn = c
    BY <1>1 DEF Functors, Functor
  <2>2. map' = map \ {c} /\ loop' = Queue(lp, Base, f)
    BY <1>6 DEF HandleClose, Erased
  <2> HIDE DEF f
  <2>3. DataOK(Queue(lp, Base, f), conns', map, held, waiting, server = "alive")
    BY <1>1, <1>4, <1>5, <1>6, <2>1, QueueFunctor
  <2>4. DataOK(Queue(lp, Base, f), conns', map \ {c}, held, waiting, server = "alive")
    BY <1>3, <1>5, <2>3, EraseConn
  <2>. QED  BY <1>2, <2>2, <2>4 DEF Data
<1>7. CASE conns[c].loop # Base
  <2> DEFINE f == Functor("removeConnectionInLoop", c)
  <2>1. f \in Functors /\ f.op = "removeConnectionInLoop" /\ f.conn = c
    BY <1>1 DEF Functors, Functor
  <2>2. map' = map /\ loop' = Queue(lp, Base, f)
    BY <1>7 DEF HandleClose
  <2> HIDE DEF f
  <2>3. DataOK(Queue(lp, Base, f), conns', map, held, waiting, server = "alive")
    BY <1>1, <1>3, <1>4, <1>5, <2>1, QueueFunctor
  <2>. QED  BY <1>2, <2>2, <2>3 DEF Data
<1>. QED  BY <1>6, <1>7

LEMMA EventData ==
  ASSUME ServerInv, NEW l \in Loop, HandleEvent(l)
  PROVE  Data'
<1>1. Data
  BY DEF ServerInv
<1>2. PICK c \in loop[l].active :
        LET lp == [loop EXCEPT ![l].active = @ \ {c}]
        IN IF c = Acceptor THEN HandleAccept(lp)
           ELSE IF Exists(c) THEN HandleClose(c, lp)
           ELSE loop' = lp /\ UNCHANGED <<accept, map, conns, held>>
  BY DEF HandleEvent
<1>3. loop[l].pc = "handle" /\ UNCHANGED server
  BY DEF HandleEvent
<1> DEFINE lp == Without(l, c)
<1>5. IF c = Acceptor THEN HandleAccept(lp)
      ELSE IF Exists(c) THEN HandleClose(c, lp)
      ELSE loop' = lp /\ UNCHANGED <<accept, map, conns, held>>
  BY <1>2 DEF Without
<1>4. /\ DataOK(lp, conns, map, held, waiting, server = "alive")
      /\ OnlyLoop(loop, lp, l) /\ lp[l].active = loop[l].active \ {c}
  BY <1>1, <1>2, <1>3, TakeEvent DEF WithoutFacts
<1> HIDE DEF lp
<1>6. /\ Acceptor \in loop[l].active => l = Base /\ waiting > 0
      /\ \A k \in Loop, d \in Conn : d \in loop[k].active =>
           d \in 1..Len(conns) /\ conns[d].loop = k /\ conns[d].chan.registered
  BY <1>1 DEF Data, DataOK, ActiveOK
<1>7. CASE c = Acceptor
  <2>1. waiting > 0 /\ Acceptor \notin lp[Base].active
    BY <1>2, <1>4, <1>6, <1>7
  <2>. QED  BY <1>3, <1>4, <1>5, <1>7, <2>1, AcceptData
<1>8. CASE c # Acceptor /\ Exists(c)
  <2>1. c \in Conn
    BY <1>1, <1>2, <1>8, LoopTypes DEF LoopRecord
  <2>2. c \in 1..Len(conns) /\ conns[c].loop = l /\ conns[c].chan.registered
    BY <1>2, <1>6, <2>1
  <2>3. \A k \in Loop : c \notin lp[k].active
    BY <1>4, <1>6, <2>1, <2>2 DEF OnlyLoop
  <2>. QED  BY <1>1, <1>3, <1>4, <1>5, <1>8, <2>2, <2>3, CloseData
<1>9. CASE c # Acceptor /\ ~Exists(c)
  BY <1>3, <1>4, <1>5, <1>9 DEF Data, accept
<1>. QED  BY <1>7, <1>8, <1>9

\* A functor is taken from the batch.
Done(l) ==
  [loop EXCEPT ![l].batch = Tail(@), ![l].kept = @ \cup Holds(Head(loop[l].batch))]

LEMMA DoneTakes ==
  ASSUME Data, NEW l \in Loop, loop[l].pc = "run", loop[l].batch # <<>>
  PROVE  Takes(loop, Done(l), l)
<1> DEFINE r == [loop[l] EXCEPT !.batch = Tail(@),
                                !.kept = @ \cup Holds(Head(loop[l].batch))]
           f == Head(loop[l].batch)
<1>1. /\ loop \in [Loop -> LoopRecord] /\ loop[l] \in LoopRecord
      /\ loop[l].batch \in Seq(Functors) /\ loop[l].kept \in SUBSET Conn
  BY LoopTypes DEF LoopRecord
<1>2. Tail(loop[l].batch) \in Seq(Functors) /\ f \in Functors
  BY <1>1, Taken
<1>3. Holds(f) \in SUBSET Conn
  BY <1>2 DEF Functors, Functor, Holds
<1> HIDE DEF f
<1>4. /\ r \in LoopRecord /\ r.batch = Tail(loop[l].batch) /\ r.pending = loop[l].pending
      /\ r.pc = loop[l].pc /\ r.active = loop[l].active
      /\ r.kept = loop[l].kept \cup Holds(Head(loop[l].batch))
  BY <1>1, <1>2, <1>3 DEF LoopRecord, f
<1>5. Done(l) = [loop EXCEPT ![l] = r]
  BY DEF Done
<1> HIDE DEF r
<1>6. OnlyLoop(loop, Done(l), l) /\ Done(l)[l] = r
  BY <1>1, <1>4, <1>5 DEF OnlyLoop
<1>. QED  BY <1>4, <1>6 DEF Takes

LEMMA FunctorRuns ==
  ASSUME NEW l \in Loop, RunFunctor(l)
  PROVE  Execute(Head(loop[l].batch), Done(l))
BY DEF RunFunctor, Done

LEMMA FunctorData ==
  ASSUME ServerInv, NEW l \in Loop, RunFunctor(l)
  PROVE  Data'
<1> DEFINE f == Head(loop[l].batch)
           lp == Done(l)
<1>1. /\ Data /\ loop[l].pc = "run" /\ loop[l].batch # <<>> /\ UNCHANGED server
      /\ loop \in [Loop -> LoopRecord]
  BY LoopTypes DEF ServerInv, RunFunctor
<1>2. Execute(f, lp)
  BY FunctorRuns
<1>3. Takes(loop, lp, l)
  BY <1>1, DoneTakes
<1> HIDE DEF lp, f
<1>4. f = Head(loop[l].batch)
  BY DEF f
<1>5. f.op \in Ops =>
        /\ f.conn \in 1..Len(conns) /\ f.conn \in Conn /\ ConnOK(conns[f.conn])
        /\ conns[f.conn].loop \in Loop
        /\ f.op = "connectDestroyed" => conns[f.conn].up = 1 /\ conns[f.conn].loop = l
        /\ f.op = "connectEstablished" => conns[f.conn].up = 0 /\ conns[f.conn].loop = l
        /\ f.op = "removeConnectionInLoop" => conns[f.conn].down # 0
        /\ f.op = "sendInLoop" => conns[f.conn].up = 1
  BY <1>1, <1>4, DestroyedIsUp, ConnTypes DEF Data
<1>6. conns \in Seq(ConnRecord) /\ held \in SUBSET Conn /\ waiting \in Nat
      /\ Len(conns) + waiting <= MaxConns
  BY <1>1 DEF Data, DataOK
<1>7. CASE f.op = "listen"
  <2>1. loop' = lp /\ UNCHANGED <<conns, map, held, waiting>>
    BY <1>2, <1>7 DEF Execute, ListenFunctor
  <2>2. DataOK(lp, conns, map, held, waiting, server = "alive")
    BY <1>1, <1>3, <1>4, <1>7, TakeFunctor DEF Data
  <2>. QED  BY <1>1, <2>1, <2>2 DEF Data
<1>8. CASE f.op = "connectEstablished"
  <2>1. /\ conns' = Established(conns, f.conn) /\ loop' = lp /\ UNCHANGED <<map, waiting>>
        /\ held' = held \/ held' = held \cup {f.conn}
    BY <1>2, <1>8 DEF Execute, accept, UserMayKeep
  <2>2. conns[f.conn].down = 0 /\ conns[f.conn].chan = NewChannel /\ ~conns[f.conn].late
    BY <1>5, <1>8 DEF ConnOK, ConnRecord, States, Ops
  <2>3. /\ Changed(conns, conns', f.conn)
        /\ conns'[f.conn].up = 1 /\ conns'[f.conn].chan.registered
    BY <1>5, <1>6, <1>8, <2>1, <2>2, EstablishedOK DEF Ops
  <2>4. DataOK(lp, conns', map, held, waiting, server = "alive")
    BY <1>1, <1>3, <1>4, <1>8, <2>2, <2>3, TakeEstablished DEF Data
  <2>5. held' \in SUBSET Conn /\ \A c \in held' : c \in held \/ c \in 1..Len(conns')
    BY <1>5, <1>6, <1>8, <2>1, <2>3 DEF Ops, Changed
  <2>6. /\ Len(conns') + waiting <= MaxConns
        /\ waiting > 0 \/ Acceptor \notin lp[Base].active
    <3>1. Base \in Loop
      BY TcpServerAssumption DEF Loop, Base
    <3>. QED  BY <2>4, <3>1 DEF DataOK, ActiveOK
  <2>7. DataOK(lp, conns', map, held', waiting, server = "alive")
    BY <1>6, <2>4, <2>5, <2>6, ChangeRest
  <2>. QED  BY <1>1, <2>1, <2>7 DEF Data
<1>9. CASE f.op = "connectDestroyed"
  <2>1. conns' = Destroyed(conns, f.conn) /\ loop' = lp /\ UNCHANGED <<map, held, waiting>>
    BY <1>2, <1>9 DEF Execute, accept
  <2>2. /\ Changed(conns, conns', f.conn)
        /\ conns'[f.conn].up = 1 /\ ~conns'[f.conn].chan.registered
        /\ conns'[f.conn].down >= conns[f.conn].down /\ conns[f.conn].down \in Nat
    BY <1>5, <1>6, <1>9, <2>1, DestroyedOK DEF Ops, ConnOK, ConnRecord
  <2>3. (conns[f.conn].down # 0 => conns'[f.conn].down # 0) /\ ~InUse(conns'[f.conn])
    <3>1. conns'[f.conn].down \in Nat
      BY <2>2 DEF Changed, ConnOK, ConnRecord
    <3>. QED  BY <2>2, <3>1 DEF InUse
  <2>4. \A k \in Loop : f.conn \notin loop[k].active
    <3>1. \A k \in Loop : f.conn \in loop[k].active => k = l
      BY <1>1, <1>5, <1>9 DEF Data, DataOK, ActiveOK, Ops
    <3>2. loop[l].active = {}
      BY <1>1, LoopTypes
    <3>. QED  BY <3>1, <3>2
  <2>5. DataOK(loop, conns', map, held, waiting, server = "alive")
    BY <1>1, <1>5, <1>9, <2>2, <2>3, <2>4, ChangeConn DEF Data, Ops
  <2>6. DataOK(lp, conns', map, held, waiting, server = "alive")
    BY <1>3, <1>4, <1>9, <2>3, <2>5, TakeFunctor
  <2>. QED  BY <1>1, <2>1, <2>6 DEF Data
<1>10. CASE f.op = "removeConnectionInLoop"
  <2> DEFINE m == conns[f.conn].loop
             g == Functor("connectDestroyed", f.conn)
  <2>1. /\ map' = map \ {f.conn} /\ loop' = Queue(lp, m, g)
        /\ UNCHANGED <<conns, held, waiting>>
    BY <1>2, <1>10 DEF Execute, Erased, accept
  <2>2. g \in Functors /\ g.op = "connectDestroyed" /\ g.conn = f.conn
    BY <1>5, <1>10 DEF Functors, Functor, Ops
  <2>3. DataOK(lp, conns, map, held, waiting, server = "alive")
    BY <1>1, <1>3, <1>4, <1>10, TakeFunctor DEF Data
  <2>4. lp \in [Loop -> LoopRecord]
    BY <2>3 DEF DataOK
  <2> HIDE DEF g
  <2>5. DataOK(Queue(lp, m, g), conns, map, held, waiting, server = "alive")
    BY <1>5, <1>10, <2>2, <2>3, QueueFunctor DEF Ops
  <2>6. Queued(Queue(lp, m, g), "connectDestroyed", f.conn, m)
    BY <1>5, <1>10, <2>2, <2>4, QueueTypes DEF Is, Ops
  <2>7. DataOK(Queue(lp, m, g), conns, map \ {f.conn}, held, waiting, server = "alive")
    BY <1>5, <1>10, <2>5, <2>6, EraseConn DEF Ops
  <2>. QED  BY <1>1, <2>1, <2>7 DEF Data
<1>11. CASE f.op = "sendInLoop"
  <2>1. /\ conns' = conns \/ conns' = Armed(conns, f.conn)
        /\ loop' = lp /\ UNCHANGED <<map, held, waiting>>
    BY <1>2, <1>11 DEF Execute, accept
  <2>2. DataOK(lp, conns, map, held, waiting, server = "alive")
    BY <1>1, <1>3, <1>4, <1>11, TakeFunctor DEF Data
  <2>3. CASE conns' = conns
    BY <1>1, <2>1, <2>2, <2>3 DEF Data
  <2>4. CASE conns' = Armed(conns, f.conn)
    <3>1. /\ Changed(conns, conns', f.conn) /\ conns'[f.conn].up = 1
          /\ conns'[f.conn].down = conns[f.conn].down /\ Watched(conns'[f.conn])
          /\ conns'[f.conn].late <=> conns[f.conn].late \/ ~Watched(conns[f.conn])
          /\ conns[f.conn].up = 1
      BY <1>5, <1>6, <1>11, <2>4, ArmedOK DEF Ops
    <3>2. InUse(conns'[f.conn]) => InUse(conns[f.conn])
      BY <3>1 DEF InUse, Watched
    <3>3. DataOK(lp, conns', map, held, waiting, server = "alive")
      BY <2>2, <3>1, <3>2, ChangeConn DEF Watched
    <3>. QED  BY <1>1, <2>1, <3>3 DEF Data
  <2>. QED  BY <2>1, <2>3, <2>4
<1>. QED  BY <1>2, <1>7, <1>8, <1>9, <1>10, <1>11 DEF Execute

LEMMA DropData ==
  ASSUME ServerInv, DropConnection
  PROVE  Data'
<1>1. Data /\ DestructorOK /\ server = "connections" /\ UNCHANGED <<held, waiting, server>>
      /\ Base \in Loop
  <2>1. Base \in Loop
    BY TcpServerAssumption DEF Loop, Base
  <2>. QED  BY <2>1 DEF ServerInv, DropConnection, accept
<1>2. PICK c \in map :
        /\ map' = map \ {c}
        /\ IF conns[c].loop = Base
           THEN conns' = Destroyed(conns, c) /\ UNCHANGED loop
           ELSE /\ loop' = Queue(loop, conns[c].loop, Functor("connectDestroyed", c))
                /\ UNCHANGED conns
  BY DEF DropConnection
<1>3. c \in Conn /\ c \in 1..Len(conns) /\ conns \in Seq(ConnRecord)
      /\ loop \in [Loop -> LoopRecord]
  BY <1>1, <1>2 DEF Data, DataOK, RefsOK, RefersTo
<1>4. ConnOK(conns[c]) /\ conns[c].loop \in Loop /\ conns[c] \in ConnRecord
  BY <1>1, <1>3, ConnTypes DEF Data
<1>5. CASE conns[c].loop = Base
  <2>1. conns[c].up = 1
    BY <1>4, <1>5 DEF ConnOK, ConnRecord, States
  <2>2. conns' = Destroyed(conns, c) /\ loop' = loop
    BY <1>2, <1>5
  <2>3. /\ Changed(conns, conns', c)
        /\ conns'[c].up = 1 /\ ~conns'[c].chan.registered
        /\ conns'[c].down >= conns[c].down
    BY <1>3, <1>4, <2>1, <2>2, DestroyedOK
  <2>4. (conns[c].down # 0 => conns'[c].down # 0) /\ ~InUse(conns'[c])
    <3>1. conns'[c].down \in Nat /\ conns[c].down \in Nat
      BY <1>4, <2>3 DEF Changed, ConnOK, ConnRecord
    <3>. QED  BY <2>3, <3>1 DEF InUse
  <2>5. \A k \in Loop : c \notin loop[k].active
    <3>1. \A k \in Loop : c \in loop[k].active => k = Base
      BY <1>1, <1>3, <1>5 DEF Data, DataOK, ActiveOK
    <3>2. loop[Base].active = {}
      BY <1>1, LoopTypes DEF DestructorOK, Ended
    <3>. QED  BY <3>1, <3>2
  <2>6. DataOK(loop, conns', map, held, waiting, server = "alive")
    BY <1>1, <2>1, <2>3, <2>4, <2>5, ChangeConn DEF Data
  <2>7. c \in 1..Len(conns')
    BY <2>3 DEF Changed
  <2>8. DataOK(loop, conns', map \ {c}, held, waiting, server = "alive")
    BY <1>1, <2>4, <2>6, <2>7, EraseConn
  <2>. QED  BY <1>1, <1>2, <2>2, <2>8 DEF Data
<1>6. CASE conns[c].loop # Base
  <2> DEFINE m == conns[c].loop
             g == Functor("connectDestroyed", c)
  <2>1. loop' = Queue(loop, m, g) /\ conns' = conns
    BY <1>2, <1>6
  <2>2. g \in Functors /\ g.op = "connectDestroyed" /\ g.conn = c
    BY <1>3 DEF Functors, Functor
  <2> HIDE DEF g
  <2>3. DataOK(Queue(loop, m, g), conns, map, held, waiting, server = "alive")
    BY <1>1, <1>3, <1>4, <2>2, QueueFunctor DEF Data
  <2>4. Queued(Queue(loop, m, g), "connectDestroyed", c, m)
    BY <1>3, <1>4, <2>2, QueueTypes DEF Is
  <2>5. DataOK(Queue(loop, m, g), conns, map \ {c}, held, waiting, server = "alive")
    BY <1>1, <1>3, <2>3, <2>4, EraseConn
  <2>. QED  BY <1>1, <1>2, <2>1, <2>5 DEF Data
<1>. QED  BY <1>5, <1>6

LEMMA NextData == ServerInv /\ [Next]_vars => Data'
<1> SUFFICES ASSUME ServerInv, [Next]_vars PROVE Data'
  OBVIOUS
<1>1. ASSUME NEW l \in Loop, LoopStep(l) \/ PollTimeout(l) PROVE Data'
  BY <1>1, LoopData, EventData, FunctorData DEF LoopStep, ServerInv
<1>2. CASE DestructorStep
  BY <1>2, DropData, RestData DEF DestructorStep
<1>3. CASE UserStep
  BY <1>3, RestData DEF UserStep
<1>4. CASE \/ \E t \in Starter : StartStep(t)
           \/ ClientConnects \/ \E c \in Conn : PeerCloses(c)
           \/ UNCHANGED vars
  BY <1>4, RestData
<1>. QED  BY <1>1, <1>2, <1>3, <1>4 DEF Next

------------------------------------------------------------------------------
\* The steps keep the control.

Listens(lp, l) == Queued(lp, "listen", 0, l)

\* A step of loop l leaves the other loops where they are, and queues no
\* Acceptor::listen.
Goes(l) ==
  /\ \A k \in Loop : k # l => loop'[k].pc = loop[k].pc
  /\ loop[l].pc # "none" /\ loop'[l].pc # "none"
  /\ Ended(loop[l]) => Ended(loop'[l])
  /\ loop[l].pc # "gone"
  /\ \A k \in Loop : Listens(loop', k) => Listens(loop, k)

LEMMA LoopGoes ==
  ASSUME Data, NEW l \in Loop,
         \/ EnterLoop(l) \/ TestQuit(l) \/ PollReturns(l) \/ PollTimeout(l)
         \/ DoPendingFunctors(l) \/ FunctorsDone(l) \/ DestroyLoop(l)
  PROVE  Goes(l)
<1>1. loop \in [Loop -> LoopRecord] /\ loop[l] \in LoopRecord
  BY LoopTypes
<1>2. AfterTest(l) \in {"exited", "poll"}
  BY DEF AfterTest
<1>3. \A op, c : ~Has(<<>>, op, c)
  BY EmptyQueue
<1>4. /\ \A k \in Loop : k # l => loop'[k] = loop[k]
      /\ loop[l].pc # "none" /\ loop'[l].pc # "none"
      /\ Ended(loop[l]) => Ended(loop'[l])
      /\ loop[l].pc # "gone"
      /\ \/ loop'[l].batch = loop[l].batch /\ loop'[l].pending = loop[l].pending
         \/ loop'[l].batch = loop[l].pending /\ loop'[l].pending = <<>>
         \/ loop'[l].batch = loop[l].batch /\ loop'[l].pending = <<>>
  <2>1. CASE EnterLoop(l)
    BY <1>1, <2>1 DEF EnterLoop, LoopRecord, Ended
  <2>2. CASE TestQuit(l)
    BY <1>1, <1>2, <2>2 DEF TestQuit, LoopRecord, Ended
  <2>3. CASE PollReturns(l)
    BY <1>1, <2>3 DEF PollReturns, LoopRecord, Ended
  <2>4. CASE PollTimeout(l)
    BY <1>1, <2>4 DEF PollTimeout, LoopRecord, Ended
  <2>5. CASE DoPendingFunctors(l)
    BY <1>1, <1>2, <2>5 DEF DoPendingFunctors, LoopRecord, Ended
  <2>6. CASE FunctorsDone(l)
    BY <1>1, <1>2, <2>6 DEF FunctorsDone, LoopRecord, Ended
  <2>7. CASE DestroyLoop(l)
    BY <1>1, <2>7 DEF DestroyLoop, LoopRecord, Ended
  <2>. QED  BY <2>1, <2>2, <2>3, <2>4, <2>5, <2>6, <2>7
<1>5. Listens(loop', l) => Listens(loop, l)
  BY <1>3, <1>4 DEF Listens, Queued
<1>6. \A k \in Loop : k # l => (Listens(loop', k) => Listens(loop, k))
  BY <1>4 DEF Listens, Queued
<1>. QED  BY <1>4, <1>5, <1>6 DEF Goes

\* Nothing but the queues changes, and Acceptor::listen is not among what is
\* queued.
Stays(lp) ==
  /\ lp \in [Loop -> LoopRecord]
  /\ \A k \in Loop : lp[k].pc = loop[k].pc
  /\ \A k \in Loop : Listens(lp, k) => Listens(loop, k)

LEMMA StaysQueued ==
  ASSUME NEW lp, Stays(lp), NEW m \in Loop, NEW op \in Ops, NEW c \in Conn
  PROVE  Stays(Queue(lp, m, Functor(op, c)))
<1> DEFINE f == Functor(op, c)
<1>1. f \in Functors /\ ~Is(f, "listen", 0)
  BY DEF Functors, Functor, Ops, Is
<1>2. lp \in [Loop -> LoopRecord]
  BY DEF Stays
<1> HIDE DEF f
<1>3. /\ OnlyLoop(lp, Queue(lp, m, f), m) /\ Queue(lp, m, f)[m].pc = lp[m].pc
      /\ \A o, d : \A l \in Loop :
           Queued(Queue(lp, m, f), o, d, l) <=> Queued(lp, o, d, l) \/ (l = m /\ Is(f, o, d))
  BY <1>1, <1>2, QueueTypes
<1>4. \A k \in Loop : Listens(Queue(lp, m, f), k) => Listens(lp, k)
  BY <1>1, <1>3 DEF Listens
<1>. QED  BY <1>3, <1>4 DEF Stays, OnlyLoop, f

LEMMA EventStays ==
  ASSUME ServerInv, NEW l \in Loop, HandleEvent(l)
  PROVE  Stays(loop') /\ UNCHANGED listening /\ next' \in 0..Len(loops)
         /\ (loops # <<>> => next' < Len(loops))
<1>1. Data /\ loop[l].pc = "handle" /\ ControlType
  BY DEF ServerInv, HandleEvent
<1>2. PICK c \in loop[l].active :
        LET lp == [loop EXCEPT ![l].active = @ \ {c}]
        IN IF c = Acceptor THEN HandleAccept(lp)
           ELSE IF Exists(c) THEN HandleClose(c, lp)
           ELSE loop' = lp /\ UNCHANGED <<accept, map, conns, held>>
  BY DEF HandleEvent
<1> DEFINE lp == Without(l, c)
<1>3. IF c = Acceptor THEN HandleAccept(lp)
      ELSE IF Exists(c) THEN HandleClose(c, lp)
      ELSE loop' = lp /\ UNCHANGED <<accept, map, conns, held>>
  BY <1>2 DEF Without
<1>4. WithoutFacts(lp, l, c)
  BY <1>1, TakeEvent
<1> HIDE DEF lp
<1>5. Stays(lp)
  BY <1>4 DEF WithoutFacts, OnlyLoop, Stays, Listens, Queued
<1>6. next \in 0..Len(loops) /\ (loops # <<>> => next < Len(loops)) /\ loops \in Seq(1..MaxThreads)
      /\ Len(loops) \in Nat /\ Len(conns) + 1 \in Nat
  BY <1>1 DEF ControlType, Data, DataOK
<1>7. CASE loop' = lp /\ UNCHANGED <<next, listening>>
  BY <1>5, <1>6, <1>7
<1>8. CASE c = Acceptor /\ ~OutOfFds
  <2> DEFINE e == Len(conns) + 1
             m == IF loops = <<>> THEN Base ELSE loops[next + 1]
  <2>1. /\ next' = IF loops = <<>> THEN next ELSE Following(next)
        /\ loop' = lp \/ loop' = Queue(lp, m, Functor("connectEstablished", e))
        /\ UNCHANGED listening
    BY <1>3, <1>8 DEF HandleAccept, Accepted
  <2>2. next' \in 0..Len(loops) /\ (loops # <<>> => next' < Len(loops))
    BY <1>6, <2>1 DEF Following
  <2>3. m \in Loop
    <3>1. CASE loops = <<>>
      BY <3>1, TcpServerAssumption DEF Loop, Base
    <3>2. CASE loops # <<>>
      <4>1. next + 1 \in 1..Len(loops)
        BY <1>6, <3>2
      <4>2. loops[next + 1] \in 1..MaxThreads
        BY <1>6, <4>1, ElementOf
      <4>. QED  BY <3>2, <4>2, TcpServerAssumption DEF Loop
    <3>. QED  BY <3>1, <3>2
  <2>4. e \in Conn
    <3>1. loop[l].active \subseteq Conn \cup {Acceptor} /\ waiting > 0
      BY <1>1, <1>2, <1>8 DEF Data, DataOK, ActiveOK, LoopRecord
    <3>2. waiting \in Nat /\ Len(conns) \in Nat /\ Len(conns) + waiting <= MaxConns
          /\ MaxConns \in Nat
      BY <1>1, TcpServerAssumption DEF Data, DataOK
    <3>. QED  BY <3>1, <3>2 DEF Conn
  <2> HIDE DEF e, m
  <2>5. Stays(loop')
    BY <1>5, <2>1, <2>3, <2>4, StaysQueued DEF Ops
  <2>. QED  BY <2>1, <2>2, <2>5
<1>9. CASE c # Acceptor /\ HandleClose(c, lp)
  <2>1. c \in Conn /\ conns[c].loop \in Loop /\ Base \in Loop
    <3>1. c \in Conn
      BY <1>1, <1>2, <1>9, LoopTypes DEF LoopRecord
    <3>2. c \in 1..Len(conns)
      BY <1>1, <1>2, <3>1 DEF Data, DataOK, ActiveOK
    <3>3. conns[c].loop \in Loop
      BY <1>1, <3>2, ConnTypes DEF Data
    <3>4. Base \in Loop
      BY TcpServerAssumption DEF Loop, Base
    <3>. QED  BY <3>1, <3>3, <3>4
  <2>2. /\ \E op \in Ops : loop' = Queue(lp, Base, Functor(op, c))
        /\ UNCHANGED <<next, listening>>
    BY <1>9 DEF HandleClose, accept, Ops
  <2>. QED  BY <1>5, <1>6, <2>1, <2>2, StaysQueued
<1>. QED  BY <1>3, <1>7, <1>8, <1>9 DEF HandleAccept, accept

\* A functor, or an iteration of the destructor's body.  Acceptor::listen is
\* executed where it was queued.
LEMMA FunctorStays ==
  ASSUME ServerInv, \/ \E l \in Loop : RunFunctor(l)
                    \/ DropConnection
  PROVE  /\ Stays(loop') /\ next' = next
         /\ listening' # listening => listening' = TRUE /\ \E l \in Loop : Listens(loop, l)
<1>1. Data /\ loop \in [Loop -> LoopRecord]
  BY LoopTypes DEF ServerInv
<1>2. ASSUME NEW l \in Loop, RunFunctor(l)
      PROVE  /\ Stays(loop') /\ next' = next
             /\ listening' # listening => listening' = TRUE /\ \E k \in Loop : Listens(loop, k)
  <2> DEFINE f == Head(loop[l].batch)
             lp == Done(l)
  <2>1. /\ loop[l].pc = "run" /\ loop[l].batch # <<>>
        /\ \/ /\ f.op = "listen" /\ loop' = lp /\ listening' = TRUE /\ next' = next
           \/ /\ f.op \in Ops /\ loop' = lp /\ UNCHANGED <<next, listening>>
           \/ /\ f.op = "removeConnectionInLoop"
              /\ loop' = Queue(lp, conns[f.conn].loop, Functor("connectDestroyed", f.conn))
              /\ UNCHANGED <<next, listening>>
    <3>1. Execute(f, lp)
      BY <1>2, FunctorRuns
    <3>2. loop[l].pc = "run" /\ loop[l].batch # <<>>
      BY <1>2 DEF RunFunctor
    <3> HIDE DEF lp, f
    <3>. QED  BY <3>1, <3>2 DEF Execute, ListenFunctor, accept, Ops
  <2>2. Takes(loop, lp, l)
    BY <1>1, <2>1, DoneTakes
  <2> HIDE DEF lp
  <2>3. TakeFacts(loop, lp, l, f)
    BY <1>1, <2>2, TakeTypes
  <2> HIDE DEF f
  <2>4. Stays(lp)
    BY <2>3 DEF Stays, TakeFacts, Listens
  <2>5. CASE f.op = "listen"
    <3>1. Is(f, "listen", 0)
      BY <2>3, <2>5 DEF TakeFacts, Functors, Functor, Ops, Is
    <3>2. Listens(loop, l)
      BY <2>3, <3>1 DEF TakeFacts, Listens
    <3>. QED  BY <2>1, <2>4, <2>5, <3>2 DEF Ops
  <2>6. CASE f.op # "listen"
    <3>1. f.op = "removeConnectionInLoop" =>
            conns[f.conn].loop \in Loop /\ f.conn \in Conn
      BY <1>1, <2>1, DestroyedIsUp, ConnTypes DEF f, Data, Ops
    <3>2. CASE loop' = lp /\ UNCHANGED <<next, listening>>
      BY <2>4, <3>2
    <3>3. CASE /\ f.op = "removeConnectionInLoop"
               /\ loop' = Queue(lp, conns[f.conn].loop, Functor("connectDestroyed", f.conn))
               /\ UNCHANGED <<next, listening>>
      <4>1. Stays(loop')
        BY <2>4, <3>1, <3>3, StaysQueued DEF Ops
      <4>. QED  BY <3>3, <4>1
    <3>. QED  BY <2>1, <2>6, <3>2, <3>3
  <2>. QED  BY <2>5, <2>6
<1>3. CASE DropConnection
  <2>1. PICK c \in map :
          /\ UNCHANGED <<next, listening>>
          /\ \/ loop' = loop
             \/ loop' = Queue(loop, conns[c].loop, Functor("connectDestroyed", c))
    BY <1>3 DEF DropConnection, accept
  <2>2. Stays(loop)
    BY <1>1 DEF Stays
  <2>3. c \in Conn /\ c \in 1..Len(conns)
    BY <1>1 DEF Data, DataOK, RefsOK, RefersTo
  <2>4. conns[c].loop \in Loop
    BY <1>1, <2>3, ConnTypes DEF Data
  <2>5. Stays(Queue(loop, conns[c].loop, Functor("connectDestroyed", c)))
    BY <2>2, <2>3, <2>4, StaysQueued DEF Ops
  <2>. QED  BY <2>1, <2>2, <2>5
<1>. QED  BY <1>2, <1>3

Control == ControlType /\ PoolOK /\ StartOK /\ DestructorOK

LEMMA PoolLoops ==
  ASSUME ControlType, PoolOK
  PROVE  /\ Base \in Loop /\ \A k \in 1..MaxThreads : k \in Loop /\ k # Base
         /\ Len(loops) \in Nat /\ Len(loops) <= MaxThreads /\ MaxThreads \in Nat
         /\ numThreads \in Nat /\ numThreads <= MaxThreads
         /\ \A k \in 1..Len(loops) : k \in Loop /\ k # Base /\ loops[k] = k
<1>1. Base \in Loop /\ \A k \in 1..MaxThreads : k \in Loop /\ k # Base
  BY TcpServerAssumption DEF Loop, Base
<1>2. Len(loops) \in Nat /\ Len(loops) <= numThreads /\ numThreads \in 0..MaxThreads
      /\ MaxThreads \in Nat
  BY TcpServerAssumption DEF ControlType, PoolOK
<1>3. \A k \in 1..Len(loops) : loops[k] = k
  BY DEF PoolOK
<1>. QED  BY <1>1, <1>2, <1>3

\* A step that leaves the loops and the destructor where they are.
LEMMA StaysControl ==
  ASSUME ServerInv, Stays(loop'), UNCHANGED <<start, server, cur>>,
         next' \in 0..Len(loops), loops # <<>> => next' < Len(loops),
         listening' # listening => listening' = TRUE /\ \E l \in Loop : Listens(loop, l)
  PROVE  Control'
<1>1. UNCHANGED <<numThreads, maxFds, starter, started, loops, sent>>
  BY DEF start
<1>2. ControlType /\ PoolOK /\ StartOK /\ DestructorOK
  BY DEF ServerInv
<1>3. \A l \in Loop : loop'[l].pc = loop[l].pc
  BY DEF Stays
<1>4. ControlType'
  BY <1>1, <1>2 DEF ControlType
<1>5. PoolOK'
  BY <1>1, <1>2, <1>3 DEF PoolOK
<1>6. NobodyListens => NobodyListens'
  BY DEF NobodyListens, Stays, Listens
<1>7. StartOK'
  BY <1>1, <1>2, <1>6 DEF StartOK
<1>8. DestructorOK'
  BY <1>1, <1>2, <1>3, PoolLoops DEF DestructorOK, Ended
<1>. QED  BY <1>4, <1>5, <1>7, <1>8 DEF Control

\* A step of a loop.
LEMMA GoesControl ==
  ASSUME ServerInv, NEW l \in Loop, Goes(l), Quiet
  PROVE  Control'
<1>1. UNCHANGED <<numThreads, maxFds, starter, started, loops, sent, next, listening, server, cur>>
  BY DEF start, accept, Quiet
<1>2. ControlType /\ PoolOK /\ StartOK /\ DestructorOK
  BY DEF ServerInv
<1>3. ControlType'
  BY <1>1, <1>2 DEF ControlType
<1>4. PoolOK'
  BY <1>1, <1>2 DEF PoolOK, Goes
<1>5. NobodyListens => NobodyListens'
  BY <1>1 DEF NobodyListens, Goes, Listens
<1>6. StartOK'
  BY <1>1, <1>2, <1>5 DEF StartOK
<1>7. Ended(loop[Base]) => Ended(loop'[Base])
  BY <1>2, PoolLoops DEF Goes, Ended
<1>8. \A k \in 1..Len(loops) : loop[k].pc = "gone" => loop'[k].pc = "gone"
  BY <1>2, PoolLoops DEF Goes
<1>9. DestructorOK'
  BY <1>1, <1>2, <1>7, <1>8 DEF DestructorOK
<1>. QED  BY <1>3, <1>4, <1>6, <1>9 DEF Control

\* start().
LEMMA StartControl ==
  ASSUME ServerInv, NEW t \in Starter, StartCounts(t) \/ StartStep(t)
  PROVE  Control'
<1>1. ControlType /\ PoolOK /\ StartOK /\ DestructorOK
  BY DEF ServerInv
<1>2. loop \in [Loop -> LoopRecord] /\ \A l \in Loop : loop[l] \in LoopRecord
  BY LoopTypes DEF ServerInv
<1>3. CASE StartCounts(t)
  <2>1. /\ server = "alive" /\ ~started /\ started' = TRUE
        /\ starter' = [starter EXCEPT ![t] = "pool"]
        /\ UNCHANGED <<numThreads, maxFds, loops, sent, next, listening, loop, server, cur>>
    BY <1>3 DEF StartCounts, accept
  <2>2. ControlType'
    BY <1>1, <2>1 DEF ControlType
  <2>3. PoolOK'
    BY <1>1, <2>1 DEF PoolOK
  <2>4. NobodyListens' <=> NobodyListens
    BY <2>1 DEF NobodyListens
  <2>5. \A u \in Starter : starter'[u] = "pool" => u = t
    BY <1>1, <2>1 DEF StartOK, ControlType
  <2>6. StartOK'
    BY <1>1, <2>1, <2>4, <2>5 DEF StartOK
  <2>7. DestructorOK'
    BY <1>1, <2>1 DEF DestructorOK
  <2>. QED  BY <2>2, <2>3, <2>6, <2>7 DEF Control
<1>4. CASE StartThread(t)
  <2> DEFINE i == Len(loops) + 1
  <2>1. /\ starter[t] = "pool" /\ i <= numThreads
        /\ loops' = Append(loops, i) /\ loop' = [loop EXCEPT ![i].pc = "enter"]
        /\ UNCHANGED <<numThreads, maxFds, starter, started, sent, next, listening, server, cur>>
    BY <1>4 DEF StartThread, accept
  <2>2. i \in 1..MaxThreads /\ i \in Loop /\ i # Base /\ loops \in Seq(1..MaxThreads)
    BY <1>1, <2>1, PoolLoops DEF ControlType
  <2>3. /\ loops' \in Seq(1..MaxThreads) /\ Len(loops') = i
        /\ loops'[i] = i /\ \A k \in 1..Len(loops) : loops'[k] = loops[k]
    BY <2>1, <2>2
  <2>4. /\ \A k \in Loop : k # i => loop'[k] = loop[k]
        /\ loop'[i].pc = "enter"
        /\ loop'[i].batch = loop[i].batch /\ loop'[i].pending = loop[i].pending
    BY <1>2, <2>1, <2>2 DEF LoopRecord
  <2>5. started /\ server = "alive" /\ NobodyListens
        /\ \A u \in Starter : starter[u] = "pool" => u = t
    BY <1>1, <2>1 DEF StartOK
  <2>6. ControlType'
    <3>1. next' \in 0..Len(loops') /\ (loops' # <<>> => next' < Len(loops'))
      BY <1>1, <2>1, <2>3, PoolLoops DEF ControlType
    <3>. QED  BY <1>1, <2>1, <2>3, <3>1 DEF ControlType
  <2>7. PoolOK'
    <3>1. Len(loops') <= numThreads'
      BY <2>1, <2>3
    <3>2. \A k \in 1..Len(loops') : loops'[k] = k
      BY <1>1, <2>3, PoolLoops
    <3>3. \A l \in Loop : loop'[l].pc = "none" <=> l > Len(loops')
      <4> SUFFICES ASSUME NEW l \in Loop PROVE loop'[l].pc = "none" <=> l > Len(loops')
        OBVIOUS
      <4>1. l \in Nat /\ (loop[l].pc = "none" <=> l > Len(loops))
        BY <1>1 DEF PoolOK, Loop
      <4>2. CASE l = i
        BY <2>2, <2>3, <2>4, <4>2, PoolLoops, <1>1
      <4>3. CASE l # i
        <5>1. loop'[l].pc = "none" <=> l > Len(loops)
          BY <2>4, <4>1, <4>3
        <5>2. l > Len(loops) <=> l > i
          BY <1>1, <4>1, <4>3, PoolLoops
        <5>. QED  BY <2>3, <5>1, <5>2
      <4>. QED  BY <4>2, <4>3
    <3>. QED  BY <3>1, <3>2, <3>3 DEF PoolOK
  <2>8. NobodyListens'
    BY <2>1, <2>4, <2>5 DEF NobodyListens, Queued
  <2>9. StartOK'
    BY <1>1, <2>1, <2>5, <2>8 DEF StartOK
  <2>10. DestructorOK'
    <3>1. server' = "alive" /\ cur' <= Len(loops') + 1
      BY <1>1, <2>1, <2>3, <2>5, PoolLoops DEF DestructorOK, ControlType
    <3>2. \A k \in 1..Len(loops') : k < cur' => loop'[k].pc = "gone"
      <4> SUFFICES ASSUME NEW k \in 1..Len(loops'), k < cur' PROVE loop'[k].pc = "gone"
        OBVIOUS
      <4>1. k \in 1..Len(loops) /\ k < cur /\ k # i
        BY <1>1, <2>1, <2>3, PoolLoops DEF DestructorOK, ControlType
      <4>. QED  BY <1>1, <2>4, <4>1, PoolLoops DEF DestructorOK
    <3>. QED  BY <3>1, <3>2 DEF DestructorOK
  <2>. QED  BY <2>6, <2>7, <2>9, <2>10 DEF Control
<1>5. CASE StartListening(t)
  <2> DEFINE f == Functor("listen", 0)
  <2>1. /\ starter[t] = "pool" /\ starter' = [starter EXCEPT ![t] = "idle"]
        /\ UNCHANGED <<numThreads, maxFds, started, loops, sent, next, server, cur>>
        /\ listening' \in BOOLEAN
        /\ loop' = loop \/ loop' = Queue(loop, Base, f)
    BY <1>1, <1>5 DEF StartListening, ControlType
  <2>2. Base \in Loop /\ f \in Functors
    BY <1>1, PoolLoops DEF Functors
  <2> HIDE DEF f
  <2>3. \A l \in Loop : loop'[l].pc = loop[l].pc
    BY <1>2, <2>1, <2>2, QueueTypes DEF OnlyLoop
  <2>4. ControlType'
    BY <1>1, <2>1 DEF ControlType
  <2>5. PoolOK'
    BY <1>1, <2>1, <2>3 DEF PoolOK
  <2>6. StartOK'
    <3>1. \A u \in Starter : starter'[u] # "pool"
      BY <1>1, <2>1 DEF StartOK, ControlType
    <3>2. started'
      BY <1>1, <2>1 DEF StartOK
    <3>. QED  BY <3>1, <3>2 DEF StartOK
  <2>7. server = "alive"
    BY <1>1, <2>1 DEF StartOK
  <2>8. DestructorOK'
    BY <1>1, <2>1, <2>3, <2>7, PoolLoops DEF DestructorOK
  <2>. QED  BY <2>4, <2>5, <2>6, <2>8 DEF Control
<1>. QED  BY <1>3, <1>4, <1>5 DEF StartStep

\* quit() moves no loop.
LEMMA QuitStays ==
  ASSUME Data, NEW l \in Loop, loop' = [loop EXCEPT ![l].quit = TRUE]
  PROVE  Stays(loop')
<1>1. loop \in [Loop -> LoopRecord] /\ loop[l] \in LoopRecord
  BY LoopTypes
<1>2. /\ OnlyLoop(loop, loop', l) /\ loop'[l].pc = loop[l].pc
      /\ loop'[l].batch = loop[l].batch /\ loop'[l].pending = loop[l].pending
  BY <1>1 DEF OnlyLoop, LoopRecord
<1>. QED  BY <1>2 DEF Stays, OnlyLoop, Listens, Queued

\* The steps of the destructor that drop no connection.
LEMMA DestructorControl ==
  ASSUME ServerInv, DestroyServer \/ DropThreads \/ QuitThread \/ JoinThread \/ ServerDestroyed
  PROVE  Control'
<1>1. ControlType /\ PoolOK /\ StartOK /\ DestructorOK /\ Data
  BY DEF ServerInv
<1>2. /\ UNCHANGED <<numThreads, maxFds, starter, started, loops, sent, next>>
      /\ listening' = listening \/ listening' = FALSE
      /\ \A t \in Starter : starter[t] # "pool"
      /\ Stays(loop')
  <2>1. Stays(loop)
    BY <1>1, LoopTypes DEF Stays
  <2>2. CASE QuitThread
    <3>1. cur \in 1..Len(loops)
      BY <1>1, <2>2 DEF QuitThread, ControlType
    <3>2. loops[cur] \in Loop
      BY <1>1, <3>1, PoolLoops
    <3>3. Stays(loop')
      BY <1>1, <2>2, <3>2, QuitStays DEF QuitThread
    <3>. QED  BY <1>1, <2>2, <3>3 DEF QuitThread, start, accept, DestructorOK
  <2>3. CASE DestroyServer
    BY <2>1, <2>3 DEF DestroyServer, start, accept
  <2>4. CASE DropThreads \/ JoinThread \/ ServerDestroyed
    BY <1>1, <2>1, <2>4 DEF DropThreads, JoinThread, ServerDestroyed, start, accept, DestructorOK
  <2>. QED  BY <2>2, <2>3, <2>4
<1>3. PoolOK'
  BY <1>1, <1>2 DEF PoolOK, Stays
<1>4. StartOK'
  <2>1. NobodyListens => NobodyListens'
    BY <1>2 DEF NobodyListens, Stays, Listens
  <2>. QED  BY <1>1, <1>2, <2>1 DEF StartOK
<1>5. Ended(loop[Base]) => Ended(loop'[Base])
  BY <1>1, <1>2, PoolLoops DEF Stays, Ended
<1>6. \A k \in 1..Len(loops) : loop'[k].pc = loop[k].pc
  BY <1>1, <1>2, PoolLoops DEF Stays
<1>7. Len(loops) \in Nat /\ cur \in Nat \ {0}
  BY <1>1, PoolLoops DEF ControlType
<1>8. CASE JoinThread
  <2>1. server = "join" /\ loop[loops[cur]].pc = "gone" /\ server' = "quit" /\ cur' = cur + 1
    BY <1>8 DEF JoinThread
  <2>2. cur \in 1..Len(loops) /\ loops[cur] = cur
    BY <1>1, <1>7, <2>1, PoolLoops DEF DestructorOK
  <2>3. \A k \in 1..Len(loops) : k < cur' => loop'[k].pc = "gone"
    BY <1>1, <1>6, <1>7, <2>1, <2>2 DEF DestructorOK
  <2>4. ControlType'
    <3>1. cur' \in Nat \ {0} /\ server' \in {"alive", "connections", "quit", "join", "gone"}
      BY <1>7, <2>1
    <3>2. listening' \in BOOLEAN
      BY <1>1, <1>2 DEF ControlType
    <3>. QED  BY <1>1, <1>2, <3>1, <3>2 DEF ControlType
  <2>5. DestructorOK'
    <3>1. cur' <= Len(loops) + 1
      BY <1>7, <2>1, <2>2
    <3>. QED  BY <1>1, <1>2, <1>5, <2>1, <2>3, <3>1 DEF DestructorOK
  <2>. QED  BY <1>3, <1>4, <2>4, <2>5 DEF Control
<1>9. CASE DestroyServer \/ DropThreads \/ QuitThread \/ ServerDestroyed
  <2>1. /\ cur' = cur /\ server' \in {"connections", "quit", "join", "gone"}
        /\ server' = "join" => cur <= Len(loops)
        /\ server' = "gone" => cur > Len(loops)
        /\ Ended(loop[Base])
    BY <1>1, <1>9 DEF DestroyServer, DropThreads, QuitThread, ServerDestroyed, DestructorOK,
                      Ended
  <2>2. ControlType'
    BY <1>1, <1>2, <2>1 DEF ControlType
  <2>3. server' = "gone" => cur = Len(loops) + 1
    BY <1>1, <1>7, <2>1 DEF DestructorOK
  <2>4. DestructorOK'
    BY <1>1, <1>2, <1>5, <1>6, <2>1, <2>3 DEF DestructorOK
  <2>. QED  BY <1>3, <1>4, <2>2, <2>4 DEF Control
<1>. QED  BY <1>8, <1>9

LEMMA NextControl == ServerInv /\ [Next]_vars => Control'
<1> SUFFICES ASSUME ServerInv, [Next]_vars PROVE Control'
  OBVIOUS
<1>1. Data /\ ControlType /\ PoolOK
  BY DEF ServerInv
<1>2. next \in 0..Len(loops) /\ (loops # <<>> => next < Len(loops)) /\ Stays(loop)
  BY <1>1, LoopTypes DEF ControlType, Stays
<1>3. ASSUME NEW l \in Loop, LoopStep(l) \/ PollTimeout(l) PROVE Control'
  <2>1. CASE HandleEvent(l)
    <3>1. UNCHANGED <<start, server, cur>>
      BY <2>1 DEF HandleEvent
    <3>. QED  BY <2>1, <3>1, EventStays, StaysControl
  <2>2. CASE RunFunctor(l)
    <3>1. UNCHANGED <<start, server, cur>>
      BY <2>2 DEF RunFunctor
    <3>. QED  BY <1>2, <2>2, <3>1, FunctorStays, StaysControl
  <2>3. CASE \/ EnterLoop(l) \/ TestQuit(l) \/ PollReturns(l) \/ PollTimeout(l)
             \/ DoPendingFunctors(l) \/ FunctorsDone(l) \/ DestroyLoop(l)
    <3>1. Quiet
      BY <2>3 DEF EnterLoop, TestQuit, PollReturns, PollTimeout, DoPendingFunctors, FunctorsDone,
                  DestroyLoop
    <3>. QED  BY <1>1, <2>3, <3>1, LoopGoes, GoesControl
  <2>. QED  BY <1>3, <2>1, <2>2, <2>3 DEF LoopStep
<1>4. CASE DestructorStep \/ DestroyServer
  <2>1. CASE DropConnection
    <3>1. UNCHANGED <<start, server, cur>>
      BY <2>1 DEF DropConnection
    <3>. QED  BY <1>2, <2>1, <3>1, FunctorStays, StaysControl
  <2>. QED  BY <1>4, <2>1, DestructorControl DEF DestructorStep
<1>5. CASE \E t \in Starter : StartCounts(t) \/ StartStep(t)
  BY <1>5, StartControl
<1>6. CASE QuitBase
  <2>1. Stays(loop')
    BY <1>1, <1>6, PoolLoops, QuitStays DEF QuitBase
  <2>2. UNCHANGED <<start, server, cur, next, listening>>
    BY <1>6 DEF QuitBase, Quiet, accept
  <2>. QED  BY <1>2, <2>1, <2>2, StaysControl
<1>7. CASE \/ \E c \in Conn : UserReleases(c) \/ UserShutsDown(c) \/ PeerCloses(c)
           \/ ClientConnects \/ UNCHANGED vars
  <2>1. UNCHANGED <<start, server, cur, next, listening, loop>>
    BY <1>7 DEF UserReleases, UserShutsDown, PeerCloses, ClientConnects, vars, accept
  <2>. QED  BY <1>2, <2>1, StaysControl
<1>8. ASSUME NEW c \in Conn, UserSends(c) PROVE Control'
  <2>1. /\ UNCHANGED <<numThreads, maxFds, starter, started, loops, next, listening, loop, server, cur>>
        /\ sent < MaxSends /\ sent' = sent + 1
    BY <1>8 DEF UserSends, accept
  <2>2. sent' \in 0..MaxSends
    BY <1>2, <2>1, TcpServerAssumption DEF ServerInv, ControlType
  <2>3. NobodyListens' <=> NobodyListens
    BY <2>1 DEF NobodyListens
  <2>. QED  BY <1>2, <2>1, <2>2, <2>3
            DEF ServerInv, Control, ControlType, PoolOK, StartOK, DestructorOK
<1>9. ASSUME NEW c \in Conn, SendQueues(c) PROVE Control'
  <2>1. /\ UNCHANGED <<start, server, cur, next, listening>>
        /\ loop' = loop \/ loop' = Queue(loop, conns[c].loop, Functor("sendInLoop", c))
    BY <1>9 DEF SendQueues, accept
  <2>2. conns[c].loop \in Loop
    BY <1>1, <1>9, ConnTypes DEF SendQueues, Data, DataOK
  <2>3. Stays(loop')
    BY <1>2, <2>1, <2>2, StaysQueued DEF Ops
  <2>. QED  BY <1>2, <2>1, <2>3, StaysControl
<1>. QED  BY <1>3, <1>4, <1>5, <1>6, <1>7, <1>8, <1>9 DEF Next, UserStep

LEMMA InitServer == Init => ServerInv
<1> SUFFICES ASSUME Init PROVE ServerInv
  OBVIOUS
<1>1. /\ Base \in Loop /\ MaxThreads \in Nat /\ MaxConns \in Nat
      /\ \A l \in Loop : l \in Nat /\ (l # Base <=> l > 0)
  BY TcpServerAssumption DEF Loop, Base
<1>2. /\ numThreads \in 0..MaxThreads /\ maxFds \in 1..MaxFds
      /\ starter = [t \in Starter |-> "idle"] /\ started = FALSE /\ loops = <<>> /\ next = 0
      /\ sent \in 0..MaxSends
      /\ listening = FALSE /\ waiting = 0 /\ map = {} /\ conns = <<>> /\ held = {}
      /\ loop = [l \in Loop |-> IF l = Base THEN [NewLoop EXCEPT !.pc = "enter"] ELSE NewLoop]
      /\ server = "alive" /\ cur = 1
  BY TcpServerAssumption DEF Init
<1>3. NewLoop \in LoopRecord /\ [NewLoop EXCEPT !.pc = "enter"] \in LoopRecord
  BY EmptyQueue DEF NewLoop, LoopRecord, LoopPC
<1>4. /\ loop \in [Loop -> LoopRecord]
      /\ \A l \in Loop : /\ loop[l].pc = IF l = Base THEN "enter" ELSE "none"
                         /\ loop[l].batch = <<>> /\ loop[l].pending = <<>>
                         /\ loop[l].kept = {} /\ loop[l].active = {}
  BY <1>2, <1>3 DEF NewLoop
<1>5. \A op, c : \A l \in Loop : ~Queued(loop, op, c, l)
  BY <1>4, EmptyQueue DEF Queued
<1>6. Data
  <2>1. conns \in Seq(ConnRecord) /\ Len(conns) = 0 /\ 1..Len(conns) = {}
    BY <1>2
  <2>2. ActiveOK(loop, conns, waiting)
    BY <1>4 DEF ActiveOK
  <2>3. RefsOK(loop, conns, map, held)
    BY <1>2, <1>4, <1>5 DEF RefsOK, RefersTo
  <2>4. QueuesOK(loop, conns) /\ OwnedOK(loop, conns, map, server = "alive")
    BY <2>1 DEF QueuesOK, OwnedOK
  <2>. QED  BY <1>1, <1>2, <1>4, <2>1, <2>2, <2>3, <2>4 DEF Data, DataOK
<1>7. ControlType
  <2>1. loops \in Seq(1..MaxThreads) /\ next \in 0..Len(loops) /\ loops = <<>>
    BY <1>2
  <2>2. starter \in [Starter -> {"idle", "pool"}] /\ cur \in Nat \ {0}
    BY <1>2
  <2>. QED  BY <1>2, <2>1, <2>2 DEF ControlType
<1>8. PoolOK
  <2>1. Len(loops) = 0
    BY <1>2
  <2>. QED  BY <1>1, <1>2, <1>4, <2>1 DEF PoolOK
<1>9. StartOK
  BY <1>2, <1>5 DEF StartOK, NobodyListens
<1>10. DestructorOK
  BY <1>2 DEF DestructorOK
<1>. QED  BY <1>6, <1>7, <1>8, <1>9, <1>10 DEF ServerInv

LEMMA AlwaysServerInv == Spec => []ServerInv
<1>1. ServerInv /\ [Next]_vars => ServerInv'
  BY NextData, NextControl DEF ServerInv, Control
<1>. QED  BY InitServer, <1>1, PTL DEF Spec

------------------------------------------------------------------------------
\* What the invariant says.

\* Who is in connctions_ or waits for connectDestroyed exists.
LEMMA OwnedExists ==
  ASSUME ServerInv, NEW c \in 1..Len(conns), NEW l \in Loop,
         c \in map \/ Queued(loop, "connectDestroyed", c, l)
  PROVE  Exists(c)
<1>1. loop[l].batch \in Seq(Functors) /\ loop[l].pending \in Seq(Functors)
  BY LoopTypes DEF ServerInv, LoopRecord
<1>2. c \in DOMAIN conns /\ c # 0
  BY DEF ServerInv, Data, DataOK
<1>3. \A fs \in Seq(Functors) : Has(fs, "connectDestroyed", c) => Carries(fs, c)
  BY <1>2 DEF Has, Is, Carries, Holds
<1>. QED  BY <1>1, <1>2, <1>3 DEF Exists, Queued

\* The variables of the server, its pool, its connections and its loops have
\* their types: a connection comes up at most once.
THEOREM TypeCorrect == Spec => []TypeOK
<1>1. ServerInv => TypeOK
  <2> SUFFICES ASSUME ServerInv PROVE TypeOK
    OBVIOUS
  <2>1. Data /\ ControlType /\ PoolOK /\ DestructorOK
    BY DEF ServerInv
  <2>2. waiting \in 0..MaxConns
    <3>1. waiting \in Nat /\ Len(conns) \in Nat /\ Len(conns) + waiting <= MaxConns
      BY <2>1 DEF Data, DataOK
    <3>. QED  BY <3>1, TcpServerAssumption
  <2>3. cur \in 1..(MaxThreads + 1)
    <3>1. cur \in Nat \ {0} /\ cur <= Len(loops) + 1
      BY <2>1 DEF ControlType, DestructorOK
    <3>. QED  BY <2>1, <3>1, PoolLoops
  <2>4. /\ map \subseteq Conn /\ held \subseteq Conn
        /\ conns \in Seq(ConnRecord) /\ loop \in [Loop -> LoopRecord]
    BY <2>1 DEF Data, DataOK
  <2>. QED  BY <2>1, <2>2, <2>3, <2>4 DEF TypeOK, ControlType, ConnRecord, LoopRecord, States
<1>. QED  BY AlwaysServerInv, <1>1, PTL

\* The base loop accepts, and so reads loops_ and next_, only when every
\* start() is through: Acceptor::listen is called by the one that was first,
\* after the threads.
THEOREM PoolIsAlwaysFixed == Spec => []PoolIsFixed
<1>1. ServerInv => PoolIsFixed
  BY DEF ServerInv, StartOK, NobodyListens, PoolIsFixed
<1>. QED  BY AlwaysServerInv, <1>1, PTL

\* Once ~TcpServer has ended, no loop can call removeConnection with its this:
\* the base loop had been left before, and every thread of the pool was joined.
THEOREM ServerAlwaysOutlivesLoops == Spec => []ServerOutlivesLoops
<1>1. ServerInv => ServerOutlivesLoops
  <2> SUFFICES ASSUME ServerInv, server = "gone", NEW l \in Loop
               PROVE  loop[l].pc \in {"none", "exited", "gone"}
    BY DEF ServerOutlivesLoops
  <2>1. ControlType /\ PoolOK /\ DestructorOK
    BY DEF ServerInv
  <2>2. CASE l = Base
    BY <2>1, <2>2 DEF DestructorOK, Ended
  <2>3. CASE l # Base /\ l <= Len(loops)
    <3>1. l \in 1..Len(loops) /\ l < cur
      BY <2>1, <2>3, PoolLoops DEF Loop, Base, DestructorOK
    <3>. QED  BY <2>1, <3>1 DEF DestructorOK
  <2>4. CASE l > Len(loops)
    BY <2>1, <2>4 DEF PoolOK
  <2>5. l \in Nat /\ Len(loops) \in Nat
    BY <2>1, PoolLoops DEF Loop
  <2>. QED  BY <2>2, <2>3, <2>4, <2>5
<1>. QED  BY AlwaysServerInv, <1>1, PTL

\* No poller has, and no activeChannels_ names, the Channel of a TcpConnection
\* that has been destroyed, whoever drops the last shared_ptr to it: while the
\* channel is registered, connctions_ or a queued connectDestroyed holds it.
\* Excepted is a channel that a send() too late has put back: for that one there
\* is no such owner.
THEOREM EventsAlwaysHaveTheirObject == Spec => []EventsHaveTheirObject
<1>1. ServerInv => EventsHaveTheirObject
  <2> SUFFICES ASSUME ServerInv PROVE EventsHaveTheirObject
    OBVIOUS
  <2>1. Data /\ DOMAIN conns = 1..Len(conns)
    BY DEF ServerInv, Data, DataOK
  <2>2. ASSUME NEW c \in 1..Len(conns), conns[c].chan.registered, ~Ended(loop[conns[c].loop])
        PROVE  Exists(c) \/ Late(c)
    <3>1. conns[c].loop \in Loop
      BY <2>1, ConnTypes DEF Data
    <3>2. CASE conns[c].late
      BY <2>1, <3>2 DEF Late
    <3>3. CASE ~conns[c].late
      <4>1. c \in map \/ Queued(loop, "connectDestroyed", c, conns[c].loop)
        BY <2>1, <2>2, <3>3 DEF Data, DataOK, OwnedOK, InUse
      <4>. QED  BY <3>1, <4>1, OwnedExists
    <3>. QED  BY <3>2, <3>3
  <2>3. ASSUME NEW l \in Loop, NEW c \in Conn, c \in loop[l].active
        PROVE  Exists(c) \/ Late(c)
    <3>1. c \in 1..Len(conns) /\ conns[c].loop = l /\ conns[c].chan.registered
          /\ loop[l].pc = "handle"
      BY <2>1, <2>3 DEF Data, DataOK, ActiveOK
    <3>. QED  BY <2>2, <3>1 DEF Ended
  <2>. QED  BY <2>1, <2>2, <2>3 DEF EventsHaveTheirObject, Ended
<1>. QED  BY AlwaysServerInv, <1>1, PTL

\* A user who was told that a connection is up is told that it is down before
\* it is destroyed, unless he shut it down himself or its loop was left first.
THEOREM GoneAlwaysWasDown == Spec => []GoneWasDown
<1>1. ServerInv => GoneWasDown
  <2> SUFFICES ASSUME ServerInv, NEW c \in DOMAIN conns, ~Exists(c), conns[c].up > conns[c].down,
                      ~Ended(loop[conns[c].loop])
               PROVE  conns[c].state = "kDisconnecting"
    BY DEF GoneWasDown, Ended
  <2>1. Data /\ c \in 1..Len(conns)
    BY DEF ServerInv, Data, DataOK
  <2>2. ConnOK(conns[c]) /\ conns[c] \in ConnRecord /\ conns[c].loop \in Loop
    BY <2>1, ConnTypes DEF Data
  <2>3. ~InUse(conns[c])
    <3>1. ~(c \in map \/ Queued(loop, "connectDestroyed", c, conns[c].loop))
      BY <2>1, <2>2, OwnedExists
    <3>. QED  BY <2>1, <2>2, <3>1 DEF Data, DataOK, OwnedOK
  <2>4. conns[c].state \in States /\ conns[c].down \in Nat
    BY <2>2 DEF ConnRecord
  <2>5. conns[c].state # "kConnecting" /\ conns[c].state # "kDisconnected"
    BY <2>2, <2>4 DEF ConnOK
  <2>6. conns[c].state # "kConnected"
    BY <2>2, <2>3 DEF ConnOK, InUse, Watched
  <2>. QED  BY <2>4, <2>5, <2>6 DEF States
<1>. QED  BY AlwaysServerInv, <1>1, PTL

------------------------------------------------------------------------------
\* The server's pool is LoopPool.  What is needed beyond ServerInv: start() is
\* over when clients come, and it is the destructor that tells a pool's loop to
\* quit.

UseOK ==
  /\ started /\ (\A t \in Starter : starter[t] # "pool") => Len(loops) = numThreads
  /\ waiting > 0 => listening
  /\ \A l \in 1..MaxThreads :
       loop[l].quit \/ Ended(loop[l]) => l < cur \/ (l = cur /\ server = "join")

Asked == {i \in 1..MaxThreads : i < cur \/ (i = cur /\ server = "join")}
LeftLoops == {i \in 1..MaxThreads : loop[i].pc \in {"exited", "gone"}}

LEMMA QueueKeeps ==
  ASSUME NEW lp \in [Loop -> LoopRecord], NEW m, NEW f
  PROVE  \A k \in Loop : /\ Queue(lp, m, f)[k].quit = lp[k].quit
                         /\ Queue(lp, m, f)[k].pc = lp[k].pc
BY DEF Queue, LoopRecord

\* Handlers, functors and the destructor's body move no loop and tell none to
\* quit.
SameLoops == \A k \in Loop : loop'[k].quit = loop[k].quit /\ loop'[k].pc = loop[k].pc

LEMMA EventKeeps ==
  ASSUME Data, NEW l \in Loop, HandleEvent(l)
  PROVE  /\ SameLoops
         /\ UNCHANGED <<start, server, cur, listening>>
         /\ waiting' # waiting => waiting' = waiting - 1 /\ waiting > 0
         /\ \/ next' = next
            \/ /\ next' = Following(next) /\ loops # <<>>
               /\ l = Base /\ loop[Base].pc = "handle" /\ waiting > 0
<1>1. PICK c \in loop[l].active :
        LET lp == [loop EXCEPT ![l].active = @ \ {c}]
        IN IF c = Acceptor THEN HandleAccept(lp)
           ELSE IF Exists(c) THEN HandleClose(c, lp)
           ELSE loop' = lp /\ UNCHANGED <<accept, map, conns, held>>
  BY DEF HandleEvent
<1> DEFINE lp == Without(l, c)
<1>2. IF c = Acceptor THEN HandleAccept(lp)
      ELSE IF Exists(c) THEN HandleClose(c, lp)
      ELSE loop' = lp /\ UNCHANGED <<accept, map, conns, held>>
  BY <1>1 DEF Without
<1>3. /\ loop[l].pc = "handle" /\ UNCHANGED <<start, server, cur>>
      /\ c = Acceptor => l = Base /\ waiting > 0
  BY <1>1 DEF HandleEvent, Data, DataOK, ActiveOK
<1>4. /\ lp \in [Loop -> LoopRecord]
      /\ \A k \in Loop : lp[k].quit = loop[k].quit /\ lp[k].pc = loop[k].pc
  <2>1. loop \in [Loop -> LoopRecord] /\ WithoutFacts(lp, l, c)
    BY <1>3, TakeEvent, LoopTypes
  <2>2. \A k \in Loop : lp[k].quit = loop[k].quit /\ lp[k].pc = loop[k].pc
    BY <2>1 DEF Without, LoopRecord
  <2> QED
    BY <2>1, <2>2 DEF WithoutFacts, OnlyLoop
<1> HIDE DEF lp
<1>5. CASE c = Acceptor
  <2>1. CASE OutOfFds
    BY <1>2, <1>3, <1>4, <1>5, <2>1 DEF HandleAccept, accept, SameLoops
  <2>2. CASE ~OutOfFds
    <3>1. /\ waiting' = waiting - 1 /\ UNCHANGED listening
          /\ next' = IF loops = <<>> THEN next ELSE Following(next)
          /\ loop' = lp \/ \E m, f : loop' = Queue(lp, m, f)
      BY <1>2, <1>5, <2>2 DEF HandleAccept, Accepted
    <3>2. SameLoops
      BY <1>4, <3>1, QueueKeeps DEF SameLoops
    <3> QED
      BY <1>3, <1>5, <3>1, <3>2
  <2> QED
    BY <2>1, <2>2
<1>6. CASE c # Acceptor
  <2>1. UNCHANGED accept /\ (loop' = lp \/ \E m, f : loop' = Queue(lp, m, f))
    BY <1>2, <1>6 DEF HandleClose
  <2>2. SameLoops
    BY <1>4, <2>1, QueueKeeps DEF SameLoops
  <2> QED
    BY <1>3, <2>1, <2>2 DEF accept
<1> QED
  BY <1>5, <1>6

LEMMA FunctorKeeps ==
  ASSUME Data, \/ \E l \in Loop : RunFunctor(l)
               \/ DropConnection
  PROVE  /\ SameLoops
         /\ UNCHANGED <<start, server, cur, waiting, next>>
         /\ listening => listening'
<1>1. loop \in [Loop -> LoopRecord]
  BY LoopTypes
<1>2. ASSUME NEW l \in Loop, RunFunctor(l)
      PROVE  /\ SameLoops
             /\ UNCHANGED <<start, server, cur, waiting, next>>
             /\ listening => listening'
  <2>1. /\ \/ ListenFunctor /\ loop' = Done(l)
           \/ UNCHANGED accept /\ (loop' = Done(l) \/ \E m, f : loop' = Queue(Done(l), m, f))
        /\ UNCHANGED <<start, server, cur>> /\ loop[l].pc = "run" /\ loop[l].batch # <<>>
    <3>1. Execute(Head(loop[l].batch), Done(l))
      BY <1>2, FunctorRuns
    <3>2. /\ UNCHANGED <<start, server, cur>> /\ loop[l].pc = "run" /\ loop[l].batch # <<>>
      BY <1>2 DEF RunFunctor
    <3> DEFINE lp == Done(l)
    <3> HIDE DEF lp
    <3>3. \/ ListenFunctor /\ loop' = lp
          \/ UNCHANGED accept /\ (loop' = lp \/ \E m, f : loop' = Queue(lp, m, f))
      BY <3>1 DEF Execute, lp
    <3>. QED  BY <3>2, <3>3 DEF lp
  <2>2. Done(l) \in [Loop -> LoopRecord]
    BY <2>1, DoneTakes DEF Takes, OnlyLoop
  <2>3. \A k \in Loop : Done(l)[k].quit = loop[k].quit /\ Done(l)[k].pc = loop[k].pc
    BY <1>1 DEF Done, LoopRecord
  <2>4. SameLoops
    BY <2>1, <2>2, <2>3, QueueKeeps DEF SameLoops
  <2> QED
    BY <2>1, <2>4 DEF ListenFunctor, accept
<1>3. CASE DropConnection
  <2>1. /\ UNCHANGED <<start, accept, server, cur>>
        /\ loop' = loop \/ \E m, f : loop' = Queue(loop, m, f)
    BY <1>3 DEF DropConnection
  <2> QED
    BY <1>1, <2>1, QueueKeeps DEF SameLoops, accept
<1> QED
  BY <1>2, <1>3

\* A loop ends at a test of quit_, and nothing but quit() sets it.
LEMMA LoopKeeps ==
  ASSUME Data, NEW l \in Loop,
         \/ EnterLoop(l) \/ TestQuit(l) \/ PollReturns(l) \/ PollTimeout(l)
         \/ DoPendingFunctors(l) \/ FunctorsDone(l) \/ DestroyLoop(l)
  PROVE  /\ \A k \in Loop : k # l => loop'[k] = loop[k]
         /\ loop'[l].quit => loop[l].quit
         /\ Ended(loop[l]) => Ended(loop'[l])
         /\ Ended(loop'[l]) => Ended(loop[l]) \/ loop[l].quit
         /\ UNCHANGED <<start, accept, server, cur>>
<1>1. loop \in [Loop -> LoopRecord] /\ loop[l] \in LoopRecord
  BY LoopTypes
<1>2. AfterTest(l) = IF loop[l].quit THEN "exited" ELSE "poll"
  BY DEF AfterTest
<1> USE DEF LoopRecord, Ended, Quiet
<1>3. CASE EnterLoop(l)
  BY <1>1, <1>3 DEF EnterLoop
<1>4. CASE TestQuit(l)
  BY <1>1, <1>2, <1>4 DEF TestQuit
<1>5. CASE PollReturns(l)
  BY <1>1, <1>5 DEF PollReturns
<1>6. CASE PollTimeout(l)
  BY <1>1, <1>6 DEF PollTimeout
<1>7. CASE DoPendingFunctors(l)
  <2>1. /\ \A k \in Loop : k # l => loop'[k] = loop[k]
        /\ loop'[l].quit = loop[l].quit /\ loop[l].pc = "handle"
        /\ loop'[l].pc = "exited" => loop[l].quit
        /\ loop'[l].pc \in {"exited", "poll", "run"}
    BY <1>1, <1>2, <1>7 DEF DoPendingFunctors
  <2> QED
    BY <1>7, <2>1 DEF DoPendingFunctors
<1>8. CASE FunctorsDone(l)
  BY <1>1, <1>2, <1>8 DEF FunctorsDone
<1>9. CASE DestroyLoop(l)
  BY <1>1, <1>9 DEF DestroyLoop
<1> QED
  BY <1>3, <1>4, <1>5, <1>6, <1>7, <1>8, <1>9

LEMMA InitUse == Init => UseOK /\ LP!Init
<1> SUFFICES ASSUME Init PROVE UseOK /\ LP!Init
  OBVIOUS
<1>1. /\ started = FALSE /\ waiting = 0 /\ numThreads \in 0..MaxThreads /\ loops = <<>>
      /\ next = 0 /\ server = "alive" /\ cur = 1
  BY DEF Init
<1>2. \A l \in 1..MaxThreads : ~loop[l].quit /\ ~Ended(loop[l])
  <2>1. \A l \in 1..MaxThreads : l \in Loop /\ l # Base
    BY TcpServerAssumption DEF Loop, Base
  <2> QED
    BY <2>1 DEF Init, NewLoop, Ended
<1>3. UseOK
  BY <1>1, <1>2 DEF UseOK
<1>4. Asked = {} /\ LeftLoops = {} /\ Len(loops) = 0
  BY <1>1, <1>2 DEF Asked, LeftLoops, Ended
<1> QED
  BY <1>1, <1>3, <1>4 DEF LP!Init, Asked, LeftLoops

\* getNextLoop() counts modulo the number of threads.
LEMMA FollowingCounts ==
  ASSUME ControlType, loops # <<>>, Len(loops) = numThreads
  PROVE  Following(next) = (next + 1) % numThreads /\ numThreads > 0
<1>1. next \in Nat /\ next < numThreads /\ numThreads \in Nat
  BY DEF ControlType
<1>2. CASE next + 1 = numThreads
  BY <1>1, <1>2 DEF Following
<1>3. CASE next + 1 < numThreads
  BY <1>1, <1>3 DEF Following
<1> QED
  BY <1>1, <1>2, <1>3

LEMMA NextUse == ServerInv /\ UseOK /\ [Next]_vars => UseOK' /\ [LP!Next]_LP!vars
<1> SUFFICES ASSUME ServerInv, UseOK, [Next]_vars PROVE UseOK' /\ [LP!Next]_LP!vars
  OBVIOUS
<1>1. Data /\ ControlType /\ PoolOK /\ StartOK /\ DestructorOK
  BY DEF ServerInv
<1>2. /\ loop \in [Loop -> LoopRecord] /\ \A l \in Loop : loop[l] \in LoopRecord
      /\ \A l \in 1..MaxThreads : l \in Loop /\ l # Base
      /\ Base \in Loop /\ \A l \in Loop : l = Base \/ l \in 1..MaxThreads
      /\ cur \in Nat \ {0} /\ waiting \in Nat /\ Len(loops) \in Nat /\ Len(loops) <= MaxThreads
      /\ MaxThreads \in Nat
  <2>1. \A l \in Loop : l = Base \/ l \in 1..MaxThreads
    BY TcpServerAssumption DEF Loop, Base
  <2> QED
    BY <1>1, <2>1, LoopTypes, PoolLoops DEF ControlType, Data, DataOK
\* Steps of which the pool's users see nothing.
<1>3. ASSUME UNCHANGED <<numThreads, loops, next, cur>>,
             \A l \in 1..MaxThreads : Ended(loop'[l]) <=> Ended(loop[l]),
             server' = server
      PROVE  [LP!Next]_LP!vars
  <2>1. Asked' = Asked /\ LeftLoops' = LeftLoops
    BY <1>3 DEF Asked, LeftLoops, Ended
  <2> QED
    BY <1>3, <2>1 DEF LP!vars, Asked, LeftLoops
<1>4. ASSUME SameLoops
      PROVE  /\ \A l \in 1..MaxThreads : Ended(loop'[l]) <=> Ended(loop[l])
             /\ \A l \in 1..MaxThreads : loop'[l].quit = loop[l].quit
  BY <1>2, <1>4 DEF SameLoops, Ended
\* start().
<1>5. ASSUME NEW t \in Starter, StartCounts(t)
      PROVE  UseOK' /\ [LP!Next]_LP!vars
  <2>1. /\ starter' = [starter EXCEPT ![t] = "pool"]
        /\ UNCHANGED <<numThreads, loops, next, listening, waiting, loop, server, cur>>
    BY <1>5 DEF StartCounts, accept
  <2>2. starter'[t] = "pool"
    BY <1>1, <2>1 DEF ControlType
  <2> QED
    BY <1>3, <2>1, <2>2 DEF UseOK
<1>6. ASSUME NEW t \in Starter, StartThread(t)
      PROVE  UseOK' /\ [LP!Next]_LP!vars
  <2> DEFINE i == Len(loops) + 1
  <2>1. /\ starter[t] = "pool" /\ i <= numThreads /\ server = "alive"
        /\ loops' = Append(loops, i) /\ loop' = [loop EXCEPT ![i].pc = "enter"]
        /\ UNCHANGED <<numThreads, starter, next, listening, waiting, server, cur>>
    BY <1>1, <1>6 DEF StartThread, accept, StartOK
  <2>2. i \in 1..MaxThreads /\ Len(loops') = i /\ loop[i].pc = "none"
    BY <1>1, <1>2, <2>1 DEF ControlType, PoolOK
  <2>3. \A l \in 1..MaxThreads : /\ Ended(loop'[l]) <=> Ended(loop[l])
                                 /\ loop'[l].quit = loop[l].quit
    BY <1>2, <2>1, <2>2 DEF Ended, LoopRecord
  <2>4. Asked' = Asked /\ LeftLoops' = LeftLoops /\ i \notin LeftLoops
    BY <2>1, <2>2, <2>3 DEF Asked, LeftLoops, Ended
  <2>5. LP!StartNext
    BY <1>1, <1>2, <2>1, <2>2, <2>4 DEF LP!StartNext, Asked, LeftLoops, ControlType
  <2> QED
    BY <2>1, <2>3, <2>5 DEF UseOK, LP!Next
<1>7. ASSUME NEW t \in Starter, StartListening(t)
      PROVE  UseOK' /\ [LP!Next]_LP!vars
  <2>1. /\ Len(loops) >= numThreads
        /\ UNCHANGED <<numThreads, loops, next, waiting, server, cur>>
        /\ listening => listening'
        /\ loop' = loop \/ \E m, f : loop' = Queue(loop, m, f)
    BY <1>7 DEF StartListening
  <2>2. SameLoops
    BY <1>2, <2>1, QueueKeeps DEF SameLoops
  <2>3. Len(loops) = numThreads
    BY <1>1, <1>2, <2>1 DEF PoolOK, ControlType
  <2> QED
    BY <1>3, <1>4, <2>1, <2>2, <2>3 DEF UseOK
\* The loops.
<1>8. ASSUME NEW l \in Loop, HandleEvent(l)
      PROVE  UseOK' /\ [LP!Next]_LP!vars
  <2>1. /\ SameLoops
        /\ UNCHANGED <<numThreads, starter, started, loops, server, cur, listening>>
        /\ waiting' # waiting => waiting' = waiting - 1 /\ waiting > 0
    BY <1>1, <1>8, EventKeeps DEF start
  <2>2. UseOK'
    BY <1>2, <1>4, <2>1 DEF UseOK
  <2>3. CASE next' = next
    BY <1>3, <1>4, <2>1, <2>2, <2>3
  <2>4. CASE next' # next
    <3>1. /\ next' = Following(next) /\ loops # <<>>
          /\ loop[Base].pc = "handle" /\ waiting > 0
      BY <1>1, <1>8, <2>4, EventKeeps
    <3>2. server = "alive" /\ Len(loops) = numThreads
      BY <1>1, <3>1 DEF DestructorOK, Ended, UseOK, StartOK, NobodyListens
    <3>3. LeftLoops' = LeftLoops /\ Asked' = Asked
      BY <1>4, <2>1 DEF LeftLoops, Asked, Ended
    <3>4. LP!GetNext
      BY <1>1, <2>1, <3>1, <3>2, <3>3, FollowingCounts DEF LP!GetNext, Asked, LeftLoops
    <3> QED
      BY <2>2, <3>4 DEF LP!Next
  <2> QED
    BY <2>3, <2>4
<1>9. CASE (\E l \in Loop : RunFunctor(l)) \/ DropConnection
  <2>1. /\ SameLoops
        /\ UNCHANGED <<numThreads, starter, started, loops, server, cur, waiting, next>>
        /\ listening => listening'
    BY <1>1, <1>9, FunctorKeeps DEF start
  <2> QED
    BY <1>3, <1>4, <2>1 DEF UseOK
<1>10. ASSUME NEW l \in Loop,
              \/ EnterLoop(l) \/ TestQuit(l) \/ PollReturns(l) \/ PollTimeout(l)
              \/ DoPendingFunctors(l) \/ FunctorsDone(l) \/ DestroyLoop(l)
       PROVE  UseOK' /\ [LP!Next]_LP!vars
  <2>1. /\ \A k \in Loop : k # l => loop'[k] = loop[k]
        /\ loop'[l].quit => loop[l].quit
        /\ Ended(loop[l]) => Ended(loop'[l])
        /\ Ended(loop'[l]) => Ended(loop[l]) \/ loop[l].quit
        /\ UNCHANGED <<numThreads, starter, started, loops, next, waiting, listening, server, cur>>
    BY <1>1, <1>10, LoopKeeps DEF start, accept
  <2>2. UseOK'
    BY <1>2, <2>1 DEF UseOK
  <2>3. CASE l # Base /\ ~Ended(loop[l]) /\ Ended(loop'[l])
    <3>1. l \in 1..MaxThreads /\ loop[l].quit
      BY <1>2, <2>1, <2>3
    <3>2. l \in Asked \ LeftLoops
      BY <2>3, <3>1 DEF UseOK, Asked, LeftLoops, Ended
    <3>3. LeftLoops' = LeftLoops \cup {l} /\ Asked' = Asked
      BY <1>2, <2>1, <2>3, <3>1 DEF LeftLoops, Asked, Ended
    <3>4. LP!Leave(l)
      BY <2>1, <3>2, <3>3 DEF LP!Leave, Asked, LeftLoops
    <3> QED
      BY <2>2, <3>1, <3>4 DEF LP!Next, LP!Thread
  <2>4. CASE ~(l # Base /\ ~Ended(loop[l]) /\ Ended(loop'[l]))
    <3>1. \A k \in 1..MaxThreads : Ended(loop'[k]) <=> Ended(loop[k])
      BY <1>2, <2>1, <2>4
    <3> QED
      BY <1>3, <2>1, <2>2, <3>1
  <2> QED
    BY <2>3, <2>4
\* The destructor.
<1>11. CASE DestroyServer
  <2>1. /\ server = "alive" /\ server' = "connections"
        /\ UNCHANGED <<numThreads, starter, started, loops, next, waiting, listening, loop, cur>>
    BY <1>11 DEF DestroyServer, start, accept
  <2>2. Asked' = Asked /\ LeftLoops' = LeftLoops
    BY <2>1 DEF Asked, LeftLoops
  <2>3. LP!Shut
    BY <2>1, <2>2 DEF LP!Shut, Asked, LeftLoops
  <2> QED
    BY <2>1, <2>3 DEF LP!Next, UseOK
<1>12. CASE DropThreads \/ JoinThread \/ ServerDestroyed
  <2>1. /\ UNCHANGED <<numThreads, starter, started, loops, next, loop>>
        /\ server # "alive" /\ server' # "alive"
        /\ waiting' > 0 => waiting > 0 /\ UNCHANGED listening
        /\ \/ cur' = cur /\ server # "join" /\ server' # "join"
           \/ cur' = cur + 1 /\ server = "join" /\ server' # "join"
    BY <1>2, <1>12 DEF DropThreads, JoinThread, ServerDestroyed, start, accept
  <2>2. \A l \in 1..MaxThreads :
          (l < cur' \/ (l = cur' /\ server' = "join"))
            <=> (l < cur \/ (l = cur /\ server = "join"))
    BY <1>2, <2>1
  <2>3. Asked' = Asked /\ LeftLoops' = LeftLoops
    BY <2>1, <2>2 DEF Asked, LeftLoops
  <2>4. UseOK'
    BY <2>1, <2>2 DEF UseOK
  <2> QED
    BY <2>1, <2>3, <2>4 DEF LP!vars, Asked, LeftLoops
<1>13. CASE QuitThread
  <2>1. /\ server = "quit" /\ server' = "join" /\ cur <= Len(loops)
        /\ loop' = [loop EXCEPT ![loops[cur]].quit = TRUE]
        /\ UNCHANGED <<numThreads, starter, started, loops, next, waiting, listening, cur>>
    BY <1>13 DEF QuitThread, start, accept
  <2>2. cur \in 1..MaxThreads /\ loops[cur] = cur
    BY <1>1, <1>2, <2>1 DEF PoolOK
  <2>3. /\ \A k \in Loop : loop'[k].pc = loop[k].pc
        /\ \A k \in Loop : k # cur => loop'[k] = loop[k]
    BY <1>2, <2>1, <2>2 DEF LoopRecord
  <2>4. LeftLoops' = LeftLoops
    BY <1>2, <2>3 DEF LeftLoops
  <2>5. cur \notin Asked /\ Asked' = Asked \cup {cur}
    BY <1>2, <2>1, <2>2 DEF Asked
  <2>6. UseOK'
    BY <1>2, <2>1, <2>3 DEF UseOK, Ended
  <2>7. PICK i \in 1..MaxThreads : i = cur
    BY <2>2
  <2>8. LP!Ask(i)
    BY <2>1, <2>4, <2>5, <2>7 DEF LP!Ask, Asked, LeftLoops
  <2> QED
    BY <2>6, <2>8 DEF LP!Next, LP!Thread
\* Users, clients and peers.
<1>14. CASE QuitBase
  <2>1. /\ UNCHANGED <<numThreads, starter, started, loops, next, waiting, listening, server, cur>>
        /\ \A l \in 1..MaxThreads : loop'[l] = loop[l]
    BY <1>2, <1>14 DEF QuitBase, Quiet, start, accept
  <2> QED
    BY <1>3, <2>1 DEF UseOK
<1>15. CASE \/ \E c \in Conn : UserReleases(c) \/ UserShutsDown(c) \/ UserSends(c) \/ PeerCloses(c)
            \/ ClientConnects \/ UNCHANGED vars
  <2>1. /\ UNCHANGED <<numThreads, starter, started, loops, next, listening, loop, server, cur>>
        /\ waiting' # waiting => listening
    BY <1>15
    DEF UserReleases, UserShutsDown, UserSends, PeerCloses, ClientConnects, vars, start, accept
  <2> QED
    BY <1>3, <2>1 DEF UseOK
<1>16. ASSUME NEW c \in Conn, SendQueues(c)
       PROVE  UseOK' /\ [LP!Next]_LP!vars
  <2>1. /\ UNCHANGED <<numThreads, starter, started, loops, next, listening, waiting, server, cur>>
        /\ loop' = loop \/ \E m, f : loop' = Queue(loop, m, f)
    BY <1>16 DEF SendQueues, start, accept
  <2>2. SameLoops
    BY <1>2, <2>1, QueueKeeps DEF SameLoops
  <2> QED
    BY <1>3, <1>4, <2>1, <2>2 DEF UseOK
<1> QED
  BY <1>5, <1>6, <1>7, <1>8, <1>9, <1>10, <1>11, <1>12, <1>13, <1>14, <1>15, <1>16
     DEF Next, StartStep, LoopStep, DestructorStep, UserStep

\* The loops that newConnection gets from getNextLoop(), and that the
\* destructor quits and joins, are those of a LoopPool: the server's own steps
\* are steps of that module or leave it alone, so that what EventLoopThreadPool
\* promises with its threads is all that TcpServer builds on
\* (TcpServer.cc:56-68, EventLoopThreadPool.cc:14-51).
THEOREM PoolRefinesLoopPool == Spec => ImplementsLoopPool
<1>1. ServerInv /\ UseOK /\ [Next]_vars => UseOK' /\ [LP!Next]_LP!vars
  BY NextUse
<1>2. Spec => LP!Init /\ [][LP!Next]_LP!vars
  BY InitUse, <1>1, AlwaysServerInv, PTL DEF Spec
<1> QED
  BY <1>2 DEF ImplementsLoopPool, LP!Spec

------------------------------------------------------------------------------
\* Each functor is queued once, and connctions_ is served.

\* A functor is in the queue of loop l more than once.
Doubled(lp, op, c, l) ==
  \/ Twice(lp[l].batch, op, c) \/ Twice(lp[l].pending, op, c)
  \/ Has(lp[l].batch, op, c) /\ Has(lp[l].pending, op, c)

LateIn(cs, c) == c \in 1..Len(cs) /\ cs[c].late

\* What is queued once.
Single(cs, op, c) == op # "sendInLoop" /\ ~LateIn(cs, c)

\* connectDestroyed is queued by who has taken the connection from connctions_;
\* removeConnectionInLoop only to the base loop, which finds it there, unless it
\* follows a late send().
ServedOK(lp, cs, mp, alive) ==
  /\ \A op, c : \A l \in Loop : Single(cs, op, c) => ~Doubled(lp, op, c, l)
  /\ \A c \in Conn, l \in Loop :
       /\ Queued(lp, "connectDestroyed", c, l) => c \notin mp
       /\ Queued(lp, "removeConnectionInLoop", c, l)
            => l = Base /\ (alive /\ ~LateIn(cs, c) => c \in mp)
  /\ \A c \in mp :
       cs[c].up = 1 => Watched(cs[c]) \/ Queued(lp, "removeConnectionInLoop", c, Base)

Served == ServedOK(loop, conns, map, server = "alive")

\* No thread of the pool is told to quit before connctions_ is empty.
EmptyFirst == IF server \in {"alive", "connections"} THEN cur = 1 ELSE map = {}

LEMMA ServedMoves ==
  ASSUME NEW lp, NEW cs, NEW mp, NEW alive, ServedOK(lp, cs, mp, alive), NEW lp2, NEW alive2,
         alive2 => alive,
         \A op, c : \A l \in Loop : /\ Queued(lp2, op, c, l) => Queued(lp, op, c, l)
                                    /\ Doubled(lp2, op, c, l) => Doubled(lp, op, c, l),
         \/ mp = {}
         \/ \A op, c : Queued(lp, op, c, Base) => Queued(lp2, op, c, Base)
  PROVE  ServedOK(lp2, cs, mp, alive2)
BY DEF ServedOK

LEMMA ServedQueues ==
  ASSUME NEW lp \in [Loop -> LoopRecord], NEW cs, NEW mp, NEW alive, ServedOK(lp, cs, mp, alive),
         NEW m \in Loop, NEW f \in Functors,
         Single(cs, f.op, f.conn) => ~Queued(lp, f.op, f.conn, m),
         f.op = "connectDestroyed" => f.conn \notin mp,
         f.op = "removeConnectionInLoop" =>
           m = Base /\ (alive /\ ~LateIn(cs, f.conn) => f.conn \in mp)
  PROVE  ServedOK(Queue(lp, m, f), cs, mp, alive)
<1> DEFINE lp2 == Queue(lp, m, f)
<1>1. /\ \A k \in Loop : k # m => lp2[k] = lp[k]
      /\ lp2[m].batch = lp[m].batch
      /\ \A op, c : \A l \in Loop :
           Queued(lp2, op, c, l) <=> Queued(lp, op, c, l) \/ (l = m /\ Is(f, op, c))
  BY QueueTypes DEF OnlyLoop
<1>2. /\ \A op, c : Twice(lp2[m].pending, op, c)
               => Twice(lp[m].pending, op, c) \/ (Has(lp[m].pending, op, c) /\ Is(f, op, c))
      /\ \A op, c : Has(lp2[m].pending, op, c) <=> Has(lp[m].pending, op, c) \/ Is(f, op, c)
  BY QueueMore
<1> HIDE DEF lp2
<1>3. \A op, c : Is(f, op, c) => op = f.op /\ c = f.conn
  BY DEF Is
<1>4. \A op, c : \A l \in Loop : Single(cs, op, c) => ~Doubled(lp2, op, c, l)
  <2> SUFFICES ASSUME NEW op, NEW c, NEW l \in Loop, Single(cs, op, c)
               PROVE  ~Doubled(lp2, op, c, l)
    OBVIOUS
  <2>1. ~Doubled(lp, op, c, l)
    BY DEF ServedOK
  <2>2. CASE l # m
    BY <1>1, <2>1, <2>2 DEF Doubled
  <2>3. CASE l = m
    <3>1. Is(f, op, c) => ~Has(lp[m].batch, op, c) /\ ~Has(lp[m].pending, op, c)
      BY <1>3 DEF Queued
    <3> QED
      BY <1>1, <1>2, <2>1, <2>3, <3>1 DEF Doubled
  <2> QED
    BY <2>2, <2>3
<1>5. \A c \in Conn, l \in Loop :
        /\ Queued(lp2, "connectDestroyed", c, l) => c \notin mp
        /\ Queued(lp2, "removeConnectionInLoop", c, l)
             => l = Base /\ (alive /\ ~LateIn(cs, c) => c \in mp)
  BY <1>1, <1>3 DEF ServedOK
<1>6. \A c \in mp :
        cs[c].up = 1 => Watched(cs[c]) \/ Queued(lp2, "removeConnectionInLoop", c, Base)
  <2>1. Base \in Loop
    BY TcpServerAssumption DEF Loop, Base
  <2> QED
    BY <1>1, <2>1 DEF ServedOK
<1> QED
  BY <1>4, <1>5, <1>6 DEF ServedOK, lp2

\* What the map loses with removeConnectionInLoop.
Rest(mp, f) == IF f.op = "removeConnectionInLoop" THEN mp \ {f.conn} ELSE mp

LEMMA ServedTakes ==
  ASSUME NEW lp \in [Loop -> LoopRecord], NEW cs, NEW mp \in SUBSET Conn, NEW alive,
         ServedOK(lp, cs, mp, alive), NEW l \in Loop, NEW lp2, Takes(lp, lp2, l),
         NEW f, f = Head(lp[l].batch)
  PROVE  /\ ServedOK(lp2, cs, Rest(mp, f), alive)
         /\ Queued(lp, f.op, f.conn, l)
         /\ Single(cs, f.op, f.conn) => ~Queued(lp2, f.op, f.conn, l)
<1>1. TakeFacts(lp, lp2, l, f) /\ lp2[l].pending = lp[l].pending
  BY TakeTypes DEF Takes
<1>2. Is(f, f.op, f.conn) /\ \A op, c : Is(f, op, c) => op = f.op /\ c = f.conn
  BY DEF Is
<1>3. Queued(lp, f.op, f.conn, l) /\ (Single(cs, f.op, f.conn) => ~Queued(lp2, f.op, f.conn, l))
  <2>1. /\ Has(lp[l].batch, f.op, f.conn)
        /\ Single(cs, f.op, f.conn) => ~Doubled(lp, f.op, f.conn, l)
    BY <1>1, <1>2 DEF TakeFacts, ServedOK
  <2> QED
    BY <1>1, <1>2, <2>1 DEF TakeFacts, Queued, Doubled
<1>4. \A op, c : \A k \in Loop : /\ Queued(lp2, op, c, k) => Queued(lp, op, c, k)
                                 /\ Doubled(lp2, op, c, k) => Doubled(lp, op, c, k)
  BY <1>1 DEF TakeFacts, Doubled
<1>5. \A op, c : Queued(lp, op, c, Base) => Queued(lp2, op, c, Base) \/ Is(f, op, c)
  <2>1. Base \in Loop
    BY TcpServerAssumption DEF Loop, Base
  <2> QED
    BY <1>1, <2>1 DEF TakeFacts
<1>6. \A op, c : \A k \in Loop : Single(cs, op, c) => ~Doubled(lp2, op, c, k)
  BY <1>4 DEF ServedOK
<1>7. ASSUME NEW c \in Conn, NEW k \in Loop
      PROVE  /\ Queued(lp2, "connectDestroyed", c, k) => c \notin Rest(mp, f)
             /\ Queued(lp2, "removeConnectionInLoop", c, k)
                  => k = Base /\ (alive /\ ~LateIn(cs, c) => c \in Rest(mp, f))
  <2>1. Queued(lp2, "connectDestroyed", c, k) => c \notin Rest(mp, f)
    BY <1>4 DEF ServedOK, Rest
  <2>2. ASSUME Queued(lp2, "removeConnectionInLoop", c, k)
        PROVE  k = Base /\ (alive /\ ~LateIn(cs, c) => c \in Rest(mp, f))
    <3>1. k = Base /\ (alive /\ ~LateIn(cs, c) => c \in mp)
      BY <1>4, <2>2 DEF ServedOK
    <3>2. CASE f.op = "removeConnectionInLoop" /\ f.conn = c
      <4>1. l = Base
        BY <1>3, <3>2 DEF ServedOK
      <4> QED
        BY <1>3, <2>2, <3>1, <3>2, <4>1 DEF Single
    <3> QED
      BY <3>1, <3>2 DEF Rest
  <2> QED
    BY <2>1, <2>2
<1>8. ASSUME NEW c \in Rest(mp, f), cs[c].up = 1
      PROVE  Watched(cs[c]) \/ Queued(lp2, "removeConnectionInLoop", c, Base)
  <2>1. c \in mp /\ ~Is(f, "removeConnectionInLoop", c)
    BY <1>2, <1>8 DEF Rest
  <2> QED
    BY <1>5, <1>8, <2>1 DEF ServedOK
<1> QED
  BY <1>3, <1>6, <1>7, <1>8 DEF ServedOK

\* A send() that was late was so for good.
StaysLate(cs, ds) == \A c : LateIn(cs, c) => LateIn(ds, c)

LEMMA ChangedStaysLate ==
  ASSUME NEW cs, NEW ds, NEW c, Changed(cs, ds, c), cs[c].late => ds[c].late
  PROVE  StaysLate(cs, ds)
BY DEF Changed, StaysLate, LateIn

\* Other connections keep what is queued.
LEMMA ServedConns ==
  ASSUME NEW lp, NEW cs, NEW mp, NEW alive, ServedOK(lp, cs, mp, alive), NEW ds,
         StaysLate(cs, ds),
         \A c \in mp : \/ ds[c].up = 1 => Watched(ds[c])
                       \/ ds[c] = cs[c]
                       \/ Queued(lp, "removeConnectionInLoop", c, Base)
  PROVE  ServedOK(lp, ds, mp, alive)
BY DEF ServedOK, StaysLate, Single

\* newConnection.
LEMMA AcceptServed ==
  ASSUME ServerInv, NEW lp, DataOK(lp, conns, map, held, waiting, server = "alive"),
         ServedOK(lp, conns, map, server = "alive"), waiting > 0, HandleAccept(lp), UNCHANGED server
  PROVE  Served'
<1>1. CASE OutOfFds
  BY <1>1 DEF HandleAccept, Served
<1>2. CASE ~OutOfFds
  <2> DEFINE c == Len(conns) + 1
             m == IF loops = <<>> THEN Base ELSE loops[next + 1]
             cs == Append(conns, NewConnection(m))
             f == Functor("connectEstablished", c)
  <2>1. /\ map' = map \cup {c}
        /\ IF m = Base THEN conns' = Established(cs, c) /\ loop' = lp
           ELSE conns' = cs /\ loop' = Queue(lp, m, f)
    BY <1>2 DEF HandleAccept, Accepted
  <2>2. /\ conns \in Seq(ConnRecord) /\ map \in SUBSET Conn /\ lp \in [Loop -> LoopRecord]
        /\ Len(conns) \in Nat /\ c \in Conn /\ c \notin 1..Len(conns)
        /\ \A d \in map : d \in 1..Len(conns)
        /\ \A op \in Ops : \A l \in Loop : ~Queued(lp, op, c, l)
    <3>1. conns \in Seq(ConnRecord) /\ Len(conns) + waiting <= MaxConns /\ waiting \in Nat
          /\ map \in SUBSET Conn /\ lp \in [Loop -> LoopRecord] /\ RefsOK(lp, conns, map, held)
      BY DEF DataOK
    <3>2. Len(conns) \in Nat /\ c \in Conn /\ c \notin 1..Len(conns)
      BY <3>1, TcpServerAssumption DEF Conn
    <3> QED
      BY <3>1, <3>2 DEF RefsOK, RefersTo
  <2>3. m \in Loop
    <3>1. loops \in Seq(1..MaxThreads) /\ next \in 0..Len(loops)
          /\ (loops # <<>> => next < Len(loops)) /\ Len(loops) \in Nat
      BY DEF ServerInv, ControlType
    <3>2. CASE loops # <<>>
      <4>1. next + 1 \in 1..Len(loops)
        BY <3>1, <3>2
      <4>2. loops[next + 1] \in 1..MaxThreads
        BY <3>1, <4>1, ElementOf
      <4> QED
        BY <3>2, <4>2, TcpServerAssumption DEF Loop
    <3> QED
      BY <3>2, TcpServerAssumption DEF Loop, Base
  <2>4. NewConnection(m) \in ConnRecord /\ NewConnection(m).up = 0
        /\ NewConnection(m).down = 0 /\ NewConnection(m).chan = NewChannel
        /\ ~NewConnection(m).late
    BY <2>3, NewConnectionOK DEF NewConnection
  <2> HIDE DEF m
  <2>5. /\ cs \in Seq(ConnRecord) /\ Len(cs) = c /\ cs[c] = NewConnection(m)
        /\ c \in 1..Len(cs) /\ \A d \in 1..Len(conns) : cs[d] = conns[d]
    BY <2>2, <2>4
  <2> HIDE DEF cs, c
  <2>6. /\ \A d \in 1..Len(conns) : Established(cs, c)[d] = conns[d]
        /\ Watched(Established(cs, c)[c]) /\ Len(Established(cs, c)) = c
    <3>1. Changed(cs, Established(cs, c), c) /\ Watched(Established(cs, c)[c])
      BY <2>4, <2>5, EstablishedOK
    <3>2. \A d \in 1..Len(conns) : d \in 1..Len(cs) /\ d # c
      BY <2>2, <2>5
    <3> QED
      BY <2>5, <3>1, <3>2 DEF Changed
  <2>7. \A ds : Len(ds) = c /\ (\A d \in 1..Len(conns) : ds[d] = conns[d])
                  /\ (ds[c].up = 1 => Watched(ds[c]))
                => ServedOK(lp, ds, map \cup {c}, server = "alive")
    <3> SUFFICES ASSUME NEW ds, Len(ds) = c, \A d \in 1..Len(conns) : ds[d] = conns[d],
                        ds[c].up = 1 => Watched(ds[c])
                 PROVE  ServedOK(lp, ds, map \cup {c}, server = "alive")
      OBVIOUS
    <3>0. StaysLate(conns, ds)
      BY <2>2, <2>5 DEF StaysLate, LateIn
    <3>1. \A d \in Conn, l \in Loop :
            /\ Queued(lp, "connectDestroyed", d, l) => d \notin map \cup {c}
            /\ Queued(lp, "removeConnectionInLoop", d, l)
                 => l = Base /\ (server = "alive" /\ ~LateIn(ds, d) => d \in map \cup {c})
      BY <2>2, <3>0 DEF ServedOK, Ops, StaysLate
    <3>2. \A d \in map \cup {c} : \/ ds[d].up = 1 => Watched(ds[d])
                                  \/ d \in map /\ ds[d] = conns[d]
      <4> SUFFICES ASSUME NEW d \in map \cup {c}
                   PROVE  \/ ds[d].up = 1 => Watched(ds[d])
                          \/ d \in map /\ ds[d] = conns[d]
        OBVIOUS
      <4>1. CASE d = c
        BY <4>1
      <4>2. CASE d \in map
        BY <2>2, <4>2
      <4> QED
        BY <4>1, <4>2
    <3>3. \A op, d : \A l \in Loop : Single(ds, op, d) => ~Doubled(lp, op, d, l)
      BY <3>0 DEF ServedOK, Single, StaysLate
    <3> QED
      BY <3>1, <3>2, <3>3 DEF ServedOK
  <2>8. CASE m = Base
    <3>1. ServedOK(lp, conns', map', server = "alive")
      BY <2>1, <2>6, <2>7, <2>8
    <3> QED
      BY <2>1, <2>8, <3>1 DEF Served
  <2>9. CASE m # Base
    <3>1. ServedOK(lp, conns', map', server = "alive")
      <4>1. conns' = cs /\ map' = map \cup {c} /\ cs[c].up = 0
        BY <2>1, <2>4, <2>5, <2>9
      <4>2. /\ Len(conns') = c /\ \A d \in 1..Len(conns) : conns'[d] = conns[d]
            /\ conns'[c].up = 1 => Watched(conns'[c])
        BY <2>5, <4>1
      <4>3. ServedOK(lp, conns', map \cup {c}, server = "alive")
        BY <2>7, <4>2
      <4> QED
        BY <4>1, <4>3
    <3>2. f \in Functors /\ f.op = "connectEstablished" /\ f.conn = c
      BY <2>2 DEF Functor, Functors, Ops
    <3>3. ~Queued(lp, f.op, f.conn, m)
      BY <2>2, <2>3, <3>2 DEF Ops
    <3> HIDE DEF f
    <3>4. ServedOK(Queue(lp, m, f), conns', map', server = "alive")
      BY <2>2, <2>3, <3>1, <3>2, <3>3, ServedQueues
    <3> QED
      BY <2>1, <2>9, <3>4 DEF Served
  <2> QED
    BY <2>8, <2>9
<1> QED
  BY <1>1, <1>2

\* handleClose: the base loop erases its connection at once, another loop asks
\* it to.
LEMMA CloseServed ==
  ASSUME ServerInv, NEW lp, DataOK(lp, conns, map, held, waiting, server = "alive"),
         ServedOK(lp, conns, map, server = "alive"),
         NEW c \in 1..Len(conns), conns[c].chan.registered, loop[conns[c].loop].pc = "handle",
         HandleClose(c, lp), UNCHANGED server
  PROVE  Served'
<1>1. /\ conns \in Seq(ConnRecord) /\ ConnOK(conns[c]) /\ c \in Conn /\ conns[c].loop \in Loop
      /\ lp \in [Loop -> LoopRecord] /\ \A d \in map : d \in 1..Len(conns)
      /\ map \in SUBSET Conn /\ Base \in Loop
  <2>1. /\ conns \in Seq(ConnRecord) /\ lp \in [Loop -> LoopRecord] /\ map \in SUBSET Conn
        /\ RefsOK(lp, conns, map, held)
    BY DEF DataOK
  <2>2. \A d \in map : d \in 1..Len(conns)
    BY <2>1 DEF RefsOK, RefersTo
  <2> QED
    BY <2>1, <2>2, ConnTypes, TcpServerAssumption DEF Loop, Base
<1>2. /\ Changed(conns, Closed(conns, c), c) /\ Closed(conns, c)[c].late = conns[c].late
      /\ ~LateIn(conns, c) => conns[c].down = 0
  BY <1>1, ClosedOK DEF LateIn
<1>3. /\ \A d \in 1..Len(conns) : d # c => Closed(conns, c)[d] = conns[d]
      /\ StaysLate(conns, Closed(conns, c))
      /\ LateIn(Closed(conns, c), c) <=> LateIn(conns, c)
  BY <1>2, ChangedStaysLate DEF Changed, LateIn
\* It has not been closed before, if no send() was late.
<1>4. \A l \in Loop : ~LateIn(conns, c) => ~Queued(lp, "removeConnectionInLoop", c, l)
  BY <1>2 DEF DataOK, QueuesOK
<1>5. server = "alive" /\ ~LateIn(conns, c) => c \in map
  BY <1>2 DEF ServerInv, Data, DataOK, OwnedOK
<1>6. CASE conns[c].loop = Base
  <2> DEFINE f == Functor("connectDestroyed", c)
  <2>1. map' = map \ {c} /\ loop' = Queue(lp, Base, f) /\ conns' = Closed(conns, c)
    BY <1>6 DEF HandleClose, Erased
  <2>2. server = "alive"
    BY <1>6 DEF ServerInv, DestructorOK, Ended
  <2>3. ServedOK(lp, conns', map', server = "alive")
    <3>1. \A d \in Conn, l \in Loop :
            /\ Queued(lp, "connectDestroyed", d, l) => d \notin map'
            /\ Queued(lp, "removeConnectionInLoop", d, l)
                 => l = Base /\ (server = "alive" /\ ~LateIn(conns', d) => d \in map')
      BY <1>3, <1>4, <2>1 DEF ServedOK, StaysLate
    <3>2. \A d \in map' : d \in map /\ conns'[d] = conns[d]
      BY <1>1, <1>3, <2>1
    <3>3. \A op, d : \A l \in Loop : Single(conns', op, d) => ~Doubled(lp, op, d, l)
      BY <1>3, <2>1 DEF ServedOK, Single, StaysLate
    <3> QED
      BY <3>1, <3>2, <3>3 DEF ServedOK
  <2>4. f \in Functors /\ f.op = "connectDestroyed" /\ f.conn = c
    BY <1>1 DEF Functor, Functors, Ops
  <2>5. Single(conns', "connectDestroyed", c) => ~Queued(lp, "connectDestroyed", c, Base)
    BY <1>1, <1>3, <1>5, <2>1, <2>2 DEF ServedOK, Single
  <2> HIDE DEF f
  <2>6. ServedOK(Queue(lp, Base, f), conns', map', server = "alive")
    BY <1>1, <2>1, <2>3, <2>4, <2>5, ServedQueues
  <2> QED
    BY <2>1, <2>6 DEF Served
<1>7. CASE conns[c].loop # Base
  <2> DEFINE f == Functor("removeConnectionInLoop", c)
  <2>1. map' = map /\ loop' = Queue(lp, Base, f) /\ conns' = Closed(conns, c)
    BY <1>7 DEF HandleClose
  <2>2. f \in Functors /\ f.op = "removeConnectionInLoop" /\ f.conn = c
    BY <1>1 DEF Functor, Functors, Ops
  <2> HIDE DEF f
  <2>3. ServedOK(Queue(lp, Base, f), conns, map, server = "alive")
    BY <1>1, <1>4, <1>5, <2>2, ServedQueues DEF Single
  <2>4. Queued(loop', "removeConnectionInLoop", c, Base)
    BY <1>1, <2>1, <2>2, QueueTypes DEF Is
  <2>5. \A d \in map : conns'[d] = conns[d] \/ d = c
    BY <1>1, <1>3, <2>1
  <2>6. ServedOK(loop', conns', map, server = "alive")
    BY <1>3, <2>1, <2>3, <2>4, <2>5, ServedConns
  <2> QED
    BY <2>1, <2>6 DEF Served
<1> QED
  BY <1>6, <1>7

LEMMA EventServed ==
  ASSUME ServerInv, Served, NEW l \in Loop, HandleEvent(l)
  PROVE  Served'
<1>1. /\ Data /\ loop[l].pc = "handle" /\ UNCHANGED server
      /\ \E c \in loop[l].active :
           LET lp == Without(l, c)
           IN IF c = Acceptor THEN HandleAccept(lp)
              ELSE IF Exists(c) THEN HandleClose(c, lp)
              ELSE loop' = lp /\ UNCHANGED <<accept, map, conns, held>>
  BY DEF ServerInv, HandleEvent, Without
<1>2. PICK c \in loop[l].active :
        LET lp == Without(l, c)
        IN IF c = Acceptor THEN HandleAccept(lp)
           ELSE IF Exists(c) THEN HandleClose(c, lp)
           ELSE loop' = lp /\ UNCHANGED <<accept, map, conns, held>>
  BY <1>1
<1> DEFINE lp == Without(l, c)
<1>3. WithoutFacts(lp, l, c)
  BY <1>1, TakeEvent
<1>4. IF c = Acceptor THEN HandleAccept(lp)
      ELSE IF Exists(c) THEN HandleClose(c, lp)
      ELSE loop' = lp /\ UNCHANGED <<accept, map, conns, held>>
  BY <1>2
<1> HIDE DEF lp
<1>5. /\ DataOK(lp, conns, map, held, waiting, server = "alive")
      /\ \A op, d : \A k \in Loop : /\ Queued(lp, op, d, k) <=> Queued(loop, op, d, k)
                                    /\ Doubled(lp, op, d, k) <=> Doubled(loop, op, d, k)
  BY <1>3 DEF WithoutFacts, Queued, Doubled
<1>6. ServedOK(lp, conns, map, server = "alive")
  <2>1. Base \in Loop
    BY TcpServerAssumption DEF Loop, Base
  <2> QED
    BY <1>5, <2>1, ServedMoves DEF Served
<1>7. /\ c = Acceptor => waiting > 0
      /\ c # Acceptor => /\ c \in 1..Len(conns) /\ conns[c].loop = l
                         /\ conns[c].chan.registered
  <2>1. c = Acceptor \/ c \in Conn
    BY <1>1, LoopTypes DEF LoopRecord
  <2> QED
    BY <1>1, <2>1 DEF Data, DataOK, ActiveOK
<1>8. CASE c = Acceptor
  BY <1>1, <1>4, <1>5, <1>6, <1>7, <1>8, AcceptServed
<1>9. CASE c # Acceptor /\ Exists(c)
  <2>1. HandleClose(c, lp) /\ loop[conns[c].loop].pc = "handle"
    BY <1>1, <1>4, <1>7, <1>9
  <2> QED
    BY <1>1, <1>5, <1>6, <1>7, <1>9, <2>1, CloseServed
<1>10. CASE c # Acceptor /\ ~Exists(c)
  BY <1>1, <1>4, <1>6, <1>10 DEF Served
<1> QED
  BY <1>8, <1>9, <1>10

LEMMA FunctorServed ==
  ASSUME ServerInv, Served, NEW l \in Loop, RunFunctor(l)
  PROVE  Served'
<1> DEFINE f == Head(loop[l].batch)
           lp == Done(l)
<1>1. /\ Data /\ loop[l].pc = "run" /\ loop[l].batch # <<>> /\ UNCHANGED server
      /\ loop \in [Loop -> LoopRecord] /\ map \in SUBSET Conn /\ conns \in Seq(ConnRecord)
  BY LoopTypes DEF ServerInv, RunFunctor, Data, DataOK
<1>2. Execute(f, lp)
  BY FunctorRuns
<1>3. Takes(loop, lp, l)
  BY <1>1, DoneTakes
<1> HIDE DEF lp
<1>4. lp \in [Loop -> LoopRecord]
  BY <1>3 DEF Takes, OnlyLoop
<1>5. /\ ServedOK(lp, conns, Rest(map, f), server = "alive")
      /\ Queued(loop, f.op, f.conn, l)
  BY <1>1, <1>3, ServedTakes DEF Served
<1>6. f.op \in Ops =>
        /\ f.conn \in 1..Len(conns) /\ f.conn \in Conn
        /\ ConnOK(conns[f.conn]) /\ conns[f.conn].loop \in Loop
        /\ f.op \in {"connectDestroyed", "sendInLoop"} => conns[f.conn].up = 1
        /\ f.op = "connectEstablished" => conns[f.conn].up = 0
  <2>1. f.op \in Ops => f.conn \in 1..Len(conns)
    BY <1>1, DestroyedIsUp DEF Data
  <2>2. f.op \in Ops => /\ f.op \in {"connectDestroyed", "sendInLoop"} => conns[f.conn].up = 1
                        /\ f.op = "connectEstablished" => conns[f.conn].up = 0
    BY <1>1, DestroyedIsUp DEF Data
  <2> HIDE DEF f
  <2> QED
    BY <1>1, <2>1, <2>2, ConnTypes DEF Data
<1>7. \A d \in map : d \in 1..Len(conns)
  BY <1>1 DEF Data, DataOK, RefsOK, RefersTo
<1> HIDE DEF f
<1>8. CASE f.op = "listen" /\ ListenFunctor /\ loop' = lp
  BY <1>1, <1>5, <1>8 DEF Served, Rest, ListenFunctor
<1>9. CASE /\ f.op = "connectEstablished" /\ conns' = Established(conns, f.conn)
           /\ loop' = lp /\ UNCHANGED map
  <2>1. /\ f.conn \in 1..Len(conns) /\ conns[f.conn].up = 0 /\ conns[f.conn].down = 0
        /\ conns[f.conn].chan = NewChannel /\ ~conns[f.conn].late
    <3>1. /\ f.conn \in 1..Len(conns) /\ ConnOK(conns[f.conn]) /\ conns[f.conn].up = 0
      BY <1>6, <1>9 DEF Ops
    <3>2. conns[f.conn].state = "kConnecting"
      BY <3>1 DEF ConnOK, ConnRecord, States
    <3> QED
      BY <3>1, <3>2 DEF ConnOK
  <2>2. Watched(conns'[f.conn]) /\ Changed(conns, conns', f.conn)
    BY <1>1, <1>9, <2>1, EstablishedOK
  <2>3. \A d \in map : d # f.conn => conns'[d] = conns[d]
    BY <1>7, <2>2 DEF Changed
  <2>4. ServedOK(lp, conns', map, server = "alive")
    BY <1>5, <1>9, <2>1, <2>2, <2>3, ChangedStaysLate, ServedConns DEF Rest
  <2> QED
    BY <1>1, <1>9, <2>4 DEF Served
<1>10. CASE /\ f.op = "connectDestroyed" /\ conns' = Destroyed(conns, f.conn)
            /\ loop' = lp /\ UNCHANGED map
  <2>1. f.conn \in 1..Len(conns) /\ f.conn \in Conn /\ Changed(conns, conns', f.conn)
        /\ conns'[f.conn].late = conns[f.conn].late
    BY <1>1, <1>6, <1>10, DestroyedOK DEF Ops
  <2>2. f.conn \notin map
    BY <1>5, <1>10, <2>1 DEF Served, ServedOK
  <2>3. \A d \in map : conns'[d] = conns[d]
    BY <1>7, <2>1, <2>2 DEF Changed
  <2>4. ServedOK(lp, conns', map, server = "alive")
    BY <1>5, <1>10, <2>1, <2>3, ChangedStaysLate, ServedConns DEF Rest
  <2> QED
    BY <1>1, <1>10, <2>4 DEF Served
<1>11. CASE /\ f.op = "removeConnectionInLoop" /\ map' = Erased(f.conn)
            /\ loop' = Queue(lp, conns[f.conn].loop, Functor("connectDestroyed", f.conn))
            /\ UNCHANGED conns
  <2> DEFINE g == Functor("connectDestroyed", f.conn)
             m == conns[f.conn].loop
  <2>1. f.conn \in Conn /\ m \in Loop /\ l = Base
    BY <1>5, <1>6, <1>11 DEF Ops, Served, ServedOK
  <2>2. server = "alive"
    BY <1>1, <2>1 DEF ServerInv, DestructorOK, Ended
  <2>3. Single(conns, "connectDestroyed", f.conn) => ~Queued(loop, "connectDestroyed", f.conn, m)
    BY <1>5, <1>11, <2>1, <2>2 DEF Served, ServedOK, Single
  <2>4. Single(conns, "connectDestroyed", f.conn) => ~Queued(lp, "connectDestroyed", f.conn, m)
    BY <1>1, <1>3, <2>1, <2>3, TakeTypes DEF TakeFacts
  <2>5. g \in Functors /\ g.op = "connectDestroyed" /\ g.conn = f.conn
    BY <2>1 DEF Functor, Functors, Ops
  <2>6. ServedOK(lp, conns, map', server = "alive") /\ f.conn \notin map'
    BY <1>5, <1>11 DEF Rest, Erased
  <2> HIDE DEF g, m
  <2>7. ServedOK(Queue(lp, m, g), conns, map', server = "alive")
    BY <1>4, <2>1, <2>4, <2>5, <2>6, ServedQueues
  <2> QED
    BY <1>1, <1>11, <2>7 DEF Served, g, m
<1>12. CASE /\ f.op = "sendInLoop" /\ loop' = lp /\ UNCHANGED map
            /\ conns' = conns \/ conns' = Armed(conns, f.conn)
  <2>1. ServedOK(lp, conns, map, server = "alive")
    BY <1>5, <1>12 DEF Rest
  <2>2. CASE conns' = conns
    BY <1>1, <1>12, <2>1, <2>2 DEF Served
  <2>3. CASE conns' = Armed(conns, f.conn)
    <3>1. /\ Changed(conns, conns', f.conn) /\ Watched(conns'[f.conn])
          /\ conns[f.conn].late => conns'[f.conn].late
      BY <1>1, <1>6, <1>12, <2>3, ArmedOK DEF Ops
    <3>2. \A d \in map : d # f.conn => conns'[d] = conns[d]
      BY <1>7, <3>1 DEF Changed
    <3>3. ServedOK(lp, conns', map, server = "alive")
      BY <2>1, <3>1, <3>2, ChangedStaysLate, ServedConns
    <3> QED
      BY <1>1, <1>12, <3>3 DEF Served
  <2> QED
    BY <1>12, <2>2, <2>3
<1> QED
  BY <1>2, <1>8, <1>9, <1>10, <1>11, <1>12 DEF Execute

\* The destructor's body.
LEMMA DropServed ==
  ASSUME ServerInv, Served, DropConnection
  PROVE  Served'
<1>1. PICK c \in map :
        /\ map' = map \ {c} /\ server = "connections" /\ server' = server
        /\ IF conns[c].loop = Base THEN conns' = Destroyed(conns, c) /\ UNCHANGED loop
           ELSE /\ loop' = Queue(loop, conns[c].loop, Functor("connectDestroyed", c))
                /\ UNCHANGED conns
  BY DEF DropConnection
<1>2. /\ Data /\ loop \in [Loop -> LoopRecord] /\ conns \in Seq(ConnRecord)
      /\ map \in SUBSET Conn /\ \A d \in map : d \in 1..Len(conns)
  BY LoopTypes DEF ServerInv, Data, DataOK, RefsOK, RefersTo
<1>3. c \in Conn /\ c \in 1..Len(conns) /\ ConnOK(conns[c]) /\ conns[c].loop \in Loop
  BY <1>2, ConnTypes DEF Data
<1>4. \A l \in Loop : ~Queued(loop, "connectDestroyed", c, l)
  BY <1>3 DEF Served, ServedOK
<1>5. ServedOK(loop, conns, map', server = "alive")
  BY <1>1 DEF Served, ServedOK
<1>6. CASE conns[c].loop = Base
  <2>1. (\A d \in map' : conns'[d] = conns[d]) /\ StaysLate(conns, conns')
    <3>1. conns[c].up = 1
      BY <1>3, <1>6 DEF ConnOK, ConnRecord, States
    <3>2. Changed(conns, conns', c) /\ conns'[c].late = conns[c].late
      BY <1>1, <1>2, <1>3, <1>6, <3>1, DestroyedOK
    <3> QED
      BY <1>1, <1>2, <3>2, ChangedStaysLate DEF Changed
  <2>2. ServedOK(loop, conns', map', server = "alive")
    BY <1>5, <2>1, ServedConns
  <2> QED
    BY <1>1, <1>6, <2>2 DEF Served
<1>7. CASE conns[c].loop # Base
  <2> DEFINE g == Functor("connectDestroyed", c)
             m == conns[c].loop
  <2>1. g \in Functors /\ g.op = "connectDestroyed" /\ g.conn = c /\ c \notin map'
    BY <1>1, <1>3 DEF Functor, Functors, Ops
  <2>2. loop' = Queue(loop, m, g) /\ m \in Loop /\ UNCHANGED conns
    BY <1>1, <1>3, <1>7
  <2> HIDE DEF g, m
  <2>3. ServedOK(Queue(loop, m, g), conns, map', server = "alive")
    BY <1>2, <1>4, <1>5, <2>1, <2>2, ServedQueues
  <2> QED
    BY <1>1, <2>2, <2>3 DEF Served
<1> QED
  BY <1>6, <1>7

\* A loop goes on: its pending functors become the batch, or go with it.
LEMMA MoveServed ==
  ASSUME ServerInv, UseOK, EmptyFirst, Served, NEW l \in Loop,
         \/ EnterLoop(l) \/ TestQuit(l) \/ PollReturns(l) \/ PollTimeout(l)
         \/ DoPendingFunctors(l) \/ FunctorsDone(l) \/ DestroyLoop(l)
  PROVE  Served'
<1>1. /\ loop \in [Loop -> LoopRecord] /\ loop[l] \in LoopRecord
      /\ loop[l].pc # "run" => loop[l].batch = <<>>
  BY LoopTypes DEF ServerInv
<1>2. UNCHANGED <<conns, map, server>>
  BY DEF EnterLoop, TestQuit, PollReturns, PollTimeout, DoPendingFunctors, FunctorsDone,
     DestroyLoop, Quiet
<1>3. /\ \A k \in Loop : k # l => loop'[k] = loop[k]
      /\ \/ loop'[l].batch = loop[l].batch /\ loop'[l].pending = loop[l].pending
         \/ /\ loop[l].batch = <<>>
            /\ loop'[l].batch = loop[l].pending /\ loop'[l].pending = <<>>
         \/ /\ DestroyLoop(l)
            /\ loop'[l].batch = loop[l].batch /\ loop'[l].pending = <<>>
  <2>1. CASE EnterLoop(l)
    BY <1>1, <2>1 DEF EnterLoop, LoopRecord
  <2>2. CASE TestQuit(l)
    BY <1>1, <2>2 DEF TestQuit, LoopRecord
  <2>3. CASE PollReturns(l)
    BY <1>1, <2>3 DEF PollReturns, LoopRecord
  <2>4. CASE PollTimeout(l)
    BY <1>1, <2>4 DEF PollTimeout, LoopRecord
  <2>5. CASE DoPendingFunctors(l)
    BY <1>1, <2>5 DEF DoPendingFunctors, LoopRecord
  <2>6. CASE FunctorsDone(l)
    BY <1>1, <2>6 DEF FunctorsDone, LoopRecord
  <2>7. CASE DestroyLoop(l)
    BY <1>1, <2>7 DEF DestroyLoop, LoopRecord
  <2> QED
    BY <2>1, <2>2, <2>3, <2>4, <2>5, <2>6, <2>7
<1>4. \A op, c : \A k \in Loop : /\ Queued(loop', op, c, k) => Queued(loop, op, c, k)
                                 /\ Doubled(loop', op, c, k) => Doubled(loop, op, c, k)
  <2>1. \A op, c : /\ Queued(loop', op, c, l) => Queued(loop, op, c, l)
                   /\ Doubled(loop', op, c, l) => Doubled(loop, op, c, l)
    BY <1>3, EmptyQueue DEF Queued, Doubled
  <2> QED
    BY <1>3, <2>1 DEF Queued, Doubled
\* What a loop drops when it is destroyed serves nobody: connctions_ is empty.
<1>5. DestroyLoop(l) => map = {}
  <2> SUFFICES ASSUME DestroyLoop(l) PROVE map = {}
    OBVIOUS
  <2>1. Ended(loop[l]) /\ (l = Base => server = "gone") /\ cur \in Nat \ {0}
    BY DEF DestroyLoop, Ended, ServerInv, ControlType
  <2>2. CASE l = Base
    BY <2>1, <2>2 DEF EmptyFirst
  <2>3. CASE l # Base
    <3>1. l \in 1..MaxThreads
      BY <2>3, TcpServerAssumption DEF Loop, Base
    <3>2. l < cur \/ server = "join"
      BY <2>1, <3>1 DEF UseOK
    <3>3. server \notin {"alive", "connections"}
      BY <2>1, <3>1, <3>2 DEF EmptyFirst
    <3> QED
      BY <3>3 DEF EmptyFirst
  <2> QED
    BY <2>2, <2>3
<1>6. map = {} \/ \A op, c : Queued(loop, op, c, Base) => Queued(loop', op, c, Base)
  <2>1. Base \in Loop
    BY TcpServerAssumption DEF Loop, Base
  <2>2. ASSUME ~DestroyLoop(l)
        PROVE  \A op, c : Queued(loop, op, c, l) => Queued(loop', op, c, l)
    BY <1>3, <2>2, EmptyQueue DEF Queued
  <2> QED
    BY <1>3, <1>5, <2>1, <2>2 DEF Queued
<1> QED
  BY <1>2, <1>4, <1>6, ServedMoves DEF Served

\* A step after which every queue is what it was.
LEMMA SameServed ==
  ASSUME Served, UNCHANGED map, server' = "alive" => server = "alive",
         \A l \in Loop : loop'[l].batch = loop[l].batch /\ loop'[l].pending = loop[l].pending,
         StaysLate(conns, conns'),
         \A c \in map : conns'[c].up = conns[c].up /\ conns'[c].chan = conns[c].chan
  PROVE  Served'
<1>1. \A op, c : \A l \in Loop : /\ Queued(loop', op, c, l) <=> Queued(loop, op, c, l)
                                 /\ Doubled(loop', op, c, l) <=> Doubled(loop, op, c, l)
  BY DEF Queued, Doubled
<1>2. Base \in Loop
  BY TcpServerAssumption DEF Loop, Base
<1>3. \A op, c : \A l \in Loop : Single(conns', op, c) => ~Doubled(loop', op, c, l)
  BY <1>1 DEF Served, ServedOK, Single, StaysLate
<1>4. \A c \in Conn, l \in Loop :
        /\ Queued(loop', "connectDestroyed", c, l) => c \notin map'
        /\ Queued(loop', "removeConnectionInLoop", c, l)
             => l = Base /\ (server' = "alive" /\ ~LateIn(conns', c) => c \in map')
  BY <1>1 DEF Served, ServedOK, StaysLate
<1>5. \A c \in map' :
        conns'[c].up = 1
          => Watched(conns'[c]) \/ Queued(loop', "removeConnectionInLoop", c, Base)
  BY <1>1, <1>2 DEF Served, ServedOK, Watched
<1> QED
  BY <1>3, <1>4, <1>5 DEF Served, ServedOK

\* start() queues Acceptor::listen once.
LEMMA StartServed ==
  ASSUME ServerInv, Served, NEW t \in Starter, StartCounts(t) \/ StartStep(t)
  PROVE  Served'
<1>1. loop \in [Loop -> LoopRecord] /\ Base \in Loop
  BY LoopTypes, TcpServerAssumption DEF ServerInv, Loop, Base
<1>2. CASE StartCounts(t)
  BY <1>2, SameServed DEF StartCounts, StaysLate
<1>3. CASE StartThread(t)
  <2>1. /\ UNCHANGED <<conns, map, server>>
        /\ loop' = [loop EXCEPT ![Len(loops) + 1].pc = "enter"]
    BY <1>3 DEF StartThread
  <2>2. \A l \in Loop : loop'[l].batch = loop[l].batch /\ loop'[l].pending = loop[l].pending
    BY <1>1, <2>1 DEF LoopRecord
  <2> QED
    BY <2>1, <2>2, SameServed DEF StaysLate
<1>4. CASE StartListening(t)
  <2> DEFINE f == Functor("listen", 0)
  <2>1. /\ starter[t] = "pool" /\ UNCHANGED <<conns, map, server>>
        /\ loop' = loop \/ loop' = Queue(loop, Base, f)
    BY <1>4 DEF StartListening
  <2>2. f \in Functors /\ f.op = "listen" /\ f.conn = 0
    BY DEF Functor, Functors
  <2>3. ~Queued(loop, "listen", 0, Base)
    BY <1>1, <2>1 DEF ServerInv, StartOK, NobodyListens
  <2> HIDE DEF f
  <2>4. ServedOK(Queue(loop, Base, f), conns, map, server = "alive")
    BY <1>1, <2>2, <2>3, ServedQueues DEF Served
  <2> QED
    BY <2>1, <2>4 DEF Served
<1> QED
  BY <1>2, <1>3, <1>4 DEF StartStep

LEMMA NextServed ==
  ServerInv /\ UseOK /\ EmptyFirst /\ Served /\ [Next]_vars => EmptyFirst' /\ Served'
<1> SUFFICES ASSUME ServerInv, UseOK, EmptyFirst, Served, [Next]_vars
             PROVE  EmptyFirst' /\ Served'
  OBVIOUS
<1>1. Data /\ ControlType /\ StartOK /\ DestructorOK
  BY DEF ServerInv
<1>2. /\ loop \in [Loop -> LoopRecord] /\ conns \in Seq(ConnRecord) /\ Base \in Loop
      /\ \A c \in map : c \in 1..Len(conns)
  BY <1>1, LoopTypes, TcpServerAssumption DEF Data, DataOK, RefsOK, RefersTo, Loop, Base
<1>3. ASSUME NEW l \in Loop, LoopStep(l) \/ PollTimeout(l)
      PROVE  EmptyFirst' /\ Served'
  <2>1. Served'
    BY <1>3, EventServed, FunctorServed, MoveServed DEF LoopStep
  <2>2. UNCHANGED <<server, cur>>
    BY <1>3 DEF LoopStep, EnterLoop, TestQuit, PollReturns, PollTimeout, HandleEvent,
       DoPendingFunctors, RunFunctor, FunctorsDone, DestroyLoop, Quiet
  <2>3. server \notin {"alive", "connections"} => map' = {}
    <3> SUFFICES ASSUME server \notin {"alive", "connections"} PROVE map' = {}
      OBVIOUS
    <3>1. map = {} /\ Ended(loop[Base])
      BY <1>1 DEF EmptyFirst, DestructorOK
    <3>2. CASE HandleEvent(l)
      <4>1. PICK c \in loop[l].active :
              LET lp == [loop EXCEPT ![l].active = @ \ {c}]
              IN IF c = Acceptor THEN HandleAccept(lp)
                 ELSE IF Exists(c) THEN HandleClose(c, lp)
                 ELSE loop' = lp /\ UNCHANGED <<accept, map, conns, held>>
        BY <3>2 DEF HandleEvent
      <4>2. c # Acceptor
        BY <1>1, <3>1, <3>2 DEF HandleEvent, Data, DataOK, ActiveOK, Ended
      <4> QED
        BY <3>1, <4>1, <4>2 DEF HandleClose, Erased
    <3>3. CASE RunFunctor(l)
      <4>1. Execute(Head(loop[l].batch), Done(l))
        BY <3>3, FunctorRuns
      <4> QED
        BY <3>1, <4>1 DEF Execute, ListenFunctor, Erased
    <3>4. CASE ~HandleEvent(l) /\ ~RunFunctor(l)
      <4>1. UNCHANGED map
        BY <1>3, <3>4 DEF LoopStep, EnterLoop, TestQuit, PollReturns, PollTimeout,
           DoPendingFunctors, FunctorsDone, DestroyLoop, Quiet
      <4> QED
        BY <3>1, <4>1
    <3> QED
      BY <3>2, <3>3, <3>4
  <2> QED
    BY <2>1, <2>2, <2>3 DEF EmptyFirst
<1>4. CASE DropConnection
  <2>1. server = "connections" /\ UNCHANGED <<server, cur>>
    BY <1>4 DEF DropConnection
  <2> QED
    BY <1>4, <2>1, DropServed DEF EmptyFirst
<1>5. CASE DestroyServer \/ DropThreads \/ JoinThread \/ ServerDestroyed
  <2>1. UNCHANGED <<conns, map, loop>> /\ server' # "alive"
    BY <1>5 DEF DestroyServer, DropThreads, JoinThread, ServerDestroyed
  <2>2. EmptyFirst'
    BY <1>5 DEF DestroyServer, DropThreads, JoinThread, ServerDestroyed, EmptyFirst
  <2> QED
    BY <2>1, <2>2, SameServed DEF StaysLate
<1>6. CASE QuitThread \/ QuitBase
  <2>1. /\ UNCHANGED <<conns, map, cur>>
        /\ server' = server \/ (server = "quit" /\ server' = "join")
        /\ \E m : loop' = [loop EXCEPT ![m].quit = TRUE]
    BY <1>6 DEF QuitThread, QuitBase, Quiet
  <2>2. \A l \in Loop : loop'[l].batch = loop[l].batch /\ loop'[l].pending = loop[l].pending
    BY <1>2, <2>1 DEF LoopRecord
  <2>3. server' = "alive" => server = "alive"
    BY <2>1
  <2>4. EmptyFirst'
    BY <2>1 DEF EmptyFirst
  <2>5. \A c \in map : conns'[c].up = conns[c].up /\ conns'[c].chan = conns[c].chan
    BY <2>1
  <2> QED
    BY <2>1, <2>2, <2>3, <2>4, <2>5, SameServed DEF StaysLate
<1>7. ASSUME NEW t \in Starter, StartCounts(t) \/ StartStep(t)
      PROVE  EmptyFirst' /\ Served'
  <2>1. UNCHANGED <<map, server, cur>>
    BY <1>7 DEF StartCounts, StartStep, StartThread, StartListening
  <2> QED
    BY <1>7, <2>1, StartServed DEF EmptyFirst
<1>8. CASE (\E c \in Conn : UserReleases(c)) \/ ClientConnects \/ UNCHANGED vars
  <2>1. UNCHANGED <<conns, map, loop, server, cur>>
    BY <1>8 DEF UserReleases, ClientConnects, vars
  <2> QED
    BY <2>1, SameServed DEF EmptyFirst, StaysLate
<1>9. ASSUME NEW c \in Conn, \/ UserShutsDown(c) \/ PeerCloses(c)
                            \/ UserSends(c) \/ SendQueues(c)
      PROVE  EmptyFirst' /\ Served'
  <2>1. /\ UNCHANGED <<map, server, cur>>
        /\ \/ conns' = [conns EXCEPT ![c].state = "kDisconnecting"]
           \/ conns' = [conns EXCEPT ![c].fin = TRUE]
           \/ \E n : conns' = [conns EXCEPT ![c].calls = n]
    BY <1>9 DEF UserShutsDown, PeerCloses, UserSends, SendQueues
  <2>2. \A d \in 1..Len(conns) : conns[d] \in ConnRecord /\ d \in DOMAIN conns
    BY <1>2
  <2>3. \A d \in 1..Len(conns) : /\ conns'[d].up = conns[d].up /\ conns'[d].chan = conns[d].chan
                                 /\ conns'[d].late = conns[d].late
    <3>1. CASE conns' = [conns EXCEPT ![c].state = "kDisconnecting"]
      BY <1>2, <2>2, <3>1 DEF ConnRecord
    <3>2. CASE conns' = [conns EXCEPT ![c].fin = TRUE]
      BY <1>2, <2>2, <3>2 DEF ConnRecord
    <3>3. ASSUME NEW n, conns' = [conns EXCEPT ![c].calls = n]
          PROVE  \A d \in 1..Len(conns) : /\ conns'[d].up = conns[d].up
                                          /\ conns'[d].chan = conns[d].chan
                                          /\ conns'[d].late = conns[d].late
      BY <1>2, <2>2, <3>3 DEF ConnRecord
    <3> QED
      BY <2>1, <3>1, <3>2, <3>3
  <2>4. StaysLate(conns, conns')
    <3>1. Len(conns') = Len(conns)
      BY <1>2, <2>1
    <3> QED
      BY <2>3, <3>1 DEF StaysLate, LateIn
  <2>5. CASE UNCHANGED loop
    BY <1>2, <2>1, <2>3, <2>4, <2>5, SameServed DEF EmptyFirst
  <2>6. CASE SendQueues(c) /\ loop' = Queue(loop, conns[c].loop, Functor("sendInLoop", c))
    <3> DEFINE f == Functor("sendInLoop", c)
               m == conns[c].loop
    <3>1. f \in Functors /\ f.op = "sendInLoop"
      BY DEF Functor, Functors
    <3>2. m \in Loop
      <4>1. c \in 1..Len(conns)
        BY <1>2, <2>6 DEF SendQueues
      <4> QED
        BY <2>2, <4>1 DEF ConnRecord
    <3>3. ServedOK(loop, conns', map, server = "alive")
      BY <1>2, <2>3, <2>4 DEF Served, ServedOK, StaysLate, Single, Watched
    <3> HIDE DEF f, m
    <3>4. ServedOK(Queue(loop, m, f), conns', map, server = "alive")
      BY <1>2, <3>1, <3>2, <3>3, ServedQueues DEF Single
    <3> QED
      BY <2>1, <2>6, <3>4 DEF Served, EmptyFirst, f, m
  <2> QED
    BY <1>9, <2>5, <2>6 DEF UserShutsDown, PeerCloses, UserSends, SendQueues
<1> QED
  BY <1>3, <1>4, <1>5, <1>6, <1>7, <1>8, <1>9 DEF Next, DestructorStep, UserStep

LEMMA InitServed == Init => EmptyFirst /\ Served
<1> SUFFICES ASSUME Init PROVE EmptyFirst /\ Served
  OBVIOUS
<1>1. /\ server = "alive" /\ cur = 1 /\ map = {}
      /\ \A l \in Loop : loop[l].batch = <<>> /\ loop[l].pending = <<>>
  BY DEF Init, NewLoop
<1>2. \A op, c : \A l \in Loop : ~Queued(loop, op, c, l) /\ ~Doubled(loop, op, c, l)
  BY <1>1, EmptyQueue DEF Queued, Doubled
<1> QED
  BY <1>1, <1>2 DEF EmptyFirst, Served, ServedOK

LEMMA AlwaysServed == Spec => [](ServerInv /\ UseOK /\ EmptyFirst /\ Served)
<1>1. Init => ServerInv /\ UseOK /\ EmptyFirst /\ Served
  BY InitServer, InitUse, InitServed
<1>2. /\ ServerInv /\ UseOK /\ EmptyFirst /\ Served /\ [Next]_vars
      => ServerInv' /\ UseOK' /\ EmptyFirst' /\ Served'
  BY NextData, NextControl, NextUse, NextServed DEF ServerInv, Control
<1> QED
  BY <1>1, <1>2, PTL DEF Spec

LEMMA QueuedIsIn ==
  ASSUME Data, NEW l \in Loop, NEW op \in Ops, NEW c, Queued(loop, op, c, l)
  PROVE  InQueue(l, Functor(op, c))
<1>1. loop[l].batch \in Seq(Functors) /\ loop[l].pending \in Seq(Functors)
  BY LoopTypes DEF LoopRecord
<1>2. ASSUME NEW fs \in Seq(Functors), Has(fs, op, c)
      PROVE  \E i \in DOMAIN fs : fs[i] = Functor(op, c)
  <2>1. PICK i \in 1..Len(fs) : Is(fs[i], op, c)
    BY <1>2 DEF Has
  <2>2. fs[i] \in Functors
    BY ElementOf
  <2>3. fs[i] = Functor(op, c)
    BY <2>1, <2>2 DEF Is, Functors, Functor, Ops
  <2> QED
    BY <2>3
<1> QED
  BY <1>1, <1>2 DEF Queued, InQueue

\* No connection in connctions_ is forgotten there: connectEstablished is queued
\* to its loop, or its poller listens for the peer's close, or
\* removeConnectionInLoop is queued to the base loop
\* (TcpServer.cc:89-119, TcpConnection.cc:167-175, 260-269).
THEOREM MapIsAlwaysServed == Spec => []MapIsServed
<1>1. ServerInv /\ UseOK /\ EmptyFirst /\ Served => MapIsServed
  <2> SUFFICES ASSUME ServerInv, UseOK, EmptyFirst, Served, NEW c \in map
               PROVE  \/ InQueue(conns[c].loop, Functor("connectEstablished", c))
                      \/ Watched(conns[c])
                      \/ InQueue(Base, Functor("removeConnectionInLoop", c))
    BY DEF MapIsServed, Watched
  <2>1. Data /\ c \in 1..Len(conns) /\ Base \in Loop
    BY TcpServerAssumption DEF ServerInv, Data, DataOK, RefsOK, RefersTo, Loop, Base
  <2>2. ConnOK(conns[c]) /\ conns[c] \in ConnRecord /\ conns[c].loop \in Loop
        /\ conns[c].up \in 0..1
    BY <2>1, ConnTypes DEF Data
  <2>3. CASE conns[c].up = 0
    <3>1. conns[c].loop # Base
      BY <2>2, <2>3 DEF ConnOK, ConnRecord, States
    <3>2. conns[c].loop \in 1..MaxThreads
      BY <2>2, <3>1, TcpServerAssumption DEF Loop, Base
    <3>3. ~Ended(loop[conns[c].loop])
      <4>1. server \in {"alive", "connections"} /\ cur = 1
        BY DEF EmptyFirst
      <4>2. ~(conns[c].loop < cur)
        BY <3>2, <4>1
      <4> QED
        BY <3>2, <4>1, <4>2 DEF UseOK
    <3>4. Queued(loop, "connectEstablished", c, conns[c].loop)
      BY <2>1, <2>2, <2>3, <3>3 DEF Data, DataOK, QueuesOK, Ended
    <3> QED
      BY <2>1, <2>2, <3>4, QueuedIsIn DEF Ops
  <2>4. CASE conns[c].up = 1
    <3>1. Watched(conns[c]) \/ Queued(loop, "removeConnectionInLoop", c, Base)
      BY <2>4 DEF Served, ServedOK
    <3> QED
      BY <2>1, <3>1, QueuedIsIn DEF Ops
  <2> QED
    BY <2>2, <2>3, <2>4
<1> QED
  BY AlwaysServed, <1>1, PTL

\* What is twice in a queue's two parts is twice in one of them or once in both.
LEMMA TwiceInParts ==
  ASSUME NEW a \in Seq(Functors), NEW b \in Seq(Functors),
         NEW i \in 1..Len(a \o b), NEW j \in 1..Len(a \o b), i < j, (a \o b)[i] = (a \o b)[j],
         NEW op, NEW c, Is((a \o b)[i], op, c)
  PROVE  Twice(a, op, c) \/ Twice(b, op, c) \/ (Has(a, op, c) /\ Has(b, op, c))
<1>1. Len(a) \in Nat /\ Len(b) \in Nat /\ Len(a \o b) = Len(a) + Len(b)
  OBVIOUS
<1>2. \A k \in 1..Len(a \o b) :
        /\ k <= Len(a) => k \in 1..Len(a) /\ (a \o b)[k] = a[k]
        /\ k > Len(a) => k - Len(a) \in 1..Len(b) /\ (a \o b)[k] = b[k - Len(a)]
  BY <1>1
<1>3. CASE j <= Len(a)
  <2>1. i <= Len(a)
    BY <1>1, <1>3
  <2> QED
    BY <1>2, <1>3, <2>1 DEF Twice
<1>4. CASE i <= Len(a) /\ j > Len(a)
  BY <1>2, <1>4 DEF Has
<1>5. CASE i > Len(a) /\ j > Len(a)
  <2>1. i - Len(a) < j - Len(a)
    BY <1>1
  <2> QED
    BY <1>2, <1>5, <2>1 DEF Twice
<1> QED
  BY <1>1, <1>3, <1>4, <1>5

\* No functor is queued to a loop twice: connectEstablished, connectDestroyed and
\* removeConnectionInLoop are each queued once for a connection, by whoever
\* of its loop, the base loop and ~TcpServer begins (TcpServer.cc:36-46,
\* 103-119), and Acceptor::listen once, however many threads call start().  Only
\* for a connection that a late send() has opened again are the last two queued
\* again, with its second close (TcpConnection.cc:90-147).
THEOREM QueuedAlwaysOnce == Spec => []QueuedOnce
<1>1. ServerInv /\ Served => QueuedOnce
  <2> SUFFICES ASSUME ServerInv, Served PROVE QueuedOnce
    OBVIOUS
  <2>1. ASSUME NEW l \in Loop,
               NEW i \in 1..Len(loop[l].batch \o loop[l].pending),
               NEW j \in 1..Len(loop[l].batch \o loop[l].pending), i < j,
               (loop[l].batch \o loop[l].pending)[i] = (loop[l].batch \o loop[l].pending)[j]
        PROVE  LET f == (loop[l].batch \o loop[l].pending)[i]
               IN  Doubled(loop, f.op, f.conn, l)
    <3> DEFINE f == (loop[l].batch \o loop[l].pending)[i]
    <3>1. loop[l].batch \in Seq(Functors) /\ loop[l].pending \in Seq(Functors)
      BY LoopTypes DEF ServerInv, LoopRecord
    <3>2. Is((loop[l].batch \o loop[l].pending)[i], f.op, f.conn)
      BY DEF Is
    <3> HIDE DEF f
    <3>3. \/ Twice(loop[l].batch, f.op, f.conn)
          \/ Twice(loop[l].pending, f.op, f.conn)
          \/ Has(loop[l].batch, f.op, f.conn) /\ Has(loop[l].pending, f.op, f.conn)
      BY <2>1, <3>1, <3>2, TwiceInParts
    <3>4. Doubled(loop, f.op, f.conn, l)
      BY <3>3 DEF Doubled
    <3> QED
      BY <3>4 DEF f
  <2>2. ASSUME NEW op, op # "sendInLoop", NEW c, ~Late(c), NEW l \in Loop
        PROVE  ~Doubled(loop, op, c, l)
    <3>1. DOMAIN conns = 1..Len(conns)
      BY DEF ServerInv, Data, DataOK
    <3>2. Single(conns, op, c)
      BY <2>2, <3>1 DEF Single, LateIn, Late
    <3> QED
      BY <3>2 DEF Served, ServedOK
  <2> SUFFICES ASSUME NEW l \in Loop
               PROVE  LET q == loop[l].batch \o loop[l].pending
                      IN  \A i, j \in 1..Len(q) :
                            q[i] = q[j] /\ q[i].op # "sendInLoop" /\ ~Late(q[i].conn) => i = j
    BY DEF QueuedOnce
  <2> DEFINE q == loop[l].batch \o loop[l].pending
  <2> HIDE DEF q
  <2>3. ASSUME NEW i \in 1..Len(q), NEW j \in 1..Len(q), q[i] = q[j],
               q[i].op # "sendInLoop", ~Late(q[i].conn)
        PROVE  i = j
    <3>1. ~Doubled(loop, q[i].op, q[i].conn, l) /\ ~Doubled(loop, q[j].op, q[j].conn, l)
      BY <2>2, <2>3
    <3>2. ~(i < j) /\ ~(j < i)
      BY <2>1, <2>3, <3>1 DEF q
    <3> QED
      BY <3>2
  <2>4. \A i, j \in 1..Len(q) : q[i] = q[j] /\ q[i].op # "sendInLoop" /\ ~Late(q[i].conn) => i = j
    BY <2>3
  <2> QED
    BY <2>4 DEF q
<1> QED
  BY AlwaysServed, <1>1, PTL
==============================================================================
