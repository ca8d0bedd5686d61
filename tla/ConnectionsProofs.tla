--------------------------- MODULE ConnectionsProofs ---------------------------
(***************************************************************************)
(* TcpServer implements Connections.  A step of the server changes what    *)
(* has become of one connection at most, but for those it releases.        *)
(***************************************************************************)
EXTENDS TcpServerProofs

\* Loop l has connection c in a functor, executed or not.
Keeps(lp, l, c) ==
  c \in lp[l].kept \/ Carries(lp[l].pending, c) \/ Carries(lp[l].batch, c)

Kept(lp, mp, hd, c) == c \in mp \/ c \in hd \/ \E l \in Loop : Keeps(lp, l, c)

\* Whoever holds a connection in lp2 has it in lp.
NoMore(lp, lp2) ==
  \A l \in Loop, c \in Conn : Keeps(lp2, l, c) => Keeps(lp, l, c)

SameHolders(lp, lp2) ==
  \A l \in Loop, c \in Conn : Keeps(lp2, l, c) <=> Keeps(lp, l, c)

\* OpenFds is the set of the connections that exist.
LEMMA OpenIsKept ==
  ASSUME Data
  PROVE  /\ DOMAIN conns = 1..Len(conns) /\ OpenFds \subseteq 1..Len(conns)
         /\ \A c \in 1..Len(conns) : c \in OpenFds <=> Kept(loop, map, held, c)
BY DEF Data, DataOK, OpenFds, Exists, Kept, Keeps

LEMMA OpenIsKeptNext ==
  ASSUME Data'
  PROVE  /\ (DOMAIN conns)' = 1..Len(conns') /\ OpenFds' \subseteq 1..Len(conns')
         /\ \A c \in 1..Len(conns') : c \in OpenFds' <=> Kept(loop', map', held', c)
BY DEF Data, DataOK, OpenFds, Exists, Kept, Keeps

------------------------------------------------------------------------------
\* Who holds a connection after a step.

LEMMA QueueHolds ==
  ASSUME NEW lp \in [Loop -> LoopRecord], NEW m \in Loop, NEW f \in Functors
  PROVE  \A l \in Loop : \A c :
           Keeps(Queue(lp, m, f), l, c) <=> Keeps(lp, l, c) \/ (l = m /\ c \in Holds(f))
<1> DEFINE lp2 == Queue(lp, m, f)
           fs == lp[m].pending
<1>1. /\ OnlyLoop(lp, lp2, m) /\ lp2[m].pending = Append(fs, f)
      /\ lp2[m].batch = lp[m].batch /\ lp2[m].kept = lp[m].kept
  BY QueueTypes
<1>2. fs \in Seq(Functors)
  BY DEF LoopRecord
<1> HIDE DEF lp2, fs
<1>3. \A c : Carries(Append(fs, f), c) <=> Carries(fs, c) \/ c \in Holds(f)
  <2>1. /\ DOMAIN Append(fs, f) = 1..(Len(fs) + 1) /\ DOMAIN fs = 1..Len(fs)
        /\ Len(fs) \in Nat /\ Append(fs, f)[Len(fs) + 1] = f
        /\ \A i \in 1..Len(fs) : Append(fs, f)[i] = fs[i]
    BY <1>2
  <2>2. /\ (Len(fs) + 1) \in 1..(Len(fs) + 1)
        /\ \A i \in 1..(Len(fs) + 1) : i \in 1..Len(fs) \/ i = Len(fs) + 1
        /\ \A i \in 1..Len(fs) : i \in 1..(Len(fs) + 1)
    BY <2>1
  <2> SUFFICES ASSUME NEW c PROVE Carries(Append(fs, f), c) <=> Carries(fs, c) \/ c \in Holds(f)
    OBVIOUS
  <2>3. Carries(Append(fs, f), c) => Carries(fs, c) \/ c \in Holds(f)
    BY <2>1, <2>2 DEF Carries
  <2>4. Carries(fs, c) \/ c \in Holds(f) => Carries(Append(fs, f), c)
    BY <2>1, <2>2 DEF Carries
  <2>. QED  BY <2>3, <2>4
<1>4. \A c : Keeps(lp2, m, c) <=> Keeps(lp, m, c) \/ c \in Holds(f)
  BY <1>1, <1>3 DEF Keeps, fs
<1>5. \A l \in Loop : l # m => \A c : Keeps(lp2, l, c) <=> Keeps(lp, l, c)
  BY <1>1 DEF Keeps, OnlyLoop
<1>. QED  BY <1>4, <1>5 DEF lp2

\* A functor that has been executed is kept to the end of the batch.
LEMMA TakeHolds ==
  ASSUME NEW lp \in [Loop -> LoopRecord], NEW l \in Loop, NEW lp2, Takes(lp, lp2, l)
  PROVE  SameHolders(lp, lp2)
<1> DEFINE fs == lp[l].batch
<1>1. /\ OnlyLoop(lp, lp2, l) /\ fs # <<>> /\ fs \in Seq(Functors)
      /\ lp2[l].batch = Tail(fs) /\ lp2[l].pending = lp[l].pending
      /\ lp2[l].kept = lp[l].kept \cup Holds(Head(fs))
  BY DEF Takes, LoopRecord
<1> HIDE DEF fs
<1>2. \A c \in Conn : Carries(fs, c) <=> Carries(Tail(fs), c) \/ c \in Holds(Head(fs))
  <2>1. /\ Len(fs) \in Nat \ {0} /\ DOMAIN fs = 1..Len(fs) /\ Head(fs) = fs[1]
        /\ Len(Tail(fs)) = Len(fs) - 1 /\ DOMAIN Tail(fs) = 1..(Len(fs) - 1)
        /\ \A i \in 1..(Len(fs) - 1) : Tail(fs)[i] = fs[i + 1]
    BY <1>1
  <2> SUFFICES ASSUME NEW c PROVE Carries(fs, c) <=> Carries(Tail(fs), c) \/ c \in Holds(Head(fs))
    OBVIOUS
  <2>2. ASSUME Carries(fs, c) PROVE Carries(Tail(fs), c) \/ c \in Holds(Head(fs))
    <3>1. PICK i \in 1..Len(fs) : c \in Holds(fs[i])
      BY <2>1, <2>2 DEF Carries
    <3>2. CASE i = 1
      BY <2>1, <3>1, <3>2
    <3>3. CASE i # 1
      <4>1. i - 1 \in 1..(Len(fs) - 1) /\ (i - 1) + 1 = i
        BY <2>1, <3>3
      <4>2. c \in Holds(Tail(fs)[i - 1])
        BY <2>1, <3>1, <4>1
      <4>. QED  BY <2>1, <4>1, <4>2 DEF Carries
    <3>. QED  BY <3>2, <3>3
  <2>3. ASSUME Carries(Tail(fs), c) PROVE Carries(fs, c)
    <3>1. PICK i \in 1..(Len(fs) - 1) : c \in Holds(Tail(fs)[i])
      BY <2>1, <2>3 DEF Carries
    <3>2. i + 1 \in 1..Len(fs) /\ c \in Holds(fs[i + 1])
      BY <2>1, <3>1
    <3>. QED  BY <2>1, <3>2 DEF Carries
  <2>4. c \in Holds(Head(fs)) => Carries(fs, c)
    <3>1. 1 \in 1..Len(fs)
      BY <2>1
    <3>. QED  BY <2>1, <3>1 DEF Carries
  <2>. QED  BY <2>2, <2>3, <2>4
<1>3. \A c \in Conn : Keeps(lp2, l, c) <=> Keeps(lp, l, c)
  BY <1>1, <1>2 DEF Keeps, fs
<1>4. \A k \in Loop : k # l => \A c \in Conn : Keeps(lp2, k, c) <=> Keeps(lp, k, c)
  BY <1>1 DEF Keeps, OnlyLoop
<1>. QED  BY <1>3, <1>4 DEF SameHolders

\* A step of loop l that executes nothing drops functors at most.
LEMMA LoopHolds ==
  ASSUME Data, NEW l \in Loop,
         \/ EnterLoop(l) \/ TestQuit(l) \/ PollReturns(l) \/ PollTimeout(l)
         \/ DoPendingFunctors(l) \/ FunctorsDone(l) \/ DestroyLoop(l)
  PROVE  NoMore(loop, loop')
<1>1. loop \in [Loop -> LoopRecord] /\ loop[l] \in LoopRecord
  BY LoopTypes
<1>2. \A c : ~Carries(<<>>, c)
  BY DEF Carries
<1>3. /\ \A k \in Loop : k # l => loop'[k] = loop[k]
      /\ loop'[l].kept \subseteq loop[l].kept
      /\ \/ loop'[l].batch = loop[l].batch /\ loop'[l].pending = loop[l].pending
         \/ loop'[l].batch = loop[l].pending /\ loop'[l].pending = <<>>
         \/ loop'[l].batch = loop[l].batch /\ loop'[l].pending = <<>>
  <2>1. CASE EnterLoop(l)
    BY <1>1, <2>1 DEF EnterLoop, LoopRecord
  <2>2. CASE TestQuit(l)
    BY <1>1, <2>2 DEF TestQuit, LoopRecord
  <2>6. CASE PollReturns(l)
    BY <1>1, <2>6 DEF PollReturns, LoopRecord
  <2>7. CASE PollTimeout(l)
    BY <1>1, <2>7 DEF PollTimeout, LoopRecord
  <2>3. CASE DoPendingFunctors(l)
    BY <1>1, <2>3 DEF DoPendingFunctors, LoopRecord
  <2>4. CASE FunctorsDone(l)
    BY <1>1, <2>4 DEF FunctorsDone, LoopRecord
  <2>5. CASE DestroyLoop(l)
    BY <1>1, <2>5 DEF DestroyLoop, LoopRecord
  <2>. QED  BY <2>1, <2>2, <2>3, <2>4, <2>5, <2>6, <2>7
<1>4. \A c \in Conn : Keeps(loop', l, c) => Keeps(loop, l, c)
  BY <1>2, <1>3 DEF Keeps
<1>5. \A k \in Loop : k # l => \A c \in Conn : Keeps(loop', k, c) => Keeps(loop, k, c)
  BY <1>3 DEF Keeps
<1>. QED  BY <1>4, <1>5 DEF NoMore

------------------------------------------------------------------------------
\* How a step shows in Connections.

\* The callbacks of a connection are in turn.
UpDown(r) == r.up \in 0..1 /\ r.down \in Nat /\ (r.down # 0 => r.up = 1)

LEMMA ConnUpDown ==
  ASSUME NEW r, ConnOK(r)
  PROVE  UpDown(r)
<1>1. r.up \in 0..1 /\ r.down \in Nat /\ r.state \in States
  BY DEF ConnOK, ConnRecord
<1>. QED  BY <1>1 DEF ConnOK, UpDown, States

Phases == [c \in Conn |-> Phase(c)]
Tolds == [c \in Conn |-> IF c \in DOMAIN conns THEN conns[c].down ELSE 0]
Lates == {c \in Conn : Late(c)}
Serves == server = "alive"

PhaseOf(cs, open, c) ==
  IF c \notin 1..Len(cs) THEN "none" ELSE IF c \notin open THEN "gone"
  ELSE IF cs[c].down # 0 THEN "down" ELSE IF cs[c].up = 1 THEN "up" ELSE "accepted"

ToldOf(cs, c) == IF c \in 1..Len(cs) THEN cs[c].down ELSE 0

LEMMA PhaseIs ==
  ASSUME Data, Data'
  PROVE  /\ Phases = [c \in Conn |-> PhaseOf(conns, OpenFds, c)]
         /\ Phases' = [c \in Conn |-> PhaseOf(conns', OpenFds', c)]
         /\ Tolds = [c \in Conn |-> ToldOf(conns, c)]
         /\ Tolds' = [c \in Conn |-> ToldOf(conns', c)]
         /\ Lates = {c \in Conn : LateIn(conns, c)}
         /\ Lates' = {c \in Conn : LateIn(conns', c)}
<1>1. DOMAIN conns = 1..Len(conns) /\ (DOMAIN conns)' = 1..Len(conns')
  BY OpenIsKept, OpenIsKeptNext
<1>2. \A c \in 1..Len(conns) : UpDown(conns[c])
  BY ConnUpDown, ConnTypes DEF Data
<1>3. \A c \in 1..Len(conns') : UpDown(conns'[c])
  BY ConnUpDown, ConnTypes DEF Data
<1>4. \A c \in Conn : Phase(c) = PhaseOf(conns, OpenFds, c)
  BY <1>1, <1>2 DEF Phase, PhaseOf, UpDown, OpenFds
<1>5. ASSUME NEW c \in Conn PROVE Phase(c)' = PhaseOf(conns', OpenFds', c)
  BY <1>1, <1>3 DEF Phase, PhaseOf, UpDown, OpenFds
<1>6. Phases = [c \in Conn |-> PhaseOf(conns, OpenFds, c)]
  BY <1>4 DEF Phases
<1>7. Phases' = [c \in Conn |-> PhaseOf(conns', OpenFds', c)]
  BY <1>5 DEF Phases
<1>8. /\ Tolds = [c \in Conn |-> ToldOf(conns, c)]
      /\ Tolds' = [c \in Conn |-> ToldOf(conns', c)]
  BY <1>1 DEF Tolds, ToldOf
<1>9. /\ Lates = {c \in Conn : LateIn(conns, c)}
      /\ Lates' = {c \in Conn : LateIn(conns', c)}
  BY <1>1 DEF Lates, Late, LateIn
<1>. QED  BY <1>6, <1>7, <1>8, <1>9

\* No callback is made and no send() is late.
SameCalls ==
  /\ Len(conns') = Len(conns)
  /\ \A d \in 1..Len(conns) : /\ conns'[d].up = conns[d].up /\ conns'[d].down = conns[d].down
                              /\ conns'[d].late = conns[d].late

\* Some connections may go.
LEMMA StepReleases ==
  ASSUME ServerInv, Data', UNCHANGED Serves, SameCalls, OpenFds' \subseteq OpenFds
  PROVE  C!Release
<1>1. /\ Phases = [c \in Conn |-> PhaseOf(conns, OpenFds, c)]
      /\ Phases' = [c \in Conn |-> PhaseOf(conns', OpenFds', c)]
  BY PhaseIs DEF ServerInv
<1>2. \A c \in Conn : Phases'[c] # "gone" => Phases'[c] = Phases[c]
  BY <1>1, OpenIsKeptNext DEF PhaseOf, SameCalls
<1>3. ASSUME NEW c \in Conn, Phases'[c] = "gone", Phases[c] # "gone"
      PROVE  Phases[c] = "down" \/ (~Serves /\ Phases[c] \in {"accepted", "up"})
  <2>1. c \in 1..Len(conns) /\ c \in OpenFds /\ c \notin OpenFds'
    BY <1>1, <1>3 DEF PhaseOf, SameCalls
  <2>2. Phases[c] \in {"accepted", "up", "down"}
    BY <1>1, <2>1 DEF PhaseOf
  <2>3. Serves => conns'[c].down # 0
    <3>1. c \notin map'
      BY <2>1, OpenIsKeptNext DEF Kept, SameCalls
    <3>2. OwnedOK(loop', conns', map', server' = "alive")
      BY DEF Data, DataOK
    <3>. QED  BY <2>1, <3>1, <3>2 DEF OwnedOK, Serves, SameCalls
  <2>4. Serves => Phases[c] = "down"
    BY <1>1, <2>1, <2>3 DEF PhaseOf, SameCalls
  <2>. QED  BY <2>2, <2>4
<1>4. \E S \in SUBSET {c \in Conn : Phases[c] = "down" \/ (~Serves /\ Phases[c] \in {"accepted", "up"})} :
        Phases' = [c \in Conn |-> IF c \in S THEN "gone" ELSE Phases[c]]
  <2> DEFINE T == {c \in Conn : Phases'[c] = "gone" /\ Phases[c] # "gone"}
  <2>1. T \in SUBSET {c \in Conn : Phases[c] = "down" \/ (~Serves /\ Phases[c] \in {"accepted", "up"})}
    BY <1>3
  <2>2. Phases' = [c \in Conn |-> IF c \in T THEN "gone" ELSE Phases[c]]
    BY <1>1, <1>2
  <2>. QED  BY <2>1, <2>2
<1>5. UNCHANGED <<Tolds, Lates>>
  <2>1. \A c \in Conn : ToldOf(conns', c) = ToldOf(conns, c) /\ (LateIn(conns', c) <=> LateIn(conns, c))
    BY DEF ToldOf, LateIn, SameCalls
  <2>. QED  BY <2>1, PhaseIs DEF ServerInv
<1>. QED  BY <1>4, <1>5 DEF C!Release, C!MayGo, C!Conn, Conn, Phases, Tolds, Lates, Serves

\* A callback of one connection, or a late send() to it, leaves the others.
LEMMA StepOne ==
  ASSUME ServerInv, Data', NEW c \in OpenFds, Changed(conns, conns', c),
         OpenFds' = OpenFds \/ OpenFds' = OpenFds \ {c}
  PROVE  /\ c \in Conn /\ c \in 1..Len(conns) /\ UpDown(conns[c])
         /\ \E p : Phases' = [Phases EXCEPT ![c] = p]
         /\ Tolds' = [Tolds EXCEPT ![c] = conns'[c].down]
         /\ Phases[c] = PhaseOf(conns, OpenFds, c)
         /\ Phases'[c] = PhaseOf(conns', OpenFds', c)
         /\ Tolds[c] = conns[c].down
         /\ conns'[c].late = conns[c].late => Lates' = Lates
         /\ conns'[c].late => Lates' = Lates \cup {c}
<1>1. Data /\ c \in 1..Len(conns) /\ c \in Conn /\ OpenFds \subseteq 1..Len(conns)
      /\ UpDown(conns[c])
  BY OpenIsKept, ConnTypes, ConnUpDown DEF ServerInv, Data
<1>2. /\ Phases = [d \in Conn |-> PhaseOf(conns, OpenFds, d)]
      /\ Phases' = [d \in Conn |-> PhaseOf(conns', OpenFds', d)]
      /\ Tolds = [d \in Conn |-> ToldOf(conns, d)]
      /\ Tolds' = [d \in Conn |-> ToldOf(conns', d)]
      /\ Lates = {d \in Conn : LateIn(conns, d)}
      /\ Lates' = {d \in Conn : LateIn(conns', d)}
  BY <1>1, PhaseIs
<1>3. \A d \in Conn : d # c => /\ PhaseOf(conns', OpenFds', d) = PhaseOf(conns, OpenFds, d)
                               /\ ToldOf(conns', d) = ToldOf(conns, d)
                               /\ LateIn(conns', d) <=> LateIn(conns, d)
  BY <1>1 DEF PhaseOf, ToldOf, LateIn, Changed
<1>4. /\ ToldOf(conns, c) = conns[c].down /\ ToldOf(conns', c) = conns'[c].down
      /\ LateIn(conns, c) <=> conns[c].late
      /\ LateIn(conns', c) <=> conns'[c].late
  BY <1>1 DEF ToldOf, LateIn, Changed
<1>5. \E p : Phases' = [Phases EXCEPT ![c] = p]
  <2>1. Phases' = [Phases EXCEPT ![c] = PhaseOf(conns', OpenFds', c)]
    BY <1>1, <1>2, <1>3
  <2>. QED  BY <2>1
<1>6. Tolds' = [Tolds EXCEPT ![c] = conns'[c].down]
  BY <1>1, <1>2, <1>3, <1>4
<1>7. (conns'[c].late = conns[c].late => Lates' = Lates) /\ (conns'[c].late => Lates' = Lates \cup {c})
  BY <1>1, <1>2, <1>3, <1>4
<1>. QED  BY <1>1, <1>2, <1>4, <1>5, <1>6, <1>7

\* The user is told that a connection is up, or down: once, if no send() was late.
LEMMA StepCalls ==
  ASSUME ServerInv, Data', UNCHANGED Serves, NEW c \in OpenFds,
         Changed(conns, conns', c), conns'[c].late = conns[c].late, conns'[c].up = 1,
         OpenFds' = OpenFds \/ (~Serves /\ OpenFds' = OpenFds \ {c}),
         \/ conns[c].up = 0 /\ conns'[c].down = 0 /\ OpenFds' = OpenFds
         \/ /\ conns[c].up = 1 /\ conns'[c].down = conns[c].down + 1
            /\ conns[c].down # 0 => conns[c].late
  PROVE  C!Up(c) \/ C!Down(c)
<1>1. /\ c \in Conn /\ c \in 1..Len(conns) /\ UpDown(conns[c])
      /\ Phases[c] = PhaseOf(conns, OpenFds, c)
      /\ Phases'[c] = PhaseOf(conns', OpenFds', c)
      /\ Tolds' = [Tolds EXCEPT ![c] = conns'[c].down]
      /\ Tolds[c] = conns[c].down /\ Lates' = Lates
  BY StepOne
<1>2. PICK p : Phases' = [Phases EXCEPT ![c] = p]
  BY StepOne
<1>3. Phases \in [Conn -> {Phases[d] : d \in Conn}] /\ Phases'[c] = p
  BY <1>1, <1>2 DEF Phases
<1>4. Len(conns') = Len(conns)
  BY DEF Changed
<1>5. CASE conns[c].up = 0
  <2>1. conns[c].down = 0 /\ Tolds' = Tolds
    <3>1. conns[c].down = 0 /\ conns'[c].down = 0
      BY <1>1, <1>5 DEF UpDown
    <3>2. Tolds = [d \in Conn |-> Tolds[d]]
      BY DEF Tolds
    <3>. QED  BY <1>1, <3>1, <3>2
  <2>2. Phases[c] = "accepted" /\ p = "up"
    BY <1>1, <1>3, <1>4, <1>5, <2>1 DEF PhaseOf
  <2>. QED  BY <1>1, <1>2, <2>1, <2>2 DEF C!Up, C!Becomes, Phases, Tolds, Lates, Serves
<1>6. CASE conns[c].up = 1 /\ conns'[c].down = conns[c].down + 1 /\ (conns[c].down # 0 => conns[c].late)
  <2>1. conns'[c].down # 0 /\ Tolds' = [Tolds EXCEPT ![c] = @ + 1]
    BY <1>1, <1>6 DEF UpDown
  <2>2. Phases[c] = "up" \/ (Phases[c] = "down" /\ c \in Lates)
    <3>1. conns[c].late => c \in Lates
      BY <1>1, PhaseIs DEF ServerInv, LateIn
    <3>. QED  BY <1>1, <1>6, <3>1 DEF PhaseOf
  <2>3. p = "down" \/ (~Serves /\ p = "gone")
    BY <1>1, <1>3, <1>4, <2>1 DEF PhaseOf
  <2>. QED  BY <1>1, <1>2, <2>1, <2>2, <2>3 DEF C!Down, C!Becomes, Phases, Tolds, Lates, Serves
<1>. QED  BY <1>5, <1>6

\* A send() is executed when the connection has been closed.
LEMMA StepLate ==
  ASSUME ServerInv, Data', UNCHANGED Serves, NEW c \in OpenFds,
         Changed(conns, conns', c), conns'[c].late, conns[c].up = 1, conns'[c].up = 1,
         conns'[c].down = conns[c].down, OpenFds' = OpenFds, Serves => conns[c].down # 0
  PROVE  C!SendsLate(c)
<1>1. /\ c \in Conn /\ c \in 1..Len(conns) /\ UpDown(conns[c])
      /\ Phases[c] = PhaseOf(conns, OpenFds, c)
      /\ Phases'[c] = PhaseOf(conns', OpenFds', c)
      /\ Tolds' = [Tolds EXCEPT ![c] = conns'[c].down]
      /\ Tolds[c] = conns[c].down /\ Lates' = Lates \cup {c}
  BY StepOne
<1>2. PICK p : Phases' = [Phases EXCEPT ![c] = p]
  BY StepOne
<1>3. Phases'[c] = Phases[c] /\ (Phases[c] = "down" \/ (Phases[c] = "up" /\ ~Serves))
  BY <1>1 DEF PhaseOf, Changed
<1>4. Phases' = Phases /\ Tolds' = Tolds
  BY <1>1, <1>2, <1>3 DEF Phases, Tolds
<1>. QED  BY <1>1, <1>3, <1>4 DEF C!SendsLate, Phases, Tolds, Lates, Serves

\* A connection is made.
LEMMA StepAccepts ==
  ASSUME ServerInv, Data', Serves, UNCHANGED Serves,
         NEW e, e = Len(conns) + 1, Len(conns') = e,
         \A d \in 1..Len(conns) : conns'[d] = conns[d],
         OpenFds' = OpenFds \cup {e}, conns'[e].down = 0, ~conns'[e].late
  PROVE  C!Accept(e)
<1>1. /\ Phases = [d \in Conn |-> PhaseOf(conns, OpenFds, d)]
      /\ Phases' = [d \in Conn |-> PhaseOf(conns', OpenFds', d)]
  BY PhaseIs DEF ServerInv
<1>2. /\ Data /\ OpenFds \subseteq 1..Len(conns) /\ Len(conns) \in Nat
  BY OpenIsKept DEF ServerInv, Data, DataOK
<1>3. e \in Conn /\ e \in 1..Len(conns') /\ UpDown(conns'[e])
  <2>1. e \in 1..Len(conns')
    BY <1>2
  <2>. QED  BY <2>1, ConnTypes, ConnUpDown DEF Data
<1>4. \A d \in Conn : d # e => PhaseOf(conns', OpenFds', d) = PhaseOf(conns, OpenFds, d)
  <2>1. \A d \in Conn : d # e => (d \in 1..Len(conns') <=> d \in 1..Len(conns))
    BY <1>2 DEF Conn
  <2>. QED  BY <1>2, <2>1 DEF PhaseOf
<1>5. /\ PhaseOf(conns, OpenFds, e) = "none"
      /\ PhaseOf(conns', OpenFds', e) \in {"accepted", "up"}
  <2>1. e \notin 1..Len(conns)
    BY <1>2
  <2>. QED  BY <1>3, <2>1 DEF PhaseOf, UpDown
<1>6. \A d \in 1..(e - 1) : d \in Conn /\ PhaseOf(conns, OpenFds, d) # "none"
  <2> SUFFICES ASSUME NEW d \in 1..(e - 1)
               PROVE  d \in Conn /\ PhaseOf(conns, OpenFds, d) # "none"
    OBVIOUS
  <2>1. d \in 1..Len(conns)
    BY <1>2
  <2>2. d \in Conn
    BY <1>2, <2>1, ConnTypes DEF Data
  <2>. QED  BY <2>1, <2>2 DEF PhaseOf
<1>7. /\ Phases[e] = "none" /\ \A d \in 1..(e - 1) : Phases[d] # "none"
      /\ \E p \in {"accepted", "up"} : Phases' = [Phases EXCEPT ![e] = p]
  BY <1>1, <1>3, <1>4, <1>5, <1>6
<1>8. UNCHANGED <<Tolds, Lates>>
  <2>1. \A d \in Conn : /\ d \in 1..Len(conns) => d \in 1..Len(conns')
                        /\ d \in 1..Len(conns') => d \in 1..Len(conns) \/ d = e
    BY <1>2
  <2>2. e \notin 1..Len(conns)
    BY <1>2
  <2>3. \A d \in Conn : /\ ToldOf(conns', d) = ToldOf(conns, d)
                        /\ LateIn(conns', d) <=> LateIn(conns, d)
    BY <1>3, <2>1, <2>2 DEF ToldOf, LateIn
  <2>. QED  BY <1>2, <2>3, PhaseIs
<1>. QED  BY <1>7, <1>8 DEF C!Accept, C!Becomes, Phases, Tolds, Lates, Serves

\* The set of connections that exist, from who holds them.
LEMMA OpenFewer ==
  ASSUME Data, Data', Len(conns') = Len(conns), map' \subseteq map, held' \subseteq held,
         NoMore(loop, loop')
  PROVE  OpenFds' \subseteq OpenFds
<1>1. \A c \in 1..Len(conns) : c \in Conn
  BY ConnTypes DEF Data
<1>2. \A c \in 1..Len(conns) : Kept(loop', map', held', c) => Kept(loop, map, held, c)
  BY <1>1 DEF Kept, NoMore
<1>. QED  BY <1>2, OpenIsKept, OpenIsKeptNext

LEMMA OpenSame ==
  ASSUME Data, Data', Len(conns') = Len(conns), NEW c \in OpenFds, c \in OpenFds',
         map' \cup {c} = map \cup {c}, held' \cup {c} = held \cup {c},
         \A l \in Loop, d \in Conn : d # c => (Keeps(loop', l, d) <=> Keeps(loop, l, d))
  PROVE  OpenFds' = OpenFds
<1>1. \A d \in 1..Len(conns) : d \in Conn
  BY ConnTypes DEF Data
<1>2. \A d \in 1..Len(conns) : d # c =>
        (Kept(loop', map', held', d) <=> Kept(loop, map, held, d))
  <2>1. \A d : d # c => (d \in map' <=> d \in map) /\ (d \in held' <=> d \in held)
    OBVIOUS
  <2>. QED  BY <1>1, <2>1 DEF Kept
<1>. QED  BY <1>2, OpenIsKept, OpenIsKeptNext

------------------------------------------------------------------------------
\* The steps of the server.

\* Nobody gets a connection that he had not.
LEMMA StepDrops ==
  ASSUME ServerInv, Data', UNCHANGED Serves, SameCalls, map' \subseteq map, held' \subseteq held,
         NoMore(loop, loop')
  PROVE  C!Release
<1>1. Data /\ OpenFds' \subseteq OpenFds
  BY OpenFewer DEF ServerInv, SameCalls
<1>. QED  BY <1>1, StepReleases

\* The steps that run neither a handler nor a functor, nor the destructor's body.
LEMMA RestStep ==
  ASSUME ServerInv, Data',
         \/ \E t \in Starter : StartCounts(t) \/ StartStep(t)
         \/ \E l \in Loop : \/ EnterLoop(l) \/ TestQuit(l) \/ PollReturns(l) \/ PollTimeout(l)
                           \/ DoPendingFunctors(l) \/ FunctorsDone(l) \/ DestroyLoop(l)
         \/ DropThreads \/ QuitThread \/ JoinThread \/ ServerDestroyed
         \/ \E c \in Conn : \/ UserReleases(c) \/ UserShutsDown(c) \/ UserSends(c)
                           \/ SendQueues(c) \/ PeerCloses(c)
         \/ QuitBase \/ ClientConnects \/ UNCHANGED vars
  PROVE  C!Release
<1>1. /\ Data /\ ControlType /\ PoolOK /\ loop \in [Loop -> LoopRecord]
      /\ conns \in Seq(ConnRecord)
      /\ \A c \in 1..Len(conns) : c \in Conn /\ conns[c] \in ConnRecord
  BY LoopTypes, ConnTypes DEF ServerInv, Data, DataOK
<1>2. ASSUME UNCHANGED <<conns, map, Serves>>, held' \subseteq held, NoMore(loop, loop')
      PROVE  C!Release
  BY <1>2, StepDrops DEF SameCalls
<1>3. NoMore(loop, loop)
  BY DEF NoMore
<1>4. ASSUME NEW l \in Loop,
             \/ loop' = [loop EXCEPT ![l].quit = TRUE]
             \/ loop' = [loop EXCEPT ![l].pc = "enter"]
             \/ \E f \in Functors : loop' = Queue(loop, l, f) /\ Holds(f) = {}
      PROVE  NoMore(loop, loop')
  <2>1. ASSUME NEW f \in Functors, loop' = Queue(loop, l, f), Holds(f) = {}
        PROVE  NoMore(loop, loop')
    <3>1. \A k \in Loop : \A c \in Conn : Keeps(Queue(loop, l, f), k, c) => Keeps(loop, k, c)
      BY <1>1, <2>1, QueueHolds
    <3>. QED  BY <2>1, <3>1 DEF NoMore
  <2>2. ASSUME \/ loop' = [loop EXCEPT ![l].quit = TRUE]
               \/ loop' = [loop EXCEPT ![l].pc = "enter"]
        PROVE  NoMore(loop, loop')
    <3>1. \A k \in Loop : /\ loop'[k].kept = loop[k].kept /\ loop'[k].batch = loop[k].batch
                          /\ loop'[k].pending = loop[k].pending
      <4>1. loop[l] \in LoopRecord
        BY <1>1
      <4>2. CASE loop' = [loop EXCEPT ![l].quit = TRUE]
        BY <1>1, <4>1, <4>2 DEF LoopRecord
      <4>3. CASE loop' = [loop EXCEPT ![l].pc = "enter"]
        BY <1>1, <4>1, <4>3 DEF LoopRecord
      <4>. QED  BY <2>2, <4>2, <4>3
    <3>. QED  BY <3>1 DEF NoMore, Keeps
  <2>. QED  BY <1>4, <2>1, <2>2
<1>5. ASSUME NEW t \in Starter, StartCounts(t) \/ StartStep(t)
      PROVE  C!Release
  <2>1. UNCHANGED <<conns, map, held, Serves>>
    BY <1>5 DEF StartCounts, StartStep, StartThread, StartListening, Serves
  <2>2. CASE StartThread(t)
    <3>1. Len(loops) + 1 \in Loop
      BY <1>1, <2>2, PoolLoops DEF StartThread
    <3>2. NoMore(loop, loop')
      BY <1>4, <2>2, <3>1 DEF StartThread
    <3>. QED  BY <1>2, <2>1, <3>2
  <2>3. CASE StartListening(t)
    <3>1. loop' = loop \/ loop' = Queue(loop, Base, Functor("listen", 0))
      BY <2>3 DEF StartListening
    <3>2. Functor("listen", 0) \in Functors /\ Holds(Functor("listen", 0)) = {}
      BY DEF Functors, Functor, Holds
    <3>3. NoMore(loop, loop')
      BY <1>1, <1>3, <1>4, <3>1, <3>2, PoolLoops
    <3>. QED  BY <1>2, <2>1, <3>3
  <2>4. CASE StartCounts(t)
    BY <1>2, <1>3, <2>1, <2>4 DEF StartCounts
  <2>. QED  BY <1>5, <2>2, <2>3, <2>4 DEF StartStep
<1>6. ASSUME NEW l \in Loop,
             \/ EnterLoop(l) \/ TestQuit(l) \/ PollReturns(l) \/ PollTimeout(l)
             \/ DoPendingFunctors(l) \/ FunctorsDone(l) \/ DestroyLoop(l)
      PROVE  C!Release
  <2>1. Quiet
    <3>1. EnterLoop(l) \/ TestQuit(l) => Quiet
      BY DEF EnterLoop, TestQuit
    <3>2. (PollReturns(l) => Quiet) /\ (PollTimeout(l) => Quiet)
      BY Zenon DEF PollReturns, PollTimeout
    <3>3. DoPendingFunctors(l) \/ FunctorsDone(l) \/ DestroyLoop(l) => Quiet
      BY DEF DoPendingFunctors, FunctorsDone, DestroyLoop
    <3>. QED  BY <1>6, <3>1, <3>2, <3>3
  <2>2. UNCHANGED <<conns, map, held, Serves>>
    BY <2>1 DEF Quiet, Serves
  <2>. QED  BY <1>1, <1>2, <1>6, <2>2, LoopHolds
<1>7. CASE DropThreads \/ QuitThread \/ JoinThread \/ ServerDestroyed
  <2>1. UNCHANGED <<conns, map, held, Serves>>
    BY <1>7 DEF DropThreads, QuitThread, JoinThread, ServerDestroyed, Serves
  <2>2. NoMore(loop, loop')
    <3>1. CASE QuitThread
      <4>1. cur \in 1..Len(loops)
        BY <1>1, <3>1 DEF QuitThread, ControlType
      <4>. QED  BY <1>1, <1>4, <3>1, <4>1, PoolLoops DEF QuitThread
    <3>2. CASE DropThreads \/ JoinThread \/ ServerDestroyed
      BY <1>3, <3>2 DEF DropThreads, JoinThread, ServerDestroyed
    <3>. QED  BY <1>7, <3>1, <3>2
  <2>. QED  BY <1>2, <2>1, <2>2
<1>8. ASSUME NEW c \in Conn,
             \/ UserReleases(c) \/ UserShutsDown(c) \/ UserSends(c) \/ SendQueues(c) \/ PeerCloses(c)
      PROVE  C!Release
  <2>1. UNCHANGED <<map, Serves>> /\ held' \subseteq held
    BY <1>8 DEF UserReleases, UserShutsDown, UserSends, SendQueues, PeerCloses, Serves
  <2>2. SameCalls
    <3>1. CASE UserReleases(c)
      BY <1>1, <3>1 DEF UserReleases, SameCalls
    <3>2. CASE UserShutsDown(c)
      BY <1>1, <3>2 DEF UserShutsDown, SameCalls, ConnRecord
    <3>3. CASE UserSends(c)
      BY <1>1, <3>3 DEF UserSends, SameCalls, ConnRecord
    <3>4. CASE SendQueues(c)
      BY <1>1, <3>4 DEF SendQueues, SameCalls, ConnRecord
    <3>5. CASE PeerCloses(c)
      BY <1>1, <3>5 DEF PeerCloses, SameCalls, ConnRecord
    <3>. QED  BY <1>8, <3>1, <3>2, <3>3, <3>4, <3>5
  <2>3. NoMore(loop, loop')
    <3>1. CASE SendQueues(c)
      <4>1. c \in 1..Len(conns) /\ conns[c].loop \in Loop
        BY <1>1, <3>1 DEF SendQueues, ConnRecord
      <4>2. Functor("sendInLoop", c) \in Functors /\ Holds(Functor("sendInLoop", c)) = {}
        BY DEF Functors, Functor, Holds
      <4>3. loop' = loop \/ loop' = Queue(loop, conns[c].loop, Functor("sendInLoop", c))
        BY <3>1 DEF SendQueues
      <4>. QED  BY <1>3, <1>4, <4>1, <4>2, <4>3
    <3>2. CASE loop' = loop
      BY <1>3, <3>2
    <3>. QED  BY <1>8, <3>1, <3>2 DEF UserReleases, UserShutsDown, UserSends, PeerCloses
  <2>. QED  BY <2>1, <2>2, <2>3, StepDrops
<1>9. CASE QuitBase
  BY <1>1, <1>2, <1>4, <1>9, PoolLoops DEF QuitBase, Quiet, Serves
<1>10. CASE ClientConnects \/ UNCHANGED vars
  BY <1>2, <1>3, <1>10 DEF ClientConnects, vars, Serves
<1>. QED  BY <1>5, <1>6, <1>7, <1>8, <1>9, <1>10

\* connectDestroyed says that a connection is down, if it was connected.
LEMMA DestroyedCalls ==
  ASSUME NEW cs \in Seq(ConnRecord), NEW c \in 1..Len(cs), ConnOK(cs[c]), cs[c].up = 1
  PROVE  /\ Changed(cs, Destroyed(cs, c), c) /\ Destroyed(cs, c)[c].up = 1
         /\ Destroyed(cs, c)[c].late = cs[c].late
         /\ \/ Destroyed(cs, c)[c].down = cs[c].down
            \/ cs[c].down = 0 /\ Destroyed(cs, c)[c].down = cs[c].down + 1
<1>1. /\ Changed(cs, Destroyed(cs, c), c) /\ Destroyed(cs, c)[c].up = 1
      /\ Destroyed(cs, c)[c].late = cs[c].late
  BY DestroyedOK
<1>2. cs[c] \in ConnRecord
  OBVIOUS
<1>3. CASE cs[c].state = "kConnected"
  <2> DEFINE ds == Closed(cs, c)
  <2>1. cs[c].chan.registered /\ cs[c].down = 0
    BY <1>3 DEF ConnOK, Watched
  <2>2. ds \in Seq(ConnRecord) /\ c \in 1..Len(ds) /\ ds[c].down = cs[c].down + 1
    BY <2>1, ClosedOK DEF Changed
  <2>3. Destroyed(cs, c) = [ds EXCEPT ![c].chan = RemoveChannel(@)]
    BY <1>3 DEF Destroyed
  <2> HIDE DEF ds
  <2>4. Destroyed(cs, c)[c].down = ds[c].down
    BY <2>2, <2>3 DEF ConnRecord
  <2>. QED  BY <1>1, <2>1, <2>2, <2>4
<1>4. CASE cs[c].state # "kConnected"
  <2>1. Destroyed(cs, c) = [cs EXCEPT ![c].chan = RemoveChannel(@)]
    BY <1>4 DEF Destroyed
  <2>. QED  BY <1>1, <1>2, <2>1 DEF ConnRecord
<1>. QED  BY <1>3, <1>4

\* A connection in connctions_ that is up is heard, as long as the server serves.
LEMMA UnheardIsDown ==
  ASSUME ServerInv, Served, NEW c \in 1..Len(conns), conns[c].up = 1, Serves,
         ~Watched(conns[c])
  PROVE  conns[c].down # 0
<1>1. Data /\ Base \in Loop
  BY PoolLoops DEF ServerInv
<1>2. CASE c \in map
  <2>1. Queued(loop, "removeConnectionInLoop", c, Base)
    BY <1>2 DEF Served, ServedOK
  <2>. QED  BY <1>1, <2>1 DEF Data, DataOK, QueuesOK
<1>3. CASE c \notin map
  BY <1>1, <1>3 DEF Data, DataOK, OwnedOK, Serves
<1>. QED  BY <1>2, <1>3

\* doPendingFunctors executes a functor.
LEMMA FunctorStep ==
  ASSUME ServerInv, Served, Data', NEW l \in Loop, RunFunctor(l)
  PROVE  [C!Next]_C!vars
<1> DEFINE f == Head(loop[l].batch)
           lp == Done(l)
<1>0. PICK c : c = f.conn
  OBVIOUS
<1>1. /\ Data /\ loop[l].pc = "run" /\ loop[l].batch # <<>> /\ UNCHANGED Serves
      /\ loop \in [Loop -> LoopRecord] /\ conns \in Seq(ConnRecord)
  BY LoopTypes DEF ServerInv, RunFunctor, Serves, Data, DataOK
<1>2. Execute(f, lp)
  BY FunctorRuns
<1>3. Takes(loop, lp, l)
  BY <1>1, DoneTakes
<1> HIDE DEF lp
<1>4. SameHolders(loop, lp) /\ TakeFacts(loop, lp, l, f)
  BY <1>1, <1>3, TakeHolds, TakeTypes
<1>5. f.op \in Ops =>
        /\ c \in 1..Len(conns) /\ c \in Conn /\ ConnOK(conns[c]) /\ conns[c].loop \in Loop
        /\ f.op = "connectDestroyed" => conns[c].up = 1
        /\ f.op = "connectEstablished" => conns[c].up = 0
        /\ f.op = "sendInLoop" => conns[c].up = 1
  BY <1>0, <1>1, DestroyedIsUp, ConnTypes DEF Data
<1> HIDE DEF f
<1>6. c # 0 /\ c \in Conn /\ f.op # "sendInLoop" => Keeps(lp, l, c)
  BY <1>0, <1>3 DEF Takes, Keeps, Holds, f
<1>7. \A d \in Conn : d # 0
  BY TcpServerAssumption DEF Conn
<1>8. CASE f.op = "listen"
  <2>1. UNCHANGED <<conns, map, held>> /\ loop' = lp
    BY <1>2, <1>8 DEF Execute, ListenFunctor
  <2>. QED  BY <1>1, <1>4, <2>1, StepDrops DEF SameCalls, SameHolders, NoMore, C!Next
<1>9. CASE f.op \in {"connectEstablished", "connectDestroyed"}
  <2>1. /\ loop' = lp /\ map' = map /\ held' \cup {c} = held \cup {c}
        /\ f.op = "connectEstablished" => conns' = Established(conns, c)
        /\ f.op = "connectDestroyed" => conns' = Destroyed(conns, c)
    BY <1>0, <1>2, <1>9 DEF Execute, UserMayKeep
  <2>2. /\ c \in 1..Len(conns) /\ c \in Conn /\ ConnOK(conns[c])
        /\ f.op = "connectDestroyed" => conns[c].up = 1
        /\ f.op = "connectEstablished" => conns[c].up = 0
    BY <1>5, <1>9 DEF Ops
  <2>3. /\ Changed(conns, conns', c) /\ conns'[c].late = conns[c].late /\ conns'[c].up = 1
        /\ \/ conns[c].up = 0 /\ conns'[c].down = 0
           \/ conns[c].up = 1 /\ conns'[c].down = conns[c].down
           \/ conns[c].up = 1 /\ conns[c].down = 0 /\ conns'[c].down = conns[c].down + 1
    <3>1. CASE f.op = "connectEstablished"
      <4>1. conns[c].up = 0 /\ conns[c].down = 0 /\ conns[c].chan = NewChannel /\ ~conns[c].late
            /\ conns[c].late \in BOOLEAN
        BY <2>2, <3>1 DEF ConnOK, ConnRecord, States
      <4>2. /\ Changed(conns, conns', c) /\ conns'[c].up = 1 /\ conns'[c].down = 0
            /\ ~conns'[c].late /\ conns'[c].late \in BOOLEAN
        <5>1. /\ Changed(conns, conns', c) /\ conns'[c].up = 1 /\ conns'[c].down = 0
              /\ ~conns'[c].late
          BY <1>1, <2>1, <2>2, <3>1, <4>1, EstablishedOK
        <5>. QED  BY <5>1 DEF Changed, ConnOK, ConnRecord
      <4>. QED  BY <4>1, <4>2
    <3>2. CASE f.op = "connectDestroyed"
      BY <1>1, <2>1, <2>2, <3>2, DestroyedCalls
    <3>. QED  BY <1>9, <3>1, <3>2
  <2>4. Len(conns') = Len(conns)
    BY <2>3 DEF Changed
  <2>5. Keeps(loop, l, c) /\ Keeps(loop', l, c)
    BY <1>4, <1>6, <1>7, <1>9, <2>1, <2>2 DEF SameHolders
  <2>6. c \in OpenFds /\ c \in OpenFds'
    BY <1>1, <2>2, <2>4, <2>5, OpenIsKept, OpenIsKeptNext DEF Kept
  <2>7. OpenFds' = OpenFds
    <3>1. \A k \in Loop, d \in Conn : Keeps(loop', k, d) <=> Keeps(loop, k, d)
      BY <1>4, <2>1 DEF SameHolders
    <3>. QED  BY <1>1, <2>1, <2>4, <2>6, <3>1, OpenSame
  <2>8. CASE conns'[c].up = conns[c].up /\ conns'[c].down = conns[c].down
    <3>1. SameCalls
      BY <2>3, <2>4, <2>8 DEF SameCalls, Changed
    <3>2. C!Release
      BY <1>1, <2>7, <3>1, StepReleases
    <3>. QED  BY <3>2 DEF C!Next
  <2>9. CASE \/ conns[c].up = 0 /\ conns'[c].down = 0
             \/ conns[c].up = 1 /\ conns[c].down = 0 /\ conns'[c].down = conns[c].down + 1
    <3>1. C!Up(c) \/ C!Down(c)
      BY <1>1, <2>3, <2>6, <2>7, <2>9, StepCalls
    <3>. QED  BY <2>2, <3>1 DEF C!Next, C!Conn, Conn
  <2>. QED  BY <2>3, <2>8, <2>9
<1>11. CASE f.op = "sendInLoop"
  <2>1. /\ loop' = lp /\ UNCHANGED <<map, held>>
        /\ conns' = conns \/ (Exists(c) /\ conns' = Armed(conns, c))
    BY <1>0, <1>2, <1>11 DEF Execute
  <2>2. c \in 1..Len(conns) /\ c \in Conn /\ ConnOK(conns[c]) /\ conns[c].up = 1
    BY <1>5, <1>11 DEF Ops
  <2>3. NoMore(loop, loop')
    BY <1>4, <2>1 DEF SameHolders, NoMore
  <2>4. CASE SameCalls
    <3>1. C!Release
      BY <1>1, <2>1, <2>3, <2>4, StepDrops
    <3>. QED  BY <3>1 DEF C!Next
  <2>5. CASE Exists(c) /\ conns' = Armed(conns, c) /\ ~SameCalls
    <3>1. /\ Changed(conns, conns', c) /\ conns'[c].up = 1 /\ conns'[c].down = conns[c].down
          /\ conns'[c].late <=> conns[c].late \/ ~Watched(conns[c])
      BY <1>1, <2>2, <2>5, ArmedOK
    <3>2. conns'[c].late /\ ~Watched(conns[c])
      <4>1. conns'[c].late \in BOOLEAN /\ conns[c].late \in BOOLEAN
        BY <2>2, <3>1 DEF Changed, ConnOK, ConnRecord
      <4>2. conns'[c].late # conns[c].late
        BY <2>2, <2>5, <3>1 DEF SameCalls, Changed
      <4>. QED  BY <3>1, <4>1, <4>2
    <3>3. c \in OpenFds
      BY <1>1, <2>2, <2>5, OpenIsKept DEF OpenFds
    <3>4. Len(conns') = Len(conns)
      BY <3>1 DEF Changed
    <3>5. c \in OpenFds'
      <4>1. Kept(loop, map, held, c)
        BY <1>1, <2>2, <3>3, OpenIsKept
      <4>2. Kept(loop', map', held', c)
        BY <1>4, <2>1, <2>2, <4>1 DEF Kept, SameHolders
      <4>. QED  BY <2>2, <3>4, <4>2, OpenIsKeptNext
    <3>6. OpenFds' = OpenFds
      <4>1. \A k \in Loop, d \in Conn : Keeps(loop', k, d) <=> Keeps(loop, k, d)
        BY <1>4, <2>1 DEF SameHolders
      <4>. QED  BY <1>1, <2>1, <3>3, <3>4, <3>5, <4>1, OpenSame
    <3>7. Serves => conns[c].down # 0
      BY <2>2, <3>2, UnheardIsDown
    <3>8. C!SendsLate(c)
      BY <1>1, <2>2, <3>1, <3>2, <3>3, <3>6, <3>7, StepLate
    <3>. QED  BY <2>2, <3>8 DEF C!Next, C!Conn, Conn
  <2>. QED  BY <2>1, <2>4, <2>5 DEF SameCalls
<1>10. CASE f.op = "removeConnectionInLoop"
  <2> DEFINE m == conns[c].loop
             g == Functor("connectDestroyed", c)
  <2>1. /\ map' = map \ {c} /\ loop' = Queue(lp, m, g) /\ UNCHANGED <<conns, held>>
    BY <1>0, <1>2, <1>10 DEF Execute, Erased
  <2>2. /\ c \in 1..Len(conns) /\ c \in Conn /\ m \in Loop
        /\ g \in Functors /\ Holds(g) = {c}
    BY <1>5, <1>7, <1>10 DEF Ops, Functors, Functor, Holds
  <2>3. lp \in [Loop -> LoopRecord]
    BY <1>4 DEF TakeFacts
  <2> HIDE DEF g
  <2>4. \A k \in Loop : \A d : Keeps(loop', k, d) <=> Keeps(lp, k, d) \/ (k = m /\ d = c)
    BY <2>1, <2>2, <2>3, QueueHolds
  <2>5. Keeps(loop, l, c) /\ Keeps(loop', m, c)
    BY <1>4, <1>6, <1>7, <1>10, <2>2, <2>4 DEF SameHolders
  <2>6. c \in OpenFds /\ c \in OpenFds'
    BY <1>1, <2>1, <2>2, <2>5, OpenIsKept, OpenIsKeptNext DEF Kept
  <2>7. OpenFds' = OpenFds
    <3>1. \A k \in Loop, d \in Conn : d # c => (Keeps(loop', k, d) <=> Keeps(loop, k, d))
      BY <1>4, <2>4 DEF SameHolders
    <3>2. map' \cup {c} = map \cup {c}
      BY <2>1
    <3>. QED  BY <1>1, <2>1, <2>6, <3>1, <3>2, OpenSame
  <2>8. C!Release
    BY <1>1, <2>1, <2>7, StepReleases DEF SameCalls
  <2>. QED  BY <2>8 DEF C!Next
<1>. QED  BY <1>2, <1>8, <1>9, <1>10, <1>11 DEF Execute

\* Acceptor::handleRead accepts a client.
LEMMA AcceptStep ==
  ASSUME ServerInv, Data', Serves, UNCHANGED Serves, NEW lp \in [Loop -> LoopRecord],
         SameHolders(loop, lp), waiting > 0, HandleAccept(lp), ~OutOfFds
  PROVE  [C!Next]_C!vars
<1> DEFINE e == Len(conns) + 1
           m == IF loops = <<>> THEN Base ELSE loops[next + 1]
           cs == Append(conns, NewConnection(m))
           f == Functor("connectEstablished", e)
<1>1. /\ map' = map \cup {e}
      /\ IF m = Base
         THEN conns' = Established(cs, e) /\ (held' = held \/ held' = held \cup {e}) /\ loop' = lp
         ELSE conns' = cs /\ UNCHANGED held /\ loop' = Queue(lp, m, f)
  BY DEF HandleAccept, Accepted, UserMayKeep
<1>2. /\ Data /\ ControlType /\ PoolOK /\ conns \in Seq(ConnRecord) /\ Len(conns) \in Nat
      /\ waiting \in Nat /\ Len(conns) + waiting <= MaxConns /\ MaxConns \in Nat
  BY TcpServerAssumption DEF ServerInv, Data, DataOK
<1>3. m \in Loop
  <2>1. CASE loops = <<>>
    BY <1>2, <2>1, PoolLoops
  <2>2. CASE loops # <<>>
    <3>1. loops \in Seq(1..MaxThreads) /\ next \in Nat /\ next < Len(loops) /\ Len(loops) \in Nat
      BY <1>2, <2>2 DEF ControlType
    <3>2. next + 1 \in 1..Len(loops)
      BY <3>1
    <3>. QED  BY <1>2, <2>2, <3>2, PoolLoops
  <2>. QED  BY <2>1, <2>2
<1>4. /\ NewConnection(m) \in ConnRecord
      /\ NewConnection(m).up = 0 /\ NewConnection(m).down = 0
      /\ NewConnection(m).chan = NewChannel /\ ~NewConnection(m).late
  BY <1>3, NewConnectionOK DEF NewConnection
<1> HIDE DEF m
<1>5. /\ cs \in Seq(ConnRecord) /\ Len(cs) = e /\ cs[e] = NewConnection(m)
      /\ \A d \in 1..Len(conns) : cs[d] = conns[d]
      /\ e \in 1..Len(cs)
  BY <1>2, <1>4
<1>6. e \in Conn /\ \A d \in 1..Len(conns) : d \in Conn /\ d # e /\ d \in 1..e
  BY <1>2 DEF Conn
<1>7. f \in Functors /\ Holds(f) = {e}
  <2>1. e # 0
    BY <1>2
  <2>. QED  BY <1>6, <2>1 DEF Functors, Functor, Holds
<1> HIDE DEF cs, f
<1>8. /\ Len(conns') = e /\ \A d \in 1..Len(conns) : conns'[d] = conns[d]
      /\ conns'[e].down = 0 /\ ~conns'[e].late
      /\ held' \cup {e} = held \cup {e}
      /\ \A k \in Loop, d \in Conn : d # e => (Keeps(loop', k, d) <=> Keeps(loop, k, d))
  <2>1. CASE m = Base
    <3>1. Changed(cs, conns', e) /\ conns'[e].down = 0 /\ ~conns'[e].late
      BY <1>1, <1>4, <1>5, <2>1, EstablishedOK
    <3>. QED  BY <1>1, <1>5, <1>6, <2>1, <3>1 DEF Changed, SameHolders
  <2>2. CASE m # Base
    <3>1. \A k \in Loop : \A d : Keeps(loop', k, d) <=> Keeps(lp, k, d) \/ (k = m /\ d = e)
      BY <1>1, <1>3, <1>7, <2>2, QueueHolds
    <3>. QED  BY <1>1, <1>4, <1>5, <2>2, <3>1 DEF SameHolders
  <2>. QED  BY <2>1, <2>2
<1> HIDE DEF e
<1>9. \A d \in 1..Len(conns) : Kept(loop', map', held', d) <=> Kept(loop, map, held, d)
  <2>1. \A d : d # e => (d \in map' <=> d \in map) /\ (d \in held' <=> d \in held)
    BY <1>1, <1>8
  <2>. QED  BY <1>6, <1>8, <2>1 DEF Kept
<1>10. OpenFds' = OpenFds \cup {e}
  <2>1. OpenFds \subseteq 1..Len(conns) /\ OpenFds' \subseteq 1..Len(conns')
    BY <1>2, OpenIsKept, OpenIsKeptNext
  <2>2. \A d \in 1..Len(conns') : d \in 1..Len(conns) \/ d = e
    BY <1>2, <1>8 DEF e
  <2>3. e \in OpenFds'
    <3>1. e \in 1..Len(conns') /\ e \in map'
      BY <1>1, <1>2, <1>8 DEF e
    <3>. QED  BY <3>1, OpenIsKeptNext DEF Kept
  <2>4. \A d \in 1..Len(conns) : d \in 1..Len(conns')
    BY <1>6, <1>8
  <2>5. \A d \in 1..Len(conns) : d \in OpenFds' <=> d \in OpenFds
    BY <1>2, <1>9, <2>4, OpenIsKept, OpenIsKeptNext
  <2>. QED  BY <2>1, <2>2, <2>3, <2>5
<1>11. C!Accept(e)
  BY <1>8, <1>10, StepAccepts DEF e
<1>. QED  BY <1>6, <1>11 DEF C!Next, C!Conn, Conn

\* handleClose.
LEMMA CloseStep ==
  ASSUME ServerInv, Data', UNCHANGED Serves, NEW lp \in [Loop -> LoopRecord],
         SameHolders(loop, lp), NEW c \in OpenFds, conns[c].chan.registered, HandleClose(c, lp)
  PROVE  C!Down(c) \/ C!Up(c)
<1>1. /\ Data /\ c \in 1..Len(conns) /\ c \in Conn /\ ConnOK(conns[c])
      /\ conns \in Seq(ConnRecord) /\ Base \in Loop
  BY OpenIsKept, ConnTypes, PoolLoops DEF ServerInv, Data, DataOK
<1>2. /\ Changed(conns, conns', c) /\ conns'[c].down = conns[c].down + 1
      /\ conns'[c].late = conns[c].late /\ conns'[c].up = 1
      /\ conns[c].up = 1 /\ (conns[c].down # 0 => conns[c].late)
  BY <1>1, ClosedOK DEF HandleClose
<1>3. Len(conns') = Len(conns)
  BY <1>2 DEF Changed
<1>4. PICK op \in Ops \ {"sendInLoop"} : loop' = Queue(lp, Base, Functor(op, c))
  BY DEF HandleClose, Ops
<1>5. map' \cup {c} = map \cup {c} /\ held' = held
  BY DEF HandleClose, Erased
<1> DEFINE f == Functor(op, c)
<1>6. f \in Functors /\ Holds(f) = {c}
  <2>1. c # 0
    BY <1>1, TcpServerAssumption DEF Conn
  <2>. QED  BY <1>1, <1>4, <2>1 DEF Functors, Functor, Ops, Holds
<1> HIDE DEF f
<1>7. \A k \in Loop : \A d : Keeps(loop', k, d) <=> Keeps(lp, k, d) \/ (k = Base /\ d = c)
  BY <1>1, <1>4, <1>6, QueueHolds DEF f
<1>8. \A k \in Loop, d \in Conn : d # c => (Keeps(loop', k, d) <=> Keeps(loop, k, d))
  BY <1>7 DEF SameHolders
<1>9. c \in OpenFds'
  BY <1>1, <1>3, <1>7, OpenIsKeptNext DEF Kept
<1>10. OpenFds' = OpenFds
  BY <1>1, <1>3, <1>5, <1>8, <1>9, OpenSame
<1>. QED  BY <1>2, <1>10, StepCalls

\* Channel::handleEvent.
LEMMA EventStep ==
  ASSUME ServerInv, Data', NEW l \in Loop, HandleEvent(l)
  PROVE  [C!Next]_C!vars
<1>1. Data /\ loop[l].pc = "handle" /\ UNCHANGED server /\ UNCHANGED Serves /\ DestructorOK
  BY DEF ServerInv, HandleEvent, Serves
<1>2. PICK c \in loop[l].active :
        LET lp == [loop EXCEPT ![l].active = @ \ {c}]
        IN IF c = Acceptor THEN HandleAccept(lp)
           ELSE IF Exists(c) THEN HandleClose(c, lp)
           ELSE loop' = lp /\ UNCHANGED <<accept, map, conns, held>>
  BY DEF HandleEvent
<1> DEFINE lp == Without(l, c)
<1>3. IF c = Acceptor THEN HandleAccept(lp)
      ELSE IF Exists(c) THEN HandleClose(c, lp)
      ELSE loop' = lp /\ UNCHANGED <<accept, map, conns, held>>
  BY <1>2 DEF Without
<1>4. WithoutFacts(lp, l, c)
  BY <1>1, TakeEvent
<1> HIDE DEF lp
<1>5. lp \in [Loop -> LoopRecord] /\ SameHolders(loop, lp)
  BY <1>4 DEF WithoutFacts, OnlyLoop, SameHolders, Keeps
<1>6. CASE c = Acceptor /\ ~OutOfFds
  <2>1. l = Base /\ waiting > 0
    BY <1>1, <1>2, <1>6 DEF Data, DataOK, ActiveOK
  <2>2. Serves
    BY <1>1, <2>1 DEF DestructorOK, Ended, Serves
  <2>. QED  BY <1>1, <1>3, <1>5, <1>6, <2>1, <2>2, AcceptStep
<1>7. CASE c # Acceptor /\ Exists(c)
  <2>1. c \in Conn /\ c \in 1..Len(conns) /\ conns[c].chan.registered
    <3>1. c \in Conn
      BY <1>1, <1>2, <1>7, LoopTypes DEF LoopRecord
    <3>. QED  BY <1>1, <1>2, <3>1 DEF Data, DataOK, ActiveOK
  <2>2. c \in OpenFds
    BY <1>1, <1>7, <2>1, OpenIsKept DEF OpenFds
  <2>3. C!Down(c) \/ C!Up(c)
    BY <1>1, <1>3, <1>5, <1>7, <2>1, <2>2, CloseStep
  <2>. QED  BY <2>1, <2>3 DEF C!Next, C!Conn, Conn
<1>8. CASE loop' = lp /\ UNCHANGED <<map, conns, held>>
  <2>1. C!Release
    BY <1>1, <1>5, <1>8, StepDrops DEF SameCalls, SameHolders, NoMore
  <2>. QED  BY <2>1 DEF C!Next
<1>. QED  BY <1>3, <1>6, <1>7, <1>8 DEF HandleAccept, accept

\* The body of ~TcpServer.
LEMMA DropStep ==
  ASSUME ServerInv, Data', DropConnection
  PROVE  [C!Next]_C!vars
<1>1. /\ Data /\ UNCHANGED <<held, Serves>> /\ ~Serves
      /\ conns \in Seq(ConnRecord) /\ loop \in [Loop -> LoopRecord]
  BY LoopTypes DEF ServerInv, Data, DataOK, DropConnection, Serves
<1>2. PICK c \in map :
        /\ map' = map \ {c}
        /\ IF conns[c].loop = Base
           THEN conns' = Destroyed(conns, c) /\ UNCHANGED loop
           ELSE /\ loop' = Queue(loop, conns[c].loop, Functor("connectDestroyed", c))
                /\ UNCHANGED conns
  BY DEF DropConnection
<1>3. c \in 1..Len(conns) /\ c \in Conn
  BY <1>1, <1>2 DEF Data, DataOK, RefsOK, RefersTo
<1>4. ConnOK(conns[c]) /\ conns[c].loop \in Loop
  BY <1>1, <1>3, ConnTypes DEF Data
<1>5. c \in OpenFds /\ OpenFds \subseteq 1..Len(conns)
  BY <1>1, <1>2, <1>3, OpenIsKept DEF Kept
<1>6. \A d \in 1..Len(conns) : d \in Conn
  BY <1>1, ConnTypes DEF Data
<1>7. CASE conns[c].loop = Base
  <2>1. /\ Changed(conns, conns', c) /\ conns[c].up = 1 /\ conns'[c].up = 1
        /\ conns'[c].late = conns[c].late
        /\ \/ conns'[c].down = conns[c].down
           \/ conns[c].down = 0 /\ conns'[c].down = conns[c].down + 1
    <3>1. conns[c].up = 1
      BY <1>4, <1>7 DEF ConnOK, ConnRecord, States
    <3>. QED  BY <1>1, <1>2, <1>3, <1>4, <1>7, <3>1, DestroyedCalls
  <2>2. Len(conns') = Len(conns) /\ loop' = loop
    BY <1>2, <1>7, <2>1 DEF Changed
  <2>3. OpenFds' \subseteq OpenFds
    BY <1>1, <1>2, <2>2, OpenFewer DEF NoMore
  <2>4. CASE conns'[c].down = conns[c].down
    <3>1. SameCalls
      BY <2>1, <2>2, <2>4 DEF SameCalls, Changed
    <3>2. C!Release
      BY <1>1, <2>3, <3>1, StepReleases
    <3>. QED  BY <3>2 DEF C!Next
  <2>5. CASE conns[c].down = 0 /\ conns'[c].down = conns[c].down + 1
    <3>1. OpenFds' = OpenFds \/ OpenFds' = OpenFds \ {c}
      <4>1. \A d \in 1..Len(conns) : d # c =>
              (Kept(loop', map', held', d) <=> Kept(loop, map, held, d))
        <5>1. \A d : d # c => (d \in map' <=> d \in map)
          BY <1>2
        <5>. QED  BY <1>1, <2>2, <5>1 DEF Kept
      <4>2. \A d \in 1..Len(conns) : d # c => (d \in OpenFds' <=> d \in OpenFds)
        BY <1>1, <2>2, <4>1, OpenIsKept, OpenIsKeptNext
      <4>. QED  BY <1>5, <2>3, <4>2
    <3>2. C!Up(c) \/ C!Down(c)
      BY <1>1, <1>5, <2>1, <2>5, <3>1, StepCalls
    <3>. QED  BY <1>3, <3>2 DEF C!Next, C!Conn, Conn
  <2>. QED  BY <2>1, <2>4, <2>5
<1>8. CASE conns[c].loop # Base
  <2> DEFINE m == conns[c].loop
             f == Functor("connectDestroyed", c)
  <2>1. loop' = Queue(loop, m, f) /\ conns' = conns
    BY <1>2, <1>8
  <2>2. f \in Functors /\ Holds(f) = {c}
    <3>1. c # 0
      BY <1>3, TcpServerAssumption DEF Conn
    <3>. QED  BY <1>3, <3>1 DEF Functors, Functor, Holds
  <2> HIDE DEF f
  <2>3. \A k \in Loop : \A d : Keeps(loop', k, d) <=> Keeps(loop, k, d) \/ (k = m /\ d = c)
    BY <1>1, <1>4, <2>1, <2>2, QueueHolds
  <2>4. \A d \in 1..Len(conns) : Kept(loop', map', held', d) => Kept(loop, map, held, d)
    <3>1. map' \subseteq map /\ held' = held
      BY <1>1, <1>2
    <3>. QED  BY <1>2, <2>3, <3>1 DEF Kept
  <2>5. OpenFds' \subseteq OpenFds
    BY <1>1, <2>1, <2>4, OpenIsKept, OpenIsKeptNext
  <2>6. C!Release
    BY <1>1, <2>1, <2>5, StepReleases DEF SameCalls
  <2>. QED  BY <2>6 DEF C!Next
<1>. QED  BY <1>7, <1>8

\* The server keeps what Connections promises: every connection is accepted in
\* turn, comes up once and goes down at most once, and while the server serves
\* none is lost that was not down (TcpServer.cc:49-119, TcpConnection.cc:166-188,
\* 259-269).  A send() executed after the close opens it for another
\* (TcpConnection.cc:90-147), and only that does.
THEOREM RefinesConnections == Spec => ImplementsConnections
<1>1. Init => C!Init
  <2> SUFFICES ASSUME Init PROVE C!Init
    OBVIOUS
  <2>1. conns = <<>> /\ DOMAIN conns = {} /\ server = "alive"
    BY DEF Init
  <2>2. \A c \in Conn : Phase(c) = "none" /\ ~Late(c)
    BY <2>1 DEF Phase, Late
  <2>. QED  BY <2>1, <2>2 DEF C!Init, C!Conn, Conn
<1>2. ServerInv /\ Served /\ [Next]_vars => [C!Next]_C!vars
  <2> SUFFICES ASSUME ServerInv, Served, [Next]_vars PROVE [C!Next]_C!vars
    OBVIOUS
  <2>1. Data'
    BY NextData
  <2>2. C!Release => [C!Next]_C!vars
    BY DEF C!Next
  <2>3. ASSUME NEW l \in Loop, LoopStep(l) \/ PollTimeout(l) PROVE [C!Next]_C!vars
    <3>1. CASE HandleEvent(l)
      BY <2>1, <3>1, EventStep
    <3>2. CASE RunFunctor(l)
      BY <2>1, <3>2, FunctorStep
    <3>3. CASE \/ EnterLoop(l) \/ TestQuit(l) \/ PollReturns(l) \/ PollTimeout(l)
               \/ DoPendingFunctors(l) \/ FunctorsDone(l) \/ DestroyLoop(l)
      <4>1. C!Release
        BY <2>1, <3>3, RestStep
      <4>. QED  BY <2>2, <4>1
    <3>. QED  BY <2>3, <3>1, <3>2, <3>3 DEF LoopStep
  <2>4. CASE DestroyServer
    <3>1. /\ Serves /\ Serves' = FALSE
          /\ UNCHANGED <<conns, map, held, loop>>
      BY <2>4 DEF DestroyServer, Serves
    <3>2. UNCHANGED <<Phases, Tolds, Lates>>
      BY <3>1 DEF Phases, Phase, Exists, Tolds, Lates, Late
    <3>. QED  BY <3>1, <3>2 DEF C!Stop, C!Next, Phases, Tolds, Lates, Serves
  <2>5. CASE DestructorStep
    <3>1. CASE DropConnection
      BY <2>1, <3>1, DropStep
    <3>2. CASE DropThreads \/ QuitThread \/ JoinThread \/ ServerDestroyed
      <4>1. C!Release
        BY <2>1, <3>2, RestStep
      <4>. QED  BY <2>2, <4>1
    <3>. QED  BY <2>5, <3>1, <3>2 DEF DestructorStep
  <2>6. CASE \/ \E t \in Starter : StartCounts(t) \/ StartStep(t)
             \/ \E c \in Conn : \/ UserReleases(c) \/ UserShutsDown(c) \/ UserSends(c)
                               \/ SendQueues(c) \/ PeerCloses(c)
             \/ QuitBase \/ ClientConnects \/ UNCHANGED vars
    <3>1. C!Release
      BY <2>1, <2>6, RestStep
    <3>. QED  BY <2>2, <3>1
  <2>. QED  BY <2>3, <2>4, <2>5, <2>6 DEF Next, UserStep
<1>3. Spec => C!Spec
  BY <1>1, <1>2, AlwaysServed, PTL DEF Spec, C!Spec
<1>. QED  BY <1>3 DEF ImplementsConnections

==============================================================================
