---------------------- MODULE EventLoopThreadPoolProofs ----------------------
(***************************************************************************)
(* Proofs about EventLoopThreadPool, for every number of threads.          *)
(***************************************************************************)
EXTENDS EventLoopThreadPool, TLAPS

ThreadRecord ==
  [pc : LoopPC, sem : BOOLEAN, mutex : {"free", "main", "loop"}, loopPtr : BOOLEAN,
   alive : BOOLEAN, quit : BOOLEAN, wakeup : BOOLEAN, lostQuit : BOOLEAN, userQuit : BOOLEAN]

Starting == {"start", "sem", "lock", "check", "waiting"}

\* main deals with the thread cur, which exists.
WithThread == {"sem", "lock", "check", "waiting", "quit", "wakeup", "join", "crash"}

CurIsThread ==
  /\ cur \in 1..(numThreads + 1)
  /\ mainPc \in WithThread => cur <= numThreads

\* While the pool starts, loops_ has the loops before cur, all unused.
LoopsSoFar ==
  mainPc \in Starting =>
    /\ Len(loops) = cur - 1
    /\ next = 0
    /\ picked = [k \in 0..MaxThreads |-> 0]

\* The loops before next_ have been handed out once more than the others.
Turns ==
  \E b \in Nat :
    \A k \in 1..Len(loops) : picked[k] = IF k <= next THEN b + 1 ELSE b

\* loop_ points to the EventLoop between two points within its life.
Within == {"notify", "enter", "test", "poll", "clear"}
Living == Within \cup {"publish", "unlock", "destruct"}

LifeSpan ==
  \A i \in Thread : /\ th[i].loopPtr => th[i].pc \in Within
                    /\ th[i].pc \in Living => th[i].alive

\* A thread main has not begun is as it was made.
NotBegun ==
  mainPc \in Starting =>
    \A i \in Thread : i > cur \/ (i = cur /\ mainPc = "start") => th[i] = NewThread

PoolInv ==
  /\ TypeOK /\ CurIsThread /\ LoopsSoFar /\ StartedWithLoop /\ Turns
  /\ LifeSpan /\ NotBegun

------------------------------------------------------------------------------
LEMMA NewThreadType == NewThread \in ThreadRecord
BY DEF NewThread, ThreadRecord, LoopPC

LEMMA InitPool == Init => PoolInv
<1> SUFFICES ASSUME Init PROVE PoolInv
  OBVIOUS
<1> USE PoolAssumption DEF Init
<1>1. TypeOK
  <2>1. th \in [Thread -> ThreadRecord]
    BY NewThreadType
  <2>2. picked \in [0..MaxThreads -> 0..MaxPicks]
    OBVIOUS
  <2> QED
    BY <2>1, <2>2 DEF TypeOK, MainPC, ThreadRecord
<1>2. CurIsThread /\ LoopsSoFar /\ StartedWithLoop /\ Turns
  BY DEF Turns, CurIsThread, LoopsSoFar, StartedWithLoop, WithThread, Starting
<1>3. LifeSpan /\ NotBegun
  BY DEF LifeSpan, NotBegun, NewThread, Within, Living, Starting
<1> QED
  BY <1>1, <1>2, <1>3 DEF PoolInv

\* A step of main that leaves the threads' program counters alone and whose
\* only effect on a thread is one of the fields of cur named here.
LEMMA MainUpdate ==
  ASSUME th \in [Thread -> ThreadRecord], LifeSpan, cur \in Thread,
         NEW b \in BOOLEAN, NEW m \in {"free", "main", "loop"},
         \/ th' = [th EXCEPT ![cur].sem = b]
         \/ th' = [th EXCEPT ![cur].mutex = m]
         \/ th' = [th EXCEPT ![cur].quit = b]
         \/ th' = [th EXCEPT ![cur].wakeup = b]
  PROVE  /\ th' \in [Thread -> ThreadRecord] /\ LifeSpan'
         /\ \A i \in Thread : i # cur => th'[i] = th[i]
<1>1. th'[cur] \in ThreadRecord
  BY DEF ThreadRecord
<1>2. \A i \in Thread : i # cur => th'[i] = th[i]
  OBVIOUS
<1>3. th'[cur].pc = th[cur].pc /\ th'[cur].loopPtr = th[cur].loopPtr
      /\ th'[cur].alive = th[cur].alive
  BY DEF ThreadRecord
<1>4. th' \in [Thread -> ThreadRecord]
  BY <1>1, <1>2
<1>5. LifeSpan'
  BY <1>2, <1>3 DEF LifeSpan
<1> QED
  BY <1>2, <1>4, <1>5

\* A step of thread i.
LEMMA LoopUpdate ==
  ASSUME TypeOK, LifeSpan, NEW i \in Thread,
         LoopStep(i) \/ OtherEvent(i) \/ UserQuit(i)
  PROVE  /\ th' \in [Thread -> ThreadRecord] /\ LifeSpan'
         /\ \A j \in Thread : j # i => th'[j] = th[j]
         /\ th[i].pc # "none"
         /\ mainPc' # mainPc => mainPc = "waiting" /\ mainPc' = "lock"
         /\ UNCHANGED <<poolVars, cur>>
<1> DEFINE r == th[i]
<1>1. th \in [Thread -> ThreadRecord] /\ r \in ThreadRecord
  BY DEF TypeOK, ThreadRecord
<1>2. \A j \in Thread : j # i => th'[j] = th[j]
  BY <1>1 DEF LoopStep, OtherEvent, UserQuit, Loop, SemPost, Construct, Publish, Notify,
     EnterLoop, TestQuit, WokenUp, Clear, Unlock, LoopDestroyed
<1>3. /\ th' = [th EXCEPT ![i] = th'[i]]
      /\ th'[i] \in ThreadRecord
      /\ th'[i].loopPtr => th'[i].pc \in Within
      /\ th'[i].pc \in Living => th'[i].alive
  <2>1. CASE SemPost(i)
    BY <1>1, <2>1 DEF SemPost, ThreadRecord, LoopPC, LifeSpan, Within, Living
  <2>2. CASE Construct(i)
    BY <1>1, <2>2 DEF Construct, ThreadRecord, LoopPC, LifeSpan, Within, Living
  <2>3. CASE Publish(i)
    BY <1>1, <2>3 DEF Publish, ThreadRecord, LoopPC, LifeSpan, Within, Living
  <2>4. CASE Notify(i)
    BY <1>1, <2>4 DEF Notify, ThreadRecord, LoopPC, LifeSpan, Within, Living
  <2>5. CASE EnterLoop(i)
    BY <1>1, <2>5 DEF EnterLoop, ThreadRecord, LoopPC, LifeSpan, Within, Living
  <2>6. CASE TestQuit(i)
    BY <1>1, <2>6 DEF TestQuit, Loop, ThreadRecord, LoopPC, LifeSpan, Within, Living
  <2>7. CASE WokenUp(i)
    BY <1>1, <2>7 DEF WokenUp, ThreadRecord, LoopPC, LifeSpan, Within, Living
  <2>8. CASE Clear(i)
    BY <1>1, <2>8 DEF Clear, ThreadRecord, LoopPC, LifeSpan, Within, Living
  <2>9. CASE Unlock(i)
    BY <1>1, <2>9 DEF Unlock, ThreadRecord, LoopPC, LifeSpan, Within, Living
  <2>10. CASE LoopDestroyed(i)
    BY <1>1, <2>10 DEF LoopDestroyed, ThreadRecord, LoopPC, LifeSpan, Within, Living
  <2>11. CASE OtherEvent(i) \/ UserQuit(i)
    BY <1>1, <2>11 DEF OtherEvent, UserQuit, Loop, ThreadRecord, LoopPC, LifeSpan, Within, Living
  <2> QED
    BY <2>1, <2>2, <2>3, <2>4, <2>5, <2>6, <2>7, <2>8, <2>9, <2>10, <2>11 DEF LoopStep
<1>4. LifeSpan'
  BY <1>2, <1>3 DEF LifeSpan
<1>5. th[i].pc # "none"
  BY DEF LoopStep, OtherEvent, UserQuit, Loop, SemPost, Construct, Publish, Notify,
     EnterLoop, TestQuit, WokenUp, Clear, Unlock, LoopDestroyed
<1>6. /\ mainPc' # mainPc => mainPc = "waiting" /\ mainPc' = "lock"
      /\ UNCHANGED <<poolVars, cur>>
  BY DEF LoopStep, OtherEvent, UserQuit, Loop, SemPost, Construct, Publish, Notify,
     EnterLoop, TestQuit, WokenUp, Clear, Unlock, LoopDestroyed
<1>7. th' \in [Thread -> ThreadRecord]
  BY <1>1, <1>3
<1> QED
  BY <1>2, <1>4, <1>5, <1>6, <1>7

------------------------------------------------------------------------------
LEMMA NextPool == PoolInv /\ [Next]_vars => PoolInv'
<1> SUFFICES ASSUME PoolInv, [Next]_vars PROVE PoolInv'
  OBVIOUS
<1> USE PoolAssumption
<1>1. /\ TypeOK /\ CurIsThread /\ LoopsSoFar /\ StartedWithLoop /\ Turns /\ LifeSpan /\ NotBegun
      /\ th \in [Thread -> ThreadRecord] /\ numThreads \in 0..MaxThreads
      /\ mainPc \in MainPC /\ cur \in Nat /\ loops \in Seq(Thread \cup {Null})
      /\ next \in 0..MaxThreads /\ picked \in [0..MaxThreads -> 0..MaxPicks]
  BY DEF PoolInv, TypeOK, ThreadRecord
\* main starts a thread.
<1>2. CASE Start
  <2>1. cur \in Thread /\ cur <= numThreads
    BY <1>1, <1>2 DEF Start, CurIsThread, Thread
  <2>2. th[cur] = NewThread
    BY <1>1, <1>2, <2>1 DEF Start, Main, NotBegun, Starting
  <2>3. /\ th'[cur] = [NewThread EXCEPT !.pc = "born"]
        /\ \A i \in Thread : i # cur => th'[i] = th[i]
    BY <1>1, <1>2, <2>1, <2>2 DEF Start
  <2>4. th'[cur] \in ThreadRecord
    BY <2>3 DEF NewThread, ThreadRecord, LoopPC
  <2>5. th' \in [Thread -> ThreadRecord]
    BY <1>1, <1>2, <2>3, <2>4 DEF Start
  <2>6. LifeSpan'
    BY <1>1, <2>3 DEF LifeSpan, NewThread, Living, Within
  <2>7. NotBegun'
    BY <1>1, <1>2, <2>3 DEF NotBegun, Start, Main, Starting, Thread
  <2>8. TypeOK'
    BY <1>1, <1>2, <2>5 DEF TypeOK, Start, Main, poolVars, MainPC, ThreadRecord
  <2> QED
    BY <1>1, <1>2, <2>1, <2>6, <2>7, <2>8
    DEF PoolInv, CurIsThread, LoopsSoFar, StartedWithLoop, Turns, Start, Main, poolVars,
        Starting, WithThread
\* main goes on with the thread cur.
<1>3. CASE SemWait \/ Lock \/ Wait \/ DestroyQuits \/ DestroyWakesUp
  <2>1. cur \in Thread /\ cur <= numThreads
    BY <1>1, <1>3 DEF SemWait, Lock, Wait, DestroyQuits, DestroyWakesUp, Main,
       CurIsThread, WithThread, Thread
  <2>2. /\ th' \in [Thread -> ThreadRecord] /\ LifeSpan'
        /\ \A i \in Thread : i # cur => th'[i] = th[i]
    BY <1>1, <1>3, <2>1, MainUpdate DEF SemWait, Lock, Wait, DestroyQuits, DestroyWakesUp
  <2>3. /\ UNCHANGED <<numThreads, loops, next, picked, cur>> /\ mainPc' \in MainPC
        /\ mainPc' # "start"
        /\ mainPc \in WithThread
        /\ mainPc' \in Starting => mainPc \in Starting
    BY <1>3 DEF SemWait, Lock, Wait, DestroyQuits, DestroyWakesUp, Main, poolVars,
       WithThread, Starting, MainPC
  <2>4. NotBegun'
    BY <1>1, <2>2, <2>3 DEF NotBegun, Thread
  <2>5. TypeOK'
    BY <1>1, <2>2, <2>3 DEF TypeOK, ThreadRecord
  <2> QED
    BY <1>1, <2>1, <2>2, <2>3, <2>4, <2>5
    DEF PoolInv, CurIsThread, LoopsSoFar, StartedWithLoop, Turns
\* startLoop returns.
<1>4. CASE StartLoopReturns
  <2>1. cur \in Thread /\ cur <= numThreads
    BY <1>1, <1>4 DEF StartLoopReturns, Main, CurIsThread, WithThread, Thread
  <2>2. /\ th' \in [Thread -> ThreadRecord] /\ LifeSpan'
        /\ \A i \in Thread : i # cur => th'[i] = th[i]
    BY <1>1, <1>4, <2>1, MainUpdate DEF StartLoopReturns
  <2>3. Len(loops) = cur - 1
    BY <1>1, <1>4 DEF LoopsSoFar, StartLoopReturns, Main, Starting
  <2>4. /\ loops' \in Seq(Thread \cup {Null}) /\ Len(loops') = cur
        /\ \A k \in 1..(cur - 1) : loops'[k] = loops[k]
        /\ loops'[cur] = cur
    BY <1>1, <1>4, <2>1, <2>3 DEF StartLoopReturns
  <2>5. StartedWithLoop'
    BY <1>1, <2>1, <2>3, <2>4 DEF StartedWithLoop, Thread
  <2>6. /\ cur' = cur + 1 /\ mainPc' = "start" /\ mainPc = "check"
        /\ UNCHANGED <<numThreads, next, picked>>
    BY <1>4 DEF StartLoopReturns, Main
  <2>7. NotBegun'
    BY <1>1, <2>1, <2>2, <2>6 DEF NotBegun, Thread, Starting
  <2>8. loops' # <<>> => next' < Len(loops')
    BY <1>1, <2>1, <2>4, <2>6 DEF LoopsSoFar, Starting, Thread
  <2>9. TypeOK'
    <3>1. cur' \in 1..(MaxThreads + 1) /\ Len(loops') <= numThreads'
      BY <1>1, <2>1, <2>4, <2>6 DEF Thread
    <3>2. /\ mainPc' \in MainPC /\ numThreads' \in 0..MaxThreads
          /\ next' \in 0..MaxThreads /\ picked' \in [0..MaxThreads -> 0..MaxPicks]
      BY <1>1, <2>6 DEF MainPC
    <3> QED
      BY <2>2, <2>4, <2>8, <3>1, <3>2 DEF TypeOK, ThreadRecord
  <2>10. LoopsSoFar' /\ Turns'
    <3>1. next' = 0 /\ picked' = [k \in 0..MaxThreads |-> 0]
      BY <1>1, <2>6 DEF LoopsSoFar, Starting
    <3>2. \A k \in 1..Len(loops') : picked'[k] = 0 /\ ~(k <= next')
      BY <2>1, <2>4, <3>1 DEF Thread
    <3>3. Turns'
      <4>1. \A k \in 1..Len(loops') : picked'[k] = IF k <= next' THEN 0 + 1 ELSE 0
        BY <3>2
      <4> QED
        BY <4>1 DEF Turns
    <3> QED
      BY <2>1, <2>4, <2>6, <3>1, <3>3 DEF LoopsSoFar, Thread
  <2> QED
    BY <1>1, <2>1, <2>2, <2>4, <2>5, <2>6, <2>7, <2>9, <2>10
    DEF PoolInv, CurIsThread, WithThread, Thread
\* Steps of main that change no thread and not the pool.
<1>5. CASE \/ SpuriousWakeup \/ PoolStarted \/ DestroyPool \/ Destroy
           \/ DestroyCrashes \/ Join \/ PoolDestroyed
  <2>1. /\ UNCHANGED <<numThreads, loops, next, picked, th>> /\ mainPc' \in MainPC
        /\ mainPc' \in Starting => mainPc' = "lock" /\ mainPc = "waiting" /\ cur' = cur
    BY <1>1, <1>5 DEF SpuriousWakeup, PoolStarted, DestroyPool, Destroy, DestroyCrashes, Join,
       PoolDestroyed, Main, poolVars, Starting, MainPC
  <2>2. CurIsThread'
    BY <1>1, <1>5, <2>1 DEF CurIsThread, SpuriousWakeup, PoolStarted, DestroyPool, Destroy,
       DestroyCrashes, Join, PoolDestroyed, Main, poolVars, WithThread
  <2>3. NotBegun'
    BY <1>1, <2>1 DEF NotBegun, Starting
  <2>4. TypeOK'
    BY <1>1, <2>1, <2>2 DEF TypeOK, CurIsThread
  <2>5. LoopsSoFar' /\ StartedWithLoop' /\ Turns' /\ LifeSpan'
    BY <1>1, <2>1 DEF LoopsSoFar, StartedWithLoop, Turns, LifeSpan, Starting
  <2> QED
    BY <2>2, <2>3, <2>4, <2>5 DEF PoolInv
<1>6. CASE GetNextLoop
  <2>1. /\ UNCHANGED <<numThreads, mainPc, cur, loops, th>> /\ mainPc = "user"
    BY <1>6 DEF GetNextLoop
  <2>2. picked' \in [0..MaxThreads -> 0..MaxPicks]
    <3> DEFINE loop == IF loops = <<>> THEN Base ELSE loops[next + 1]
    <3>1. loop \in 0..MaxThreads
      BY <1>1 DEF TypeOK, StartedWithLoop, Base
    <3>2. picked' = [picked EXCEPT ![loop] = @ + 1] /\ picked[loop] < MaxPicks
      BY <1>6 DEF GetNextLoop
    <3> HIDE DEF loop
    <3> QED
      BY <1>1, <3>1, <3>2
  <2>3. next' \in 0..MaxThreads /\ (loops' # <<>> => next' < Len(loops'))
    BY <1>1, <1>6, <2>1 DEF GetNextLoop, Following, TypeOK
  <2>4. TypeOK'
    BY <1>1, <2>1, <2>2, <2>3 DEF TypeOK
  <2>5. Turns'
    <3>1. PICK b \in Nat :
            \A k \in 1..Len(loops) : picked[k] = IF k <= next THEN b + 1 ELSE b
      BY <1>1 DEF Turns
    <3>2. CASE loops = <<>>
      BY <2>1, <3>2 DEF Turns
    <3>3. CASE loops # <<>>
      <4>1. /\ next + 1 \in 1..Len(loops) /\ loops[next + 1] = next + 1
            /\ Len(loops) <= MaxThreads
        BY <1>1, <3>3 DEF TypeOK, StartedWithLoop
      <4>2. picked' = [picked EXCEPT ![next + 1] = @ + 1] /\ next' = Following(next)
        BY <1>6, <3>3, <4>1 DEF GetNextLoop
      <4>3. \A k \in 1..Len(loops) : picked'[k] = IF k <= next + 1 THEN b + 1 ELSE b
        BY <1>1, <3>1, <4>1, <4>2
      <4>4. CASE next + 1 >= Len(loops)
        <5>1. next' = 0 /\ \A k \in 1..Len(loops) : picked'[k] = b + 1
          BY <1>1, <4>1, <4>2, <4>3, <4>4 DEF Following
        <5> QED
          BY <1>1, <2>1, <5>1 DEF Turns
      <4>5. CASE next + 1 < Len(loops)
        <5>1. next' = next + 1
          BY <1>1, <4>2, <4>5 DEF Following
        <5> QED
          BY <2>1, <4>3, <5>1 DEF Turns
      <4> QED
        BY <1>1, <4>4, <4>5
    <3> QED
      BY <3>2, <3>3
  <2> QED
    BY <1>1, <2>1, <2>4, <2>5 DEF PoolInv, CurIsThread, LoopsSoFar, StartedWithLoop, LifeSpan,
       NotBegun, Starting
<1>7. ASSUME NEW i \in Thread, LoopStep(i) \/ OtherEvent(i) \/ UserQuit(i)
      PROVE PoolInv'
  <2>1. /\ th' \in [Thread -> ThreadRecord] /\ LifeSpan'
        /\ \A j \in Thread : j # i => th'[j] = th[j]
        /\ th[i].pc # "none"
        /\ mainPc' # mainPc => mainPc = "waiting" /\ mainPc' = "lock"
        /\ UNCHANGED <<numThreads, loops, next, picked, cur>>
    BY <1>1, <1>7, LoopUpdate DEF poolVars
  <2>2. NotBegun'
    <3>1. th[i] # NewThread
      BY <2>1 DEF NewThread
    <3> QED
      BY <1>1, <2>1, <3>1 DEF NotBegun, Starting
  <2>3. TypeOK'
    BY <1>1, <2>1 DEF TypeOK, ThreadRecord, MainPC
  <2>4. CurIsThread' /\ LoopsSoFar' /\ StartedWithLoop' /\ Turns'
    BY <1>1, <2>1 DEF Turns, CurIsThread, LoopsSoFar, StartedWithLoop, Starting, WithThread
  <2> QED
    BY <2>1, <2>2, <2>3, <2>4 DEF PoolInv
<1>8. CASE UNCHANGED vars
  BY <1>1, <1>8 DEF vars, poolVars, PoolInv, TypeOK, CurIsThread, LoopsSoFar,
     StartedWithLoop, Turns, LifeSpan, NotBegun
<1> QED
  BY <1>2, <1>3, <1>4, <1>5, <1>6, <1>7, <1>8 DEF Next, MainStep, UserStep

LEMMA PoolIsInvariant == Spec => []PoolInv
BY InitPool, NextPool, PTL DEF Spec

\* startLoop() hands out its thread's loop and never nullptr
\* (EventLoopThread.cc:24-37, EventLoopThreadPool.cc:25).
THEOREM AlwaysStartedWithLoop == Spec => []StartedWithLoop
BY PoolIsInvariant, PTL DEF PoolInv

\* loop_ never points to an EventLoop that has been destroyed
\* (EventLoopThread.cc:50 and 55).
THEOREM PublishedIsAlwaysAlive == Spec => []PublishedIsAlive
<1>1. PoolInv => PublishedIsAlive
  BY DEF PoolInv, LifeSpan, PublishedIsAlive, Within, Living
<1> QED
  BY <1>1, PoolIsInvariant, PTL

\* getNextLoop() goes round: no loop is ahead of another by more than one.
LoopsTakeTurns ==
  \A k, l \in DOMAIN loops : picked[loops[k]] <= picked[loops[l]] + 1

\* getNextLoop() gives every loop of the pool as many connections as any
\* other, give or take one (EventLoopThreadPool.cc:36-51).
THEOREM LoopsAlwaysTakeTurns == Spec => []LoopsTakeTurns
<1>1. ASSUME PoolInv PROVE LoopsTakeTurns
  <2>1. PICK b \in Nat :
          \A k \in 1..Len(loops) : picked[k] = IF k <= next THEN b + 1 ELSE b
    BY <1>1 DEF PoolInv, Turns
  <2>2. \A k \in 1..Len(loops) : loops[k] = k /\ picked[k] \in {b, b + 1}
    BY <1>1, <2>1 DEF PoolInv, TypeOK, StartedWithLoop
  <2>3. DOMAIN loops = 1..Len(loops)
    BY <1>1 DEF PoolInv, TypeOK
  <2> QED
    BY <2>2, <2>3 DEF LoopsTakeTurns
<1> QED
  BY <1>1, PoolIsInvariant, PTL

------------------------------------------------------------------------------
\* Who has ended a loop.

Left == {"unlock", "destruct", "exited"}
Destroying == {"destroy", "quit", "wakeup", "join", "done", "crash"}

\* A loop ends only by a quit, which is a user's or main's.
QuitHasReason ==
  \A i \in Thread :
    (th[i].quit \/ th[i].pc \in {"clear"} \cup Left) => (th[i].userQuit \/ MainQuits(i))

\* loop_ is set all the time in which PublishedIsAlive allows it.
PtrIsSet == \A i \in Thread : th[i].pc \in Within => th[i].loopPtr

\* A loop in loops_ has been published.
LoopsBegun == \A k \in 1..Len(loops) : th[k].pc \in Within \cup Left

\* After start() all threads have been started.
AllStarted == mainPc \notin Starting => Len(loops) = numThreads

EndInv == QuitHasReason /\ PtrIsSet /\ LoopsBegun /\ AllStarted /\ DestroyedIsLeft

LEMMA InitEnd == Init => EndInv
BY PoolAssumption
DEF Init, EndInv, QuitHasReason, PtrIsSet, LoopsBegun, AllStarted, DestroyedIsLeft, NewThread,
    Left, Within, Starting

\* A step of thread i.
LEMMA EndLoopStep ==
  ASSUME PoolInv, EndInv, NEW i \in Thread, LoopStep(i) \/ OtherEvent(i) \/ UserQuit(i)
  PROVE  EndInv'
<1> USE PoolAssumption
<1>1. /\ th \in [Thread -> ThreadRecord] /\ th[i] \in ThreadRecord
      /\ loops \in Seq(Thread \cup {Null}) /\ Len(loops) <= MaxThreads /\ cur \in Nat
  BY DEF PoolInv, TypeOK, ThreadRecord
<1>2. /\ \A j \in Thread : j # i => th'[j] = th[j]
      /\ mainPc' # mainPc => mainPc = "waiting" /\ mainPc' = "lock"
      /\ UNCHANGED <<numThreads, loops, next, picked, cur>>
  BY LoopUpdate DEF PoolInv, poolVars
<1>3. /\ th'[i].userQuit \/ th'[i].userQuit = th[i].userQuit
      /\ (th'[i].quit \/ th'[i].pc \in {"clear"} \cup Left)
           => (th[i].quit \/ th[i].pc \in {"clear"} \cup Left \/ th'[i].userQuit)
      /\ th'[i].pc \in Within => th'[i].loopPtr
      /\ th[i].pc \in Within \cup Left => th'[i].pc \in Within \cup Left
      /\ th[i].pc # "exited"
  <2> USE DEF ThreadRecord, Left, Within, LoopPC
  <2>1. th[i].pc \in Within => th[i].loopPtr
    BY DEF EndInv, PtrIsSet
  <2>2. CASE SemPost(i) \/ Construct(i)
    BY <1>1, <2>2 DEF SemPost, Construct
  <2>3. CASE Publish(i) \/ Notify(i)
    BY <1>1, <2>1, <2>3 DEF Publish, Notify
  <2>4. CASE EnterLoop(i)
    BY <1>1, <2>1, <2>4 DEF EnterLoop
  <2>5. CASE TestQuit(i)
    BY <1>1, <2>1, <2>5 DEF TestQuit, Loop
  <2>6. CASE WokenUp(i) \/ OtherEvent(i)
    BY <1>1, <2>1, <2>6 DEF WokenUp, OtherEvent, Loop
  <2>7. CASE UserQuit(i)
    BY <1>1, <2>1, <2>7 DEF UserQuit
  <2>8. CASE Clear(i) \/ Unlock(i) \/ LoopDestroyed(i)
    BY <1>1, <2>8 DEF Clear, Unlock, LoopDestroyed
  <2> QED
    BY <2>2, <2>3, <2>4, <2>5, <2>6, <2>7, <2>8 DEF LoopStep
<1>4. QuitHasReason'
  <2> SUFFICES ASSUME NEW j \in Thread, th'[j].quit \/ th'[j].pc \in {"clear"} \cup Left
               PROVE  th'[j].userQuit \/ MainQuits(j)'
    BY DEF QuitHasReason
  <2>1. MainQuits(j) => MainQuits(j)'
    BY <1>2 DEF MainQuits, Destroying
  <2>2. th[j].userQuit => th'[j].userQuit
    BY <1>1, <1>2, <1>3 DEF ThreadRecord
  <2> QED
    BY <1>2, <1>3, <2>1, <2>2 DEF EndInv, QuitHasReason
<1>5. PtrIsSet' /\ AllStarted'
  BY <1>2, <1>3 DEF EndInv, PtrIsSet, AllStarted, Starting
<1>6. LoopsBegun'
  BY <1>1, <1>2, <1>3 DEF EndInv, LoopsBegun, Thread
<1>7. DestroyedIsLeft'
  <2>1. cur <= MaxThreads + 1
    BY DEF PoolInv, TypeOK
  <2> QED
    BY <1>1, <1>2, <1>3, <2>1 DEF EndInv, DestroyedIsLeft, Thread, Destroying, ThreadRecord
<1> QED
  BY <1>4, <1>5, <1>6, <1>7 DEF EndInv

LEMMA NextEnd == PoolInv /\ PoolInv' /\ EndInv /\ [Next]_vars => EndInv'
<1> SUFFICES ASSUME PoolInv, PoolInv', EndInv, [Next]_vars PROVE EndInv'
  OBVIOUS
<1> USE PoolAssumption
<1>1. /\ th \in [Thread -> ThreadRecord] /\ cur \in Nat /\ cur <= MaxThreads + 1
      /\ numThreads \in 0..MaxThreads /\ loops \in Seq(Thread \cup {Null})
      /\ Len(loops) <= numThreads /\ mainPc \in MainPC
      /\ mainPc \in WithThread => cur \in Thread /\ cur <= numThreads
      /\ QuitHasReason /\ PtrIsSet /\ LoopsBegun /\ AllStarted /\ DestroyedIsLeft
  <2>1. /\ th \in [Thread -> ThreadRecord] /\ cur \in 1..(MaxThreads + 1)
        /\ numThreads \in 0..MaxThreads /\ loops \in Seq(Thread \cup {Null})
        /\ Len(loops) <= numThreads /\ mainPc \in MainPC
    BY DEF PoolInv, TypeOK, ThreadRecord
  <2>2. mainPc \in WithThread => cur \in Thread /\ cur <= numThreads
    BY <2>1 DEF PoolInv, CurIsThread, Thread
  <2> QED
    BY <2>1, <2>2 DEF EndInv
\* A thread that main starts is none that could have ended.
<1>2. CASE Start
  <2>1. cur \in Thread
    BY <1>1, <1>2 DEF Start, Thread, PoolInv, CurIsThread
  <2>2. th[cur] = NewThread /\ Len(loops) = cur - 1
    BY <1>2, <2>1 DEF Start, Main, PoolInv, NotBegun, LoopsSoFar, Starting
  <2>3. /\ th'[cur] = [NewThread EXCEPT !.pc = "born"]
        /\ \A j \in Thread : j # cur => th'[j] = th[j]
        /\ UNCHANGED <<numThreads, loops, cur>> /\ mainPc = "start" /\ mainPc' = "sem"
    BY <1>1, <1>2, <2>1, <2>2 DEF Start, Main, poolVars
  <2>4. QuitHasReason'
    BY <1>1, <2>3 DEF QuitHasReason, NewThread, Left, MainQuits, Destroying
  <2>5. PtrIsSet' /\ AllStarted' /\ DestroyedIsLeft'
    BY <1>1, <2>3 DEF PtrIsSet, AllStarted, DestroyedIsLeft, NewThread, Within, Starting
  <2>6. LoopsBegun'
    BY <1>1, <2>2, <2>3 DEF LoopsBegun, Thread
  <2> QED
    BY <2>4, <2>5, <2>6 DEF EndInv
\* Steps of main that change one field of the thread cur.
<1>3. CASE SemWait \/ Lock \/ Wait \/ DestroyQuits \/ DestroyWakesUp \/ StartLoopReturns
  <2>1. cur \in Thread /\ cur <= numThreads
    BY <1>1, <1>3 DEF SemWait, Lock, Wait, DestroyQuits, DestroyWakesUp, StartLoopReturns, Main,
       WithThread
  <2>2. /\ \A j \in Thread : j # cur => th'[j] = th[j]
        /\ th'[cur].pc = th[cur].pc /\ th'[cur].loopPtr = th[cur].loopPtr
        /\ th'[cur].userQuit = th[cur].userQuit
        /\ th'[cur].quit # th[cur].quit => mainPc' = "wakeup" /\ mainPc = "quit"
    BY <1>1, <1>3, <2>1 DEF SemWait, Lock, Wait, DestroyQuits, DestroyWakesUp,
       StartLoopReturns, Main, ThreadRecord
  <2>3. /\ numThreads' = numThreads
        /\ \/ UNCHANGED <<loops, cur>>
              /\ <<mainPc, mainPc'>> \in {<<"sem", "lock">>, <<"lock", "check">>,
                    <<"check", "waiting">>, <<"quit", "wakeup">>, <<"wakeup", "join">>}
           \/ /\ loops' = Append(loops, cur) /\ th[cur].loopPtr
              /\ mainPc = "check" /\ mainPc' = "start" /\ cur' = cur + 1
    BY <1>3 DEF SemWait, Lock, Wait, DestroyQuits, DestroyWakesUp, StartLoopReturns, Main, poolVars
  <2>4. QuitHasReason'
    <3> SUFFICES ASSUME NEW j \in Thread, th'[j].quit \/ th'[j].pc \in {"clear"} \cup Left
                 PROVE  th'[j].userQuit \/ MainQuits(j)'
      BY DEF QuitHasReason
    <3>1. MainQuits(j) => MainQuits(j)'
      BY <1>1, <2>3 DEF MainQuits, Destroying
    <3>2. CASE j # cur \/ th'[cur].quit = th[cur].quit
      BY <1>1, <2>1, <2>2, <3>1, <3>2 DEF QuitHasReason
    <3>3. CASE j = cur /\ th'[cur].quit # th[cur].quit
      BY <2>2, <2>3, <3>3 DEF MainQuits, Destroying
    <3> QED
      BY <3>2, <3>3
  <2>5. PtrIsSet' /\ AllStarted'
    BY <1>1, <2>1, <2>2, <2>3 DEF PtrIsSet, AllStarted, Starting
  <2>6. LoopsBegun'
    <3>1. \A j \in Thread : th'[j].pc = th[j].pc
      BY <2>1, <2>2
    <3>2. CASE loops' = loops
      BY <1>1, <3>1, <3>2 DEF LoopsBegun, Thread
    <3>3. CASE loops' = Append(loops, cur) /\ th[cur].loopPtr /\ mainPc = "check"
      <4>1. th[cur].pc \in Within /\ Len(loops) = cur - 1
        BY <2>1, <3>3 DEF PoolInv, LifeSpan, LoopsSoFar, Starting
      <4>2. Len(loops') = cur
        BY <1>1, <2>1, <3>3, <4>1
      <4> QED
        BY <1>1, <2>1, <3>1, <4>1, <4>2 DEF LoopsBegun, Thread
    <3> QED
      BY <2>3, <3>2, <3>3
  <2>7. DestroyedIsLeft'
    <3>1. mainPc' \in Destroying => mainPc \in Destroying /\ cur' = cur
      BY <2>3 DEF Destroying
    <3> QED
      BY <1>1, <2>1, <2>2, <3>1 DEF DestroyedIsLeft, Destroying, Thread
  <2> QED
    BY <2>4, <2>5, <2>6, <2>7 DEF EndInv
\* Steps of main that change no thread and not cur.
<1>4. CASE SpuriousWakeup \/ PoolStarted \/ DestroyCrashes \/ PoolDestroyed \/ GetNextLoop
  <2>1. /\ UNCHANGED <<numThreads, loops, cur, th>>
        /\ <<mainPc, mainPc'>> \in {<<"waiting", "lock">>, <<"start", "user">>,
              <<"quit", "crash">>, <<"destroy", "done">>, <<"user", "user">>}
        /\ mainPc = "start" => cur > numThreads
    BY <1>4 DEF SpuriousWakeup, PoolStarted, DestroyCrashes, PoolDestroyed, GetNextLoop, Main,
       poolVars
  <2>2. AllStarted'
    BY <1>1, <2>1 DEF AllStarted, Starting, PoolInv, LoopsSoFar, CurIsThread
  <2>3. QuitHasReason'
    BY <1>1, <2>1 DEF QuitHasReason, MainQuits, Destroying
  <2>4. PtrIsSet' /\ LoopsBegun' /\ DestroyedIsLeft'
    BY <1>1, <2>1 DEF PtrIsSet, LoopsBegun, DestroyedIsLeft
  <2> QED
    BY <2>2, <2>3, <2>4 DEF EndInv
\* The destruction begins: nobody but users has quit a loop.
<1>5. CASE DestroyPool
  <2>1. UNCHANGED <<numThreads, loops, th>> /\ cur' = 1 /\ mainPc = "user" /\ mainPc' = "destroy"
    BY <1>5 DEF DestroyPool, Main, poolVars
  <2>2. QuitHasReason' /\ AllStarted'
    BY <1>1, <2>1 DEF QuitHasReason, AllStarted, MainQuits, Destroying, Starting
  <2>3. PtrIsSet' /\ LoopsBegun' /\ DestroyedIsLeft'
    BY <1>1, <2>1 DEF PtrIsSet, LoopsBegun, DestroyedIsLeft
  <2> QED
    BY <2>2, <2>3 DEF EndInv
\* The destructor goes on to the next thread, or to the quit of this one.
<1>6. CASE Destroy \/ Join
  <2>1. /\ UNCHANGED <<numThreads, loops, th>>
        /\ mainPc \in {"destroy", "join"} /\ mainPc' \in {"destroy", "quit"}
        /\ mainPc = "join" => cur' = cur + 1 /\ mainPc' = "destroy"
        /\ cur' \in {cur, cur + 1}
        /\ cur \in Thread /\ cur <= numThreads
    BY <1>1, <1>6 DEF Destroy, Join, Main, poolVars, Thread, WithThread, PoolInv, CurIsThread
  <2>2. cur' = cur + 1 => th[cur].pc = "exited" \/ th[cur].userQuit
    <3>1. CASE Join
      BY <3>1 DEF Join
    <3>2. CASE Destroy /\ cur' = cur + 1
      <4>1. ~th[cur].loopPtr /\ mainPc = "destroy" /\ Len(loops) = numThreads
        BY <1>1, <3>2 DEF Destroy, AllStarted, Starting
      <4>2. th[cur].pc \in Left
        BY <1>1, <2>1, <4>1 DEF LoopsBegun, PtrIsSet, Thread
      <4>3. ~MainQuits(cur)
        BY <1>1, <4>1 DEF MainQuits
      <4> QED
        BY <1>1, <2>1, <4>2, <4>3 DEF QuitHasReason
    <3> QED
      BY <1>1, <1>6, <3>1, <3>2
  <2>3. QuitHasReason'
    <3>1. \A i \in Thread : MainQuits(i) => MainQuits(i)'
      BY <1>1, <2>1 DEF MainQuits, Destroying, Thread
    <3>2. \A i \in Thread : th'[i] = th[i]
      BY <2>1
    <3> QED
      BY <1>1, <3>1, <3>2 DEF QuitHasReason
  <2>4. DestroyedIsLeft'
    <3> SUFFICES ASSUME NEW i \in 1..(cur' - 1)
                 PROVE  th[i].pc = "exited" \/ th[i].userQuit
      BY <2>1 DEF DestroyedIsLeft
    <3>1. i \in 1..(cur - 1) \/ (i = cur /\ cur' = cur + 1)
      <4>1. CASE cur' = cur
        BY <4>1
      <4>2. CASE cur' = cur + 1
        BY <1>1, <4>2
      <4> QED
        BY <2>1, <4>1, <4>2
    <3>2. CASE i \in 1..(cur - 1)
      BY <1>1, <2>1, <3>2 DEF DestroyedIsLeft
    <3> QED
      BY <2>2, <3>1, <3>2
  <2>5. PtrIsSet' /\ LoopsBegun' /\ AllStarted'
    BY <1>1, <2>1 DEF PtrIsSet, LoopsBegun, AllStarted, Starting
  <2> QED
    BY <2>3, <2>4, <2>5 DEF EndInv
<1>7. ASSUME NEW i \in Thread, LoopStep(i) \/ OtherEvent(i) \/ UserQuit(i)
      PROVE EndInv'
  BY <1>7, EndLoopStep
<1>8. CASE UNCHANGED vars
  BY <1>1, <1>8 DEF vars, poolVars, EndInv, QuitHasReason, MainQuits, PtrIsSet, LoopsBegun,
     AllStarted, DestroyedIsLeft
<1> QED
  BY <1>2, <1>3, <1>4, <1>5, <1>6, <1>7, <1>8 DEF Next, MainStep, UserStep

LEMMA EndIsInvariant == Spec => []EndInv
BY PoolIsInvariant, InitEnd, NextEnd, PTL DEF Spec

\* Every address that getNextLoop() may hand out is that of an EventLoop that
\* exists, unless user code has quit that loop: loops_ is never told.
PickedIsAlive ==
  mainPc = "user" =>
    \A k \in DOMAIN loops : th[loops[k]].alive \/ th[loops[k]].userQuit

\* What getNextLoop() hands out exists unless user code has quit that loop
\* (EventLoopThreadPool.cc:36-51).
THEOREM PickedIsAlwaysAlive == Spec => []PickedIsAlive
<1>1. ASSUME PoolInv, EndInv PROVE PickedIsAlive
  <2> SUFFICES ASSUME mainPc = "user", NEW k \in DOMAIN loops
               PROVE  th[loops[k]].alive \/ th[loops[k]].userQuit
    BY DEF PickedIsAlive
  <2>1. loops[k] = k /\ k \in 1..Len(loops) /\ k \in Thread
    BY <1>1, PoolAssumption DEF PoolInv, StartedWithLoop, TypeOK, Thread
  <2>2. th[k].pc \in Within \cup Left
    BY <1>1, <2>1 DEF EndInv, LoopsBegun
  <2>3. CASE th[k].pc = "exited"
    BY <1>1, <2>1, <2>3 DEF EndInv, QuitHasReason, MainQuits, Destroying, Left
  <2>4. CASE th[k].pc # "exited"
    BY <1>1, <2>1, <2>2, <2>4 DEF PoolInv, LifeSpan, Living, Left
  <2> QED
    BY <2>3, <2>4
<1> QED
  BY <1>1, PoolIsInvariant, EndIsInvariant, PTL

\* ~EventLoopThread leaves a running thread behind only if user code has quit
\* its loop (EventLoopThread.cc:13-22 and 54-56).
THEOREM DestroyedIsAlwaysLeft == Spec => []DestroyedIsLeft
BY EndIsInvariant, PTL DEF EndInv

------------------------------------------------------------------------------
\* What startLoop() and the destructor wait for.

\* Only main's test of loop_ and the two critical sections of threadFunc hold
\* the mutex.
MutexHeld ==
  \A i \in Thread :
    /\ th[i].mutex = "main" => mainPc = "check" /\ i = cur
    /\ th[i].mutex = "loop" => th[i].pc \in {"notify", "unlock"}

\* The semaphore tells that the thread runs.
SemPosted ==
  /\ \A i \in Thread : th[i].sem => th[i].pc \notin {"none", "born"}
  /\ mainPc \in {"lock", "check", "waiting"} => th[cur].pc \notin {"none", "born"}

Entered == {"test", "poll", "clear"} \cup Left

\* The quit() of the destructor is kept, or loop() has undone it.
QuitKept ==
  /\ \A i \in Thread : th[i].lostQuit => th[i].pc \in Entered
  /\ mainPc \in {"wakeup", "join"} => th[cur].quit \/ th[cur].lostQuit

AnswerInv == MutexHeld /\ SemPosted /\ QuitKept /\ StartIsAnswered /\ JoinIsAnswered

LEMMA InitAnswer == Init => AnswerInv
BY PoolAssumption
DEF Init, AnswerInv, MutexHeld, SemPosted, QuitKept, StartIsAnswered, JoinIsAnswered, NewThread

\* What a step of thread i does to the fields that main waits for.
LEMMA AnswerLoopFields ==
  ASSUME PoolInv, AnswerInv, NEW i \in Thread, LoopStep(i) \/ OtherEvent(i) \/ UserQuit(i)
  PROVE  /\ th'[i].pc \notin {"none", "born"}
         /\ th[i].sem \/ th[i].pc = "born" => th'[i].sem
         /\ th'[i].mutex = "loop" => th'[i].pc \in {"notify", "unlock"}
         /\ th'[i].mutex = "main" => th[i].mutex = "main"
         /\ th[i].userQuit => th'[i].userQuit
         /\ th[i].pc \in {"construct", "publish", "notify"} =>
              \/ th'[i].pc \in {"construct", "publish", "notify"}
              \/ mainPc = "waiting" /\ cur = i => mainPc' = "lock"
         /\ th'[i].lostQuit => th'[i].pc \in Entered
         /\ th[i].quit \/ th[i].lostQuit => th'[i].quit \/ th'[i].lostQuit
         /\ th'[i].pc = "poll" /\ (th[i].quit \/ th[i].lostQuit) => th'[i].lostQuit
<1>1. /\ th \in [Thread -> ThreadRecord] /\ th[i] \in ThreadRecord
      /\ th[i].mutex = "loop" => th[i].pc \in {"notify", "unlock"}
      /\ th[i].lostQuit => th[i].pc \in Entered
      /\ th[i].sem => th[i].pc \notin {"none", "born"}
  BY DEF PoolInv, TypeOK, ThreadRecord, AnswerInv, MutexHeld, QuitKept, SemPosted
<1> USE DEF ThreadRecord, Entered, Left, LoopPC
<1>2. CASE SemPost(i) \/ Construct(i)
  BY <1>1, <1>2 DEF SemPost, Construct
<1>3. CASE Publish(i)
  BY <1>1, <1>3 DEF Publish
<1>4. CASE Notify(i)
  BY <1>1, <1>4 DEF Notify
<1>5. CASE EnterLoop(i)
  BY <1>1, <1>5 DEF EnterLoop
<1>6. CASE TestQuit(i)
  BY <1>1, <1>6 DEF TestQuit, Loop
<1>7. CASE WokenUp(i) \/ OtherEvent(i)
  BY <1>1, <1>7 DEF WokenUp, OtherEvent, Loop
<1>8. CASE UserQuit(i)
  BY <1>1, <1>8 DEF UserQuit
<1>9. CASE Clear(i) \/ Unlock(i) \/ LoopDestroyed(i)
  BY <1>1, <1>9 DEF Clear, Unlock, LoopDestroyed
<1> QED
  BY <1>2, <1>3, <1>4, <1>5, <1>6, <1>7, <1>8, <1>9 DEF LoopStep

LEMMA AnswerLoopStep ==
  ASSUME PoolInv, AnswerInv, NEW i \in Thread, LoopStep(i) \/ OtherEvent(i) \/ UserQuit(i)
  PROVE  AnswerInv'
<1>1. /\ th \in [Thread -> ThreadRecord] /\ th' \in [Thread -> ThreadRecord]
      /\ \A j \in Thread : j # i => th'[j] = th[j]
      /\ mainPc' # mainPc => mainPc = "waiting" /\ mainPc' = "lock"
      /\ cur' = cur /\ (mainPc \in WithThread => cur \in Thread)
  <2>1. mainPc \in WithThread => cur \in Thread
    BY PoolAssumption DEF PoolInv, CurIsThread, TypeOK, Thread
  <2> QED
    BY <2>1, LoopUpdate DEF PoolInv, TypeOK, ThreadRecord
<1>2. /\ th'[i].pc \notin {"none", "born"}
      /\ th[i].sem \/ th[i].pc = "born" => th'[i].sem
      /\ th'[i].mutex = "loop" => th'[i].pc \in {"notify", "unlock"}
      /\ th'[i].mutex = "main" => th[i].mutex = "main"
  BY AnswerLoopFields
<1>3. /\ th[i].userQuit => th'[i].userQuit
      /\ th[i].pc \in {"construct", "publish", "notify"} =>
           \/ th'[i].pc \in {"construct", "publish", "notify"}
           \/ mainPc = "waiting" /\ cur = i => mainPc' = "lock"
      /\ th'[i].lostQuit => th'[i].pc \in Entered
      /\ th[i].quit \/ th[i].lostQuit => th'[i].quit \/ th'[i].lostQuit
      /\ th'[i].pc = "poll" /\ (th[i].quit \/ th[i].lostQuit) => th'[i].lostQuit
  BY AnswerLoopFields
<1>4. MutexHeld'
  BY <1>1, <1>2 DEF AnswerInv, MutexHeld
<1>5. SemPosted'
  <2>1. mainPc' \in {"lock", "check", "waiting"} =>
          mainPc \in {"lock", "check", "waiting"} /\ cur \in Thread
    BY <1>1 DEF WithThread
  <2>2. \A j \in Thread : th'[j].sem => th'[j].pc \notin {"none", "born"}
    BY <1>1, <1>2 DEF AnswerInv, SemPosted
  <2> QED
    BY <1>1, <1>2, <2>1, <2>2 DEF AnswerInv, SemPosted
<1>6. QuitKept'
  BY <1>1, <1>3 DEF AnswerInv, QuitKept, WithThread
<1>7. StartIsAnswered'
  <2>1. mainPc' = "sem" => (th[cur].sem \/ th[cur].pc = "born") /\ cur \in Thread
    BY <1>1 DEF AnswerInv, StartIsAnswered, WithThread
  <2>2. mainPc' = "lock" => cur \in Thread
    BY <1>1 DEF WithThread
  <2>3. mainPc' = "waiting" => /\ cur \in Thread /\ mainPc = "waiting"
                               /\ \/ th[cur].pc \in {"construct", "publish", "notify"}
                                  \/ th[cur].userQuit
    BY <1>1 DEF AnswerInv, StartIsAnswered, WithThread
  <2>4. mainPc' = "sem" => th'[cur].sem \/ th'[cur].pc = "born"
    BY <1>1, <1>2, <2>1
  <2>5. mainPc' = "lock" => th'[cur].mutex = "free" \/ th'[cur].pc \in {"notify", "unlock"}
    BY <1>1, <1>4, <2>2 DEF MutexHeld, ThreadRecord
  <2>6. mainPc' = "waiting" =>
          th'[cur].pc \in {"construct", "publish", "notify"} \/ th'[cur].userQuit
    BY <1>1, <1>3, <2>3
  <2> QED
    BY <1>1, <2>4, <2>5, <2>6 DEF StartIsAnswered
<1>8. JoinIsAnswered'
  <2>1. mainPc' = "join" => /\ cur \in Thread /\ mainPc = "join"
                            /\ th[cur].quit \/ th[cur].lostQuit
    BY <1>1 DEF AnswerInv, QuitKept, WithThread
  <2> QED
    BY <1>1, <1>3, <2>1 DEF AnswerInv, JoinIsAnswered
<1> QED
  BY <1>4, <1>5, <1>6, <1>7, <1>8 DEF AnswerInv

LEMMA NextAnswer == PoolInv /\ PoolInv' /\ EndInv /\ AnswerInv /\ [Next]_vars => AnswerInv'
<1> SUFFICES ASSUME PoolInv, PoolInv', EndInv, AnswerInv, [Next]_vars PROVE AnswerInv'
  OBVIOUS
<1> USE PoolAssumption
<1>1. /\ th \in [Thread -> ThreadRecord] /\ cur \in Nat
      /\ mainPc \in WithThread => cur \in Thread
      /\ MutexHeld /\ SemPosted /\ QuitKept /\ StartIsAnswered /\ JoinIsAnswered
  <2>1. th \in [Thread -> ThreadRecord] /\ cur \in 1..(MaxThreads + 1)
    BY DEF PoolInv, TypeOK, ThreadRecord
  <2>2. mainPc \in WithThread => cur \in Thread
    BY <2>1 DEF PoolInv, CurIsThread, TypeOK, Thread
  <2> QED
    BY <2>1, <2>2 DEF AnswerInv
<1>2. CASE Start
  <2>1. cur \in Thread
    BY <1>1, <1>2 DEF Start, Thread, PoolInv, TypeOK
  <2>2. th[cur] = NewThread
    BY <1>2, <2>1 DEF Start, Main, PoolInv, NotBegun, Starting
  <2>3. /\ th'[cur] = [NewThread EXCEPT !.pc = "born"]
        /\ \A j \in Thread : j # cur => th'[j] = th[j]
        /\ cur' = cur /\ mainPc = "start" /\ mainPc' = "sem"
    BY <1>1, <1>2, <2>1, <2>2 DEF Start, Main
  <2>4. /\ th'[cur].pc = "born" /\ th'[cur].mutex = "free" /\ ~th'[cur].sem
        /\ ~th'[cur].lostQuit
    BY <2>3 DEF NewThread
  <2> QED
    BY <1>1, <2>1, <2>3, <2>4
    DEF AnswerInv, MutexHeld, SemPosted, QuitKept, StartIsAnswered, JoinIsAnswered
\* Steps of main that change one field of the thread cur.
<1>3. CASE SemWait \/ Lock \/ Wait \/ DestroyQuits \/ DestroyWakesUp \/ StartLoopReturns
  <2>1. cur \in Thread
    BY <1>1, <1>3 DEF SemWait, Lock, Wait, DestroyQuits, DestroyWakesUp, StartLoopReturns, Main,
       WithThread
  <2>2. /\ \A j \in Thread : j # cur => th'[j] = th[j]
        /\ th[cur] \in ThreadRecord
        /\ th'[cur].pc = th[cur].pc /\ th'[cur].userQuit = th[cur].userQuit
        /\ th'[cur].lostQuit = th[cur].lostQuit
    BY <1>1, <1>3, <2>1 DEF SemWait, Lock, Wait, DestroyQuits, DestroyWakesUp,
       StartLoopReturns, ThreadRecord
  <2>3. CASE SemWait
    <3>1. /\ mainPc = "sem" /\ mainPc' = "lock" /\ cur' = cur
          /\ th[cur].sem /\ ~th'[cur].sem /\ th'[cur].mutex = th[cur].mutex
      BY <1>1, <2>1, <2>3 DEF SemWait, Main, ThreadRecord
    <3>2. th'[cur].mutex = "free" \/ th'[cur].pc \in {"notify", "unlock"}
      BY <1>1, <2>1, <2>2, <3>1 DEF MutexHeld, ThreadRecord
    <3> QED
      BY <1>1, <2>1, <2>2, <3>1, <3>2
      DEF AnswerInv, MutexHeld, SemPosted, QuitKept, StartIsAnswered, JoinIsAnswered
  <2>4. CASE Lock
    <3>1. /\ mainPc = "lock" /\ mainPc' = "check" /\ cur' = cur
          /\ th'[cur].sem = th[cur].sem /\ th'[cur].mutex = "main"
      BY <1>1, <2>1, <2>4 DEF Lock, Main, ThreadRecord
    <3> QED
      BY <1>1, <2>1, <2>2, <3>1
      DEF AnswerInv, MutexHeld, SemPosted, QuitKept, StartIsAnswered, JoinIsAnswered
  <2>5. CASE Wait
    <3>1. /\ mainPc = "check" /\ mainPc' = "waiting" /\ cur' = cur /\ ~th[cur].loopPtr
          /\ th'[cur].sem = th[cur].sem /\ th'[cur].mutex = "free"
      BY <1>1, <2>1, <2>5 DEF Wait, Main, ThreadRecord
    <3>2. th[cur].pc \notin {"none", "born"} \cup Within
      BY <1>1, <2>1, <3>1 DEF SemPosted, EndInv, PtrIsSet
    <3>3. th[cur].pc \in Left => th[cur].userQuit
      BY <2>1, <3>1 DEF EndInv, QuitHasReason, MainQuits
    <3>4. th'[cur].pc \in {"construct", "publish", "notify"} \/ th'[cur].userQuit
      BY <2>2, <3>2, <3>3 DEF ThreadRecord, LoopPC, Within, Left
    <3> QED
      BY <1>1, <2>1, <2>2, <3>1, <3>4
      DEF AnswerInv, MutexHeld, SemPosted, QuitKept, StartIsAnswered, JoinIsAnswered
  <2>6. CASE StartLoopReturns
    <3>1. /\ mainPc = "check" /\ mainPc' = "start"
          /\ th'[cur].sem = th[cur].sem /\ th'[cur].mutex = "free"
      BY <1>1, <2>1, <2>6 DEF StartLoopReturns, Main, ThreadRecord
    <3> QED
      BY <1>1, <2>1, <2>2, <3>1
      DEF AnswerInv, MutexHeld, SemPosted, QuitKept, StartIsAnswered, JoinIsAnswered
  <2>7. CASE DestroyQuits
    <3>1. /\ mainPc = "quit" /\ mainPc' = "wakeup" /\ cur' = cur /\ th'[cur].quit
          /\ th'[cur].sem = th[cur].sem /\ th'[cur].mutex = th[cur].mutex
      BY <1>1, <2>1, <2>7 DEF DestroyQuits, Main, ThreadRecord
    <3> QED
      BY <1>1, <2>1, <2>2, <3>1
      DEF AnswerInv, MutexHeld, SemPosted, QuitKept, StartIsAnswered, JoinIsAnswered
  <2>8. CASE DestroyWakesUp
    <3>1. /\ mainPc = "wakeup" /\ mainPc' = "join" /\ cur' = cur /\ th'[cur].wakeup
          /\ th'[cur].quit = th[cur].quit
          /\ th'[cur].sem = th[cur].sem /\ th'[cur].mutex = th[cur].mutex
      BY <1>1, <2>1, <2>8 DEF DestroyWakesUp, Main, ThreadRecord
    <3> QED
      BY <1>1, <2>1, <2>2, <3>1
      DEF AnswerInv, MutexHeld, SemPosted, QuitKept, StartIsAnswered, JoinIsAnswered
  <2> QED
    BY <1>3, <2>3, <2>4, <2>5, <2>6, <2>7, <2>8
\* Steps of main that change no thread.
<1>4. CASE \/ SpuriousWakeup \/ PoolStarted \/ DestroyPool \/ Destroy \/ DestroyCrashes
           \/ Join \/ PoolDestroyed \/ GetNextLoop
  <2>1. /\ th' = th /\ mainPc # "check"
        /\ mainPc' \in {"lock", "user", "destroy", "quit", "crash", "done"}
        /\ mainPc' = "lock" => mainPc = "waiting" /\ cur' = cur
    BY <1>4 DEF SpuriousWakeup, PoolStarted, DestroyPool, Destroy, DestroyCrashes, Join,
       PoolDestroyed, GetNextLoop, Main
  <2>2. MutexHeld'
    BY <1>1, <2>1 DEF MutexHeld
  <2>3. mainPc' = "lock" => th'[cur'].mutex = "free" \/ th'[cur'].pc \in {"notify", "unlock"}
    BY <1>1, <2>1 DEF MutexHeld, WithThread, ThreadRecord
  <2> QED
    BY <1>1, <2>1, <2>2, <2>3
    DEF AnswerInv, SemPosted, QuitKept, StartIsAnswered, JoinIsAnswered
<1>5. ASSUME NEW i \in Thread, LoopStep(i) \/ OtherEvent(i) \/ UserQuit(i)
      PROVE AnswerInv'
  BY <1>5, AnswerLoopStep
<1>6. CASE UNCHANGED vars
  BY <1>1, <1>6 DEF vars, AnswerInv, MutexHeld, SemPosted, QuitKept, StartIsAnswered,
     JoinIsAnswered
<1> QED
  BY <1>2, <1>3, <1>4, <1>5, <1>6 DEF Next, MainStep, UserStep

LEMMA AnswerIsInvariant == Spec => []AnswerInv
BY PoolIsInvariant, EndIsInvariant, InitAnswer, NextAnswer, PTL DEF Spec

\* startLoop() waits only for what its thread is still going to give, or for
\* ever if user code has quit the loop (Thread.cc:32-45,
\* EventLoopThread.cc:24-37 and 40-57); ~EventLoopThread joins a thread that its
\* quit() and its wakeup() reach, unless the thread enters loop() after them
\* (EventLoopThread.cc:13-22, EventLoop.cc:67-70 and 93-100).
THEOREM MainIsAlwaysAnswered == Spec => []MainIsAnswered
<1>1. AnswerInv => MainIsAnswered
  BY DEF AnswerInv, MainIsAnswered
<1> QED
  BY <1>1, AnswerIsInvariant, PTL

------------------------------------------------------------------------------
\* The pool implements LoopPool.

Open == mainPc \in {"start", "sem", "lock", "check", "waiting", "user"}
Asked == {i \in Thread : th[i].userQuit \/ MainQuits(i)}
LeftLoops == {i \in Thread : th[i].pc \in Left}

LEMMA InitLoopPool == Init => LP!Init
<1> SUFFICES ASSUME Init PROVE LP!Init
  OBVIOUS
<1>1. /\ numThreads \in 0..MaxThreads /\ Len(loops) = 0 /\ next = 0 /\ mainPc = "start"
      /\ \A i \in Thread : ~th[i].userQuit /\ th[i].pc = "none"
  BY DEF Init, NewThread
<1>2. Open /\ Asked = {} /\ LeftLoops = {}
  BY <1>1 DEF Open, Asked, LeftLoops, MainQuits, Left
<1> QED
  BY <1>1, <1>2 DEF LP!Init, Open, Asked, LeftLoops, Left

\* A step of thread i: its loop is told to quit, or left, or neither.
LEMMA LoopPoolLoopStep ==
  ASSUME PoolInv, EndInv, NEW i \in Thread, LoopStep(i) \/ OtherEvent(i) \/ UserQuit(i)
  PROVE  [LP!Next]_LP!vars
<1>1. /\ th \in [Thread -> ThreadRecord] /\ th[i] \in ThreadRecord
      /\ \A j \in Thread : j # i => th'[j] = th[j]
      /\ mainPc' # mainPc => mainPc = "waiting" /\ mainPc' = "lock"
      /\ UNCHANGED <<numThreads, loops, next, cur>>
  BY LoopUpdate DEF PoolInv, TypeOK, ThreadRecord, poolVars
<1>2. Open' = Open /\ \A j \in Thread : MainQuits(j)' = MainQuits(j)
  BY <1>1 DEF Open, MainQuits
<1> USE DEF ThreadRecord, Left
<1>3. CASE UserQuit(i)
  <2>1. th'[i].userQuit /\ th[i].pc = "poll" /\ th'[i].pc = "test"
    BY <1>1, <1>3 DEF UserQuit
  <2>2. LeftLoops' = LeftLoops /\ Asked' = Asked \cup {i}
    BY <1>1, <1>2, <2>1 DEF LeftLoops, Asked
  <2>3. CASE i \in Asked
    <3>1. Asked' = Asked
      BY <2>2, <2>3
    <3> QED
      BY <1>1, <1>2, <2>2, <3>1 DEF LP!vars, Open, Asked, LeftLoops
  <2>4. CASE i \notin Asked
    <3>1. LP!Ask(i)
      BY <1>1, <1>2, <2>2, <2>4 DEF LP!Ask, Open, Asked, LeftLoops
    <3> QED
      BY <3>1 DEF LP!Next, LP!Thread, Thread
  <2> QED
    BY <2>3, <2>4
<1>4. CASE Clear(i)
  <2>1. th[i].pc = "clear" /\ th'[i].pc = "unlock" /\ th'[i].userQuit = th[i].userQuit
    BY <1>1, <1>4 DEF Clear
  <2>2. i \in Asked
    BY <2>1 DEF EndInv, QuitHasReason, Asked
  <2>3. LeftLoops' = LeftLoops \cup {i} /\ Asked' = Asked /\ i \notin LeftLoops
    BY <1>1, <1>2, <2>1 DEF LeftLoops, Asked
  <2>4. LP!Leave(i)
    BY <1>1, <1>2, <2>2, <2>3 DEF LP!Leave, Open, Asked, LeftLoops
  <2> QED
    BY <2>4 DEF LP!Next, LP!Thread, Thread
<1>5. CASE ~UserQuit(i) /\ ~Clear(i)
  <2>1. th'[i].userQuit = th[i].userQuit /\ (th'[i].pc \in Left <=> th[i].pc \in Left)
    <3>1. CASE SemPost(i) \/ Construct(i) \/ Publish(i)
      BY <1>1, <3>1 DEF SemPost, Construct, Publish
    <3>2. CASE Notify(i) \/ EnterLoop(i) \/ TestQuit(i)
      BY <1>1, <3>2 DEF Notify, EnterLoop, TestQuit, Loop
    <3>3. CASE WokenUp(i) \/ OtherEvent(i) \/ Unlock(i) \/ LoopDestroyed(i)
      BY <1>1, <3>3 DEF WokenUp, OtherEvent, Loop, Unlock, LoopDestroyed
    <3> QED
      BY <1>5, <3>1, <3>2, <3>3 DEF LoopStep
  <2>2. LeftLoops' = LeftLoops /\ Asked' = Asked
    BY <1>1, <1>2, <2>1 DEF LeftLoops, Asked
  <2> QED
    BY <1>1, <1>2, <2>2 DEF LP!vars, Open, Asked, LeftLoops
<1> QED
  BY <1>3, <1>4, <1>5

LEMMA NextLoopPool == PoolInv /\ EndInv /\ [Next]_vars => [LP!Next]_LP!vars
<1> SUFFICES ASSUME PoolInv, EndInv, [Next]_vars PROVE [LP!Next]_LP!vars
  OBVIOUS
<1> USE PoolAssumption
<1>1. /\ th \in [Thread -> ThreadRecord] /\ cur \in Nat /\ numThreads \in Nat
      /\ loops \in Seq(Thread \cup {Null}) /\ next \in Nat /\ Len(loops) <= numThreads
      /\ mainPc \in WithThread => cur \in Thread /\ cur <= numThreads
  <2>1. /\ th \in [Thread -> ThreadRecord] /\ cur \in 1..(MaxThreads + 1)
        /\ numThreads \in 0..MaxThreads /\ loops \in Seq(Thread \cup {Null})
        /\ next \in 0..MaxThreads /\ Len(loops) <= numThreads
    BY DEF PoolInv, TypeOK, ThreadRecord
  <2>2. mainPc \in WithThread => cur \in Thread /\ cur <= numThreads
    BY <2>1 DEF PoolInv, CurIsThread, Thread
  <2> QED
    BY <2>1, <2>2
\* Steps that nobody outside sees.
<1>2. ASSUME /\ \A i \in Thread : /\ th'[i].userQuit = th[i].userQuit
                                  /\ th'[i].pc \in Left <=> th[i].pc \in Left
                                  /\ MainQuits(i)' = MainQuits(i) \/ th[i].userQuit
             /\ UNCHANGED <<numThreads, loops, next, Open>>
      PROVE  LP!vars' = LP!vars
  <2>1. Asked' = Asked /\ LeftLoops' = LeftLoops
    BY <1>2 DEF Asked, LeftLoops
  <2> QED
    BY <1>2, <2>1 DEF LP!vars, Open, Asked, LeftLoops, Left
<1>3. CASE Start
  <2>1. cur \in Thread
    BY <1>1, <1>3 DEF Start, Thread, PoolInv, TypeOK
  <2>2. th[cur] = NewThread
    BY <1>3, <2>1 DEF Start, Main, PoolInv, NotBegun, Starting
  <2>3. /\ th'[cur] = [NewThread EXCEPT !.pc = "born"]
        /\ \A j \in Thread : j # cur => th'[j] = th[j]
        /\ UNCHANGED <<numThreads, loops, next, cur>> /\ mainPc = "start" /\ mainPc' = "sem"
    BY <1>1, <1>3, <2>1, <2>2 DEF Start, Main, poolVars
  <2>4. \A i \in Thread : /\ th'[i].userQuit = th[i].userQuit
                          /\ th'[i].pc \in Left <=> th[i].pc \in Left
    BY <2>2, <2>3 DEF NewThread, Left
  <2>5. Open' = Open /\ \A i \in Thread : MainQuits(i)' = MainQuits(i)
    BY <2>3 DEF Open, MainQuits
  <2> QED
    BY <1>2, <2>3, <2>4, <2>5
<1>4. CASE SemWait \/ Lock \/ Wait \/ DestroyWakesUp
  <2>1. cur \in Thread
    BY <1>1, <1>4 DEF SemWait, Lock, Wait, DestroyWakesUp, Main, WithThread
  <2>2. \A i \in Thread : th'[i].userQuit = th[i].userQuit /\ th'[i].pc = th[i].pc
    BY <1>1, <1>4, <2>1 DEF SemWait, Lock, Wait, DestroyWakesUp, ThreadRecord
  <2>3. /\ UNCHANGED <<numThreads, loops, next, cur>>
        /\ <<mainPc, mainPc'>> \in {<<"sem", "lock">>, <<"lock", "check">>,
              <<"check", "waiting">>, <<"wakeup", "join">>}
    BY <1>4 DEF SemWait, Lock, Wait, DestroyWakesUp, Main, poolVars
  <2>4. Open' = Open /\ \A i \in Thread : MainQuits(i)' = MainQuits(i)
    BY <2>3 DEF Open, MainQuits
  <2> QED
    BY <1>2, <2>2, <2>3, <2>4
<1>5. CASE DestroyQuits
  <2>1. /\ cur \in Thread /\ mainPc = "quit" /\ mainPc' = "wakeup"
        /\ UNCHANGED <<numThreads, loops, next, cur>>
    BY <1>1, <1>5 DEF DestroyQuits, Main, WithThread, poolVars
  <2>2. \A i \in Thread : th'[i].userQuit = th[i].userQuit /\ th'[i].pc = th[i].pc
    BY <1>1, <1>5, <2>1 DEF DestroyQuits, ThreadRecord
  <2>3. \A i \in Thread : MainQuits(i)' <=> MainQuits(i) \/ i = cur
    BY <1>1, <2>1 DEF MainQuits
  <2>4. Asked' = Asked \cup {cur} /\ LeftLoops' = LeftLoops /\ Open' = Open
    BY <2>1, <2>2, <2>3 DEF Asked, LeftLoops, Open
  <2>5. CASE cur \in Asked
    <3>1. Asked' = Asked
      BY <2>4, <2>5
    <3> QED
      BY <2>1, <2>4, <3>1 DEF LP!vars, Open, Asked, LeftLoops, Left
  <2>6. CASE cur \notin Asked
    <3>1. PICK i \in Thread : i = cur
      BY <2>1
    <3>2. LP!Ask(i)
      BY <2>1, <2>4, <2>6, <3>1 DEF LP!Ask, Open, Asked, LeftLoops, Left
    <3> QED
      BY <3>2 DEF LP!Next, LP!Thread, Thread
  <2> QED
    BY <2>5, <2>6
<1>6. CASE StartLoopReturns
  <2>1. /\ cur \in Thread /\ cur <= numThreads /\ mainPc = "check" /\ mainPc' = "start"
        /\ th[cur].loopPtr /\ loops' = Append(loops, cur)
        /\ UNCHANGED <<numThreads, next>>
    BY <1>1, <1>6 DEF StartLoopReturns, Main, WithThread
  <2>2. Len(loops) = cur - 1 /\ Len(loops') = Len(loops) + 1
    BY <1>1, <2>1 DEF PoolInv, LoopsSoFar, Starting
  <2>3. \A i \in Thread : th'[i].userQuit = th[i].userQuit /\ th'[i].pc = th[i].pc
    BY <1>1, <1>6, <2>1 DEF StartLoopReturns, ThreadRecord
  <2>4. Asked' = Asked /\ LeftLoops' = LeftLoops /\ Open /\ Open'
    BY <2>1, <2>3 DEF Asked, LeftLoops, Open, MainQuits
  <2>5. cur \notin LeftLoops
    BY <2>1 DEF PoolInv, LifeSpan, LeftLoops, Left, Within
  <2>6. LP!StartNext
    <3>1. Len(loops) < numThreads /\ Len(loops) + 1 \notin LeftLoops
      BY <1>1, <2>1, <2>2, <2>5 DEF Thread
    <3> QED
      BY <2>1, <2>2, <2>4, <3>1 DEF LP!StartNext, Open, Asked, LeftLoops, Left
  <2> QED
    BY <2>6 DEF LP!Next
<1>7. CASE \/ SpuriousWakeup \/ PoolStarted \/ DestroyCrashes \/ Join \/ PoolDestroyed
           \/ Destroy
  <2>1. /\ UNCHANGED <<numThreads, loops, next, th>> /\ cur' \in {cur, cur + 1}
        /\ \/ cur' = cur /\ <<mainPc, mainPc'>> \in {<<"waiting", "lock">>, <<"start", "user">>,
                <<"quit", "crash">>, <<"destroy", "done">>, <<"destroy", "quit">>}
           \/ cur' = cur + 1 /\ mainPc = "join" /\ mainPc' = "destroy"
           \/ cur' = cur + 1 /\ mainPc = "destroy" /\ mainPc' = "destroy"
              /\ cur <= numThreads /\ ~th[cur].loopPtr
    BY <1>7 DEF SpuriousWakeup, PoolStarted, DestroyCrashes, Join, PoolDestroyed, Destroy, Main,
       poolVars
  <2>2. \A i \in Thread : MainQuits(i)' = MainQuits(i) \/ th[i].userQuit
    <3>1. CASE cur' = cur
      BY <1>1, <2>1, <3>1 DEF MainQuits
    <3>2. CASE cur' = cur + 1 /\ mainPc = "join" /\ mainPc' = "destroy"
      BY <1>1, <3>2 DEF MainQuits, Thread
    <3>3. CASE cur' = cur + 1 /\ mainPc = "destroy" /\ mainPc' = "destroy"
               /\ cur <= numThreads /\ ~th[cur].loopPtr
      <4>1. cur \in Thread /\ cur \in 1..Len(loops)
        BY <1>1, <3>3 DEF PoolInv, TypeOK, EndInv, AllStarted, Starting, Thread
      <4>2. th[cur].pc \in Left /\ ~MainQuits(cur)
        BY <1>1, <3>3, <4>1 DEF EndInv, LoopsBegun, PtrIsSet, MainQuits
      <4>3. th[cur].userQuit
        BY <4>1, <4>2 DEF EndInv, QuitHasReason
      <4>4. \A i \in Thread : i # cur => MainQuits(i)' = MainQuits(i)
        BY <1>1, <3>3 DEF MainQuits, Thread
      <4> QED
        BY <4>3, <4>4
    <3> QED
      BY <2>1, <3>1, <3>2, <3>3
  <2>3. Open' = Open
    BY <2>1 DEF Open
  <2> QED
    BY <1>2, <2>1, <2>2, <2>3
<1>8. CASE DestroyPool
  <2>1. UNCHANGED <<numThreads, loops, next, th>> /\ mainPc = "user" /\ mainPc' = "destroy"
        /\ cur' = 1
    BY <1>8 DEF DestroyPool, Main, poolVars
  <2>2. Asked' = Asked /\ LeftLoops' = LeftLoops /\ Open /\ ~Open'
    BY <2>1 DEF Asked, LeftLoops, Open, MainQuits, Thread
  <2>3. LP!Shut
    BY <2>1, <2>2 DEF LP!Shut, Open, Asked, LeftLoops, Left
  <2> QED
    BY <2>3 DEF LP!Next
<1>9. CASE GetNextLoop
  <2>1. /\ UNCHANGED <<numThreads, mainPc, cur, loops, th>> /\ mainPc = "user"
        /\ next' = IF loops = <<>> THEN next ELSE Following(next)
    BY <1>9 DEF GetNextLoop
  <2>2. Asked' = Asked /\ LeftLoops' = LeftLoops /\ Open /\ Open'
    BY <2>1 DEF Asked, LeftLoops, Open, MainQuits
  <2>3. CASE loops = <<>>
    BY <2>1, <2>2, <2>3 DEF LP!vars, Open, Asked, LeftLoops, Left
  <2>4. CASE loops # <<>>
    <3>1. Len(loops) = numThreads /\ next < numThreads /\ numThreads > 0
      BY <1>1, <2>1, <2>4 DEF PoolInv, TypeOK, EndInv, AllStarted, Starting
    <3>2. next' = (next + 1) % numThreads
      <4>1. CASE next + 1 = numThreads
        BY <1>1, <2>1, <2>4, <3>1, <4>1 DEF Following
      <4>2. CASE next + 1 < numThreads
        BY <1>1, <2>1, <2>4, <3>1, <4>2 DEF Following
      <4> QED
        BY <1>1, <3>1, <4>1, <4>2
    <3>3. LP!GetNext
      BY <2>1, <2>2, <3>1, <3>2 DEF LP!GetNext, Open, Asked, LeftLoops, Left
    <3> QED
      BY <3>3 DEF LP!Next
  <2> QED
    BY <2>3, <2>4
<1>10. ASSUME NEW i \in Thread, LoopStep(i) \/ OtherEvent(i) \/ UserQuit(i)
       PROVE [LP!Next]_LP!vars
  BY <1>10, LoopPoolLoopStep
<1>11. CASE UNCHANGED vars
  BY <1>11 DEF vars, poolVars, LP!vars, MainQuits
<1> QED
  BY <1>3, <1>4, <1>5, <1>6, <1>7, <1>8, <1>9, <1>10, <1>11 DEF Next, MainStep, UserStep

\* With its semaphore, mutex and condition variable the pool does what
\* LoopPool says: start() hands over running loops in order, getNextLoop()
\* counts modulo their number, and a loop is left only when it was told to quit
\* (EventLoopThreadPool.cc:14-51, EventLoopThread.cc:13-56).
THEOREM RefinesLoopPool == Spec => ImplementsLoopPool
<1>1. Spec => LP!Init /\ [][LP!Next]_LP!vars
  BY InitLoopPool, NextLoopPool, PoolIsInvariant, EndIsInvariant, PTL DEF Spec
<1> QED
  BY <1>1 DEF ImplementsLoopPool, LP!Spec

\* The variables keep their types, for every size of the pool.
THEOREM TypeCorrect == Spec => []TypeOK
BY PoolIsInvariant, PTL DEF PoolInv
==============================================================================
