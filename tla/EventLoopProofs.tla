--------------------------- MODULE EventLoopProofs ---------------------------
(***************************************************************************)
(* Proofs about EventLoop for every set of callers and channels and every  *)
(* bound MaxCalls: its types, that no functor is stranded, that a batch    *)
(* only shrinks, and that the module implements TaskQueue.                 *)
(***************************************************************************)
EXTENDS EventLoop, SequenceTheorems, TLAPS

USE EventLoopAssumption

\* queueInLoop hands over one more task of type Task.
LEMMA EmplaceTypes ==
  ASSUME TypeOK, NEW t \in Threads, Emplace(t)
  PROVE  /\ <<t, sent[t] + 1>> \in Task
         /\ pending' = Append(pending, <<t, sent[t] + 1>>)
         /\ pending' \in Seq(Task)
         /\ functors' = functors
         /\ sent' \in [Threads -> 0..MaxCalls]
<1>1. <<t, sent[t] + 1>> \in Task
  BY DEF TypeOK, Emplace, Task
<1>. QED  BY <1>1 DEF TypeOK, Emplace

LEMMA InitTypeOK == Init => TypeOK
<1>1. <<>> \in Seq(Task)
  BY EmptySeq
<1>2. ASSUME Init
      PROVE  sent \in [Threads -> 0..MaxCalls] /\ early \in 0..MaxCalls
  BY <1>2 DEF Init
<1>3. ASSUME Init
      PROVE  /\ pc \in PC
             /\ quit \in BOOLEAN /\ calling \in BOOLEAN /\ wakeup \in BOOLEAN
             /\ ready \in SUBSET Channels
             /\ active \in SUBSET (Channels \cup {WakeupChannel})
             /\ waking \in SUBSET Threads
  BY <1>3, Zenon DEF Init, PC
<1>. QED  BY <1>1, <1>2, <1>3 DEF Init, TypeOK

LEMMA NextTypeOK == TypeOK /\ [Next]_vars => TypeOK'
<1> SUFFICES ASSUME TypeOK, [Next]_vars
             PROVE  TypeOK'
  OBVIOUS
<1> USE DEF TypeOK, PC, Goto
<1>1. CASE LoopStep
  <2>1. CASE StartLoop \/ TestQuit \/ PollEvents
    BY <2>1, Zenon DEF StartLoop, TestQuit, PollEvents, Reported, queues, io, history
  <2>2. CASE HandleWakeup \/ HandlerReturns
    BY <2>2 DEF HandleWakeup, HandlerReturns, queues, io, history
  <2>3. CASE \E c \in Channels : HandleEvent(c)
    BY <2>3 DEF HandleEvent, queues, io, history
  <2>4. CASE DoPendingFunctors \/ FunctorReturns \/ FunctorsDone
    <3>1. <<>> \in Seq(Task)
      BY EmptySeq
    <3>. QED  BY <2>4, <3>1 DEF DoPendingFunctors, FunctorReturns, FunctorsDone, queues, io, history
  <2>5. CASE RunFunctor
    <3>1. Head(functors) \in Task /\ Tail(functors) \in Seq(Task)
      BY <2>5 DEF RunFunctor
    <3>. QED  BY <2>5, <3>1 DEF RunFunctor, queues, io, history
  <2>. QED  BY <1>1, <2>1, <2>2, <2>3, <2>4, <2>5 DEF LoopStep
<1>2. CASE PollTimeout
  BY <1>2 DEF PollTimeout, queues, io, history
<1>3. CASE OwnerQueues
  BY <1>3, EmplaceTypes DEF OwnerQueues, QueueInLoop, Threads, io
<1>4. CASE OwnerQuits
  BY <1>4 DEF OwnerQuits, Quit, queues, io, history
<1>5. ASSUME NEW t \in Callers, CallerQueues(t)
      PROVE  TypeOK'
  BY <1>5, EmplaceTypes DEF CallerQueues, QueueInLoop, Threads, io
<1>6. ASSUME NEW t \in Callers, CallerQuits(t)
      PROVE  TypeOK'
  BY <1>6 DEF CallerQuits, Quit, Threads, queues, io, history
<1>7. ASSUME NEW t \in Threads, Wakeup(t)
      PROVE  TypeOK'
  BY <1>7 DEF Wakeup, queues, history
<1>8. ASSUME NEW c \in Channels, EventArrives(c)
      PROVE  TypeOK'
  BY <1>8 DEF EventArrives, queues, history
<1>9. CASE UNCHANGED vars
  BY <1>9 DEF vars, queues, io, history
<1>. QED
  BY <1>1, <1>2, <1>3, <1>4, <1>5, <1>6, <1>7, <1>8, <1>9 DEF Next

\* Every variable keeps its type.
THEOREM TypeCorrect == Spec => []TypeOK
BY InitTypeOK, NextTypeOK, PTL DEF Spec


------------------------------------------------------------------------------
\* The inductive invariant behind NoLostWakeup and BatchIsFixed.

\* callingPendingFunctors_ is true exactly inside doPendingFunctors, and only
\* there does the swapped-out vector hold anything.
CallingInside ==
  /\ calling <=> pc \in {"run", "functor"}
  /\ functors # <<>> => calling

\* What the owner queues in setup is what counts as early.
EarlyIsSetup == pc = "setup" => early = sent[Owner]

\* Between the swap of one iteration and the wakeup event of the next, a
\* functor in pendingFunctors_ has a wakeup written or on its way.  From
\* handleRead to the swap it needs none.
PendingIsAnnounced ==
  pc \notin {"handle", "handler"} /\ ~wakeup /\ waking = {} =>
    \A i \in 1..Len(pending) : QueuedEarly(pending[i])

LoopInv == TypeOK /\ CallingInside /\ EarlyIsSetup /\ PendingIsAnnounced

\* An element of pendingFunctors_ after an emplace_back is an old one or the
\* new one.
LEMMA AppendedElement ==
  ASSUME NEW S, NEW s \in Seq(S), NEW e \in S, NEW i \in 1..Len(Append(s, e))
  PROVE  \/ i \in 1..Len(s) /\ Append(s, e)[i] = s[i]
         \/ Append(s, e)[i] = e
<1>1. i \in 1..(Len(s) + 1)
  BY AppendProperties
<1>2. i \in 1..Len(s) \/ i = Len(s) + 1
  BY <1>1, LenProperties
<1>. QED  BY <1>2, AppendProperties

\* A call of queueInLoop keeps the three parts of the invariant: the functor
\* it adds is announced, is early, or is picked up by the coming swap.
LEMMA QueueKeepsInv ==
  ASSUME LoopInv, NEW t \in Threads, QueueInLoop(t),
         t = Owner => pc \in {"setup", "handler", "functor"},
         early' = IF t = Owner /\ pc = "setup" THEN sent'[Owner] ELSE early
  PROVE  CallingInside' /\ EarlyIsSetup' /\ PendingIsAnnounced'
<1>1. TypeOK /\ Emplace(t) /\ UNCHANGED <<pc, calling, functors, wakeup>>
  BY DEF LoopInv, QueueInLoop, Emplace, io
<1>2. CallingInside'
  BY <1>1 DEF LoopInv, CallingInside
<1>3. sent' = [sent EXCEPT ![t] = sent[t] + 1]
  BY <1>1 DEF Emplace
<1>4. EarlyIsSetup'
  <2>1. CASE t = Owner
    BY <1>1, <2>1 DEF EarlyIsSetup
  <2>2. CASE t # Owner
    <3>1. sent'[Owner] = sent[Owner] /\ early' = early
      BY <1>1, <1>3, <2>2 DEF TypeOK, Threads
    <3>. QED  BY <1>1, <3>1 DEF LoopInv, EarlyIsSetup
  <2>. QED  BY <2>1, <2>2
<1>5. PendingIsAnnounced'
  <2>1. CASE NeedsWakeup(t)
    <3>1. waking' # {}
      BY <2>1 DEF QueueInLoop
    <3>. QED  BY <3>1 DEF PendingIsAnnounced
  <2>2. CASE ~NeedsWakeup(t) /\ pc = "handler"
    BY <1>1, <2>2 DEF PendingIsAnnounced
  <2>3. CASE ~NeedsWakeup(t) /\ pc # "handler"
    <3>1. t = Owner /\ pc = "setup"
      BY <2>3 DEF NeedsWakeup, LoopInv, CallingInside
    <3>2. /\ waking' = waking
          /\ early = sent[Owner]
          /\ early' = sent[Owner] + 1
          /\ early \in Nat
      BY <1>1, <1>3, <2>3, <3>1 DEF QueueInLoop, LoopInv, EarlyIsSetup, TypeOK, Threads
    <3> SUFFICES ASSUME ~wakeup, waking = {}, NEW i \in 1..Len(pending')
                 PROVE  QueuedEarly(pending[i])'
      BY <1>1, <3>2 DEF PendingIsAnnounced
    <3>3. /\ <<t, sent[t] + 1>> \in Task
          /\ pending' = Append(pending, <<t, sent[t] + 1>>)
          /\ pending \in Seq(Task)
      BY <1>1, EmplaceTypes DEF TypeOK
    <3>4. CASE i \in 1..Len(pending) /\ pending'[i] = pending[i]
      <4>1. QueuedEarly(pending[i])
        BY <3>1, <3>4 DEF LoopInv, PendingIsAnnounced
      <4>2. pending[i] \in Task
        BY <3>3, <3>4, ElementOfSeq
      <4>3. pending[i][2] \in Nat
        BY <4>2 DEF Task
      <4>. QED  BY <3>2, <3>4, <4>1, <4>3 DEF QueuedEarly
    <3>5. CASE pending'[i] = <<t, sent[t] + 1>>
      BY <3>1, <3>2, <3>5 DEF QueuedEarly
    <3>6. \/ i \in 1..Len(pending) /\ pending'[i] = pending[i]
          \/ pending'[i] = <<t, sent[t] + 1>>
      BY <3>3, AppendedElement
    <3>. QED  BY <3>4, <3>5, <3>6
  <2>. QED  BY <2>1, <2>2, <2>3
<1>. QED  BY <1>2, <1>4, <1>5

LEMMA InitLoopInv == Init => LoopInv
<1> SUFFICES ASSUME Init PROVE LoopInv
  OBVIOUS
<1>1. TypeOK
  BY InitTypeOK
<1>2. CallingInside
  BY DEF Init, CallingInside
<1>3. EarlyIsSetup
  BY DEF Init, EarlyIsSetup, Threads
<1>4. PendingIsAnnounced
  BY DEF Init, PendingIsAnnounced
<1>. QED  BY <1>1, <1>2, <1>3, <1>4 DEF LoopInv

LEMMA NextLoopInv == LoopInv /\ [Next]_vars => LoopInv'
<1> SUFFICES ASSUME LoopInv, [Next]_vars PROVE LoopInv'
  OBVIOUS
<1>1. TypeOK'
  BY NextTypeOK DEF LoopInv
<1> USE DEF LoopInv, CallingInside, EarlyIsSetup, PendingIsAnnounced, QueuedEarly
<1>2. CASE LoopStep
  <2> USE DEF Goto, queues, io, history
  <2>1. CASE StartLoop \/ TestQuit \/ PollEvents
    BY <1>1, <2>1 DEF StartLoop, TestQuit, PollEvents
  <2>2. CASE HandleWakeup \/ HandlerReturns
    BY <1>1, <2>2 DEF HandleWakeup, HandlerReturns
  <2>3. CASE \E c \in Channels : HandleEvent(c)
    BY <1>1, <2>3 DEF HandleEvent
  <2>4. CASE DoPendingFunctors
    BY <1>1, <2>4 DEF DoPendingFunctors
  <2>5. CASE RunFunctor
    BY <1>1, <2>5 DEF RunFunctor
  <2>6. CASE FunctorReturns \/ FunctorsDone
    BY <1>1, <2>6 DEF FunctorReturns, FunctorsDone
  <2>. QED
    BY <1>2, <2>1, <2>2, <2>3, <2>4, <2>5, <2>6 DEF LoopStep
<1>3. CASE PollTimeout
  BY <1>1, <1>3 DEF PollTimeout, Goto, queues, io, history
<1>4. CASE OwnerQueues
  BY <1>1, <1>4, QueueKeepsInv DEF OwnerQueues, Threads
<1>5. CASE OwnerQuits
  BY <1>1, <1>5 DEF OwnerQuits, Quit, queues, io, history
<1>6. ASSUME NEW t \in Callers, CallerQueues(t)
      PROVE  LoopInv'
  BY <1>1, <1>6, QueueKeepsInv, EventLoopAssumption DEF CallerQueues, Threads
<1>7. ASSUME NEW t \in Callers, CallerQuits(t)
      PROVE  LoopInv'
  BY <1>1, <1>7, EventLoopAssumption DEF CallerQuits, Quit, queues, io, history
<1>8. ASSUME NEW t \in Threads, Wakeup(t)
      PROVE  LoopInv'
  BY <1>1, <1>8 DEF Wakeup, queues, history
<1>9. ASSUME NEW c \in Channels, EventArrives(c)
      PROVE  LoopInv'
  BY <1>1, <1>9 DEF EventArrives, queues, history
<1>10. CASE UNCHANGED vars
  BY <1>1, <1>10 DEF vars, queues, io, history
<1>. QED
  BY <1>2, <1>3, <1>4, <1>5, <1>6, <1>7, <1>8, <1>9, <1>10 DEF Next

\* The batch doPendingFunctors runs only shrinks.
THEOREM BatchOnlyShrinks == Spec => BatchIsFixed
<1>1. ASSUME LoopInv, [Next]_vars
      PROVE  [functors # <<>> => functors' \in {functors, Tail(functors)}]_vars
  <2> SUFFICES ASSUME functors # <<>>, Next
               PROVE  functors' \in {functors, Tail(functors)}
    BY <1>1
  <2>1. pc \in {"run", "functor"}
    BY <1>1 DEF LoopInv, CallingInside
  <2> USE DEF Goto, queues, io, history
  <2>2. CASE LoopStep
    BY <2>1, <2>2 DEF LoopStep, StartLoop, TestQuit, PollEvents, HandleWakeup,
      HandleEvent, HandlerReturns, DoPendingFunctors, RunFunctor, FunctorReturns, FunctorsDone
  <2>3. CASE PollTimeout \/ OwnerQueues \/ OwnerQuits
    BY <2>3 DEF PollTimeout, OwnerQueues, OwnerQuits, QueueInLoop, Emplace, Quit
  <2>4. ASSUME NEW t \in Callers, CallerQueues(t) \/ CallerQuits(t)
        PROVE  functors' = functors
    BY <2>4 DEF CallerQueues, CallerQuits, QueueInLoop, Emplace, Quit
  <2>5. ASSUME NEW t \in Threads, Wakeup(t)
        PROVE  functors' = functors
    BY <2>5 DEF Wakeup
  <2>6. ASSUME NEW c \in Channels, EventArrives(c)
        PROVE  functors' = functors
    BY <2>6 DEF EventArrives
  <2>. QED  BY <2>2, <2>3, <2>4, <2>5, <2>6 DEF Next
<1>. QED  BY <1>1, InitLoopInv, NextLoopInv, PTL DEF Spec, BatchIsFixed

------------------------------------------------------------------------------
\* EventLoop implements TaskQueue: a call of queueInLoop is a Submit, a functor
\* called is an Execute, everything else is a stutter.

\* The tasks still waiting, as the refinement mapping of TQ has them.
Waiting == functors \o pending

LEMMA AppendToConcat ==
  ASSUME NEW S, NEW s \in Seq(S), NEW u \in Seq(S), NEW e \in S
  PROVE  s \o Append(u, e) = Append(s \o u, e)
<1>1. <<e>> \in Seq(S)
  OBVIOUS
<1>2. Append(u, e) = u \o <<e>> /\ Append(s \o u, e) = (s \o u) \o <<e>>
  BY AppendIsConcat, ConcatProperties
<1>. QED  BY <1>1, <1>2, ConcatAssociative

LEMMA HeadTailOfConcat ==
  ASSUME NEW S, NEW s \in Seq(S), NEW u \in Seq(S), s # <<>>
  PROVE  /\ s \o u # <<>>
         /\ Head(s \o u) = Head(s)
         /\ Tail(s \o u) = Tail(s) \o u
<1>1. /\ Len(s) \in Nat \ {0} /\ Len(u) \in Nat
      /\ s \o u \in Seq(S)
      /\ Len(s \o u) = Len(s) + Len(u)
      /\ \A i \in 1..Len(s) + Len(u) :
            (s \o u)[i] = IF i <= Len(s) THEN s[i] ELSE u[i - Len(s)]
  BY EmptySeq, LenProperties, ConcatProperties
<1>2. s \o u # <<>>
  BY <1>1, ConcatEqualIffEmpty
<1>3. Head(s \o u) = Head(s)
  BY <1>1, <1>2
<1>4. /\ Tail(s) \in Seq(S) /\ Len(Tail(s)) = Len(s) - 1
      /\ \A i \in 1..Len(Tail(s)) : Tail(s)[i] = s[i + 1]
  BY HeadTailProperties
<1>5. /\ Tail(s \o u) \in Seq(S) /\ Len(Tail(s \o u)) = Len(s) + Len(u) - 1
      /\ \A i \in 1..Len(Tail(s \o u)) : Tail(s \o u)[i] = (s \o u)[i + 1]
  BY <1>1, <1>2, HeadTailProperties
<1>6. /\ Tail(s) \o u \in Seq(S)
      /\ Len(Tail(s) \o u) = Len(s) - 1 + Len(u)
      /\ \A i \in 1..(Len(s) - 1 + Len(u)) :
            (Tail(s) \o u)[i] =
              IF i <= Len(s) - 1 THEN s[i + 1] ELSE u[i - (Len(s) - 1)]
  BY <1>1, <1>4, ConcatProperties
<1>7. ASSUME NEW i \in 1..(Len(s) - 1 + Len(u))
      PROVE  Tail(s \o u)[i] = (Tail(s) \o u)[i]
  <2>1. i \in Nat /\ i + 1 \in 1..(Len(s) + Len(u)) /\ i + 1 - Len(s) = i - (Len(s) - 1)
    BY <1>1
  <2>2. (s \o u)[i + 1] = IF i + 1 <= Len(s) THEN s[i + 1] ELSE u[i + 1 - Len(s)]
    BY <1>1, <2>1
  <2>3. Tail(s \o u)[i] = (s \o u)[i + 1]
    BY <1>1, <1>5
  <2>. QED  BY <1>1, <1>6, <2>1, <2>2, <2>3
<1>8. Tail(s \o u) = Tail(s) \o u
  BY <1>1, <1>5, <1>6, <1>7, SeqEqual
<1>. QED  BY <1>2, <1>3, <1>8

LEMMA QueueIsSubmit ==
  ASSUME TypeOK, NEW t \in Threads, QueueInLoop(t)
  PROVE  \E x \in Task : TQ!Submit(x)
<1>1. Emplace(t) /\ done' = done
  BY DEF QueueInLoop
<1>2. <<t, sent[t] + 1>> \in Task
  BY <1>1, EmplaceTypes
<1>3. Waiting' = Append(Waiting, <<t, sent[t] + 1>>)
  <2>1. /\ functors' = functors
        /\ pending' = Append(pending, <<t, sent[t] + 1>>)
        /\ functors \in Seq(Task) /\ pending \in Seq(Task)
    BY <1>1, EmplaceTypes DEF TypeOK
  <2>. QED  BY <1>2, <2>1, AppendToConcat DEF Waiting
<1>4. TQ!Submit(<<t, sent[t] + 1>>)
  BY <1>1, <1>3 DEF TQ!Submit, Waiting
<1>. QED  BY <1>2, <1>4

LEMMA RunIsExecute ==
  ASSUME TypeOK, RunFunctor
  PROVE  TQ!Execute
<1>1. /\ functors # <<>> /\ functors' = Tail(functors) /\ pending' = pending
      /\ done' = Append(done, Head(functors))
      /\ functors \in Seq(Task) /\ pending \in Seq(Task)
  BY DEF RunFunctor, TypeOK
<1>2. Waiting # <<>> /\ Head(Waiting) = Head(functors) /\ Waiting' = Tail(Waiting)
  BY <1>1, HeadTailOfConcat DEF Waiting
<1>. QED  BY <1>1, <1>2 DEF TQ!Execute, Waiting

\* What a step can do to the functors: one is queued, one is executed, or they
\* stay what they are and where they stand in the order.
LEMMA FunctorSteps ==
  ASSUME LoopInv, [Next]_vars
  PROVE  \/ \E t \in Threads : QueueInLoop(t)
         \/ RunFunctor
         \/ Waiting' = Waiting /\ done' = done /\ sent' = sent
<1>. DEFINE Keeps == Waiting' = Waiting /\ done' = done /\ sent' = sent
<1>0. TypeOK
  BY DEF LoopInv
<1>. USE DEF queues, io, history
<1>1. ASSUME UNCHANGED <<pending, functors, done, sent>>
      PROVE  Keeps
  BY <1>1 DEF Waiting
<1>2. CASE LoopStep
  <2>1. CASE RunFunctor
    BY <2>1
  <2>2. CASE DoPendingFunctors
    <3>1. functors = <<>>
      BY <2>2 DEF DoPendingFunctors, Goto, LoopInv, CallingInside
    <3>2. <<>> \o pending = pending /\ pending \o <<>> = pending
      BY <1>0, ConcatEmptySeq DEF TypeOK
    <3>. QED  BY <2>2, <3>1, <3>2 DEF DoPendingFunctors, Waiting
  <2>3. CASE StartLoop \/ TestQuit \/ PollEvents \/ HandleWakeup
    BY <1>1, <2>3 DEF StartLoop, TestQuit, PollEvents, HandleWakeup
  <2>4. CASE (\E c \in Channels : HandleEvent(c)) \/ HandlerReturns
    BY <1>1, <2>4 DEF HandleEvent, HandlerReturns
  <2>5. CASE FunctorReturns \/ FunctorsDone
    BY <1>1, <2>5 DEF FunctorReturns, FunctorsDone
  <2>. QED  BY <1>2, <2>1, <2>2, <2>3, <2>4, <2>5 DEF LoopStep
<1>3. CASE PollTimeout
  BY <1>1, <1>3 DEF PollTimeout
<1>4. CASE OwnerQueues
  BY <1>4 DEF OwnerQueues, Threads
<1>5. CASE OwnerQuits
  BY <1>1, <1>5 DEF OwnerQuits, Quit
<1>6. ASSUME NEW t \in Callers, CallerQueues(t)
      PROVE  QueueInLoop(t) /\ t \in Threads
  BY <1>6 DEF CallerQueues, Threads
<1>7. ASSUME NEW t \in Callers, CallerQuits(t)
      PROVE  Keeps
  BY <1>1, <1>7 DEF CallerQuits, Quit
<1>8. ASSUME NEW t \in Threads, Wakeup(t)
      PROVE  Keeps
  BY <1>1, <1>8 DEF Wakeup
<1>9. ASSUME NEW c \in Channels, EventArrives(c)
      PROVE  Keeps
  BY <1>1, <1>9 DEF EventArrives
<1>10. CASE UNCHANGED vars
  BY <1>1, <1>10 DEF vars
<1>. QED
  BY <1>2, <1>3, <1>4, <1>5, <1>6, <1>7, <1>8, <1>9, <1>10 DEF Next

\* Every functor is executed at most once, in the order of the emplace_backs.
THEOREM RefinesTaskQueue == Spec => ImplementsTaskQueue
<1>1. Init => TQ!Init
  <2>1. <<>> \o <<>> = <<>>
    BY EmptySeq, ConcatEmptySeq
  <2>. QED  BY <2>1 DEF Init, TQ!Init
<1>2. LoopInv /\ [Next]_vars => [TQ!Next]_TQ!vars
  <2> SUFFICES ASSUME LoopInv, [Next]_vars
               PROVE  [TQ!Next]_TQ!vars
    OBVIOUS
  <2>0. TypeOK
    BY DEF LoopInv
  <2>1. ASSUME NEW t \in Threads, QueueInLoop(t)
        PROVE  TQ!Next
    BY <2>0, <2>1, QueueIsSubmit DEF TQ!Next
  <2>2. CASE RunFunctor
    BY <2>0, <2>2, RunIsExecute DEF TQ!Next
  <2>3. CASE Waiting' = Waiting /\ done' = done
    BY <2>3 DEF TQ!vars, Waiting
  <2>. QED  BY <2>1, <2>2, <2>3, FunctorSteps
<1>3. Spec => TQ!Spec
  BY <1>1, <1>2, InitLoopInv, NextLoopInv, PTL DEF Spec, TQ!Spec
<1>. QED  BY <1>3 DEF ImplementsTaskQueue

------------------------------------------------------------------------------
\* Each functor is somewhere, and once.

\* fs has the functors of which n have been queued by each thread.
AllOnce(fs, n) ==
  /\ ToSet(fs) = {f \in Task : f[2] <= n[f[1]]}
  /\ \A i, j \in 1..Len(fs) : i < j /\ fs[i][1] = fs[j][1] => fs[i][2] < fs[j][2]

\* One more functor of thread t.
LEMMA OneMore ==
  ASSUME NEW fs \in Seq(Task), NEW n \in [Threads -> 0..MaxCalls], NEW t \in Threads,
         n[t] < MaxCalls, AllOnce(fs, n)
  PROVE  AllOnce(Append(fs, <<t, n[t] + 1>>), [n EXCEPT ![t] = @ + 1])
<1>. DEFINE f == <<t, n[t] + 1>>
            gs == Append(fs, f)
            m == [n EXCEPT ![t] = @ + 1]
<1>1. /\ Len(fs) \in Nat /\ Len(gs) = Len(fs) + 1
      /\ DOMAIN fs = 1..Len(fs) /\ DOMAIN gs = 1..(Len(fs) + 1)
      /\ \A i \in 1..Len(fs) : gs[i] = fs[i] /\ fs[i] \in Task
      /\ gs[Len(fs) + 1] = f
  OBVIOUS
<1>2. f \in Task
  BY DEF Task
<1>3. \A u \in Threads : m[u] = IF u = t THEN n[t] + 1 ELSE n[u]
  OBVIOUS
<1>. HIDE DEF gs, m
<1>4. ToSet(gs) = ToSet(fs) \cup {f}
  <2>. HIDE DEF f
  <2>1. ASSUME NEW x \in ToSet(gs)
        PROVE  x \in ToSet(fs) \cup {f}
    <3>1. PICK i \in 1..(Len(fs) + 1) : x = gs[i]
      BY <1>1 DEF ToSet
    <3>2. i \in 1..Len(fs) \/ i = Len(fs) + 1
      BY <1>1
    <3>. QED  BY <1>1, <3>1, <3>2 DEF ToSet
  <2>2. ASSUME NEW i \in 1..Len(fs)
        PROVE  fs[i] \in ToSet(gs)
    <3>1. i \in DOMAIN gs /\ fs[i] = gs[i]
      BY <1>1
    <3>. QED  BY <3>1 DEF ToSet
  <2>3. f \in ToSet(gs)
    <3>1. Len(fs) + 1 \in DOMAIN gs
      BY <1>1
    <3>. QED  BY <1>1, <3>1 DEF ToSet
  <2>4. \A x \in ToSet(fs) : \E i \in 1..Len(fs) : x = fs[i]
    BY <1>1 DEF ToSet
  <2>. QED  BY <2>1, <2>2, <2>3, <2>4
<1>5. {g \in Task : g[2] <= m[g[1]]} = {g \in Task : g[2] <= n[g[1]]} \cup {f}
  <2>1. ASSUME NEW g \in Task
        PROVE  g[2] <= m[g[1]] <=> g[2] <= n[g[1]] \/ g = f
    <3>1. g[1] \in Threads /\ g[2] \in Nat /\ g = <<g[1], g[2]>> /\ n[g[1]] \in Nat
      BY DEF Task
    <3>2. CASE g[1] = t
      BY <1>3, <3>1, <3>2
    <3>3. CASE g[1] # t
      BY <1>3, <3>1, <3>3
    <3>. QED  BY <3>2, <3>3
  <2>. QED  BY <1>2, <2>1
<1>6. ASSUME NEW i \in 1..Len(gs), NEW j \in 1..Len(gs), i < j, gs[i][1] = gs[j][1]
      PROVE  gs[i][2] < gs[j][2]
  <2>1. i \in 1..Len(fs) /\ gs[i] = fs[i]
    BY <1>1, <1>6
  <2>2. CASE j \in 1..Len(fs)
    BY <1>1, <1>6, <2>1, <2>2 DEF AllOnce
  <2>3. CASE j = Len(fs) + 1
    <3>1. fs[i] \in ToSet(fs) /\ fs[i][1] = t /\ gs[j][2] = n[t] + 1
      BY <1>1, <1>6, <2>1, <2>3 DEF ToSet
    <3>2. fs[i] \in Task /\ fs[i][2] <= n[t]
      BY <3>1 DEF AllOnce
    <3>3. fs[i][2] \in Nat
      BY <3>2 DEF Task
    <3>. QED  BY <2>1, <3>1, <3>2, <3>3
  <2>. QED  BY <1>1, <2>2, <2>3
<1>7. ToSet(gs) = {g \in Task : g[2] <= m[g[1]]}
  BY <1>4, <1>5 DEF AllOnce
<1>8. AllOnce(gs, m)
  BY <1>6, <1>7 DEF AllOnce
<1>. QED  BY <1>8 DEF gs, m

\* The first of the functors that wait becomes the last of those done.
LEMMA MovedOver ==
  ASSUME NEW S, NEW s \in Seq(S), NEW u \in Seq(S), u # <<>>
  PROVE  Append(s, Head(u)) \o Tail(u) = s \o u
<1>. DEFINE v == Append(s, Head(u)) \o Tail(u)
<1>1. /\ Head(u) = u[1] /\ u[1] \in S /\ Tail(u) \in Seq(S)
      /\ Len(u) \in Nat \ {0} /\ Len(s) \in Nat
      /\ Len(Tail(u)) = Len(u) - 1
      /\ \A i \in 1..(Len(u) - 1) : Tail(u)[i] = u[i + 1]
  BY EmptySeq
<1>2. /\ Append(s, Head(u)) \in Seq(S) /\ Len(Append(s, Head(u))) = Len(s) + 1
      /\ \A i \in 1..(Len(s) + 1) :
           Append(s, Head(u))[i] = IF i <= Len(s) THEN s[i] ELSE u[1]
  BY <1>1
<1>3. /\ v \in Seq(S) /\ Len(v) = Len(s) + Len(u)
      /\ \A i \in 1..(Len(s) + Len(u)) :
           v[i] = IF i <= Len(s) + 1 THEN Append(s, Head(u))[i] ELSE Tail(u)[i - (Len(s) + 1)]
  BY <1>1, <1>2, ConcatProperties
<1>4. /\ s \o u \in Seq(S) /\ Len(s \o u) = Len(s) + Len(u)
      /\ \A i \in 1..(Len(s) + Len(u)) : (s \o u)[i] = IF i <= Len(s) THEN s[i] ELSE u[i - Len(s)]
  BY ConcatProperties
<1>. HIDE DEF v
<1>5. ASSUME NEW i \in 1..(Len(s) + Len(u))
      PROVE  v[i] = (s \o u)[i]
  <2>1. CASE i <= Len(s) + 1
    BY <1>1, <1>2, <1>3, <1>4, <2>1
  <2>2. CASE i > Len(s) + 1
    <3>1. i - (Len(s) + 1) \in 1..(Len(u) - 1) /\ i - (Len(s) + 1) + 1 = i - Len(s)
      BY <1>1, <2>2
    <3>. QED  BY <1>1, <1>3, <1>4, <2>2, <3>1
  <2>. QED  BY <1>1, <2>1, <2>2
<1>6. v = s \o u
  BY <1>3, <1>4, <1>5, SeqEqual
<1>. QED  BY <1>6 DEF v

\* All functors there have been, in the order in which they were queued.
Queued == done \o Waiting

OnceInv == AllOnce(Queued, sent)

LEMMA InitOnce == Init => OnceInv
<1>. SUFFICES ASSUME Init PROVE OnceInv
  OBVIOUS
<1>1. Queued = <<>>
  <2>1. <<>> \o <<>> = <<>>
    BY EmptySeq, ConcatEmptySeq
  <2>. QED  BY <2>1 DEF Init, Queued, Waiting
<1>2. ToSet(Queued) = {} /\ Len(Queued) = 0
  BY <1>1 DEF ToSet
<1>3. \A f \in Task : ~(f[2] <= sent[f[1]])
  BY DEF Init, Task
<1>. QED  BY <1>2, <1>3 DEF OnceInv, AllOnce

LEMMA NextOnce == LoopInv /\ LoopInv' /\ OnceInv /\ [Next]_vars => OnceInv'
<1>. SUFFICES ASSUME LoopInv, LoopInv', OnceInv, [Next]_vars
              PROVE  OnceInv'
  OBVIOUS
<1>1. /\ functors \in Seq(Task) /\ pending \in Seq(Task) /\ done \in Seq(Task)
      /\ sent \in [Threads -> 0..MaxCalls]
  BY DEF LoopInv, TypeOK
<1>2. Waiting \in Seq(Task) /\ Queued \in Seq(Task)
  BY <1>1, ConcatProperties DEF Waiting, Queued
<1>3. ASSUME NEW t \in Threads, QueueInLoop(t)
      PROVE  OnceInv'
  <2>1. Emplace(t) /\ done' = done /\ TypeOK
    BY <1>3 DEF QueueInLoop, LoopInv
  <2>2. /\ <<t, sent[t] + 1>> \in Task
        /\ pending' = Append(pending, <<t, sent[t] + 1>>) /\ functors' = functors
        /\ sent[t] < MaxCalls /\ sent' = [sent EXCEPT ![t] = @ + 1]
    BY <2>1, EmplaceTypes DEF Emplace
  <2>3. Waiting' = Append(Waiting, <<t, sent[t] + 1>>)
    BY <1>1, <2>2, AppendToConcat DEF Waiting
  <2>4. Queued' = Append(Queued, <<t, sent[t] + 1>>)
    BY <1>1, <1>2, <2>1, <2>2, <2>3, AppendToConcat DEF Queued
  <2>5. AllOnce(Append(Queued, <<t, sent[t] + 1>>), [sent EXCEPT ![t] = @ + 1])
    BY <1>1, <1>2, <2>2, OneMore DEF OnceInv
  <2>. QED  BY <2>2, <2>4, <2>5 DEF OnceInv
<1>4. CASE RunFunctor
  <2>1. /\ functors # <<>> /\ functors' = Tail(functors) /\ pending' = pending
        /\ done' = Append(done, Head(functors)) /\ sent' = sent
    BY <1>4 DEF RunFunctor
  <2>2. Waiting # <<>> /\ Head(Waiting) = Head(functors) /\ Waiting' = Tail(Waiting)
    BY <1>1, <2>1, HeadTailOfConcat DEF Waiting
  <2>3. Queued' = Queued
    BY <1>1, <1>2, <2>1, <2>2, MovedOver DEF Queued
  <2>. QED  BY <2>1, <2>3 DEF OnceInv
<1>5. CASE Waiting' = Waiting /\ done' = done /\ sent' = sent
  BY <1>5 DEF OnceInv, Queued
<1>. QED  BY <1>3, <1>4, <1>5, FunctorSteps

\* What has been queued is executed, in the batch or pending, once and nowhere
\* else, and what a thread has queued is in the order of its calls: the swap
\* loses nothing to a queueInLoop that meets it.
EachFunctorOnce ==
  LET all == done \o functors \o pending
  IN  /\ ToSet(all) = {f \in Task : f[2] <= sent[f[1]]}
      /\ \A i, j \in 1..Len(all) :
           i < j /\ all[i][1] = all[j][1] => all[i][2] < all[j][2]

\* Nothing is lost, doubled or overtaken between queueInLoop and the call of the
\* functor (EventLoop.cc:118-122 against 167-177).
THEOREM EachFunctorAlwaysOnce == Spec => []EachFunctorOnce
<1>1. ASSUME LoopInv, OnceInv
      PROVE  EachFunctorOnce
  <2>1. (done \o functors) \o pending = done \o (functors \o pending)
    BY <1>1, ConcatAssociative DEF LoopInv, TypeOK
  <2>. QED  BY <1>1, <2>1 DEF OnceInv, AllOnce, Queued, Waiting, EachFunctorOnce
<1>. QED  BY <1>1, InitLoopInv, NextLoopInv, InitOnce, NextOnce, PTL DEF Spec

------------------------------------------------------------------------------
\* quit() is heard: the owner blocks only when it has found quit_ unset, and who
\* sets it afterwards writes the eventfd, which nothing resets before the owner
\* has left epoll_wait (EventLoop.cc:93-100).
QuitIsAnnounced == pc = "poll" /\ quit => wakeup \/ waking # {}

LEMMA NextQuit == TypeOK /\ QuitIsAnnounced /\ [Next]_vars => QuitIsAnnounced'
<1>. SUFFICES ASSUME TypeOK, QuitIsAnnounced, [Next]_vars
              PROVE  QuitIsAnnounced'
  OBVIOUS
<1>. USE DEF QuitIsAnnounced, Goto, queues, io, history
<1>1. CASE LoopStep
  BY <1>1 DEF LoopStep, StartLoop, TestQuit, PollEvents, HandleWakeup, HandleEvent, HandlerReturns,
     DoPendingFunctors, RunFunctor, FunctorReturns, FunctorsDone
<1>2. CASE PollTimeout \/ OwnerQueues \/ OwnerQuits
  BY <1>2 DEF PollTimeout, OwnerQueues, OwnerQuits, QueueInLoop, Quit
<1>3. ASSUME NEW t \in Callers, CallerQueues(t) \/ CallerQuits(t)
      PROVE  QuitIsAnnounced'
  BY <1>3, EventLoopAssumption DEF CallerQueues, CallerQuits, QueueInLoop, Quit
<1>4. ASSUME NEW t \in Threads, Wakeup(t)
      PROVE  QuitIsAnnounced'
  BY <1>4 DEF Wakeup
<1>5. ASSUME NEW c \in Channels, EventArrives(c)
      PROVE  QuitIsAnnounced'
  BY <1>5 DEF EventArrives
<1>6. CASE UNCHANGED vars
  BY <1>6 DEF vars
<1>. QED  BY <1>1, <1>2, <1>3, <1>4, <1>5, <1>6 DEF Next

\* No wakeup is lost, of a functor (EventLoop.cc:125) or of a quit() (line 96),
\* for every number of callers and calls.
THEOREM NoWakeupIsLost == Spec => []NoLostWakeup
<1>1. Init => QuitIsAnnounced
  BY DEF Init, QuitIsAnnounced
<1>2. LoopInv /\ QuitIsAnnounced => NoLostWakeup
  BY DEF LoopInv, PendingIsAnnounced, QuitIsAnnounced, NoLostWakeup
<1>. QED  BY <1>1, <1>2, NextQuit, TypeCorrect, InitLoopInv, NextLoopInv, PTL DEF Spec
=============================================================================
