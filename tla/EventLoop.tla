------------------------------ MODULE EventLoop ------------------------------
(***************************************************************************)
(* One EventLoop: the thread that owns it (Owner) runs EventLoop::loop(),  *)
(* the threads in Callers call queueInLoop/runInLoop and quit() on it.     *)
(*                                                                         *)
(* The members shared between threads are quit_, pendingFunctors_ (under   *)
(* mutex_) and the eventfd wakeupFd_; every action below performs at most  *)
(* one access to them, so all interleavings of those accesses are here.    *)
(* callingPendingFunctors_ is read by the owner only (the test of line 125 *)
(* short-circuits for every other thread).  looping_ is written and never  *)
(* read, and is left out.  runInLoop is queueInLoop when the caller is not *)
(* the owner; when it is, the callback runs on the spot inside the user    *)
(* code that called it and touches no member of the loop.                  *)
(***************************************************************************)
EXTENDS Naturals, Sequences, SequencesExt

CONSTANTS
  Owner,          \* the thread whose tid is threadId_
  Callers,        \* the other threads that hold a pointer to the loop
  Channels,       \* user channels of the loop's poller
  WakeupChannel,  \* wakeupChannel_
  MaxCalls        \* bound: queueInLoop calls each thread makes

ASSUME EventLoopAssumption ==
  /\ Owner \notin Callers
  /\ WakeupChannel \notin Channels
  /\ MaxCalls \in Nat

Threads == Callers \cup {Owner}

\* The k-th functor a thread hands over.
Task == Threads \X (1..MaxCalls)

VARIABLES
  pc,        \* where the owner is in the loop, see PC
  quit,      \* quit_
  calling,   \* callingPendingFunctors_
  pending,   \* pendingFunctors_
  functors,  \* the local vector of doPendingFunctors()
  wakeup,    \* the eventfd counter is not zero
  ready,     \* user channels the kernel holds an event for
  active,    \* activeChannels_ not yet handled in this iteration
  waking,    \* threads between their change of the loop and their wakeup()
  sent,      \* history: functors each thread has queued
  early,     \* history: functors the owner queued before it called loop()
  done       \* history: functors executed, in order

queues == <<pending, functors>>
io == <<wakeup, ready, active>>
history == <<sent, early, done>>
vars == <<pc, quit, calling, queues, io, waking, history>>

\* "setup": constructed, loop() not entered (a ThreadInitCallback runs here).
\* "test": at while(!quit_).  "poll": in epoll_wait.  "handle": between two
\* channels of activeChannels_.  "run": between two functors.  "handler" and
\* "functor": inside user code called from those two loops.
PC == {"setup", "test", "poll", "handle", "handler", "run", "functor", "exited"}

TypeOK ==
  /\ pc \in PC
  /\ quit \in BOOLEAN /\ calling \in BOOLEAN /\ wakeup \in BOOLEAN
  /\ pending \in Seq(Task) /\ functors \in Seq(Task) /\ done \in Seq(Task)
  /\ ready \in SUBSET Channels
  /\ active \in SUBSET (Channels \cup {WakeupChannel})
  /\ waking \in SUBSET Threads
  /\ sent \in [Threads -> 0..MaxCalls] /\ early \in 0..MaxCalls

Init ==
  /\ pc = "setup"
  /\ quit = FALSE /\ calling = FALSE /\ wakeup = FALSE
  /\ pending = <<>> /\ functors = <<>> /\ done = <<>>
  /\ ready = {} /\ active = {} /\ waking = {}
  /\ sent = [t \in Threads |-> 0] /\ early = 0

------------------------------------------------------------------------------
\* Calls a thread makes on the loop.

\* Line 125: who has to write the eventfd after queueing a functor.
Mut_NeedsWakeup(t) == t # Owner
Mut_NeedsWakeupOwner(t) == t = Owner /\ calling
NeedsWakeup(t) == t # Owner \/ calling

\* A functor's number is taken before it is counted.
Mut_EmplaceNumber(t) ==
  /\ sent[t] < MaxCalls
  /\ sent' = [sent EXCEPT ![t] = @ + 1]
  /\ pending' = Append(pending, <<t, sent[t]>>)
  /\ UNCHANGED functors

\* A functor queued during doPendingFunctors joins the batch being run.
Mut_Emplace(t) ==
  /\ sent[t] < MaxCalls
  /\ sent' = [sent EXCEPT ![t] = @ + 1]
  /\ IF calling
     THEN functors' = Append(functors, <<t, sent[t] + 1>>) /\ UNCHANGED pending
     ELSE pending' = Append(pending, <<t, sent[t] + 1>>) /\ UNCHANGED functors

\* Lines 118-122: emplace_back under mutex_.
Emplace(t) ==
  /\ sent[t] < MaxCalls
  /\ sent' = [sent EXCEPT ![t] = @ + 1]
  /\ pending' = Append(pending, <<t, sent[t] + 1>>)
  /\ UNCHANGED functors

\* queueInLoop up to the wakeup() it may still have to make.
QueueInLoop(t) ==
  /\ t \notin waking
  /\ Emplace(t)
  /\ waking' = IF NeedsWakeup(t) THEN waking \cup {t} ELSE waking
  /\ UNCHANGED <<pc, quit, calling, io, done>>

\* quit() without its wakeup().
Mut_Quit(t) ==
  /\ t \notin waking
  /\ quit' = TRUE
  /\ UNCHANGED <<pc, calling, queues, io, waking, history>>

\* quit(), and for a thread that is not the owner the wakeup() still to come.
Quit(t) ==
  /\ t \notin waking
  /\ quit' = TRUE
  /\ waking' = IF t # Owner THEN waking \cup {t} ELSE waking
  /\ UNCHANGED <<pc, calling, queues, io, history>>

\* wakeup(): the write to the eventfd that ends queueInLoop or quit.
Wakeup(t) ==
  /\ t \in waking
  /\ waking' = waking \ {t}
  /\ wakeup' = TRUE
  /\ UNCHANGED <<pc, quit, calling, queues, ready, active, history>>

CallerQueues(t) == t \in Callers /\ QueueInLoop(t) /\ UNCHANGED early

CallerQuits(t) == t \in Callers /\ Quit(t)

\* The ThreadInitCallback, a channel callback or a functor calls the loop.
OwnerQueues ==
  /\ pc \in {"setup", "handler", "functor"}
  /\ QueueInLoop(Owner)
  /\ early' = IF pc = "setup" THEN sent'[Owner] ELSE early

OwnerQuits ==
  /\ pc \in {"setup", "handler", "functor"}
  /\ Quit(Owner)

------------------------------------------------------------------------------
\* The owner's loop.  It goes on only when no call of its own is unfinished.

Goto(from, to) == Owner \notin waking /\ pc = from /\ pc' = to

\* Lines 67-68: loop() is entered.
StartLoop ==
  /\ Goto("setup", "test")
  /\ quit' = FALSE
  /\ UNCHANGED <<calling, queues, io, waking, history>>

\* Line 70.
TestQuit ==
  /\ Goto("test", IF quit THEN "exited" ELSE "poll")
  /\ active' = {}
  /\ UNCHANGED <<quit, calling, queues, wakeup, ready, waking, history>>

\* Descriptors epoll_wait has something to report for.  At most
\* kInitEventListSize (16) are reported at once; the instances stay below.
Reported == ready \cup (IF wakeup THEN {WakeupChannel} ELSE {})

PollEvents ==
  /\ Reported # {}
  /\ Goto("poll", "handle")
  /\ active' = Reported
  /\ UNCHANGED <<quit, calling, queues, wakeup, ready, waking, history>>

\* kPollTimeMs has passed, or a signal interrupted epoll_wait (EINTR).
PollTimeout ==
  /\ Reported = {}
  /\ Goto("poll", "handle")
  /\ UNCHANGED <<quit, calling, queues, io, waking, history>>

\* EventLoop::handleRead: the read resets the eventfd counter.
HandleWakeup ==
  /\ WakeupChannel \in active
  /\ Goto("handle", "handle")
  /\ active' = active \ {WakeupChannel}
  /\ wakeup' = FALSE
  /\ UNCHANGED <<quit, calling, queues, ready, waking, history>>

\* Line 79: the callback of channel c consumes its event and runs user code.
HandleEvent(c) ==
  /\ c \in active \ {WakeupChannel}
  /\ Goto("handle", "handler")
  /\ active' = active \ {c}
  /\ ready' = ready \ {c}
  /\ UNCHANGED <<quit, calling, queues, wakeup, waking, history>>

HandlerReturns ==
  /\ Goto("handler", "handle")
  /\ UNCHANGED <<quit, calling, queues, io, waking, history>>

\* The functors are copied out, not swapped.
Mut_DoPendingFunctors ==
  /\ active = {}
  /\ Goto("handle", "run")
  /\ calling' = TRUE
  /\ functors' = pending
  /\ UNCHANGED <<quit, pending, io, waking, history>>

\* Lines 167-172: callingPendingFunctors_ = true, then swap under mutex_.
DoPendingFunctors ==
  /\ active = {}
  /\ Goto("handle", "run")
  /\ calling' = TRUE
  /\ functors' = pending
  /\ pending' = <<>>
  /\ UNCHANGED <<quit, io, waking, history>>

\* Line 176: the next functor of the batch is called.
RunFunctor ==
  /\ functors # <<>>
  /\ Goto("run", "functor")
  /\ done' = Append(done, Head(functors))
  /\ functors' = Tail(functors)
  /\ UNCHANGED <<quit, calling, pending, io, waking, sent, early>>

FunctorReturns ==
  /\ Goto("functor", "run")
  /\ UNCHANGED <<quit, calling, queues, io, waking, history>>

\* Line 178.
FunctorsDone ==
  /\ functors = <<>>
  /\ Goto("run", "test")
  /\ calling' = FALSE
  /\ UNCHANGED <<quit, queues, io, waking, history>>

\* The kernel: an event arrives on a user channel.
EventArrives(c) ==
  /\ c \in Channels \ ready
  /\ ready' = ready \cup {c}
  /\ UNCHANGED <<pc, quit, calling, queues, wakeup, active, waking, history>>

------------------------------------------------------------------------------
LoopStep ==
  \/ StartLoop \/ TestQuit \/ PollEvents
  \/ HandleWakeup \/ (\E c \in Channels : HandleEvent(c)) \/ HandlerReturns
  \/ DoPendingFunctors \/ RunFunctor \/ FunctorReturns \/ FunctorsDone

Next ==
  \/ LoopStep
  \/ PollTimeout
  \/ OwnerQueues \/ OwnerQuits
  \/ \E t \in Callers : CallerQueues(t) \/ CallerQuits(t)
  \/ \E t \in Threads : Wakeup(t)
  \/ \E c \in Channels : EventArrives(c)

Spec == Init /\ [][Next]_vars

\* A running thread goes on: the owner through its loop, every thread through
\* a call it has begun.  Nobody has to call anything, no event has to arrive,
\* and epoll_wait need not time out.
Fairness == WF_vars(LoopStep) /\ \A t \in Threads : WF_vars(Wakeup(t))

FairSpec == Spec /\ Fairness

------------------------------------------------------------------------------
\* Properties.

QueuedEarly(f) == f[1] = Owner /\ f[2] <= early

\* No lost wakeup (queueInLoop, line 125; quit, line 96): when the owner blocks in
\* epoll_wait with the eventfd at zero and no thread about to write it, nothing
\* waits in pendingFunctors_, except what the owner queued before it entered
\* loop(), and quit_ is not set.  A quit() before that is not lost here: line 68
\* has undone it.
NoLostWakeup ==
  pc = "poll" /\ ~wakeup /\ waking = {} =>
    /\ \A i \in 1..Len(pending) : QueuedEarly(pending[i])
    /\ ~quit

\* The vector swapped out by doPendingFunctors only shrinks from the front: a
\* functor that queues another one cannot keep the owner from epoll_wait.
BatchIsFixed ==
  [][functors # <<>> => functors' \in {functors, Tail(functors)}]_vars

\* queueInLoop and doPendingFunctors together execute every functor at most
\* once and in the order of the emplace_back calls.
TQ == INSTANCE TaskQueue WITH waiting <- functors \o pending, done <- done

ImplementsTaskQueue == TQ!Spec

\* Every functor queued is executed, or the loop is left by quit(), even if
\* epoll_wait never times out; only what the owner queued before it entered
\* loop() may have to wait for another event.
Delivered ==
  \A f \in Task :
    (sent[f[1]] >= f[2])
      ~> (f \in ToSet(done) \/ pc = "exited" \/ (pc # "setup" /\ QueuedEarly(f)))

\* quit() from any thread stops a loop that has entered loop(), without the
\* help of a timeout.
QuitStopsLoop == (quit /\ pc # "setup") ~> (pc = "exited")
==============================================================================
