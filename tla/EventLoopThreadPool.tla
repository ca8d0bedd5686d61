------------------------- MODULE EventLoopThreadPool -------------------------
(***************************************************************************)
(* EventLoopThreadPool, EventLoopThread and Thread: the thread of the base *)
(* loop (main) starts the pool's threads one after the other, each with    *)
(* startLoop(), hands their loops out in turn, and destroys the pool.  An  *)
(* EventLoop is here what a thread that holds its address sees of it: it   *)
(* exists or not, it is entered, which resets quit_, and left when it      *)
(* reads quit_.  Each access to loop_, quit_, the eventfd, the semaphore   *)
(* or the mutex by one of the threads is a step.                           *)
(***************************************************************************)
EXTENDS Integers, Sequences

CONSTANTS
  MaxThreads,  \* bound: the most that setThreadNum asks for
  MaxPicks,    \* bound: calls of getNextLoop
  UserQuits    \* user code on a loop's thread may call quit()

ASSUME PoolAssumption ==
  MaxThreads \in Nat /\ MaxPicks \in Nat /\ UserQuits \in BOOLEAN

Base == 0                  \* the base loop
Null == -1                 \* nullptr
Thread == 1..MaxThreads    \* the loop of a thread has the thread's number

VARIABLES
  numThreads,  \* numThreads_
  mainPc,      \* where main is
  cur,         \* the thread that main starts or destroys
  loops,       \* loops_
  next,        \* next_
  picked,      \* history: how often getNextLoop returned each loop
  th           \* the EventLoopThread objects and their threads

poolVars == <<numThreads, loops, next, picked>>
vars == <<poolVars, mainPc, cur, th>>

\* main: "start" the thread cur, "sem": wait for its semaphore; startLoop:
\* "lock", "check" with the mutex, "waiting" in cond_.wait; "user": the pool is
\* in use; ~EventLoopThread of cur: "destroy", "quit", "wakeup", "join".
\* "crash": a call through nullptr.
MainPC == {"start", "sem", "lock", "check", "waiting", "user", "destroy",
           "quit", "wakeup", "join", "done", "crash"}

\* A thread: "none", "born", then threadFunc: "construct", "publish", "notify"
\* with the mutex, "enter" loop(), "test" and "poll" inside it, "clear" loop_
\* after it, "unlock", "destruct" the EventLoop, "exited".
LoopPC == {"none", "born", "construct", "publish", "notify", "enter", "test",
           "poll", "clear", "unlock", "destruct", "exited"}

\* History: lostQuit, EnterLoop has undone a quit; userQuit, a user made one.
NewThread ==
  [pc |-> "none", sem |-> FALSE, mutex |-> "free", loopPtr |-> FALSE,
   alive |-> FALSE, quit |-> FALSE, wakeup |-> FALSE, lostQuit |-> FALSE,
   userQuit |-> FALSE]

TypeOK ==
  /\ numThreads \in 0..MaxThreads
  /\ mainPc \in MainPC
  /\ cur \in 1..(MaxThreads + 1)
  /\ loops \in Seq(Thread \cup {Null}) /\ Len(loops) <= numThreads
  /\ next \in 0..MaxThreads /\ (loops # <<>> => next < Len(loops))
  /\ picked \in [0..MaxThreads -> 0..MaxPicks]
  /\ th \in [Thread -> [pc : LoopPC, sem : BOOLEAN,
                        mutex : {"free", "main", "loop"}, loopPtr : BOOLEAN,
                        alive : BOOLEAN, quit : BOOLEAN, wakeup : BOOLEAN,
                        lostQuit : BOOLEAN, userQuit : BOOLEAN]]

Init ==
  /\ numThreads \in 0..MaxThreads
  /\ mainPc = "start" /\ cur = 1
  /\ loops = <<>> /\ next = 0
  /\ picked = [i \in 0..MaxThreads |-> 0]
  /\ th = [i \in Thread |-> NewThread]

------------------------------------------------------------------------------
\* main starts the pool.

Main(from, to) == mainPc = from /\ mainPc' = to

\* Thread::start up to sem_wait.
Start ==
  /\ Main("start", "sem")
  /\ cur <= numThreads
  /\ th' = [th EXCEPT ![cur].pc = "born"]
  /\ UNCHANGED <<poolVars, cur>>

SemWait ==
  /\ Main("sem", "lock")
  /\ th[cur].sem
  /\ th' = [th EXCEPT ![cur].sem = FALSE]
  /\ UNCHANGED <<poolVars, cur>>

Lock ==
  /\ Main("lock", "check")
  /\ th[cur].mutex = "free"
  /\ th' = [th EXCEPT ![cur].mutex = "main"]
  /\ UNCHANGED <<poolVars, cur>>

\* loop_ is nullptr: cond_.wait gives up the mutex.
Wait ==
  /\ Main("check", "waiting")
  /\ ~th[cur].loopPtr
  /\ th' = [th EXCEPT ![cur].mutex = "free"]
  /\ UNCHANGED <<poolVars, cur>>

\* The loop around cond_.wait is an if.
Mut_SpuriousWakeup ==
  /\ Main("waiting", "start")
  /\ loops' = Append(loops, IF th[cur].loopPtr THEN cur ELSE Null)
  /\ cur' = cur + 1
  /\ UNCHANGED <<numThreads, next, picked, th>>

\* cond_.wait may return without a notification.
SpuriousWakeup ==
  /\ Main("waiting", "lock")
  /\ UNCHANGED <<poolVars, cur, th>>

\* startLoop returns loop_, which goes into loops_.
StartLoopReturns ==
  /\ Main("check", "start")
  /\ th[cur].loopPtr
  /\ loops' = Append(loops, cur)
  /\ cur' = cur + 1
  /\ th' = [th EXCEPT ![cur].mutex = "free"]
  /\ UNCHANGED <<numThreads, next, picked>>

PoolStarted ==
  /\ Main("start", "user")
  /\ cur > numThreads
  /\ UNCHANGED <<poolVars, cur, th>>

------------------------------------------------------------------------------
\* main uses the pool.

\* next_ is compared with the size before it is incremented.
Mut_Following(n) == IF n >= Len(loops) THEN 0 ELSE n + 1

\* The last loop is never reached.
Mut_FollowingSkips(n) == IF n + 2 >= Len(loops) THEN 0 ELSE n + 1

Following(n) == IF n + 1 >= Len(loops) THEN 0 ELSE n + 1

GetNextLoop ==
  LET loop == IF loops = <<>> THEN Base ELSE loops[next + 1]
  IN /\ mainPc = "user"
     /\ picked[loop] < MaxPicks
     /\ picked' = [picked EXCEPT ![loop] = @ + 1]
     /\ next' = IF loops = <<>> THEN next ELSE Following(next)
     /\ UNCHANGED <<numThreads, mainPc, cur, loops, th>>

------------------------------------------------------------------------------
\* main destroys the pool: the elements of threads_ in their order.

DestroyPool ==
  /\ Main("user", "destroy")
  /\ cur' = 1
  /\ UNCHANGED <<poolVars, th>>

\* ~EventLoopThread reads loop_ without the mutex.  If it is nullptr the
\* thread is left to itself: ~Thread detaches it.
Destroy ==
  /\ mainPc = "destroy"
  /\ cur <= numThreads
  /\ \/ th[cur].loopPtr /\ mainPc' = "quit" /\ UNCHANGED cur
     \/ ~th[cur].loopPtr /\ cur' = cur + 1 /\ UNCHANGED mainPc
  /\ UNCHANGED <<poolVars, th>>

\* loop_ is read a second time for the call of quit().
DestroyQuits ==
  /\ Main("quit", "wakeup")
  /\ th[cur].loopPtr
  /\ th' = [th EXCEPT ![cur].quit = TRUE]
  /\ UNCHANGED <<poolVars, cur>>

DestroyCrashes ==
  /\ Main("quit", "crash")
  /\ ~th[cur].loopPtr
  /\ UNCHANGED <<poolVars, cur, th>>

\* quit() calls wakeup(): the write on the eventfd.
DestroyWakesUp ==
  /\ Main("wakeup", "join")
  /\ th' = [th EXCEPT ![cur].wakeup = TRUE]
  /\ UNCHANGED <<poolVars, cur>>

\* Nobody waits for the thread.
Mut_Join ==
  /\ Main("join", "destroy")
  /\ cur' = cur + 1
  /\ UNCHANGED <<poolVars, th>>

Join ==
  /\ Main("join", "destroy")
  /\ th[cur].pc = "exited"
  /\ cur' = cur + 1
  /\ UNCHANGED <<poolVars, th>>

PoolDestroyed ==
  /\ Main("destroy", "done")
  /\ cur > numThreads
  /\ UNCHANGED <<poolVars, cur, th>>

------------------------------------------------------------------------------
\* The threads of the pool.

Loop(i, from, to) ==
  /\ th[i].pc = from
  /\ th' = [th EXCEPT ![i].pc = to]
  /\ UNCHANGED <<poolVars, mainPc, cur>>

SemPost(i) ==
  /\ th[i].pc = "born"
  /\ th' = [th EXCEPT ![i].pc = "construct", ![i].sem = TRUE]
  /\ UNCHANGED <<poolVars, mainPc, cur>>

\* The EventLoop is constructed and the ThreadInitCallback called.
Construct(i) ==
  /\ th[i].pc = "construct"
  /\ th' = [th EXCEPT ![i].pc = "publish", ![i].alive = TRUE]
  /\ UNCHANGED <<poolVars, mainPc, cur>>

Publish(i) ==
  /\ th[i].pc = "publish" /\ th[i].mutex = "free"
  /\ th' = [th EXCEPT ![i].pc = "notify", ![i].mutex = "loop", ![i].loopPtr = TRUE]
  /\ UNCHANGED <<poolVars, mainPc, cur>>

\* The notification is left out.
Mut_Notify(i) ==
  /\ th[i].pc = "notify"
  /\ th' = [th EXCEPT ![i].pc = "enter", ![i].mutex = "free"]
  /\ UNCHANGED <<poolVars, mainPc, cur>>

\* notify_one, and the mutex is released.
Notify(i) ==
  /\ th[i].pc = "notify"
  /\ th' = [th EXCEPT ![i].pc = "enter", ![i].mutex = "free"]
  /\ mainPc' = IF mainPc = "waiting" /\ cur = i THEN "lock" ELSE mainPc
  /\ UNCHANGED <<poolVars, cur>>

\* EventLoop::loop resets quit_.
EnterLoop(i) ==
  /\ th[i].pc = "enter"
  /\ th' = [th EXCEPT ![i].pc = "test", ![i].quit = FALSE, ![i].lostQuit = th[i].quit]
  /\ UNCHANGED <<poolVars, mainPc, cur>>

\* The loop does not look at quit_ before it polls again.
Mut_TestQuit(i) == Loop(i, "test", "poll")

TestQuit(i) == Loop(i, "test", IF th[i].quit THEN "clear" ELSE "poll")

\* An iteration ends: after the wakeup event, or after another event or the
\* timeout of epoll_wait.
WokenUp(i) ==
  /\ th[i].pc = "poll" /\ th[i].wakeup
  /\ th' = [th EXCEPT ![i].pc = "test", ![i].wakeup = FALSE]
  /\ UNCHANGED <<poolVars, mainPc, cur>>

OtherEvent(i) == Loop(i, "poll", "test")

UserQuit(i) ==
  /\ UserQuits
  /\ th[i].pc = "poll"
  /\ th' = [th EXCEPT ![i].pc = "test", ![i].quit = TRUE,
                        ![i].userQuit = TRUE]
  /\ UNCHANGED <<poolVars, mainPc, cur>>

\* loop_ keeps the address.
Mut_Clear(i) ==
  /\ th[i].pc = "clear" /\ th[i].mutex = "free"
  /\ th' = [th EXCEPT ![i].pc = "unlock", ![i].mutex = "loop"]
  /\ UNCHANGED <<poolVars, mainPc, cur>>

\* threadFunc locks the mutex and sets loop_ to nullptr.
Clear(i) ==
  /\ th[i].pc = "clear" /\ th[i].mutex = "free"
  /\ th' = [th EXCEPT ![i].pc = "unlock", ![i].mutex = "loop", ![i].loopPtr = FALSE]
  /\ UNCHANGED <<poolVars, mainPc, cur>>

\* The locals of threadFunc go in the reverse of their order: lock, loop.
Unlock(i) ==
  /\ th[i].pc = "unlock"
  /\ th' = [th EXCEPT ![i].pc = "destruct", ![i].mutex = "free"]
  /\ UNCHANGED <<poolVars, mainPc, cur>>

LoopDestroyed(i) ==
  /\ th[i].pc = "destruct"
  /\ th' = [th EXCEPT ![i].pc = "exited", ![i].alive = FALSE]
  /\ UNCHANGED <<poolVars, mainPc, cur>>

------------------------------------------------------------------------------
MainStep ==
  \/ Start \/ SemWait \/ Lock \/ Wait \/ StartLoopReturns \/ PoolStarted
  \/ Destroy \/ DestroyQuits \/ DestroyCrashes \/ DestroyWakesUp \/ Join
  \/ PoolDestroyed

UserStep == GetNextLoop \/ DestroyPool

LoopStep(i) ==
  \/ SemPost(i) \/ Construct(i) \/ Publish(i) \/ Notify(i) \/ EnterLoop(i)
  \/ TestQuit(i) \/ WokenUp(i) \/ Clear(i) \/ Unlock(i) \/ LoopDestroyed(i)

Next ==
  \/ MainStep \/ SpuriousWakeup \/ UserStep
  \/ \E i \in Thread : LoopStep(i) \/ OtherEvent(i) \/ UserQuit(i)

Spec == Init /\ [][Next]_vars

\* Every thread that can run does, and one that finds the mutex free again and
\* again gets it in the end.  Nobody has to use or destroy the pool, condition
\* variables need not wake up by themselves and epoll_wait need not time out.
FairSpec ==
  /\ Spec
  /\ WF_vars(MainStep)
  /\ \A i \in Thread : WF_vars(LoopStep(i)) /\ SF_vars(Publish(i))

------------------------------------------------------------------------------
\* startLoop() hands out its own thread's loop, never nullptr, although
\* cond_.wait may return for no reason and notify_one may come before the wait.
StartedWithLoop == \A k \in DOMAIN loops : loops[k] = k

\* A loop_ that is not nullptr points to an EventLoop that exists, whenever
\* another thread reads it.
PublishedIsAlive == \A i \in Thread : th[i].loopPtr => th[i].alive

\* main has called quit() for the loop of thread i, or passed it over.
MainQuits(i) ==
  /\ mainPc \in {"destroy", "quit", "wakeup", "join", "done", "crash"}
  /\ i < cur \/ (i = cur /\ mainPc \in {"wakeup", "join"})

\* When an EventLoopThread is gone its thread uses mutex_ and loop_ no more,
\* unless user code has quit the loop: then nobody waits for the thread.
DestroyedIsLeft ==
  mainPc \in {"destroy", "quit", "wakeup", "join", "done", "crash"} =>
    \A i \in 1..(cur - 1) : th[i].pc = "exited" \/ th[i].userQuit

StartIsAnswered ==
  /\ mainPc = "sem" => th[cur].sem \/ th[cur].pc = "born"
  /\ mainPc = "lock" => th[cur].mutex = "free" \/ th[cur].pc \in {"notify", "unlock"}
  /\ mainPc = "waiting" => th[cur].pc \in {"construct", "publish", "notify"} \/ th[cur].userQuit

JoinIsAnswered ==
  mainPc = "join" /\ th[cur].pc \in {"test", "poll"} =>
    \/ th[cur].lostQuit
    \/ th[cur].quit /\ (th[cur].pc = "poll" => th[cur].wakeup)

\* main never waits for what nobody will give.  For startLoop the post of the
\* semaphore, the mutex and the notification come, unless user code has quit the
\* loop before main has looked.  A loop that ~EventLoopThread joins has quit_ set
\* and, if it blocks in epoll_wait, its eventfd written, unless loop() was entered
\* after the quit().
MainIsAnswered == StartIsAnswered /\ JoinIsAnswered

\* The semaphore, the mutex and the condition variable together make start(),
\* getNextLoop() and the destructor what LoopPool says.
LP == INSTANCE LoopPool
        WITH size <- numThreads, begun <- Len(loops),
             open <- mainPc \in {"start", "sem", "lock", "check", "waiting", "user"},
             asked <- {i \in Thread : th[i].userQuit \/ MainQuits(i)},
             left <- {i \in Thread : th[i].pc \in {"unlock", "destruct", "exited"}}

ImplementsLoopPool == LP!Spec

\* start() gets past each thread, however often cond_.wait returns and whenever
\* the notification comes, unless that thread's loop is left before main looks.
PoolStarts ==
  \A i \in Thread :
    (mainPc = "sem" /\ cur = i)
      ~> (i <= Len(loops) \/ th[i].pc \in {"clear", "unlock", "destruct", "exited"})

\* ~EventLoopThread stops a loop that had been entered, and joins its thread.
DestroyEnds ==
  \A i \in Thread :
    (mainPc = "join" /\ cur = i /\ th[i].pc # "enter" /\ ~th[i].lostQuit)
      ~> (cur # i)

\* EventLoopThread.cc:18-19, "quit_ becomes true and the wakeup makes the loop
\* stop; wait for the thread to end": the wait comes to an end.
DestroyAlwaysEnds == \A i \in Thread : (mainPc = "join" /\ cur = i) ~> (cur # i)

\* EventLoopThread.cc:18, "then wakeup, so that the loop stops": there still
\* is a loop whose eventfd can be written.
WakeupReachesLoop == mainPc = "wakeup" => th[cur].alive
==============================================================================
