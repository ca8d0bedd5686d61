------------------------------- MODULE LoopPool -------------------------------
(***************************************************************************)
(* What an EventLoopThreadPool promises, with no mutex, no condition       *)
(* variable and no thread: start() hands over loops that run, one after    *)
(* the other, getNextLoop() goes round all of them once they are there,    *)
(* and a loop is left only when somebody has asked it to quit.             *)
(*                                                                         *)
(* EventLoopThreadPool is shown to implement this module, and so is the    *)
(* pool as TcpServer has it: it is the interface between the two.          *)
(***************************************************************************)
EXTENDS Naturals

CONSTANT MaxThreads

Thread == 1..MaxThreads

VARIABLES
  size,   \* how many threads setThreadNum has asked for
  begun,  \* the loops start() has handed over: those of threads 1..begun
  next,   \* how many of them getNextLoop has passed in the present round
  open,   \* the pool's destructor has not begun
  asked,  \* the threads whose loops have been told to quit
  left    \* the threads whose loops have been left

vars == <<size, begun, next, open, asked, left>>

Init ==
  /\ size \in 0..MaxThreads
  /\ begun = 0 /\ next = 0 /\ open = TRUE
  /\ asked = {} /\ left = {}

\* startLoop() of the next thread returns: its loop runs.
StartNext ==
  /\ open /\ begun < size
  /\ begun + 1 \notin left
  /\ begun' = begun + 1
  /\ UNCHANGED <<size, next, open, asked, left>>

GetNext ==
  /\ open /\ begun = size /\ size > 0
  /\ next' = (next + 1) % size
  /\ UNCHANGED <<size, begun, open, asked, left>>

Shut ==
  /\ open /\ open' = FALSE
  /\ UNCHANGED <<size, begun, next, asked, left>>

Ask(i) ==
  /\ i \notin asked
  /\ asked' = asked \cup {i}
  /\ UNCHANGED <<size, begun, next, open, left>>

Leave(i) ==
  /\ i \in asked \ left
  /\ left' = left \cup {i}
  /\ UNCHANGED <<size, begun, next, open, asked>>

Next ==
  \/ StartNext \/ GetNext \/ Shut
  \/ \E i \in Thread : Ask(i) \/ Leave(i)

Spec == Init /\ [][Next]_vars
==============================================================================
