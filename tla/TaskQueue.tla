------------------------------ MODULE TaskQueue ------------------------------
(***************************************************************************)
(* What EventLoop::queueInLoop promises, with no threads, no batches and   *)
(* no eventfd: every task handed over is executed at most once, and tasks  *)
(* are executed in the order in which they were handed over, whichever     *)
(* thread handed them over.  EventLoop is shown to implement this module.  *)
(***************************************************************************)
EXTENDS Sequences

CONSTANT Task

VARIABLES
  waiting,   \* tasks handed over and not yet begun, oldest first
  done       \* tasks begun, oldest first

vars == <<waiting, done>>

Init == waiting = <<>> /\ done = <<>>

Submit(x) ==
  /\ waiting' = Append(waiting, x)
  /\ UNCHANGED done

Execute ==
  /\ waiting # <<>>
  /\ done' = Append(done, Head(waiting))
  /\ waiting' = Tail(waiting)

Next == (\E x \in Task : Submit(x)) \/ Execute

Spec == Init /\ [][Next]_vars
==============================================================================
