----------------------------- MODULE Connections -----------------------------
(***************************************************************************)
(* What a TcpServer promises of its connections, with no loops, functors,  *)
(* channels or pointers: each is accepted once, in turn, the user is told  *)
(* at most once that it is up and then at most once that it is down, and   *)
(* as long as the server serves no connection goes that was not down.      *)
(* TcpServer is shown to implement this module.                            *)
(***************************************************************************)
EXTENDS Naturals

CONSTANT MaxConns

Conn == 1..MaxConns

VARIABLES
  phase,    \* what has become of each connection
  told,     \* how often the user has been told that the connection is down
  late,     \* the connections that a send() has reached too late
  serving   \* the server has not begun its destructor

vars == <<phase, told, late, serving>>

Phases == {"none", "accepted", "up", "down", "gone"}

Init ==
  /\ phase = [c \in Conn |-> "none"] /\ told = [c \in Conn |-> 0]
  /\ late = {} /\ serving = TRUE

Becomes(c, p) == phase' = [phase EXCEPT ![c] = p] /\ UNCHANGED <<late, serving>>

\* The connection comes up at once when the base loop is its own loop.
Accept(c) ==
  /\ serving
  /\ phase[c] = "none"
  /\ \A d \in 1..(c - 1) : phase[d] # "none"
  /\ Becomes(c, "accepted") \/ Becomes(c, "up")
  /\ UNCHANGED told

Up(c) == phase[c] = "accepted" /\ Becomes(c, "up") /\ UNCHANGED told

\* A second time only if a send() was late.  The destructor may drop the last
\* shared_ptr in the same step.
Down(c) ==
  /\ phase[c] = "up" \/ (phase[c] = "down" /\ c \in late)
  /\ Becomes(c, "down") \/ (~serving /\ Becomes(c, "gone"))
  /\ told' = [told EXCEPT ![c] = @ + 1]

\* A send() of the user is executed when the connection has been closed.
SendsLate(c) ==
  /\ phase[c] = "down" \/ (phase[c] = "up" /\ ~serving)
  /\ late' = late \cup {c}
  /\ UNCHANGED <<phase, told, serving>>

MayGo(c) == phase[c] = "down" \/ (~serving /\ phase[c] \in {"accepted", "up"})

\* The end of a loop, or of a batch of functors, releases several at once.
Release ==
  \E S \in SUBSET {c \in Conn : MayGo(c)} :
    /\ phase' = [c \in Conn |-> IF c \in S THEN "gone" ELSE phase[c]]
    /\ UNCHANGED <<told, late, serving>>

Stop == serving /\ serving' = FALSE /\ UNCHANGED <<phase, told, late>>

Next ==
  \/ \E c \in Conn : Accept(c) \/ Up(c) \/ Down(c) \/ SendsLate(c)
  \/ Release
  \/ Stop

Spec == Init /\ [][Next]_vars
==============================================================================
