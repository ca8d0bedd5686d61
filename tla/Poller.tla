------------------------------- MODULE Poller -------------------------------
(***************************************************************************)
(* One EPollPoller and its channels, driven by the thread of the loop:     *)
(* epoll_wait fills events_, the loop handles the channels reported, and   *)
(* the user code it calls changes what channels are interested in.         *)
(*                                                                         *)
(* The kernel chooses which ready descriptors it reports when events_ has  *)
(* no room for all; nothing is assumed about that choice.                  *)
(***************************************************************************)
EXTENDS Channel, Naturals, FiniteSets

CONSTANTS
  Channels,
  kInitEventListSize,   \* 16 in the code
  MaxCalls              \* bound: changes of interest

ASSUME PollerAssumption ==
  /\ IsFiniteSet(Channels)
  /\ kInitEventListSize \in Nat \ {0}
  /\ MaxCalls \in Nat

VARIABLES
  pc,        \* "poll": about to call epoll_wait; "handle": in the loop after it
  chan,      \* the channels
  ready,     \* kernel: events that have happened on each descriptor
  hangup,    \* kernel: descriptors with EPOLLHUP or EPOLLERR
  capacity,  \* events_.size()
  active,    \* activeChannels_ not yet handled
  calls      \* changes of interest so far

vars == <<pc, chan, ready, hangup, capacity, active, calls>>

TypeOK ==
  /\ pc \in {"poll", "handle"}
  /\ chan \in [Channels -> Channel]
  /\ ready \in [Channels -> SUBSET Events]
  /\ hangup \in SUBSET Channels
  /\ capacity \in Nat \ {0}
  /\ active \in SUBSET Channels
  /\ calls \in 0..MaxCalls

Init ==
  /\ pc = "poll"
  /\ chan = [c \in Channels |-> NewChannel]
  /\ ready = [c \in Channels |-> {}]
  /\ hangup = {}
  /\ capacity = kInitEventListSize
  /\ active = {}
  /\ calls = 0

\* Level-triggered: a descriptor is reported as long as an event it is
\* registered for is there.  EPOLLHUP and EPOLLERR need no interest.
Reportable ==
  {c \in Channels : /\ chan[c].registered
                    /\ ready[c] \cap chan[c].interest # {} \/ c \in hangup}

\* The reports epoll_wait can make.
Reports ==
  {S \in SUBSET Reportable :
     IF Cardinality(Reportable) <= capacity THEN S = Reportable
     ELSE Cardinality(S) = capacity}

\* events_ keeps its size; is doubled by every report.
Mut_NewCapacity(n) == capacity
Mut_NewCapacityDoubles(n) == 2 * capacity

\* A full events_ is doubled.
NewCapacity(n) == IF n = capacity THEN 2 * capacity ELSE capacity

\* EPollPoller::poll with events.  As many are reported as there are, or as
\* events_ holds.
Poll ==
  /\ pc = "poll"
  /\ Reportable # {}
  /\ \E S \in Reports :
       /\ active' = S
       /\ capacity' = NewCapacity(Cardinality(S))
  /\ pc' = "handle"
  /\ UNCHANGED <<chan, ready, hangup, calls>>

\* A poll that reports nothing halves events_.
Mut_PollNothing ==
  /\ pc = "poll"
  /\ Reportable = {}
  /\ pc' = "handle"
  /\ capacity' = capacity \div 2
  /\ UNCHANGED <<chan, ready, hangup, active, calls>>

\* A timeout, a signal, or the wakeup descriptor alone.
PollNothing ==
  /\ pc = "poll"
  /\ Reportable = {}
  /\ pc' = "handle"
  /\ UNCHANGED <<chan, ready, hangup, capacity, active, calls>>

\* The callbacks of channel c take any of its events from the kernel.
HandleEvent(c) ==
  /\ pc = "handle"
  /\ c \in active
  /\ active' = active \ {c}
  /\ \E taken \in SUBSET ready[c] :
       ready' = [ready EXCEPT ![c] = @ \ taken]
  /\ UNCHANGED <<pc, chan, hangup, capacity, calls>>

\* The end of the iteration: activeChannels_ is empty again.
NextIteration ==
  /\ pc = "handle"
  /\ active = {}
  /\ pc' = "poll"
  /\ UNCHANGED <<chan, ready, hangup, capacity, active, calls>>

\* A call of channel c out of a callback or a functor.
Change(c, ch) ==
  /\ pc = "handle"
  /\ calls < MaxCalls
  /\ ~chan[c].fatal
  /\ calls' = calls + 1
  /\ chan' = [chan EXCEPT ![c] = ch]
  /\ UNCHANGED <<pc, ready, hangup, capacity, active>>

EnableEvent(c) == \E ev \in Events : Change(c, Enable(chan[c], ev))

DisableEvent(c) == \E ev \in Events : Change(c, Disable(chan[c], ev))

DisableChannel(c) == Change(c, DisableAll(chan[c]))

Remove(c) == Change(c, RemoveChannel(chan[c]))

\* The kernel: an event happens, a connection hangs up.
EventHappens(c) ==
  /\ \E ev \in Events \ ready[c] : ready' = [ready EXCEPT ![c] = @ \cup {ev}]
  /\ UNCHANGED <<pc, chan, hangup, capacity, active, calls>>

HangsUp(c) ==
  /\ c \notin hangup
  /\ hangup' = hangup \cup {c}
  /\ UNCHANGED <<pc, chan, ready, capacity, active, calls>>

LoopStep ==
  \/ Poll \/ PollNothing \/ NextIteration
  \/ \E c \in Channels : HandleEvent(c)

Next ==
  \/ LoopStep
  \/ \E c \in Channels : \/ EnableEvent(c) \/ DisableEvent(c)
                         \/ DisableChannel(c) \/ Remove(c)
                         \/ EventHappens(c) \/ HangsUp(c)

Spec == Init /\ [][Next]_vars

\* The loop runs; nothing is assumed of users and of the kernel.
FairSpec == Spec /\ WF_vars(LoopStep)

------------------------------------------------------------------------------
\* No sequence of Channel calls makes index_, channels_ and epoll disagree or
\* makes epoll_ctl fail with LOG_FATAL (updateChannel, removeChannel, update).
PollerAgrees == \A c \in Channels : Agrees(chan[c])

\* events_ is doubled only while it may be too small (line 47).
CapacityIsBounded ==
  \/ capacity = kInitEventListSize
  \/ capacity <= 2 * Cardinality(Channels)

\* Line 47: with events_ full there may be events left, which is why it grows.
\* A channel with something to report is reported however the kernel chooses.
NoStarvation ==
  \A c \in Channels : c \in Reportable ~> (c \in active \/ c \notin Reportable)
==============================================================================
