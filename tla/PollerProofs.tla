---------------------------- MODULE PollerProofs ----------------------------
(***************************************************************************)
(* Proofs about Poller for every set of channels, every initial size of    *)
(* events_ and any number of calls: index_, channels_ and epoll agree, and *)
(* epoll_ctl never fails fatally.                                          *)
(***************************************************************************)
EXTENDS Poller, ChannelProofs, FiniteSetTheorems, TLAPS

ChannelsOK == chan \in [Channels -> Channel] /\ PollerAgrees

LEMMA ChangeKeepsChannels ==
  ASSUME ChannelsOK, NEW c \in Channels, NEW ch \in Channel, Agrees(ch), Change(c, ch)
  PROVE  ChannelsOK'
BY DEF ChannelsOK, PollerAgrees, Change

LEMMA ChannelsAreOK == Spec => []ChannelsOK
<1>1. Init => ChannelsOK
  BY NewAgrees DEF Init, ChannelsOK, PollerAgrees
<1>2. ChannelsOK /\ [Next]_vars => ChannelsOK'
  <2> SUFFICES ASSUME ChannelsOK, [Next]_vars
               PROVE  ChannelsOK'
    OBVIOUS
  <2>1. ASSUME UNCHANGED chan
        PROVE  ChannelsOK'
    BY <2>1 DEF ChannelsOK, PollerAgrees
  <2>2. CASE LoopStep
    BY <2>1, <2>2 DEF LoopStep, Poll, PollNothing, NextIteration, HandleEvent
  <2>3. ASSUME NEW c \in Channels,
               \/ EnableEvent(c) \/ DisableEvent(c) \/ DisableChannel(c) \/ Remove(c)
        PROVE  ChannelsOK'
    <3>1. chan[c] \in Channel /\ Agrees(chan[c])
      BY DEF ChannelsOK, PollerAgrees
    <3>2. PICK ch \in Channel : Agrees(ch) /\ Change(c, ch)
      <4>1. CASE EnableEvent(c) \/ DisableEvent(c)
        BY <3>1, <4>1, CallAgrees DEF EnableEvent, DisableEvent
      <4>2. CASE DisableChannel(c)
        <5>1. "read" \in Events
          BY DEF Events
        <5>. QED  BY <3>1, <4>2, <5>1, CallAgrees DEF DisableChannel
      <4>3. CASE Remove(c)
        BY <3>1, <4>3, RemoveAgrees DEF Remove
      <4>. QED  BY <2>3, <4>1, <4>2, <4>3
    <3>. QED  BY <3>2, ChangeKeepsChannels
  <2>4. ASSUME NEW c \in Channels, EventHappens(c) \/ HangsUp(c)
        PROVE  ChannelsOK'
    BY <2>1, <2>4 DEF EventHappens, HangsUp
  <2>5. CASE UNCHANGED vars
    BY <2>1, <2>5 DEF vars
  <2>. QED  BY <2>2, <2>3, <2>4, <2>5 DEF Next
<1>. QED  BY <1>1, <1>2, PTL DEF Spec

\* index_, channels_ and epoll agree after every sequence of Channel calls.
THEOREM PollerAgreesAlways == Spec => []PollerAgrees
<1>1. ChannelsOK => PollerAgrees
  BY DEF ChannelsOK
<1>. QED  BY <1>1, ChannelsAreOK, PTL

------------------------------------------------------------------------------
CapacityOK == capacity \in Nat /\ CapacityIsBounded

\* events_ never grows beyond twice the number of channels, or beyond its
\* initial size if that is enough.
THEOREM CapacityIsAlwaysBounded == Spec => []CapacityIsBounded
<1>1. Init => CapacityOK
  BY PollerAssumption DEF Init, CapacityOK, CapacityIsBounded
<1>2. CapacityOK /\ [Next]_vars => CapacityOK'
  <2> SUFFICES ASSUME CapacityOK, [Next]_vars
               PROVE  CapacityOK'
    OBVIOUS
  <2>1. ASSUME capacity' = capacity
        PROVE  CapacityOK'
    BY <2>1 DEF CapacityOK, CapacityIsBounded
  <2>2. CASE Poll
    <3>1. PICK S \in SUBSET Reportable :
            capacity' = IF Cardinality(S) = capacity THEN 2 * capacity ELSE capacity
      BY <2>2 DEF Poll, Reports, NewCapacity
    <3>2. S \subseteq Channels
      BY DEF Reportable
    <3>3. /\ Cardinality(S) \in Nat /\ Cardinality(Channels) \in Nat
          /\ Cardinality(S) <= Cardinality(Channels)
      BY <3>2, PollerAssumption, FS_Subset, FS_CardinalityType
    <3>. QED  BY <3>1, <3>3 DEF CapacityOK, CapacityIsBounded
  <2>3. CASE LoopStep /\ ~Poll
    BY <2>1, <2>3 DEF LoopStep, PollNothing, NextIteration, HandleEvent
  <2>4. ASSUME NEW c \in Channels,
               \/ EnableEvent(c) \/ DisableEvent(c) \/ DisableChannel(c)
               \/ Remove(c) \/ EventHappens(c) \/ HangsUp(c)
        PROVE  CapacityOK'
    BY <2>1, <2>4 DEF EnableEvent, DisableEvent, DisableChannel, Remove, Change,
      EventHappens, HangsUp
  <2>5. CASE UNCHANGED vars
    BY <2>1, <2>5 DEF vars
  <2>. QED  BY <2>2, <2>3, <2>4, <2>5 DEF Next
<1>3. CapacityOK => CapacityIsBounded
  BY DEF CapacityOK
<1>. QED  BY <1>1, <1>2, <1>3, PTL DEF Spec

------------------------------------------------------------------------------
\* What TypeOK says beside chan.
RestOK ==
  /\ pc \in {"poll", "handle"}
  /\ ready \in [Channels -> SUBSET Events]
  /\ hangup \in SUBSET Channels
  /\ capacity \in Nat \ {0}
  /\ active \in SUBSET Channels
  /\ calls \in 0..MaxCalls

LEMMA RestIsOK == Spec => []RestOK
<1> USE PollerAssumption
<1>1. Init => RestOK
  BY DEF Init, RestOK
<1>2. RestOK /\ [Next]_vars => RestOK'
  <2> SUFFICES ASSUME RestOK, [Next]_vars PROVE RestOK'
    OBVIOUS
  <2>1. CASE Poll
    <3>1. PICK S \in SUBSET Reportable : active' = S /\ capacity' = NewCapacity(Cardinality(S))
      BY <2>1 DEF Poll, Reports
    <3>2. S \in SUBSET Channels
      BY DEF Reportable
    <3>3. capacity' \in Nat \ {0}
      BY <3>1 DEF NewCapacity, RestOK
    <3>. QED  BY <2>1, <3>1, <3>2, <3>3 DEF Poll, RestOK
  <2>2. CASE PollNothing \/ NextIteration
    BY <2>2 DEF PollNothing, NextIteration, RestOK
  <2>3. ASSUME NEW c \in Channels,
               \/ HandleEvent(c) \/ EventHappens(c) \/ HangsUp(c)
        PROVE  RestOK'
    <3>1. ready' \in [Channels -> SUBSET Events]
      BY <2>3 DEF HandleEvent, EventHappens, HangsUp, RestOK
    <3>. QED  BY <2>3, <3>1 DEF HandleEvent, EventHappens, HangsUp, RestOK
  <2>4. ASSUME NEW c \in Channels, NEW ch, Change(c, ch)
        PROVE  RestOK'
    BY <2>4 DEF Change, RestOK
  <2>5. CASE UNCHANGED vars
    BY <2>5 DEF vars, RestOK
  <2>. QED  BY <2>1, <2>2, <2>3, <2>4, <2>5
            DEF Next, LoopStep, EnableEvent, DisableEvent, DisableChannel, Remove
<1>. QED  BY <1>1, <1>2, PTL DEF Spec

\* The variables keep their types, for any set of channels and any number of
\* calls: events_ is never empty, and only channels are reported.
THEOREM TypeCorrect == Spec => []TypeOK
<1>1. RestOK /\ ChannelsOK => TypeOK
  BY DEF RestOK, ChannelsOK, TypeOK
<1>. QED  BY <1>1, RestIsOK, ChannelsAreOK, PTL

------------------------------------------------------------------------------
\* activeChannels_ is empty when poll is called.
HandledAll == pc = "poll" => active = {}

LEMMA AllAreHandled == Spec => []HandledAll
<1>1. Init => HandledAll
  BY DEF Init, HandledAll
<1>2. HandledAll /\ [Next]_vars => HandledAll'
  <2> SUFFICES ASSUME HandledAll, [Next]_vars PROVE HandledAll'
    OBVIOUS
  <2>1. CASE LoopStep
    BY <2>1 DEF LoopStep, Poll, PollNothing, NextIteration, HandleEvent, HandledAll
  <2>2. ASSUME NEW c \in Channels,
               \/ EnableEvent(c) \/ DisableEvent(c) \/ DisableChannel(c)
               \/ Remove(c) \/ EventHappens(c) \/ HangsUp(c)
        PROVE  HandledAll'
    BY <2>2 DEF EnableEvent, DisableEvent, DisableChannel, Remove, Change, EventHappens,
      HangsUp, HandledAll
  <2>3. CASE UNCHANGED vars
    BY <2>3 DEF vars, HandledAll
  <2>. QED  BY <2>1, <2>2, <2>3 DEF Next
<1>. QED  BY <1>1, <1>2, PTL DEF Spec

\* No channel can be left out more often than events_ can be doubled.
LeftOutGrows ==
  [][pc = "poll" /\ pc' = "handle" => active' = Reportable \/ capacity' > capacity]_vars

\* A report that leaves out a channel with something to report fills events_,
\* and makes it grow (EPollPoller.cc:36-50): with CapacityIsAlwaysBounded this
\* happens only so many times, for any number of channels.
THEOREM LeftOutAlwaysGrows == Spec => LeftOutGrows
<1>1. ASSUME RestOK, HandledAll, [Next]_vars, pc = "poll", pc' = "handle"
      PROVE  active' = Reportable \/ capacity' > capacity
  <2>1. Poll \/ PollNothing
    BY <1>1 DEF Next, LoopStep, NextIteration, HandleEvent, EnableEvent, DisableEvent,
      DisableChannel, Remove, Change, EventHappens, HangsUp, vars
  <2>2. CASE Poll
    <3>1. PICK S \in Reports : active' = S /\ capacity' = NewCapacity(Cardinality(S))
      BY <2>2 DEF Poll
    <3>2. S = Reportable \/ Cardinality(S) = capacity
      BY <3>1 DEF Reports
    <3>3. Cardinality(S) = capacity => capacity' > capacity
      BY <1>1, <3>1 DEF NewCapacity, RestOK
    <3>. QED  BY <3>1, <3>2, <3>3
  <2>3. CASE PollNothing
    BY <1>1, <2>3 DEF PollNothing, HandledAll
  <2>. QED  BY <2>1, <2>2, <2>3
<1>2. RestOK /\ HandledAll /\ [Next]_vars =>
        [pc = "poll" /\ pc' = "handle" => active' = Reportable \/ capacity' > capacity]_vars
  BY <1>1
<1>. QED  BY <1>2, RestIsOK, AllAreHandled, PTL DEF Spec, LeftOutGrows
=============================================================================
