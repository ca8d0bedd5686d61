---------------------------- MODULE ChannelProofs ----------------------------
(***************************************************************************)
(* Lemmas on the calls of Channel: each keeps a channel a channel, and     *)
(* keeps index_, channels_ and epoll in agreement.                         *)
(***************************************************************************)
EXTENDS Channel, TLAPS

LEMMA NewAgrees == NewChannel \in Channel /\ Agrees(NewChannel)
BY DEF NewChannel, Channel, Agrees

LEMMA UpdateAgrees ==
  ASSUME NEW ch \in Channel, Agrees(ch), NEW evs \in SUBSET Events
  PROVE  /\ UpdateChannel([ch EXCEPT !.events = evs]) \in Channel
         /\ Agrees(UpdateChannel([ch EXCEPT !.events = evs]))
<1> DEFINE c == [ch EXCEPT !.events = evs]
<1>1. /\ c \in Channel /\ c.events = evs /\ c.index = ch.index
      /\ c.mapped = ch.mapped /\ c.registered = ch.registered
      /\ c.interest = ch.interest /\ c.fatal = ch.fatal
  BY DEF Channel
<1> HIDE DEF c
<1>2. CASE c.index # "kAdded"
  <2>1. ~c.registered /\ (c.mapped <=> c.index # "kNew") /\ ~c.fatal
    BY <1>1, <1>2 DEF Agrees
  <2> DEFINE d == [c EXCEPT !.index = "kAdded", !.mapped = @ \/ c.index = "kNew"]
  <2>2. /\ d \in Channel /\ d.index = "kAdded" /\ d.events = c.events
        /\ ~d.registered /\ ~d.fatal
    BY <1>1, <2>1 DEF Channel
  <2>3. d.mapped
    BY <1>1, <2>1 DEF Channel
  <2>4. UpdateChannel(c) = CtlAdd(d)
    BY <1>2 DEF UpdateChannel
  <2> DEFINE e == [d EXCEPT !.registered = TRUE, !.interest = d.events]
  <2>5. UpdateChannel(c) = e
    BY <2>2, <2>4 DEF CtlAdd
  <2> HIDE DEF d
  <2>6. e \in Channel /\ Agrees(e)
    BY <2>2, <2>3 DEF Channel, Agrees
  <2>. QED  BY <2>5, <2>6 DEF c
<1>3. CASE c.index = "kAdded" /\ c.events = {}
  BY <1>1, <1>3 DEF UpdateChannel, CtlDel, Channel, Agrees, c
<1>4. CASE c.index = "kAdded" /\ c.events # {}
  BY <1>1, <1>4 DEF UpdateChannel, CtlMod, Channel, Agrees, c
<1>. QED  BY <1>2, <1>3, <1>4 DEF c

LEMMA RemoveAgrees ==
  ASSUME NEW ch \in Channel, Agrees(ch)
  PROVE  RemoveChannel(ch) \in Channel /\ Agrees(RemoveChannel(ch))
<1>1. CASE ch.index = "kAdded"
  BY <1>1 DEF RemoveChannel, CtlDel, Channel, Agrees
<1>2. CASE ch.index # "kAdded"
  BY <1>2 DEF RemoveChannel, Channel, Agrees
<1>. QED  BY <1>1, <1>2

LEMMA CallAgrees ==
  ASSUME NEW ch \in Channel, Agrees(ch), NEW ev \in Events
  PROVE  /\ Enable(ch, ev) \in Channel /\ Agrees(Enable(ch, ev))
         /\ Disable(ch, ev) \in Channel /\ Agrees(Disable(ch, ev))
         /\ DisableAll(ch) \in Channel /\ Agrees(DisableAll(ch))
<1>1. ch.events \in SUBSET Events
  BY DEF Channel
<1>. QED  BY <1>1, UpdateAgrees DEF Enable, Disable, DisableAll

\* What the calls of a TcpConnection do to the registration with epoll.
LEMMA EnableRegisters ==
  ASSUME NEW ch \in Channel, Agrees(ch), NEW ev \in Events
  PROVE  Enable(ch, ev).registered
<1> DEFINE c == [ch EXCEPT !.events = @ \cup {ev}]
<1>1. c.events # {} /\ c.index = ch.index /\ c.registered = ch.registered
  BY DEF Channel
<1>2. CASE c.index # "kAdded"
  BY <1>1, <1>2 DEF Enable, UpdateChannel, CtlAdd, Agrees, Channel
<1>3. CASE c.index = "kAdded"
  BY <1>1, <1>3 DEF Enable, UpdateChannel, CtlMod, Agrees, Channel
<1>. QED  BY <1>2, <1>3

LEMMA DisableUnregisters ==
  ASSUME NEW ch \in Channel, Agrees(ch), ch.registered
  PROVE  ~DisableAll(ch).registered
BY DEF DisableAll, UpdateChannel, CtlDel, Agrees, Channel

\* A channel that is still interested in something stays registered.
LEMMA DisableKeeps ==
  ASSUME NEW ch \in Channel, Agrees(ch), ch.registered, NEW ev \in Events,
         ch.events \ {ev} # {}
  PROVE  Disable(ch, ev).registered
<1> DEFINE c == [ch EXCEPT !.events = @ \ {ev}]
<1>1. c.events # {} /\ c.index = "kAdded" /\ c.registered
  BY DEF Channel, Agrees
<1>. QED  BY <1>1 DEF Disable, UpdateChannel, CtlMod, Channel

LEMMA RemoveUnregisters ==
  ASSUME NEW ch \in Channel, Agrees(ch)
  PROVE  ~RemoveChannel(ch).registered
<1>1. CASE ch.index = "kAdded"
  BY <1>1 DEF RemoveChannel, CtlDel, Channel
<1>2. CASE ch.index # "kAdded"
  BY <1>2 DEF RemoveChannel, Agrees, Channel
<1>. QED  BY <1>1, <1>2
=============================================================================
