------------------------------- MODULE Channel -------------------------------
(***************************************************************************)
(* A Channel and what EPollPoller and epoll know of it, as one record, and *)
(* the calls that change it.  All of them run on the thread of the loop.   *)
(*   events      events_, what the owner of the channel is interested in   *)
(*   index       index_: kNew, kAdded or kDeleted                          *)
(*   mapped      EPollPoller::channels_ has the channel                    *)
(*   registered  the epoll instance has the descriptor                     *)
(*   interest    the event mask epoll holds for it                         *)
(*   fatal       an ADD or MOD has failed: LOG_FATAL ends the process      *)
(* A channel has a descriptor of its own, so channels_ is a set here.      *)
(***************************************************************************)

Events == {"read", "write"}

Channel == [events : SUBSET Events, index : {"kNew", "kAdded", "kDeleted"},
            mapped : BOOLEAN, registered : BOOLEAN, interest : SUBSET Events,
            fatal : BOOLEAN]

NewChannel == [events |-> {}, index |-> "kNew", mapped |-> FALSE,
               registered |-> FALSE, interest |-> {}, fatal |-> FALSE]

\* EPollPoller::update.  epoll refuses to ADD a descriptor it has and to MOD
\* or DEL one it does not have; a failed DEL is only logged.
CtlAdd(ch) ==
  IF ch.registered THEN [ch EXCEPT !.fatal = TRUE]
  ELSE [ch EXCEPT !.registered = TRUE, !.interest = ch.events]

CtlMod(ch) ==
  IF ch.registered THEN [ch EXCEPT !.interest = ch.events]
  ELSE [ch EXCEPT !.fatal = TRUE]

CtlDel(ch) == [ch EXCEPT !.registered = FALSE, !.interest = {}]

\* A channel that is updated without kDeleted being set after the DEL.
Mut_UpdateChannel(ch) ==
  IF ch.index # "kAdded"
  THEN CtlAdd([ch EXCEPT !.index = "kAdded", !.mapped = TRUE])
  ELSE IF ch.events = {} THEN CtlDel(ch) ELSE CtlMod(ch)

\* EPollPoller::updateChannel.
UpdateChannel(ch) ==
  IF ch.index # "kAdded"
  THEN CtlAdd([ch EXCEPT !.index = "kAdded",
                         !.mapped = @ \/ ch.index = "kNew"])
  ELSE IF ch.events = {} THEN [CtlDel(ch) EXCEPT !.index = "kDeleted"]
       ELSE CtlMod(ch)

\* EPollPoller::removeChannel.
RemoveChannel(ch) ==
  [(IF ch.index = "kAdded" THEN CtlDel(ch) ELSE ch)
     EXCEPT !.mapped = FALSE, !.index = "kNew"]

Enable(ch, ev) == UpdateChannel([ch EXCEPT !.events = @ \cup {ev}])

Disable(ch, ev) == UpdateChannel([ch EXCEPT !.events = @ \ {ev}])

DisableAll(ch) == UpdateChannel([ch EXCEPT !.events = {}])

IsWriting(ch) == "write" \in ch.events

------------------------------------------------------------------------------
\* What index_ claims is what the poller and epoll hold: kAdded means epoll has
\* the descriptor with exactly events_, anything else that it does not have
\* it; channels_ has what is not kNew; and epoll_ctl never failed fatally.
Agrees(ch) ==
  /\ ch.registered <=> ch.index = "kAdded"
  /\ ch.registered => ch.interest = ch.events
  /\ ~ch.registered => ch.interest = {}
  /\ ch.mapped <=> ch.index # "kNew"
  /\ ~ch.fatal
==============================================================================
