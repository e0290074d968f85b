------------------------------ MODULE Delivery ------------------------------
(***************************************************************************)
(* From the sessions to the WebSocket clients: each session's subscriber   *)
(* queue (internal/rig/event.go), the forwarders that join them in one     *)
(* aggregate (manager.go), the hub's one loop, and how clients come and go *)
(* (internal/ws/hub.go).  No send waits: what does not fit is dropped and  *)
(* counted in the next event that does.  The manager, the hub and every    *)
(* client may shut down at any moment, in any order.                       *)
(*                                                                         *)
(* A forwarder's receive and its send are one step: between them the event *)
(* is out of reach of everybody else.  A context that ends the hub's loop  *)
(* does what Close does to it.                                             *)
(***************************************************************************)
EXTENDS Naturals, Sequences, Functions

CONSTANTS
    Stations,   \* the radios
    Viewers,    \* the WebSocket clients
    SubCap,     \* a subscriber's buffer
    AggCap,     \* the aggregate's buffer
    MaxEvents   \* bound: events of all radios

VARIABLES
    published,  \* published[r]: events of r so far
    sub,        \* sub[r]: the aggregate's subscription to r
    forwarding, \* the radios whose forwarder still runs
    agg,        \* the aggregate: queue, drops, whether it is closed
    stopping,   \* aggregate.stop: "no", "unsubscribe", "wait" or "done"
    mgrClosed,  \* Manager.Close has begun
    loop,       \* Hub.run: "receive", "leave" or "ended"
    hubClosed,  \* Hub.closed
    done,       \* Hub.done
    toStop,     \* the clients Close collected and has not stopped yet
    viewer,     \* where each client stands
    heard,      \* heard[r]: the last event of r the hub received, and
                \* whether a drop was announced since
    silent      \* history: an event was missed and no drop announced

rigSide == <<published, sub, forwarding>>
aggSide == <<agg, stopping, mgrClosed>>
hubSide == <<hubClosed, done, toStop, viewer>>
heardSide == <<heard, silent>>
vars == <<rigSide, aggSide, loop, hubSide, heardSide>>

Init ==
    /\ published = [r \in Stations |-> 0]
    /\ sub = [r \in Stations |-> [queue |-> <<>>, dropped |-> 0,
                                  listed |-> TRUE, open |-> TRUE, twice |-> FALSE]]
    /\ forwarding = Stations
    /\ agg = [queue |-> <<>>, dropped |-> 0, closed |-> FALSE]
    /\ stopping = "no" /\ mgrClosed = FALSE
    /\ loop = "receive" /\ hubClosed = FALSE /\ done = FALSE /\ toStop = {}
    /\ viewer = [c \in Viewers |-> "away"]
    /\ heard = [r \in Stations |-> [n |-> 0, flagged |-> FALSE]]
    /\ silent = FALSE

-----------------------------------------------------------------------------
(* Sessions and forwarders                                                  *)

\* subscribers.publish: a full queue costs the event, and the next one that
\* fits says how many were lost.
Publish(r) ==
    /\ SumFunction(published) < MaxEvents /\ sub[r].listed
    /\ published' = [published EXCEPT ![r] = @ + 1]
    /\ sub' = IF Len(sub[r].queue) < SubCap
              THEN [sub EXCEPT ![r].queue =
                       Append(@, [n |-> published'[r], dropped |-> sub[r].dropped]),
                               ![r].dropped = 0]
              ELSE [sub EXCEPT ![r].dropped = @ + 1]
    /\ UNCHANGED <<forwarding, aggSide, loop, hubSide, heardSide>>

\* The aggregate forgets what it dropped itself.
MutantSent(r, ev) ==
    IF Len(agg.queue) < AggCap
    THEN [agg EXCEPT !.queue = Append(@, [radio |-> r, n |-> ev.n, dropped |-> ev.dropped])]
    ELSE agg

\* aggregate.send: an event that is dropped here counts as one, whatever drops
\* it was to announce.
Sent(r, ev) ==
    IF agg.closed THEN agg
    ELSE IF Len(agg.queue) < AggCap
    THEN [agg EXCEPT !.queue = Append(@, [radio |-> r, n |-> ev.n,
                                          dropped |-> ev.dropped + agg.dropped]),
                     !.dropped = 0]
    ELSE [agg EXCEPT !.dropped = @ + 1]

\* The forwarder ranges over the subscription until it is closed and empty.
Forward(r) ==
    /\ r \in forwarding /\ sub[r].queue # <<>>
    /\ agg' = Sent(r, Head(sub[r].queue))
    /\ sub' = [sub EXCEPT ![r].queue = Tail(@)]
    /\ UNCHANGED <<published, forwarding, stopping, mgrClosed, loop, hubSide, heardSide>>

ForwarderEnds(r) ==
    /\ r \in forwarding /\ sub[r].queue = <<>> /\ ~sub[r].open
    /\ forwarding' = forwarding \ {r}
    /\ UNCHANGED <<published, sub, aggSide, loop, hubSide, heardSide>>

\* close(sub.ch): closing a closed channel panics.
CloseChannel(s) == [s EXCEPT !.listed = FALSE, !.open = FALSE, !.twice = @ \/ ~s.open]

\* subscribers.closeAll, when the manager closes the session.
CloseAll(r) ==
    /\ mgrClosed /\ sub[r].listed
    /\ sub' = [sub EXCEPT ![r] = IF @.open THEN CloseChannel(@) ELSE [@ EXCEPT !.listed = FALSE]]
    /\ UNCHANGED <<published, forwarding, aggSide, loop, hubSide, heardSide>>

-----------------------------------------------------------------------------
(* Shutting the stream down                                                 *)

ManagerClose ==
    /\ ~mgrClosed /\ mgrClosed' = TRUE
    /\ UNCHANGED <<rigSide, agg, stopping, loop, hubSide, heardSide>>

\* aggregate.stop, begun by the hub's unsubscribe or by Manager.Close once
\* every session is closed; the second caller waits for the first.
StopBegins ==
    /\ stopping = "no"
    /\ \/ loop = "leave"
       \/ mgrClosed /\ \A r \in Stations : ~sub[r].listed
    /\ stopping' = "unsubscribe"
    /\ UNCHANGED <<rigSide, agg, mgrClosed, loop, hubSide, heardSide>>

\* An unsubscribe that closes the channel closeAll has closed.
MutantUnsubscribed(s) == CloseChannel(s)

\* The function add returned: closeAll may have closed the channel already.
Unsubscribed(s) == IF s.open THEN CloseChannel(s) ELSE [s EXCEPT !.listed = FALSE]

\* Its stops are called one after the other; nothing waits in between.
Unsubscribe ==
    /\ stopping = "unsubscribe"
    /\ stopping' = "wait"
    /\ sub' = [r \in Stations |-> Unsubscribed(sub[r])]
    /\ UNCHANGED <<published, forwarding, agg, mgrClosed, loop, hubSide, heardSide>>

\* Every forwarder has ended: the aggregate's channel is closed.
StopEnds ==
    /\ stopping = "wait" /\ forwarding = {}
    /\ stopping' = "done"
    /\ agg' = [agg EXCEPT !.closed = TRUE]
    /\ UNCHANGED <<rigSide, mgrClosed, loop, hubSide, heardSide>>

-----------------------------------------------------------------------------
(* The hub                                                                  *)

\* Hub.run receives an event and dispatches it.
Receives ==
    /\ loop = "receive" /\ agg.queue # <<>>
    /\ agg' = [agg EXCEPT !.queue = Tail(@)]
    /\ LET e == Head(agg.queue)
           told == [r \in Stations |-> heard[r].flagged \/ e.dropped > 0]
       IN /\ heard' = [r \in Stations |->
                          IF r = e.radio THEN [n |-> e.n, flagged |-> FALSE]
                          ELSE [heard[r] EXCEPT !.flagged = told[r]]]
          /\ silent' = (silent \/ (e.n > heard[e.radio].n + 1 /\ ~told[e.radio]))
    /\ UNCHANGED <<rigSide, stopping, mgrClosed, loop, hubSide>>

\* Close was called or the stream has ended.
Leaves ==
    /\ loop = "receive"
    /\ done \/ (agg.closed /\ agg.queue = <<>>)
    /\ loop' = "leave"
    /\ UNCHANGED <<rigSide, aggSide, hubSide, heardSide>>

\* The deferred unsubscribe has returned.
LoopEnds ==
    /\ loop = "leave" /\ stopping = "done"
    /\ loop' = "ended"
    /\ UNCHANGED <<rigSide, aggSide, hubSide, heardSide>>

hubRest == <<rigSide, aggSide, loop, heardSide>>

\* Close: no client is added from here on; those there are are stopped.
HubClose ==
    /\ ~hubClosed
    /\ hubClosed' = TRUE
    /\ toStop' = {c \in Viewers : viewer[c] = "served"}
    /\ UNCHANGED <<done, viewer, hubRest>>

HubStops ==
    /\ hubClosed /\ ~done
    /\ done' = TRUE
    /\ viewer' = [c \in Viewers |-> IF c \in toStop /\ viewer[c] = "served"
                                    THEN "leaving" ELSE viewer[c]]
    /\ toStop' = {}
    /\ UNCHANGED <<hubClosed, hubRest>>

\* Handler: an authenticated client, unless the hub is closed.
Arrives(c) ==
    /\ viewer[c] = "away" /\ ~hubClosed
    /\ viewer' = [viewer EXCEPT ![c] = "upgrading"]
    /\ UNCHANGED <<hubClosed, done, toStop, hubRest>>

\* An upgraded client is listed without another look at the flag.
MutantAdds(c) ==
    /\ viewer[c] = "upgrading"
    /\ viewer' = [viewer EXCEPT ![c] = "served"]
    /\ UNCHANGED <<hubClosed, done, toStop, hubRest>>

\* add: the hub may have closed during the upgrade.
Adds(c) ==
    /\ viewer[c] = "upgrading"
    /\ viewer' = [viewer EXCEPT ![c] = IF hubClosed THEN "gone" ELSE "served"]
    /\ UNCHANGED <<hubClosed, done, toStop, hubRest>>

\* The client hangs up.
HangsUp(c) ==
    /\ viewer[c] = "served"
    /\ viewer' = [viewer EXCEPT ![c] = "leaving"]
    /\ UNCHANGED <<hubClosed, done, toStop, hubRest>>

\* serve returns: remove.
Removed(c) ==
    /\ viewer[c] = "leaving"
    /\ viewer' = [viewer EXCEPT ![c] = "gone"]
    /\ UNCHANGED <<hubClosed, done, toStop, hubRest>>

-----------------------------------------------------------------------------

Stops == StopBegins \/ Unsubscribe \/ StopEnds
HubRuns == Receives \/ Leaves \/ LoopEnds
Closings == \E r \in Stations : CloseAll(r)
Forwards(r) == Forward(r) \/ ForwarderEnds(r)
Serves(c) == Adds(c) \/ Removed(c)

Next ==
    \/ Stops \/ HubRuns \/ Closings
    \/ \E r \in Stations : Publish(r) \/ Forwards(r)
    \/ ManagerClose \/ HubClose \/ HubStops
    \/ \E c \in Viewers : Arrives(c) \/ HangsUp(c) \/ Serves(c)

\* Goroutines run on; nobody has to publish, connect, hang up or shut down.
Fairness ==
    /\ WF_vars(Stops) /\ WF_vars(HubRuns) /\ WF_vars(HubStops) /\ WF_vars(Closings)
    /\ \A r \in Stations : WF_vars(Forwards(r))
    /\ \A c \in Viewers : WF_vars(Serves(c))

Spec == Init /\ [][Next]_vars /\ Fairness

-----------------------------------------------------------------------------
(* Correctness                                                              *)

\* The hub never takes two events of a radio for consecutive when one between
\* them was lost, wherever it was lost (Event.Dropped, aggregate.send), and no
\* shutdown closes a channel twice (subscriber.closed).
LossIsAnnounced == ~silent /\ \A r \in Stations : ~sub[r].twice

\* Close, of the hub or of the manager, reaches everybody: the loop ends, and
\* no client that was upgrading meanwhile is left behind (Hub.add, Hub.Close,
\* aggregate.stop).
ShutdownReaches ==
    (hubClosed \/ mgrClosed)
        ~> loop = "ended" /\ (hubClosed => \A c \in Viewers : viewer[c] \in {"away", "gone"})

-----------------------------------------------------------------------------
(* What keeps LossIsAnnounced through every step                            *)

SubEvent == [n : Nat, dropped : Nat]
AggEvent == [radio : Stations, n : Nat, dropped : Nat]

TypeOK ==
    /\ published \in [Stations -> Nat]
    /\ sub \in [Stations -> [queue : Seq(SubEvent), dropped : Nat,
                             listed : BOOLEAN, open : BOOLEAN, twice : BOOLEAN]]
    /\ agg \in [queue : Seq(AggEvent), dropped : Nat, closed : BOOLEAN]
    /\ heard \in [Stations -> [n : Nat, flagged : BOOLEAN]]
    /\ silent \in BOOLEAN

\* The events of r the forwarder has yet to see, the next one included.
Coming(r) == Append(sub[r].queue, [n |-> published[r] + 1, dropped |-> sub[r].dropped])

\* Event n of r would hide no loss if it followed the first len events of the
\* aggregate: a drop is announced after the last of r among them, or the event
\* is next to one of r that came before.
Clear(r, n, len) ==
    LET q == agg.queue IN
    \/ \E k \in 1..len : q[k].dropped > 0 /\ \A m \in k..len : q[m].radio # r
    \/ \E k \in 1..len : q[k].radio = r /\ n <= q[k].n + 1
    \/ heard[r].flagged /\ \A m \in 1..len : q[m].radio # r
    \/ n <= heard[r].n + 1

\* Each event, wherever it is, announces a drop or hides none.
NothingHidden(r) ==
    /\ \A j \in 1..Len(agg.queue) : agg.queue[j].radio = r =>
          agg.queue[j].dropped > 0 \/ Clear(r, agg.queue[j].n, j - 1)
    /\ Coming(r)[1].dropped > 0 \/ agg.dropped > 0
          \/ Clear(r, Coming(r)[1].n, Len(agg.queue))
    /\ \A j \in 2..Len(Coming(r)) :
          Coming(r)[j].dropped > 0 \/ Coming(r)[j].n <= Coming(r)[j - 1].n + 1

\* The events of a radio stay in order.
InOrder(r) ==
    /\ \A j \in 1..Len(agg.queue) : agg.queue[j].radio = r =>
          /\ heard[r].n <= agg.queue[j].n
          /\ \A i \in 1..(j - 1) : agg.queue[i].radio = r => agg.queue[i].n <= agg.queue[j].n
          /\ \A i \in 1..Len(Coming(r)) : agg.queue[j].n <= Coming(r)[i].n
    /\ \A j \in 1..Len(Coming(r)) :
          /\ heard[r].n <= Coming(r)[j].n
          /\ \A i \in 1..(j - 1) : Coming(r)[i].n <= Coming(r)[j].n

DeliveryInv ==
    /\ TypeOK /\ LossIsAnnounced
    /\ agg.closed => forwarding = {}
    /\ \A r \in Stations : NothingHidden(r) /\ InOrder(r)
=============================================================================
