----------------------------- MODULE StateStream -----------------------------
(***************************************************************************)
(* How a change in a radio's state cache reaches one WebSocket client:     *)
(* Session.apply and refreshCW (internal/rig/session.go) store a change    *)
(* under stateMu and publish it after letting go; the hub's subscription   *)
(* is a bounded queue that loses events rather than wait and says so on    *)
(* the next one; client.enqueue and client.drain (internal/ws/client.go)   *)
(* keep two lanes per client, the newest state event per radio and a       *)
(* bounded FIFO of cw and conn events; the client merges what it is sent.  *)
(*                                                                         *)
(* A field's value is represented by the sequence number of the change     *)
(* that set it, so a client's copy is right where the numbers agree.       *)
(* Delivery models the stages the hub's subscription consists of.     *)
(***************************************************************************)
EXTENDS Naturals, Sequences, FiniteSets, Kept

CONSTANTS
    Radios,     \* the radios of the instance
    Fields,     \* fields of radio.State, "cw" and "connected" among them
    Callers,    \* goroutines that run refreshCW: poll loop, ForceRX, requests
    FeedSize,   \* capacity of the hub's subscription
    QueueCap,   \* c.queueCap
    MaxSeq      \* bound: changes per radio

ASSUME StreamAssumption ==
    /\ {"cw", "connected"} \subseteq Fields
    /\ {"reader", "supervisor"} \cap Callers = {}
    /\ FeedSize \in Nat \ {0} /\ QueueCap \in Nat \ {0} /\ MaxSeq \in Nat

VARIABLES
    seq,            \* State.Seq of each radio's cache
    changed,        \* changed[r][f]: the seq at which f last changed
    publishing,     \* what a goroutine of a radio has stored and not published
    feed,           \* the hub's subscription
    feedLost,       \* events were lost since the last one that found room
    subs,           \* c.subs
    pending,        \* c.pending, a function from the radios that have an event
    discrete,       \* c.discrete: the radios of the waiting cw and conn events
    resync,         \* c.resync
    snapshot,       \* c.snapshot
    lastSeq,        \* c.lastSeq
    stateLimited,   \* radios whose c.nextAt is in the future
    resyncLimited,  \* radios whose c.nextResync is in the future
    writer,         \* "drain" or "wait" in writeLoop, or "stopped"
    wake,           \* c.wake holds a token
    timer,          \* writeLoop's timer is set
    view,           \* view[r][f]: the client's copy, as changed
    superseded,     \* history: fields of events the state lane let go
    told,           \* history: radios resynced since their last snapshot
    holes           \* history: radios with cw or conn events thrown away

cacheVars == <<seq, changed, publishing>>
feedVars == <<feed, feedLost>>
laneVars == <<subs, pending, discrete, resync, snapshot>>
limitVars == <<stateLimited, resyncLimited>>
writerVars == <<writer, wake, timer>>
clientVars == <<lastSeq, view, superseded, told>>
vars == <<cacheVars, feedVars, laneVars, limitVars, writerVars, clientVars, holes>>

\* The goroutines that change a cache.
Publishers == Radios \X (Callers \cup {"reader", "supervisor"})

Kinds == {"state", "cw", "conn"}
Event == [radio : Radios, seq : 1..MaxSeq, kind : Kinds, patch : SUBSET Fields,
          dropped : BOOLEAN]
None == [kind |-> "none"]
NoCopy == [f \in Fields |-> 0]

Open == writer # "stopped"

-----------------------------------------------------------------------------
(* The session                                                              *)

\* A change of the fields in patch is in the cache; its event is not out yet.
Store(r, who, kind, patch) ==
    LET g == <<r, who>> IN
    /\ publishing[g] = None
    /\ seq[r] < MaxSeq
    /\ seq' = [seq EXCEPT ![r] = @ + 1]
    /\ changed' = [changed EXCEPT ![r] =
          [f \in Fields |-> IF f \in patch THEN seq[r] + 1 ELSE @[f]]]
    /\ publishing' = [publishing EXCEPT ![g] =
          [radio |-> r, seq |-> seq[r] + 1, kind |-> kind, patch |-> patch, dropped |-> FALSE]]
    /\ UNCHANGED <<feedVars, laneVars, limitVars, writerVars, clientVars, holes>>

\* Session.apply for a decoded frame.
ApplyUpdate(r) ==
    \E patch \in SUBSET (Fields \ {"cw", "connected"}) :
        patch # {} /\ Store(r, "reader", "state", patch)

\* Session.apply for a connection that came or went.
ApplyConn(r) == Store(r, "supervisor", "conn", {"connected"})

\* refreshCW, on whatever goroutine polls, aborts or forces receive.
RefreshCW(r, c) == Store(r, c, "cw", {"cw"})

\* A queue that overflows in silence.
MutantPublishSilently(g) ==
    /\ publishing[g] # None
    /\ publishing' = [publishing EXCEPT ![g] = None]
    /\ feed' = IF Len(feed) < FeedSize THEN Append(feed, publishing[g]) ELSE feed
    /\ feedLost' = FALSE
    /\ UNCHANGED <<seq, changed, laneVars, limitVars, writerVars, clientVars, holes>>

\* subscribers.publish: never waits.
Publish(g) ==
    /\ publishing[g] # None
    /\ publishing' = [publishing EXCEPT ![g] = None]
    /\ IF Len(feed) < FeedSize
       THEN /\ feed' = Append(feed, [publishing[g] EXCEPT !.dropped = feedLost])
            /\ feedLost' = FALSE
       ELSE /\ feedLost' = TRUE
            /\ UNCHANGED feed
    /\ UNCHANGED <<seq, changed, laneVars, limitVars, writerVars, clientVars, holes>>

-----------------------------------------------------------------------------
(* The lanes                                                                *)

\* A lane one entry too long.
MutantOverflows(ev) == ev.kind # "state" /\ Len(discrete) > QueueCap

\* pushDiscreteLocked overflows for this event.
Overflows(ev) == ev.kind # "state" /\ Len(discrete) >= QueueCap

\* An overflow that truncates the history without saying so.
MutantLaneTruncates(ev) ==
    /\ discrete' = IF ev.kind = "state" THEN discrete
                   ELSE IF Overflows(ev) THEN Append(Tail(discrete), ev.radio)
                   ELSE Append(discrete, ev.radio)
    /\ holes' = IF Overflows(ev) THEN holes \cup {Head(discrete)} ELSE holes
    /\ resync' = IF ev.dropped THEN subs ELSE resync

\* The event lane and the resync flags after an event of a subscribed radio.
PushDiscrete(ev) ==
    /\ discrete' = IF ev.kind = "state" THEN discrete
                   ELSE IF Overflows(ev) THEN <<>>
                   ELSE Append(discrete, ev.radio)
    /\ holes' = IF Overflows(ev)
                THEN holes \cup {ev.radio} \cup {discrete[i] : i \in 1..Len(discrete)}
                ELSE holes
    /\ resync' = IF ev.dropped \/ Overflows(ev) THEN subs ELSE resync

\* The fields of a pending event that its replacement does not carry onward.
ReplacedBy(old, ev) == {f \in old.patch : f \notin ev.patch \/ ev.seq < old.seq}

\* The hub hands the next event to client.enqueue.
Enqueue ==
    LET ev == Head(feed) IN
    /\ feed # <<>>
    /\ feed' = Tail(feed)
    /\ IF ~Open
       THEN UNCHANGED <<laneVars, wake, superseded, holes>>
       ELSE IF ev.radio \notin subs
       THEN /\ resync' = IF ev.dropped THEN subs ELSE resync
            /\ wake' = (wake \/ ev.dropped)
            /\ UNCHANGED <<subs, pending, discrete, snapshot, superseded, holes>>
       ELSE /\ PushDiscrete(ev)
            /\ pending' = [r \in DOMAIN pending \cup {ev.radio} |->
                             IF r = ev.radio THEN ev ELSE pending[r]]
            /\ superseded' = IF ev.radio \in DOMAIN pending
                             THEN [superseded EXCEPT ![ev.radio] =
                                     @ \cup ReplacedBy(pending[ev.radio], ev)]
                             ELSE superseded
            /\ wake' = TRUE
            /\ UNCHANGED <<subs, snapshot>>
    /\ UNCHANGED <<cacheVars, feedLost, limitVars, writer, timer, lastSeq, view, told>>

\* setRadios, for a subscribe message that resolves to the radios in S.
SetRadios(S) ==
    /\ Open
    /\ subs' = S
    /\ pending' = [r \in DOMAIN pending \cap S |-> pending[r]]
    /\ discrete' = Kept(discrete, S)
    /\ resync' = resync \cap S
    /\ snapshot' = (snapshot \cup (S \ subs)) \cap S
    /\ holes' = holes \cap S
    /\ wake' = TRUE
    /\ UNCHANGED <<cacheVars, feedVars, limitVars, writer, timer, clientVars>>

-----------------------------------------------------------------------------
(* The writer                                                               *)

ResyncDue == resync \ resyncLimited

\* A snapshot starts the radio's interval, so its pending event waits.
DeltaDue == DOMAIN pending \ (stateLimited \cup snapshot)

\* A renderer that writes whatever is pending.
MutantFresh(r) == r \in DOMAIN pending

\* stateMessageLocked: not superseded by what has already been written.
Fresh(r) == pending[r].seq > lastSeq[r]

\* What writing the due messages makes of the client's copy of radio r.
Merge(r) ==
    IF r \in snapshot THEN changed[r]
    ELSE IF r \in DeltaDue /\ Fresh(r)
    THEN [f \in Fields |-> IF f \in pending[r].patch THEN pending[r].seq ELSE view[r][f]]
    ELSE view[r]

\* Fields the client will not hear of because their event was stale when due.
LetGo(r) ==
    IF r \in DeltaDue /\ ~Fresh(r)
    THEN {f \in pending[r].patch : view[r][f] < pending[r].seq}
    ELSE {}

\* A timer that is not set for a delta held back.
MutantHeldBack == resync \cap resyncLimited

\* What the rate limits keep for later; drain returns when that will be.
HeldBack == (resync \cap resyncLimited) \cup
            (DOMAIN pending \cap (stateLimited \cup snapshot))

\* drain and the writes that follow: resyncs, discrete events, snapshots from
\* the cache as it is now, deltas; what the rate limits hold back sets the timer.
Drain ==
    /\ writer = "drain"
    /\ resync' = resync \ ResyncDue
    /\ resyncLimited' = resyncLimited \cup ResyncDue
    /\ told' = (told \cup ResyncDue) \ snapshot
    /\ holes' = holes \ ResyncDue
    /\ discrete' = <<>>
    /\ snapshot' = {}
    /\ pending' = [r \in DOMAIN pending \ DeltaDue |-> pending[r]]
    /\ lastSeq' = [r \in Radios |->
          IF r \in snapshot THEN seq[r]
          ELSE IF r \in DeltaDue /\ Fresh(r) THEN pending[r].seq ELSE lastSeq[r]]
    /\ view' = [r \in Radios |-> Merge(r)]
    /\ superseded' = [r \in Radios |->
          IF r \in snapshot THEN {} ELSE superseded[r] \cup LetGo(r)]
    /\ stateLimited' = stateLimited \cup snapshot \cup {r \in DeltaDue : Fresh(r)}
    /\ timer' = (HeldBack # {})
    /\ writer' = "wait"
    /\ UNCHANGED <<cacheVars, feedVars, subs, wake>>

\* The select on c.wake.
WakeUp ==
    /\ writer = "wait" /\ wake
    /\ writer' = "drain" /\ wake' = FALSE
    /\ UNCHANGED <<cacheVars, feedVars, laneVars, limitVars, timer, clientVars, holes>>

\* The select on timer.C: the first of the intervals waited for is over.
TimerFires ==
    /\ writer = "wait" /\ timer
    /\ ResyncDue # {} \/ DeltaDue # {}
    /\ writer' = "drain" /\ timer' = FALSE
    /\ UNCHANGED <<cacheVars, feedVars, laneVars, limitVars, wake, clientVars, holes>>

StateIntervalEnds(r) ==
    /\ r \in stateLimited
    /\ stateLimited' = stateLimited \ {r}
    /\ UNCHANGED <<cacheVars, feedVars, laneVars, resyncLimited, writerVars, clientVars, holes>>

ResyncIntervalEnds(r) ==
    /\ r \in resyncLimited
    /\ resyncLimited' = resyncLimited \ {r}
    /\ UNCHANGED <<cacheVars, feedVars, laneVars, stateLimited, writerVars, clientVars, holes>>

\* client.stop: the peer is gone, a write failed, or the hub closes.
Stop ==
    /\ Open
    /\ writer' = "stopped"
    /\ wake' = TRUE
    /\ UNCHANGED <<cacheVars, feedVars, laneVars, limitVars, timer, clientVars, holes>>

-----------------------------------------------------------------------------

\* newClient: a snapshot is owed for every radio subscribed to.
Init ==
    /\ seq = [r \in Radios |-> 0]
    /\ changed = [r \in Radios |-> NoCopy]
    /\ publishing = [g \in Publishers |-> None]
    /\ feed = <<>> /\ feedLost = FALSE
    /\ subs = Radios
    /\ pending = [r \in {} |-> None]
    /\ discrete = <<>> /\ resync = {} /\ snapshot = Radios
    /\ lastSeq = [r \in Radios |-> 0]
    /\ stateLimited = {} /\ resyncLimited = {}
    /\ writer = "drain" /\ wake = FALSE /\ timer = FALSE
    /\ view = [r \in Radios |-> NoCopy]
    /\ superseded = [r \in Radios |-> {}]
    /\ told = {} /\ holes = {}

Next ==
    \/ \E r \in Radios : ApplyUpdate(r) \/ ApplyConn(r)
    \/ \E r \in Radios, c \in Callers : RefreshCW(r, c)
    \/ \E g \in Publishers : Publish(g)
    \/ Enqueue
    \/ \E S \in SUBSET Radios : SetRadios(S)
    \/ Drain
    \/ WakeUp
    \/ TimerFires
    \/ \E r \in Radios : StateIntervalEnds(r) \/ ResyncIntervalEnds(r)
    \/ Stop

Spec == Init /\ [][Next]_vars

\* Goroutines that can run do, and clocks advance.
Fairness ==
    /\ \A g \in Publishers : WF_vars(Publish(g))
    /\ WF_vars(Enqueue)
    /\ WF_vars(Drain) /\ WF_vars(WakeUp) /\ WF_vars(TimerFires)
    /\ \A r \in Radios : WF_vars(StateIntervalEnds(r)) /\ WF_vars(ResyncIntervalEnds(r))

FairSpec == Spec /\ Fairness

-----------------------------------------------------------------------------
(* Properties                                                               *)

TypeOK ==
    /\ seq \in [Radios -> 0..MaxSeq]
    /\ changed \in [Radios -> [Fields -> 0..MaxSeq]]
    /\ publishing \in [Publishers -> Event \cup {None}]
    /\ feed \in Seq(Event) /\ Len(feed) <= FeedSize
    /\ feedLost \in BOOLEAN
    /\ subs \subseteq Radios
    /\ DOMAIN pending \subseteq subs
    /\ \A r \in DOMAIN pending : pending[r] \in Event /\ pending[r].radio = r
    /\ discrete \in Seq(subs) /\ Len(discrete) <= QueueCap
    /\ resync \subseteq subs /\ snapshot \subseteq subs
    /\ lastSeq \in [Radios -> 0..MaxSeq]
    /\ stateLimited \subseteq Radios /\ resyncLimited \subseteq Radios
    /\ writer \in {"drain", "wait", "stopped"}
    /\ wake \in BOOLEAN /\ timer \in BOOLEAN
    /\ view \in [Radios -> [Fields -> 0..MaxSeq]]
    /\ superseded \in [Radios -> SUBSET Fields]
    /\ told \subseteq Radios /\ holes \subseteq Radios

\* The bounded lane, and every cw or conn event thrown away is owed a resync
\* to its radio's subscriber, through rate limits and changes of subscription.
HolesAreFlagged == Open => holes \subseteq resync

\* A writer that waits has nothing due, or something will wake it.
NoLostWakeup ==
    writer = "wait" /\ (ResyncDue # {} \/ DeltaDue # {} \/ snapshot # {} \/ discrete # <<>>)
        => wake \/ timer

\* Where a change of field f of r still is, if the client has not got it.
OnItsWay(r, f) ==
    LET Carries(ev) == ev # None /\ ev.radio = r /\ ev.seq = changed[r][f] IN
    \/ \E g \in Publishers : Carries(publishing[g])
    \/ \E i \in 1..Len(feed) : Carries(feed[i])
    \/ r \in DOMAIN pending /\ Carries(pending[r])

\* A loss in the hub's subscription that will be admitted, or has been.
LossAdmitted(r) ==
    feedLost \/ (\E i \in 1..Len(feed) : feed[i].dropped) \/ r \in resync \cup told

\* A client's copy of a field is stale for one of three reasons only: the change
\* is on its way, a loss has been or will be admitted, or the state lane let the
\* change go in favour of another event.
StaleIsExplained ==
    Open => \A r \in subs \ snapshot, f \in Fields :
        view[r][f] # changed[r][f] =>
            OnItsWay(r, f) \/ LossAdmitted(r) \/ f \in superseded[r]

\* An event names the fields its change set: none of them is older in the cache
\* than the event, and those that the event set last are all named.
TrueEvent(ev) ==
    /\ ev.seq <= seq[ev.radio]
    /\ \A f \in Fields :
          /\ f \in ev.patch => changed[ev.radio][f] >= ev.seq
          /\ changed[ev.radio][f] = ev.seq => f \in ev.patch

EventsAreTrue ==
    /\ \A g \in Publishers : publishing[g] # None => TrueEvent(publishing[g])
    /\ \A i \in 1..Len(feed) : TrueEvent(feed[i])
    /\ \A r \in DOMAIN pending : TrueEvent(pending[r])

\* The client has nothing newer than the cache or than the last number written.
CopyIsBehind ==
    \A r \in Radios :
        /\ lastSeq[r] <= seq[r]
        /\ \A f \in Fields :
              /\ changed[r][f] <= seq[r]
              /\ view[r][f] <= changed[r][f] /\ view[r][f] <= lastSeq[r]

\* The inductive invariant of a client's copy.
CopyInv == TypeOK /\ EventsAreTrue /\ CopyIsBehind /\ StaleIsExplained

\* There is something to do, now or when an interval ends.
WorkLeft == resync # {} \/ DOMAIN pending # {} \/ snapshot # {} \/ discrete # <<>>

\* The inductive invariant of the lanes.
LaneInv ==
    /\ discrete \in Seq(subs)
    /\ Open => resync \subseteq subs
    /\ HolesAreFlagged
    /\ writer = "wait" /\ WorkLeft => wake \/ timer

\* DESIGN.md section 9: the written stream is strictly increasing per radio.  A
\* snapshot for a new subscription may repeat a number, never go back.
WrittenSeqIncreases ==
    [][\A r \in Radios :
          /\ lastSeq'[r] >= lastSeq[r]
          /\ view'[r] # view[r] /\ r \notin snapshot => lastSeq'[r] > lastSeq[r]]_vars

\* Whatever is owed to the client is written, or the client unsubscribes or goes.
OwedIsWritten ==
    /\ \A r \in Radios : (r \in resync) ~> (r \notin resync \/ ~Open)
    /\ \A r \in Radios : (r \in DOMAIN pending) ~> (r \notin DOMAIN pending \/ ~Open)

\* All the work there is has been done and the client has everything it will get.
Quiet ==
    /\ Open /\ \A g \in Publishers : publishing[g] = None
    /\ feed = <<>> /\ ~feedLost
    /\ DOMAIN pending = {} /\ resync = {} /\ snapshot = {}

\* DESIGN.md section 9: a jump in seq says updates were superseded, "not that
\* anything was lost".  Then a client that has merged everything it was sent, and
\* was not told to resync, has the state the cache has.
NothingLostSilently ==
    Quiet => \A r \in subs \ told : view[r] = changed[r]
=============================================================================
