------------------------------ MODULE Supervisor ------------------------------
(***************************************************************************)
(* The life of one radio's connection: the supervisor and the poller       *)
(* (internal/rig/supervisor.go, poller.go), the flags the write path asks  *)
(* (requireConnected, session.go), what the cache tells clients, and the   *)
(* power-on requests handed from the API to the supervisor.                *)
(*                                                                         *)
(* The radio is external: awake it answers, in standby it refuses every    *)
(* command, off it is silent, and its port may be absent.  A power-off     *)
(* request has the effect of the switch on its panel, at a moment of its   *)
(* own; s.poweredOff chooses the wording of a log line and is left out.    *)
(* Waits (backoff, slow interval, tickers) end when they like.             *)
(***************************************************************************)
EXTENDS Naturals

CONSTANTS
    MaxPollFailures,    \* maxPollFailures
    MaxRequests,        \* bound: power-on requests
    MaxFaults           \* bound: cables pulled, commands lost, switches thrown

ASSUME SupervisorAssumption ==
    /\ MaxPollFailures \in Nat \ {0}
    /\ MaxRequests \in Nat /\ MaxFaults \in Nat

VARIABLES
    port,       \* the port is there
    power,      \* the radio: "awake", "standby" or "off"
    faults,     \* faults so far
    at,         \* where the supervisor's goroutine stands
    conn,       \* s.conn is set
    link,       \* the transport: "none", "up", or "failed" once c.done is closed
    connected,  \* s.connected
    standby,    \* s.standby
    shown,      \* Connected and Standby in the state cache
    fails,      \* the poller's counters, by tier
    wakeWanted, \* s.wakeWanted
    powerOn,    \* where a PowerOn request stands: "idle", "send" or "arm"
    requests,   \* power-on requests so far
    wakes,      \* history: wake-ups put on the wire
    cancelled,  \* the session's context is cancelled
    inited,     \* history: Init has succeeded on this connection
    ailing      \* history: the radio has failed polls on this connection

supervisorVars ==
    <<port, power, faults, at, conn, link, connected, standby, shown, fails,
      wakeWanted, powerOn, requests, wakes, cancelled, inited, ailing>>
radioVars == <<port, power, faults>>
flagVars == <<conn, connected, standby, shown>>
wakeVars == <<wakeWanted, powerOn, requests, wakes>>
ghostVars == <<inited, ailing>>

Tiers == {"fast", "slow"}
NoFails == [t \in Tiers |-> 0]

Places == {"dial", "wake", "init", "park", "showPark", "parked", "rewake", "reinit",
           "unparkToLive", "unparkToDie", "slow", "fast", "announce", "showLive",
           "running", "teardown", "showLoss", "backoff", "stopped"}

GoTo(place) == at' = place

\* The radio hears what is written.
Reachable == link = "up"

\* How an exchange on the connection can end.  Some radios refuse part of the
\* slow tier; an awake radio that misses a command counts as a fault.
Outcomes(tier) ==
    IF cancelled THEN {"cancelled"}
    ELSE IF ~Reachable THEN {"lost"}
    ELSE IF power = "off" THEN {"silent"}
    ELSE IF power = "standby" THEN {"refused"}
    ELSE {"ok"} \cup (IF tier = "slow" THEN {"refused"} ELSE {})
                \cup (IF faults < MaxFaults THEN {"silent"} ELSE {})

Exchange(tier, outcome) ==
    /\ outcome \in Outcomes(tier)
    /\ faults' = IF outcome = "silent" /\ power = "awake" THEN faults + 1 ELSE faults
    /\ UNCHANGED <<port, power>>

Fault == faults < MaxFaults /\ faults' = faults + 1

\* requireConnected lets a command through.
Usable == connected /\ conn /\ ~standby

\* What a client reads as a radio it can work.
ShownUsable == shown.connected /\ ~shown.standby

-----------------------------------------------------------------------------
(* The radio and the operator next to it                                    *)

\* The cable is pulled: the reader's stream ends.
CablePulled ==
    /\ port /\ Fault
    /\ port' = FALSE
    /\ link' = IF link = "up" THEN "failed" ELSE link
    /\ UNCHANGED <<power, at, flagVars, fails, wakeVars, cancelled, ghostVars>>

CableReseated ==
    /\ ~port
    /\ port' = TRUE
    /\ UNCHANGED <<power, faults, at, link, flagVars, fails, wakeVars, cancelled, ghostVars>>

\* The switch on the panel, or a power_switch request that turns it off.
SwitchedOff ==
    /\ power = "awake" /\ Fault
    /\ power' \in {"standby", "off"}
    /\ UNCHANGED <<port, at, link, flagVars, fails, wakeVars, cancelled, ghostVars>>

\* The panel, or a wake-up that takes its time.
SwitchedOn ==
    /\ power # "awake"
    /\ power' = "awake"
    /\ UNCHANGED <<port, faults, at, link, flagVars, fails, wakeVars, cancelled, ghostVars>>

\* A wake-up on the wire, which the radio may miss.
SendWake ==
    /\ wakes' = wakes + 1
    /\ power' \in IF Reachable THEN {power, "awake"} ELSE {power}

-----------------------------------------------------------------------------
(* A power-on request                                                       *)

\* PowerOn looks for an open port.
PowerOnLooks ==
    /\ powerOn = "idle" /\ requests < MaxRequests
    /\ requests' = requests + 1
    /\ powerOn' = IF conn THEN "send" ELSE "arm"
    /\ UNCHANGED <<radioVars, at, link, flagVars, fails, wakeWanted, wakes, cancelled, ghostVars>>

\* On the open port, if it still is one; otherwise the caller gets the error.
PowerOnSends ==
    /\ powerOn = "send"
    /\ powerOn' = "idle"
    /\ IF conn /\ Reachable THEN SendWake ELSE UNCHANGED <<wakes, power>>
    /\ UNCHANGED <<port, faults, at, link, flagVars, fails, wakeWanted, requests, cancelled, ghostVars>>

\* For the supervisor, whatever has become of the port since.
PowerOnArms ==
    /\ powerOn = "arm"
    /\ powerOn' = "idle" /\ wakeWanted' = TRUE
    /\ UNCHANGED <<radioVars, at, link, flagVars, fails, requests, wakes, cancelled, ghostVars>>

\* A wake request that is read and left for the next attempt.
MutantTakeWakeRequest ==
    IF wakeWanted
    THEN SendWake /\ UNCHANGED wakeWanted
    ELSE UNCHANGED <<wakeWanted, wakes, power>>

\* takeWakeRequest, and the wake-up it asks for.
TakeWakeRequest ==
    IF wakeWanted
    THEN SendWake /\ wakeWanted' = FALSE
    ELSE UNCHANGED <<wakeWanted, wakes, power>>

-----------------------------------------------------------------------------
(* The supervisor: from the dial to a radio that answers                    *)

\* newConn on the dialled port, or on to the backoff.
Dials ==
    /\ at = "dial"
    /\ IF cancelled THEN GoTo("stopped") /\ UNCHANGED <<conn, link, ghostVars>>
       ELSE IF port
       THEN /\ GoTo("wake") /\ conn' = TRUE /\ link' = "up"
            /\ inited' = FALSE /\ ailing' = FALSE
       ELSE GoTo("backoff") /\ UNCHANGED <<conn, link, ghostVars>>
    /\ UNCHANGED <<radioVars, connected, standby, shown, fails, wakeVars, cancelled>>

\* Before Init, and again in the parking loop.
SendsArmedWake ==
    /\ at \in {"wake", "rewake"}
    /\ TakeWakeRequest
    /\ GoTo(IF at = "wake" THEN "init" ELSE "reinit")
    /\ UNCHANGED <<port, faults, link, flagVars, fails, powerOn, requests, cancelled, ghostVars>>

\* Init, first or in the parking loop.  A refusal means the radio is asleep.
TriesInit ==
    /\ at \in {"init", "reinit"}
    /\ \E outcome \in Outcomes("fast") :
          /\ Exchange("fast", outcome)
          /\ inited' = (inited \/ outcome = "ok")
          /\ GoTo(CASE outcome = "ok"      -> IF at = "init" THEN "slow" ELSE "unparkToLive"
                    [] outcome = "refused" -> IF at = "init" THEN "park" ELSE "parked"
                    [] OTHER               -> IF at = "init" THEN "teardown" ELSE "unparkToDie")
    /\ UNCHANGED <<link, flagVars, fails, wakeVars, cancelled, ailing>>

\* A parking that leaves the write path's flag down.
MutantParks ==
    /\ at = "park"
    /\ standby' = TRUE
    /\ GoTo("showPark")
    /\ UNCHANGED <<radioVars, conn, link, connected, shown, fails, wakeVars, cancelled, ghostVars>>

\* awaitWake: both flags,
Parks ==
    /\ at = "park"
    /\ standby' = TRUE /\ connected' = TRUE
    /\ GoTo("showPark")
    /\ UNCHANGED <<radioVars, conn, link, shown, fails, wakeVars, cancelled, ghostVars>>

\* then the cache.
ShowsPark ==
    /\ at = "showPark"
    /\ shown' = [connected |-> TRUE, standby |-> TRUE]
    /\ GoTo("parked")
    /\ UNCHANGED <<radioVars, conn, link, connected, standby, fails, wakeVars, cancelled, ghostVars>>

\* A parking loop that only retries Init.
MutantParkedTicks ==
    /\ at = "parked"
    /\ GoTo("reinit")
    /\ UNCHANGED <<radioVars, link, flagVars, fails, wakeVars, cancelled, ghostVars>>

\* The slow interval is over.
ParkedTicks ==
    /\ at = "parked"
    /\ GoTo("rewake")
    /\ UNCHANGED <<radioVars, link, flagVars, fails, wakeVars, cancelled, ghostVars>>

\* c.done, or the end of the session.
ParkedEnds ==
    /\ at = "parked" /\ (link = "failed" \/ cancelled)
    /\ GoTo("unparkToDie")
    /\ UNCHANGED <<radioVars, link, flagVars, fails, wakeVars, cancelled, ghostVars>>

\* awaitWake's deferred function.
Unparks ==
    /\ at \in {"unparkToLive", "unparkToDie"}
    /\ standby' = FALSE
    /\ shown' = [shown EXCEPT !.standby = FALSE]
    /\ GoTo(IF at = "unparkToLive" THEN "slow" ELSE "teardown")
    /\ UNCHANGED <<radioVars, conn, link, connected, fails, wakeVars, cancelled, ghostVars>>

\* A first poll that insists on every optional value.
MutantPasses(tier, outcome) == outcome = "ok"

\* isFatalPollErr, and its use: a refusal is fatal in the fast tier only.
Passes(tier, outcome) == outcome = "ok" \/ (tier = "slow" /\ outcome = "refused")

\* The first full poll.
FirstPoll ==
    /\ at \in Tiers
    /\ \E outcome \in Outcomes(at) :
          /\ Exchange(at, outcome)
          /\ GoTo(IF ~Passes(at, outcome) THEN "teardown"
                  ELSE IF at = "slow" THEN "fast" ELSE "announce")
    /\ UNCHANGED <<link, flagVars, fails, wakeVars, cancelled, inited, ailing>>

\* The write path opens,
Announces ==
    /\ at = "announce"
    /\ connected' = TRUE
    /\ GoTo("showLive")
    /\ UNCHANGED <<radioVars, conn, link, standby, shown, fails, wakeVars, cancelled, ghostVars>>

\* then clients are told, and the poller starts with fresh counters.
ShowsLive ==
    /\ at = "showLive"
    /\ shown' = [shown EXCEPT !.connected = TRUE]
    /\ fails' = NoFails
    /\ GoTo("running")
    /\ UNCHANGED <<radioVars, conn, link, connected, standby, wakeVars, cancelled, ghostVars>>

-----------------------------------------------------------------------------
(* The poller, and the end of the connection                                *)

\* A poller that takes any refusal for a sign of life.
MutantCounts(tier, outcome) == outcome = "silent"

\* A poller that counts a refused optional read.
MutantCountsAll(tier, outcome) == outcome \in {"silent", "refused"}

\* pollTier: what counts towards "it has stopped answering".
Counts(tier, outcome) == outcome = "silent" \/ (outcome = "refused" /\ tier = "fast")

\* A limit that is off by one.
MutantAtLimit(n) == n > MaxPollFailures

AtLimit(n) == n >= MaxPollFailures

\* One poll of a tier; at the limit the poller kills the connection.
Polls(tier) ==
    /\ at = "running" /\ link = "up"
    /\ \E outcome \in Outcomes(tier) \ {"cancelled", "lost"} :
          /\ Exchange(tier, outcome)
          /\ fails' = [fails EXCEPT ![tier] =
                         IF outcome = "ok" THEN 0
                         ELSE IF Counts(tier, outcome) THEN @ + 1 ELSE @]
          /\ link' = IF AtLimit(fails'[tier]) THEN "failed" ELSE link
          /\ ailing' = (ailing \/ outcome = "silent" \/ power # "awake")
    /\ UNCHANGED <<at, flagVars, wakeVars, cancelled, inited>>

\* A run that only ends with its connection.
MutantRunEnds ==
    /\ at = "running" /\ link = "failed"
    /\ GoTo("teardown")
    /\ UNCHANGED <<radioVars, link, flagVars, fails, wakeVars, cancelled, ghostVars>>

\* c.done or the end of the session; the poller is waited for.
RunEnds ==
    /\ at = "running" /\ (link = "failed" \/ cancelled)
    /\ GoTo("teardown")
    /\ UNCHANGED <<radioVars, link, flagVars, fails, wakeVars, cancelled, ghostVars>>

\* A teardown that closes the port and forgets the flag.
MutantTearsDown ==
    /\ at = "teardown"
    /\ conn' = FALSE /\ link' = "none"
    /\ GoTo("showLoss")
    /\ UNCHANGED <<radioVars, connected, standby, shown, fails, wakeVars, cancelled, ghostVars>>

\* runConnection's deferred function: no conn, not connected, transport closed,
TearsDown ==
    /\ at = "teardown"
    /\ conn' = FALSE /\ connected' = FALSE /\ link' = "none"
    /\ GoTo("showLoss")
    /\ UNCHANGED <<radioVars, standby, shown, fails, wakeVars, cancelled, ghostVars>>

\* and onDisconnected, which also drops PTT and the CW queue.
ShowsLoss ==
    /\ at = "showLoss"
    /\ shown' = [shown EXCEPT !.connected = FALSE]
    /\ GoTo(IF cancelled THEN "stopped" ELSE "backoff")
    /\ UNCHANGED <<radioVars, conn, link, connected, standby, fails, wakeVars, cancelled, ghostVars>>

\* supervise waits and dials again, or is told to stop.
BacksOff ==
    /\ at = "backoff"
    /\ GoTo(IF cancelled THEN "stopped" ELSE "dial")
    /\ UNCHANGED <<radioVars, link, flagVars, fails, wakeVars, cancelled, ghostVars>>

\* Session.Close cancels and waits.
Cancel ==
    /\ ~cancelled
    /\ cancelled' = TRUE
    /\ UNCHANGED <<radioVars, at, link, flagVars, fails, wakeVars, ghostVars>>

-----------------------------------------------------------------------------

SupervisorInit ==
    /\ port \in BOOLEAN /\ power \in {"awake", "standby", "off"} /\ faults = 0
    /\ at = "dial" /\ conn = FALSE /\ link = "none"
    /\ connected = FALSE /\ standby = FALSE
    /\ shown = [connected |-> FALSE, standby |-> FALSE]
    /\ fails = NoFails
    /\ wakeWanted = FALSE /\ powerOn = "idle" /\ requests = 0 /\ wakes = 0
    /\ cancelled = FALSE
    /\ inited = FALSE /\ ailing = FALSE

Surroundings == CablePulled \/ CableReseated \/ SwitchedOff \/ SwitchedOn

PowerOn == PowerOnLooks \/ PowerOnSends \/ PowerOnArms

Supervise ==
    \/ Dials \/ SendsArmedWake \/ TriesInit
    \/ Parks \/ ShowsPark \/ ParkedTicks \/ ParkedEnds \/ Unparks
    \/ FirstPoll \/ Announces \/ ShowsLive \/ RunEnds
    \/ TearsDown \/ ShowsLoss \/ BacksOff

SupervisorNext ==
    \/ Surroundings
    \/ PowerOn
    \/ Supervise
    \/ \E tier \in Tiers : Polls(tier)
    \/ Cancel

SupervisorSpec == SupervisorInit /\ [][SupervisorNext]_supervisorVars

\* The supervisor and the poller are goroutines that wait for nothing but time,
\* and a request that has looked for a port goes on.  Nobody has to press
\* anything or plug anything in.
SupervisorFairness ==
    /\ WF_supervisorVars(Supervise)
    /\ \A tier \in Tiers : WF_supervisorVars(Polls(tier))
    /\ WF_supervisorVars(PowerOnSends \/ PowerOnArms)

SupervisorFairSpec == SupervisorSpec /\ SupervisorFairness

-----------------------------------------------------------------------------
(* Properties                                                               *)

SupervisorTypes ==
    /\ port \in BOOLEAN /\ power \in {"awake", "standby", "off"}
    /\ faults \in 0..MaxFaults
    /\ at \in Places
    /\ conn \in BOOLEAN /\ link \in {"none", "up", "failed"}
    /\ connected \in BOOLEAN /\ standby \in BOOLEAN
    /\ shown \in [connected : BOOLEAN, standby : BOOLEAN]
    /\ fails \in [Tiers -> 0..MaxPollFailures]
    /\ wakeWanted \in BOOLEAN /\ powerOn \in {"idle", "send", "arm"}
    /\ requests \in 0..MaxRequests /\ wakes \in 0..MaxRequests
    /\ cancelled \in BOOLEAN
    /\ inited \in BOOLEAN /\ ailing \in BOOLEAN

\* A command that requireConnected lets through finds a radio whose Init has
\* succeeded on this connection, in whatever order the supervisor, a pulled
\* cable and a sleeping radio take their steps (the comment on
\* Session.connected).  The one exception is the instant at which a parked
\* connection has given up and not yet been torn down.
UsableIsInitialised == Usable => inited \/ at = "teardown"

\* What clients are shown and what the write path asks are two views of one
\* fact: away from the steps that change both they agree (awaitWake's comment on
\* the bug that came of letting them disagree).
FlagsAgree ==
    at \notin {"showPark", "showLive", "showLoss"} =>
        shown = [connected |-> connected, standby |-> standby]

\* A radio is never held on against the operator at its panel: each power-on
\* request wakes it at most once, over every redial and every round of the
\* parking loop.
WakesAreAskedFor ==
    wakes + (IF wakeWanted THEN 1 ELSE 0) + (IF powerOn = "idle" THEN 0 ELSE 1) <= requests

\* What makes these inductive: the supervisor's place decides the flags and what
\* clients are shown, and a connection that is still up is below the limit.
PlaceDecides ==
    /\ conn <=> at \notin {"dial", "showLoss", "backoff", "stopped"}
    /\ standby <=> at \in {"showPark", "parked", "rewake", "reinit", "unparkToLive", "unparkToDie"}
    /\ standby \/ at \in {"showLive", "running"} => connected
    /\ connected => conn /\ at \notin {"wake", "init", "park"}
    /\ at \in {"unparkToLive", "slow", "fast", "announce", "showLive", "running"} => inited
    /\ shown.standby <=> standby /\ at # "showPark"
    /\ at \notin {"showPark", "showLive", "showLoss"} => shown.connected = connected

BelowLimit ==
    at = "running" /\ link = "up" => \A tier \in Tiers : fails[tier] < MaxPollFailures

SupervisorInv == SupervisorTypes /\ PlaceDecides /\ WakesAreAskedFor /\ BelowLimit

\* A radio that answers its fast polls keeps its connection, however much of the
\* slow tier it refuses.
RefusalsKeepTheLink ==
    [][link = "up" /\ link' = "failed" => ailing' \/ ~port']_supervisorVars

\* A radio that no longer answers, its port still there, is noticed: clients stop
\* seeing a radio they can work.
SilenceIsNoticed == (ShownUsable /\ power # "awake") ~> (~ShownUsable \/ power = "awake")

\* A radio that is there and awake comes back by itself.
RadioComesBack == (port /\ power = "awake") ~> (ShownUsable \/ ~port \/ power # "awake" \/ cancelled)

\* A wake-up armed for the supervisor is sent, even when it was armed while the
\* connection was being parked: it waits for nothing but a port, or for a radio
\* that turned out to be awake.
ArmedWakeIsSent == wakeWanted ~> (~wakeWanted \/ Usable \/ ~port \/ cancelled)

\* Session.Close returns: the supervisor ends, with the radio shown as gone.
CloseEnds == cancelled ~> [](at = "stopped" /\ ~shown.connected)
=============================================================================
