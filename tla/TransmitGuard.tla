---------------------------- MODULE TransmitGuard ----------------------------
(***************************************************************************)
(* The transmit interlock of one radio (internal/rig/session.go): the PTT  *)
(* flag of the state cache, the dead-man timer armed and disarmed when the *)
(* flag changes, ForceRX, the commands that key and unkey the transmitter, *)
(* and the loss and return of the connection.                              *)
(*                                                                         *)
(* A command to the radio is a transaction that holds conn.cmdMu, so       *)
(* commands are ordered; what the radio says about itself comes back as    *)
(* reports, which the one reader goroutine applies to the cache in order   *)
(* of arrival.  Everything else interleaves: ForceRX runs on the goroutine *)
(* of whoever calls it, the reader arms or disarms the timer after it has  *)
(* let go of stateMu, and the timer fires on a goroutine of its own.       *)
(*                                                                         *)
(* The timer's duration is not modelled: an armed timer may fire at any    *)
(* time, so whatever holds here holds for every limits.tx_timeout > 0.     *)
(***************************************************************************)
EXTENDS Naturals, Sequences, FiniteSets

CONSTANTS
    Forcers,    \* goroutines that run ForceRX: timer callbacks, lock expiry, API
    Keyers,     \* API requests that key, unkey or tune
    Calls,      \* what they may ask for, "on", "off" or "tune", and "panel" if
                \* the operator may key at the radio itself
    MaxKeys,    \* bound: how often the transmitter is keyed
    MaxFaults,  \* bound: commands refused, lost or timed out, and links lost
    MaxReports  \* bound: reports between the radio and the reader

ASSUME GuardAssumption ==
    /\ Calls \subseteq {"on", "off", "tune", "panel"}
    /\ MaxKeys \in Nat /\ MaxFaults \in Nat /\ MaxReports \in Nat \ {0}
    /\ "poller" \notin Forcers \cup Keyers
    /\ "nobody" \notin Forcers \cup Keyers
    /\ Forcers \cap Keyers = {}

VARIABLES
    rigTX,      \* the radio is transmitting
    reports,    \* <<flag, asker>>: transmit flags between radio and reader
    ptt,        \* State.PTT in the cache
    reader,     \* what the reader still owes the timer: "idle", "arm", "disarm"
    armed,      \* s.deadman holds a timer that has not fired
    tuned,      \* history: that timer was armed by StartTune
    force,      \* force[f]: where f stands in ForceRX
    request,    \* request[k]: where k stands in SetPTT or StartTune
    bus,        \* who holds cmdMu with a poll under way, or "nobody"
    link,       \* "down", "init", "up", or "lost" until onDisconnected has run
    keys,       \* how often the transmitter has been keyed
    faults,     \* how many faults have happened
    exposed     \* history: see KeyedIsCovered

vars == <<rigTX, reports, ptt, reader, armed, tuned, force, request, bus, link,
          keys, faults, exposed>>

rigVars == <<rigTX, keys>>
deadman == <<armed, tuned>>
timerVars == <<ptt, reader, armed, tuned>>

Poller == "poller"
Nobody == "nobody"

\* s.conn is set, from the dial to the teardown.
HasConn == link \in {"init", "up"}

\* requireConnected: Init and the first poll have succeeded as well.
Connected == link = "up"

\* cmdMu is free and there is a connection to take it on.
CanCommand == bus = Nobody /\ HasConn

Fault == faults < MaxFaults /\ faults' = faults + 1

-----------------------------------------------------------------------------
(* The radio                                                                *)

\* Someone keys between the unkey of a ForceRX and its read-back: the cache
\* will not see the transmitter go down and up again.
InForceWindow == ptt /\ ~armed /\ \E f \in Forcers : force[f] # "idle"

Key ==
    /\ keys < MaxKeys
    /\ keys' = keys + 1
    /\ rigTX' = TRUE
    /\ exposed' = (exposed \/ (~rigTX /\ InForceWindow))

\* Front panel, footswitch, or a tuning cycle starting late.
PanelKeys ==
    /\ "panel" \in Calls
    /\ ~rigTX /\ Key
    /\ UNCHANGED <<reports, timerVars, force, request, bus, link, faults>>

\* Front panel, or a tuning cycle that is over.
PanelUnkeys ==
    /\ rigTX
    /\ rigTX' = FALSE
    /\ UNCHANGED <<reports, timerVars, force, request, bus, link, keys, faults, exposed>>

\* A radio with Transceive or AI on may report its transmit flag unasked.
RigPushes ==
    /\ HasConn /\ Len(reports) < MaxReports - 1
    /\ reports' = Append(reports, <<rigTX, Nobody>>)
    /\ UNCHANGED <<rigVars, timerVars, force, request, bus, link, faults, exposed>>

-----------------------------------------------------------------------------
(* The reader: apply, then arm or disarm                                    *)

\* Session.apply under stateMu.  Only a change of the flag reaches the timer.
ReaderApplies ==
    LET flag == Head(reports)[1] IN
    /\ reader = "idle" /\ HasConn /\ reports # <<>>
    /\ reports' = Tail(reports)
    /\ ptt' = flag
    /\ reader' = IF flag = ptt THEN "idle" ELSE IF flag THEN "arm" ELSE "disarm"
    /\ exposed' = (exposed /\ flag)
    /\ UNCHANGED <<rigVars, deadman, force, request, bus, link, faults>>

\* A reader that never disarms.
MutantReaderSetsTimerOnlyArms ==
    /\ reader # "idle"
    /\ armed' = (armed \/ reader = "arm")
    /\ UNCHANGED tuned
    /\ reader' = "idle"
    /\ UNCHANGED <<rigVars, reports, ptt, force, request, bus, link, faults, exposed>>

\* Session.apply after stateMu: armDeadman or disarmDeadman.
ReaderSetsTimer ==
    /\ reader # "idle"
    /\ armed' = (reader = "arm") /\ tuned' = FALSE
    /\ reader' = "idle"
    /\ UNCHANGED <<rigVars, reports, ptt, force, request, bus, link, faults, exposed>>

-----------------------------------------------------------------------------
(* A poll is one transaction: the request goes out, the radio answers with  *)
(* its flag, the reader applies the answer and then wakes the poll.         *)

PollWrites(p) ==
    /\ CanCommand /\ Len(reports) < MaxReports
    /\ bus' = p
    /\ reports' = Append(reports, <<rigTX, p>>)

\* The answer p waits for has been applied to the cache and the timer.
Answered(p) ==
    /\ reader = "idle"
    /\ \A i \in 1..Len(reports) : reports[i][2] # p

\* What a poll's caller does when the poll has returned, with or without error.
PollCallerContinues(p) ==
    /\ force' = [f \in Forcers |-> IF f = p THEN "idle" ELSE force[f]]
    /\ request' = [k \in Keyers |-> IF k = p THEN "idle" ELSE request[k]]

PollReturns(p) ==
    /\ bus = p
    /\ Answered(p)
    /\ bus' = Nobody
    /\ link' = IF p = Poller /\ link = "init" THEN "up" ELSE link
    /\ PollCallerContinues(p)
    /\ UNCHANGED <<rigVars, reports, timerVars, faults, exposed>>

\* No answer within cmdTimeout; it may still arrive.
PollTimesOut(p) ==
    /\ bus = p
    /\ Fault
    /\ bus' = Nobody
    /\ PollCallerContinues(p)
    /\ UNCHANGED <<rigVars, reports, timerVars, link, exposed>>

\* The background poller, and the poll that ends the connection's setup.
PollerPolls ==
    /\ PollWrites(Poller)
    /\ UNCHANGED <<rigVars, timerVars, force, request, link, faults, exposed>>

-----------------------------------------------------------------------------
(* ForceRX                                                                  *)

SetForce(f, at) == force' = [force EXCEPT ![f] = at]

\* The dead-man timer fires, on a goroutine of its own.
DeadmanFires(f) ==
    /\ armed /\ force[f] = "idle"
    /\ armed' = FALSE /\ tuned' = FALSE
    /\ SetForce(f, "called")
    /\ UNCHANGED <<rigVars, reports, ptt, reader, request, bus, link, faults, exposed>>

\* Lock expiry or the release of a lock calls ForceRX.
ForceCalled(f) ==
    /\ force[f] = "idle"
    /\ SetForce(f, "called")
    /\ UNCHANGED <<rigVars, reports, timerVars, request, bus, link, keys, faults, exposed>>

\* A ForceRX that asks requireConnected, as the API commands do.
MutantForceGivesUp(f) ==
    /\ force[f] = "called"
    /\ armed' = FALSE /\ tuned' = FALSE
    /\ SetForce(f, IF Connected THEN "unkey" ELSE "idle")
    /\ UNCHANGED <<rigVars, reports, ptt, reader, request, bus, link, faults, exposed>>

\* disarmDeadman and the CW abort come first; with no connection that is all.
ForceDisarms(f) ==
    /\ force[f] = "called"
    /\ armed' = FALSE /\ tuned' = FALSE
    /\ SetForce(f, IF HasConn THEN "unkey" ELSE "idle")
    /\ UNCHANGED <<rigVars, reports, ptt, reader, request, bus, link, faults, exposed>>

\* SetPTT(false) succeeds: the radio is in receive when the transaction ends.
ForceUnkeys(f) ==
    /\ force[f] = "unkey" /\ CanCommand
    /\ rigTX' = FALSE
    /\ SetForce(f, "readback")
    /\ UNCHANGED <<reports, timerVars, request, bus, link, keys, faults, exposed>>

\* SetPTT(false) fails: refused, unanswered, or not sent because the wait for
\* cmdMu outlived the context.  ForceRX logs it and returns.
ForceFails(f) ==
    /\ force[f] = "unkey"
    /\ SetForce(f, "idle")
    /\ IF HasConn
       THEN Fault /\ exposed' = (exposed \/ ptt)
       ELSE UNCHANGED <<faults, exposed>>
    /\ UNCHANGED <<rigVars, reports, timerVars, request, bus, link>>

\* The read-back poll.
ForcePolls(f) ==
    /\ force[f] = "readback"
    /\ IF HasConn
       THEN PollWrites(f) /\ SetForce(f, "polling")
       ELSE SetForce(f, "idle") /\ UNCHANGED <<reports, bus>>
    /\ UNCHANGED <<rigVars, timerVars, request, link, faults, exposed>>

-----------------------------------------------------------------------------
(* SetPTT and StartTune, called by an API request that passed the lock      *)

SetRequest(k, at) == request' = [request EXCEPT ![k] = at]

\* requireConnected.  What follows may find the connection gone all the same.
RequestStarts(k) ==
    /\ request[k] = "idle" /\ Connected
    /\ \E call \in Calls \ {"panel"} : SetRequest(k, call)
    /\ UNCHANGED <<rigVars, reports, timerVars, force, bus, link, faults, exposed>>

\* The command that keys: SetPTT(true), or a tuning cycle.
RequestKeys(k) ==
    /\ request[k] \in {"on", "tune"} /\ CanCommand
    /\ Key
    /\ SetRequest(k, IF request[k] = "tune" THEN "arm" ELSE "readback")
    /\ UNCHANGED <<reports, timerVars, force, bus, link, faults>>

\* StartTune arms the timer itself.
RequestArms(k) ==
    /\ request[k] = "arm"
    /\ armed' = TRUE /\ tuned' = TRUE
    /\ SetRequest(k, "readback")
    /\ UNCHANGED <<rigVars, reports, ptt, reader, force, bus, link, faults, exposed>>

RequestUnkeys(k) ==
    /\ request[k] = "off" /\ CanCommand
    /\ rigTX' = FALSE
    /\ SetRequest(k, "readback")
    /\ UNCHANGED <<reports, timerVars, force, bus, link, keys, faults, exposed>>

\* The command is refused or not answered, or there is no connection.
RequestFails(k) ==
    /\ request[k] \in {"on", "off", "tune"}
    /\ IF HasConn THEN Fault ELSE UNCHANGED faults
    /\ SetRequest(k, "idle")
    /\ UNCHANGED <<rigVars, reports, timerVars, force, bus, link, exposed>>

RequestPolls(k) ==
    /\ request[k] = "readback"
    /\ IF HasConn
       THEN PollWrites(k) /\ SetRequest(k, "polling")
       ELSE SetRequest(k, "idle") /\ UNCHANGED <<reports, bus>>
    /\ UNCHANGED <<rigVars, timerVars, force, link, faults, exposed>>

-----------------------------------------------------------------------------
(* The connection                                                           *)

\* The reader exits: an unplugged cable, a failed write, or the poller giving
\* up.  The poll under way, if any, returns with the error.  The radio itself is
\* not told.
LinkLost ==
    /\ HasConn /\ reader = "idle"
    /\ Fault
    /\ link' = "lost"
    /\ reports' = <<>>
    /\ bus' = Nobody
    /\ PollCallerContinues(bus)
    /\ UNCHANGED <<rigVars, timerVars, exposed>>

\* A teardown that leaves the flag in the cache.
MutantOnDisconnectedKeepsPTT ==
    /\ link = "lost"
    /\ link' = "down"
    /\ armed' = FALSE /\ tuned' = FALSE
    /\ UNCHANGED <<rigVars, reports, ptt, reader, force, request, bus, faults, exposed>>

\* onDisconnected: disarm, abort CW, and publish PTT off.
OnDisconnected ==
    /\ link = "lost"
    /\ link' = "down"
    /\ armed' = FALSE /\ tuned' = FALSE
    /\ ptt' = FALSE
    /\ exposed' = FALSE
    /\ UNCHANGED <<rigVars, reports, reader, force, request, bus, faults>>

\* Dial and Init; the first poll follows before the radio is usable.
Reconnects ==
    /\ link = "down"
    /\ link' = "init"
    /\ UNCHANGED <<rigVars, reports, timerVars, force, request, bus, faults, exposed>>

-----------------------------------------------------------------------------

Init ==
    /\ rigTX \in BOOLEAN
    /\ reports = <<>> /\ ptt = FALSE /\ reader = "idle" /\ armed = FALSE /\ tuned = FALSE
    /\ force = [f \in Forcers |-> "idle"]
    /\ request = [k \in Keyers |-> "idle"]
    /\ bus = Nobody /\ link = "down"
    /\ keys = 0 /\ faults = 0 /\ exposed = FALSE

Polls(p) == PollReturns(p) \/ PollTimesOut(p)

ForceRX(f) ==
    ForceDisarms(f) \/ ForceUnkeys(f) \/ ForceFails(f) \/ ForcePolls(f)

Request(k) ==
    RequestKeys(k) \/ RequestArms(k) \/ RequestUnkeys(k) \/ RequestFails(k) \/ RequestPolls(k)

Radio == PanelKeys \/ PanelUnkeys \/ RigPushes

Session == ReaderApplies \/ ReaderSetsTimer \/ PollerPolls \/ LinkLost \/ OnDisconnected \/ Reconnects

Next ==
    \/ Radio
    \/ Session
    \/ \E p \in Forcers \cup Keyers \cup {Poller} : Polls(p)
    \/ \E f \in Forcers : DeadmanFires(f) \/ ForceCalled(f) \/ ForceRX(f)
    \/ \E k \in Keyers : RequestStarts(k) \/ Request(k)

Spec == Init /\ [][Next]_vars

\* The goroutines that exist keep running, the supervisor redials for ever, an
\* armed timer fires, and among the goroutines that wait for cmdMu one is served
\* (sync.Mutex serves a waiter it has starved, so each of them is).  Nobody has
\* to call anything.
Fairness ==
    /\ WF_vars(ReaderApplies \/ ReaderSetsTimer)
    /\ SF_vars(PollerPolls)
    /\ WF_vars(OnDisconnected \/ Reconnects)
    /\ WF_vars(\E p \in Forcers \cup Keyers \cup {Poller} : PollReturns(p))
    /\ WF_vars(\E f \in Forcers : DeadmanFires(f))
    /\ WF_vars(\E f \in Forcers : ForceDisarms(f))
    /\ SF_vars(\E f \in Forcers : ForceUnkeys(f) \/ ForceFails(f))
    /\ SF_vars(\E f \in Forcers : ForcePolls(f))
    /\ SF_vars(\E k \in Keyers : RequestArms(k) \/ RequestPolls(k))

FairSpec == Spec /\ Fairness

-----------------------------------------------------------------------------
(* Properties                                                               *)

\* Every variable has its type.
TypeOK ==
    /\ rigTX \in BOOLEAN /\ ptt \in BOOLEAN /\ exposed \in BOOLEAN
    /\ armed \in BOOLEAN /\ tuned \in BOOLEAN
    /\ reports \in Seq(BOOLEAN \X (Forcers \cup Keyers \cup {Poller, Nobody}))
    /\ reader \in {"idle", "arm", "disarm"}
    /\ force \in [Forcers -> {"idle", "called", "unkey", "readback", "polling"}]
    /\ request \in [Keyers -> {"idle", "on", "off", "tune", "arm", "readback", "polling"}]
    /\ bus \in Forcers \cup Keyers \cup {Poller, Nobody}
    /\ link \in {"down", "init", "up", "lost"}
    /\ keys \in 0..MaxKeys /\ faults \in 0..MaxFaults

\* The next report the radio makes will be seen as a change, and arm the timer.
WillBeNoticed == ~ptt \/ \E i \in 1..Len(reports) : ~reports[i][1]

\* ForceRX has been called and has not come to its unkey command yet.
ForceUnderWay == \E f \in Forcers : force[f] \in {"called", "unkey"}

\* Something will take the transmitter down.
Covered ==
    \/ armed \/ reader = "arm"
    \/ ForceUnderWay
    \/ WillBeNoticed
    \/ link \in {"lost", "down"}

\* A radio that transmits always has something that will take it down again: a
\* timer, a ForceRX on its way, a report that will arm the timer, or a dropped
\* link whose successor reads the flag afresh.  Two things can break this, and
\* only these two: the unkey command of a ForceRX fails, or somebody keys while
\* a ForceRX that has already disarmed the timer has not finished, in both cases
\* until the cache next sees the transmitter down.
KeyedIsCovered == rigTX /\ ~exposed => Covered

\* What makes KeyedIsCovered inductive: what the reader owes the timer matches
\* the cache, a closed session shows receive, and a radio that nothing covers is
\* in receive, with the ForceRX that put it there still to read it back.  A
\* ForceRX that polls is past everything it could cover.
ReaderMatchesCache ==
    /\ reader = "arm" => ptt
    /\ reader = "disarm" => ~ptt
    /\ reader # "idle" => HasConn

DownShowsReceive == link = "down" => ~ptt

UncoveredIsUnkeyed ==
    ~exposed => Covered \/ (~rigTX /\ \E f \in Forcers : force[f] = "readback")

BusIsPolling == \A f \in Forcers : bus = f => force[f] = "polling"

GuardInv ==
    TypeOK /\ ReaderMatchesCache /\ DownShowsReceive /\ BusIsPolling /\ UncoveredIsUnkeyed

\* The timer follows the cache, through every interleaving of the reader, the
\* timer's own goroutine, ForceRX and the loss of the link: no timer is left
\* armed to abort some later transmission.  The one StartTune arms by itself is
\* apart: it is armed whether or not the cycle still runs.
TimerHasTransmission == armed => ptt \/ reader = "disarm" \/ tuned

\* A transmission comes to an end whoever started it and whoever is still there,
\* short of the two exposures above.
CarrierComesDown == rigTX ~> (~rigTX \/ exposed)

\* DESIGN.md section 12: tx_timeout forces RX regardless of client state.
TXTimeoutForcesRX == rigTX ~> ~rigTX
=============================================================================
