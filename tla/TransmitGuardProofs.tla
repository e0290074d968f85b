------------------------- MODULE TransmitGuardProofs -------------------------
(***************************************************************************)
(* Proofs about TransmitGuard, for any number of goroutines, commands and  *)
(* faults.  GuardInv is the inductive invariant, KeyedIsCovered its        *)
(* consequence.                                                            *)
(***************************************************************************)
EXTENDS TransmitGuard, TLAPS

Askers == Forcers \cup Keyers \cup {Poller, Nobody}

\* The queue of reports, and what appending to it and taking from it do to the
\* reports that show the transmitter down.
LEMMA AppendKeepsNotice ==
    ASSUME NEW q \in Seq(BOOLEAN \X Askers), NEW flag \in BOOLEAN, NEW a \in Askers
    PROVE  /\ Append(q, <<flag, a>>) \in Seq(BOOLEAN \X Askers)
           /\ (\E i \in 1..Len(q) : ~q[i][1]) =>
                \E i \in 1..Len(Append(q, <<flag, a>>)) : ~Append(q, <<flag, a>>)[i][1]
           /\ ~flag =>
                \E i \in 1..Len(Append(q, <<flag, a>>)) : ~Append(q, <<flag, a>>)[i][1]
<1> DEFINE p == Append(q, <<flag, a>>)
<1>1. /\ p \in Seq(BOOLEAN \X Askers) /\ Len(p) = Len(q) + 1 /\ Len(q) \in Nat
      /\ p[Len(p)] = <<flag, a>>
      /\ \A i \in 1..Len(q) : p[i] = q[i]
    OBVIOUS
<1>2. Len(p) \in 1..Len(p) /\ 1..Len(q) \subseteq 1..Len(p) /\ p[Len(p)][1] = flag
    BY <1>1
<1> HIDE DEF p
<1>3. (\E i \in 1..Len(q) : ~q[i][1]) => \E i \in 1..Len(p) : ~p[i][1]
    BY <1>1, <1>2
<1>4. ~flag => \E i \in 1..Len(p) : ~p[i][1]
    BY <1>2
<1> QED BY <1>1, <1>3, <1>4 DEF p

\* What taking the oldest report leaves.
LEMMA TailKeepsNotice ==
    ASSUME NEW q \in Seq(BOOLEAN \X Askers), q # <<>>
    PROVE  /\ Tail(q) \in Seq(BOOLEAN \X Askers)
           /\ Head(q)[1] \in BOOLEAN
           /\ (Head(q)[1] /\ \E i \in 1..Len(q) : ~q[i][1]) =>
                \E i \in 1..Len(Tail(q)) : ~Tail(q)[i][1]
<1>1. /\ Tail(q) \in Seq(BOOLEAN \X Askers) /\ Head(q) = q[1] /\ q[1] \in BOOLEAN \X Askers
      /\ Len(q) \in Nat /\ Len(Tail(q)) = Len(q) - 1
      /\ \A i \in 1..Len(Tail(q)) : Tail(q)[i] = q[i + 1]
    OBVIOUS
<1>2. Head(q)[1] \in BOOLEAN
    BY <1>1
<1>3. ASSUME Head(q)[1], NEW i \in 1..Len(q), ~q[i][1]
      PROVE  \E j \in 1..Len(Tail(q)) : ~Tail(q)[j][1]
  <2>1. i # 1
    BY <1>1, <1>3
  <2>2. i - 1 \in 1..Len(Tail(q)) /\ (i - 1) + 1 = i
    BY <1>1, <2>1
  <2>3. Tail(q)[i - 1] = q[i]
    BY <1>1, <2>2
  <2> QED BY <1>3, <2>2, <2>3
<1> QED BY <1>1, <1>2, <1>3

\* A session in receive, just connected.
LEMMA InitGuardInv == Init => GuardInv
<1> SUFFICES ASSUME Init PROVE GuardInv
    OBVIOUS
<1>1. reports \in Seq(BOOLEAN \X Askers)
    BY DEF Init
<1>2. TypeOK
  <2>1. keys \in 0..MaxKeys /\ faults \in 0..MaxFaults
    BY GuardAssumption DEF Init
  <2> QED BY <1>1, <2>1 DEF Init, TypeOK, Askers
<1>3. WillBeNoticed
    BY DEF Init, WillBeNoticed
<1>4. BusIsPolling
    BY GuardAssumption DEF Init, BusIsPolling, Nobody
<1> QED BY <1>2, <1>3, <1>4 DEF Init, GuardInv, ReaderMatchesCache, DownShowsReceive,
                          UncoveredIsUnkeyed, Covered

\* Keying, whoever does it: either something covers the transmission, or the
\* exposure is on record.
LEMMA KeyPreserves ==
    ASSUME GuardInv, Key, UNCHANGED <<reports, timerVars, bus, link, faults>>,
           \A f \in Forcers : force'[f] = force[f],
           force' \in [Forcers -> {"idle", "called", "unkey", "readback", "polling"}],
           request' \in [Keyers -> {"idle", "on", "off", "tune", "arm", "readback", "polling"}]
    PROVE  GuardInv'
<1> USE DEF GuardInv, timerVars
<1>1. TypeOK'
    BY GuardAssumption DEF TypeOK, Key, InForceWindow
<1>2. ReaderMatchesCache' /\ DownShowsReceive' /\ BusIsPolling'
    BY DEF ReaderMatchesCache, DownShowsReceive, HasConn, BusIsPolling
<1>3. Covered => Covered'
    BY DEF Covered, ForceUnderWay, WillBeNoticed
<1>4. ~Covered /\ ~exposed => exposed'
  <2> SUFFICES ASSUME ~Covered, ~exposed PROVE exposed'
    OBVIOUS
  <2>1. ~rigTX /\ \E f \in Forcers : force[f] = "readback"
    BY DEF UncoveredIsUnkeyed
  <2>2. ptt /\ ~armed
    BY DEF Covered, WillBeNoticed
  <2> QED BY <2>1, <2>2 DEF Key, InForceWindow
<1>5. exposed => exposed'
    BY DEF Key
<1> QED BY <1>1, <1>2, <1>3, <1>4, <1>5 DEF UncoveredIsUnkeyed

\* A poll's request goes out, whoever asks: what was to be noticed still is.
LEMMA PollWritePreserves ==
    ASSUME GuardInv, NEW a \in Keyers \cup {Poller}, PollWrites(a),
           UNCHANGED <<rigVars, timerVars, force, link, faults, exposed>>,
           request' \in [Keyers -> {"idle", "on", "off", "tune", "arm", "readback", "polling"}]
    PROVE  GuardInv'
<1> USE DEF GuardInv, rigVars, timerVars
<1>1. reports' \in Seq(BOOLEAN \X Askers) /\ (WillBeNoticed => WillBeNoticed')
    BY AppendKeepsNotice DEF PollWrites, TypeOK, Askers, WillBeNoticed
<1>2. TypeOK'
    BY <1>1 DEF PollWrites, TypeOK, Askers
<1>3. BusIsPolling'
    BY GuardAssumption DEF PollWrites, BusIsPolling, Poller
<1>4. Covered => Covered'
    BY <1>1 DEF Covered, ForceUnderWay
<1> QED BY <1>1, <1>2, <1>3, <1>4 DEF ReaderMatchesCache, HasConn, DownShowsReceive,
                                      UncoveredIsUnkeyed

\* Every step keeps GuardInv.
LEMMA NextGuardInv == GuardInv /\ [Next]_vars => GuardInv'
<1> SUFFICES ASSUME GuardInv, [Next]_vars PROVE GuardInv'
    OBVIOUS
<1> USE DEF GuardInv
<1>1. CASE PanelKeys
    BY <1>1, KeyPreserves DEF PanelKeys, timerVars, TypeOK
<1>2. CASE PanelUnkeys
    BY <1>2 DEF PanelUnkeys, timerVars, TypeOK, ReaderMatchesCache, HasConn,
                DownShowsReceive, BusIsPolling, UncoveredIsUnkeyed, Covered, ForceUnderWay, WillBeNoticed
<1>3. CASE RigPushes
  <2> USE <1>3 DEF RigPushes, timerVars, rigVars
  <2>1. reports' \in Seq(BOOLEAN \X Askers) /\ (WillBeNoticed => WillBeNoticed')
    BY AppendKeepsNotice DEF TypeOK, Askers, WillBeNoticed
  <2>2. TypeOK'
    BY <2>1 DEF TypeOK, Askers
  <2> QED BY <2>1, <2>2 DEF ReaderMatchesCache, HasConn, DownShowsReceive,
                            BusIsPolling, UncoveredIsUnkeyed, Covered, ForceUnderWay
<1>4. CASE ReaderApplies
  <2> USE <1>4 DEF ReaderApplies, deadman, rigVars
  <2>1. reports \in Seq(BOOLEAN \X Askers)
    BY DEF TypeOK, Askers
  <2>2. /\ reports' \in Seq(BOOLEAN \X Askers) /\ Head(reports)[1] \in BOOLEAN
        /\ (Head(reports)[1] /\ \E i \in 1..Len(reports) : ~reports[i][1]) =>
              \E i \in 1..Len(reports') : ~reports'[i][1]
    BY <2>1, TailKeepsNotice
  <2>3. ptt' = Head(reports)[1] /\ exposed' = (exposed /\ Head(reports)[1])
    OBVIOUS
  <2>4. TypeOK'
    BY <2>2, <2>3 DEF TypeOK, Askers
  <2>5. ReaderMatchesCache'
    BY <2>2, <2>3 DEF ReaderMatchesCache, HasConn
  <2>6. DownShowsReceive' /\ BusIsPolling'
    BY DEF DownShowsReceive, HasConn, BusIsPolling
  <2>7. CASE ~Head(reports)[1]
    BY <2>3, <2>4, <2>5, <2>6, <2>7 DEF UncoveredIsUnkeyed, Covered, WillBeNoticed
  <2>8. CASE Head(reports)[1] /\ ~ptt
    BY <2>3, <2>4, <2>5, <2>6, <2>8 DEF UncoveredIsUnkeyed, Covered
  <2>9. CASE Head(reports)[1] /\ ptt
    <3>1. WillBeNoticed => WillBeNoticed'
      BY <2>2, <2>3, <2>9 DEF WillBeNoticed
    <3>2. Covered => Covered'
      BY <3>1, <2>3, <2>9 DEF Covered, ForceUnderWay
    <3> QED BY <2>3, <2>4, <2>5, <2>6, <2>9, <3>2 DEF UncoveredIsUnkeyed
  <2> QED BY <2>2, <2>7, <2>8, <2>9 DEF TypeOK
<1>5. CASE ReaderSetsTimer
    BY <1>5 DEF ReaderSetsTimer, rigVars, TypeOK, ReaderMatchesCache, HasConn,
                DownShowsReceive, BusIsPolling, UncoveredIsUnkeyed, Covered, ForceUnderWay, WillBeNoticed
<1>6. ASSUME NEW q \in Forcers \cup Keyers \cup {Poller}, Polls(q)
      PROVE  GuardInv'
  <2>1. bus = q /\ bus' = Nobody /\ PollCallerContinues(q)
    BY <1>6 DEF Polls, PollReturns, PollTimesOut
  <2>2. /\ UNCHANGED <<rigVars, reports, timerVars, exposed>>
        /\ link' \in {link, IF link = "init" THEN "up" ELSE link}
        /\ faults' = faults \/ Fault
    BY <1>6 DEF Polls, PollReturns, PollTimesOut
  <2>3. \A f \in Forcers : force'[f] = force[f] \/ (force[f] = "polling" /\ force'[f] = "idle")
    BY <2>1 DEF PollCallerContinues, BusIsPolling
  <2>4. TypeOK'
    <3>1. /\ force' \in [Forcers -> {"idle", "called", "unkey", "readback", "polling"}]
          /\ request' \in [Keyers -> {"idle", "on", "off", "tune", "arm", "readback", "polling"}]
      BY <2>1 DEF PollCallerContinues, TypeOK
    <3>2. faults' \in 0..MaxFaults
      BY <2>2, GuardAssumption DEF Fault, TypeOK
    <3> QED BY <2>1, <2>2, <3>1, <3>2 DEF TypeOK, rigVars, timerVars
  <2>5. ReaderMatchesCache' /\ DownShowsReceive'
    BY <2>2 DEF ReaderMatchesCache, DownShowsReceive, HasConn, timerVars
  <2>6. BusIsPolling'
    BY <2>1, GuardAssumption DEF BusIsPolling, Nobody
  <2>7. Covered => Covered'
    BY <2>2, <2>3 DEF Covered, ForceUnderWay, WillBeNoticed, timerVars
  <2> QED BY <2>2, <2>3, <2>4, <2>5, <2>6, <2>7 DEF UncoveredIsUnkeyed, rigVars
<1>7. ASSUME NEW f \in Forcers, DeadmanFires(f) \/ ForceCalled(f)
      PROVE  GuardInv'
  <2>1. /\ force[f] = "idle" /\ force' = [force EXCEPT ![f] = "called"]
        /\ UNCHANGED <<rigVars, reports, ptt, reader, request, bus, link, faults, exposed>>
        /\ armed' \in {armed, FALSE} /\ tuned' \in {tuned, FALSE}
    BY <1>7 DEF DeadmanFires, ForceCalled, SetForce, timerVars, rigVars
  <2>4. TypeOK'
    <3>1. force' \in [Forcers -> {"idle", "called", "unkey", "readback", "polling"}]
      BY <2>1 DEF TypeOK
    <3>2. armed' \in BOOLEAN /\ tuned' \in BOOLEAN
      BY <2>1 DEF TypeOK
    <3> QED BY <2>1, <3>1, <3>2 DEF TypeOK, rigVars
  <2>5. ReaderMatchesCache' /\ DownShowsReceive'
    BY <2>1 DEF ReaderMatchesCache, HasConn, DownShowsReceive
  <2>6. BusIsPolling'
    BY <2>1 DEF TypeOK, BusIsPolling
  <2>2. TypeOK' /\ ReaderMatchesCache' /\ DownShowsReceive' /\ BusIsPolling'
    BY <2>4, <2>5, <2>6
  <2>3. ForceUnderWay'
    BY <2>1 DEF TypeOK, ForceUnderWay
  <2> QED BY <2>2, <2>3 DEF UncoveredIsUnkeyed, Covered
<1>8. ASSUME NEW f \in Forcers, ForceRX(f)
      PROVE  GuardInv'
  <2> USE DEF SetForce, rigVars, timerVars
  <2>1. CASE ForceDisarms(f)
    <3>1. TypeOK' /\ ReaderMatchesCache' /\ DownShowsReceive' /\ BusIsPolling'
      BY <2>1 DEF ForceDisarms, TypeOK, ReaderMatchesCache, HasConn, DownShowsReceive, BusIsPolling
    <3>2. ForceUnderWay' \/ link' \in {"lost", "down"}
      BY <2>1 DEF ForceDisarms, TypeOK, ForceUnderWay, HasConn
    <3> QED BY <3>1, <3>2 DEF UncoveredIsUnkeyed, Covered
  <2>2. CASE ForceUnkeys(f)
    <3>1. TypeOK' /\ ReaderMatchesCache' /\ DownShowsReceive' /\ BusIsPolling'
      BY <2>2 DEF ForceUnkeys, TypeOK, ReaderMatchesCache, HasConn, DownShowsReceive, BusIsPolling
    <3>2. ~rigTX' /\ force'[f] = "readback"
      BY <2>2 DEF ForceUnkeys, TypeOK
    <3> QED BY <3>1, <3>2 DEF UncoveredIsUnkeyed
  <2>3. CASE ForceFails(f)
    <3>1. ReaderMatchesCache' /\ DownShowsReceive' /\ BusIsPolling'
      BY <2>3 DEF ForceFails, TypeOK, ReaderMatchesCache, HasConn, DownShowsReceive, BusIsPolling
    <3>2. TypeOK'
      BY <2>3, GuardAssumption DEF ForceFails, Fault, TypeOK
    <3>3. CASE HasConn
      BY <2>3, <3>1, <3>2, <3>3 DEF ForceFails, UncoveredIsUnkeyed, Covered, WillBeNoticed
    <3>4. CASE ~HasConn
      BY <2>3, <3>1, <3>2, <3>4 DEF ForceFails, UncoveredIsUnkeyed, Covered, HasConn, TypeOK
    <3> QED BY <3>3, <3>4
  <2>4. CASE ForcePolls(f)
    <3>1. CASE HasConn
      <4>1. /\ PollWrites(f) /\ force' = [force EXCEPT ![f] = "polling"] /\ force[f] = "readback"
            /\ UNCHANGED <<rigVars, timerVars, request, link, faults, exposed>>
        BY <2>4, <3>1 DEF ForcePolls
      <4>2. /\ reports' \in Seq(BOOLEAN \X Askers)
            /\ WillBeNoticed => WillBeNoticed'
            /\ ~rigTX => WillBeNoticed'
        BY <4>1, AppendKeepsNotice DEF PollWrites, TypeOK, Askers, WillBeNoticed
      <4>3. TypeOK' /\ ReaderMatchesCache' /\ DownShowsReceive' /\ BusIsPolling'
        BY <4>1, <4>2 DEF PollWrites, TypeOK, Askers, ReaderMatchesCache, HasConn,
                          DownShowsReceive, BusIsPolling
      <4>4. Covered => Covered'
        BY <4>1, <4>2 DEF Covered, ForceUnderWay, TypeOK
      <4> QED BY <4>1, <4>2, <4>3, <4>4 DEF UncoveredIsUnkeyed, Covered
    <3>2. CASE ~HasConn
      BY <2>4, <3>2 DEF ForcePolls, TypeOK, ReaderMatchesCache, HasConn, DownShowsReceive,
                        BusIsPolling, UncoveredIsUnkeyed, Covered
    <3> QED BY <3>1, <3>2
  <2> QED BY <1>8, <2>1, <2>2, <2>3, <2>4 DEF ForceRX
<1>9. ASSUME NEW k \in Keyers, RequestStarts(k) \/ Request(k)
      PROVE  GuardInv'
  <2> USE DEF SetRequest, rigVars, timerVars
  <2>1. CASE RequestStarts(k) \/ RequestFails(k)
    <3>1. /\ UNCHANGED <<rigVars, reports, timerVars, force, bus, link, exposed>>
          /\ request' \in [Keyers -> {"idle", "on", "off", "tune", "arm", "readback", "polling"}]
          /\ faults' = faults \/ Fault
      BY <2>1, GuardAssumption DEF RequestStarts, RequestFails, TypeOK
    <3>2. TypeOK'
      BY <3>1, GuardAssumption DEF Fault, TypeOK
    <3> QED BY <3>1, <3>2 DEF ReaderMatchesCache, HasConn, DownShowsReceive, BusIsPolling,
                              UncoveredIsUnkeyed, Covered, ForceUnderWay, WillBeNoticed
  <2>2. CASE RequestKeys(k)
    <3>1. request' \in [Keyers -> {"idle", "on", "off", "tune", "arm", "readback", "polling"}]
      BY <2>2 DEF RequestKeys, TypeOK
    <3>2. force' \in [Forcers -> {"idle", "called", "unkey", "readback", "polling"}]
      BY <2>2 DEF RequestKeys, TypeOK
    <3> QED BY <2>2, <3>1, <3>2, KeyPreserves DEF RequestKeys
  <2>3. CASE RequestArms(k)
    BY <2>3 DEF RequestArms, TypeOK, ReaderMatchesCache, HasConn, DownShowsReceive,
                BusIsPolling, UncoveredIsUnkeyed, Covered
  <2>4. CASE RequestUnkeys(k)
    BY <2>4 DEF RequestUnkeys, TypeOK, ReaderMatchesCache, HasConn, DownShowsReceive,
                BusIsPolling, UncoveredIsUnkeyed, Covered, ForceUnderWay, WillBeNoticed
  <2>5. CASE RequestPolls(k)
    <3>1. CASE HasConn
      <4>1. /\ PollWrites(k) /\ request' = [request EXCEPT ![k] = "polling"]
            /\ UNCHANGED <<rigVars, timerVars, force, link, faults, exposed>>
        BY <2>5, <3>1 DEF RequestPolls
      <4>2. request' \in [Keyers -> {"idle", "on", "off", "tune", "arm", "readback", "polling"}]
        BY <4>1 DEF TypeOK
      <4> QED BY <4>1, <4>2, PollWritePreserves
    <3>2. CASE ~HasConn
      BY <2>5, <3>2 DEF RequestPolls, TypeOK, ReaderMatchesCache, HasConn, DownShowsReceive,
                        BusIsPolling, UncoveredIsUnkeyed, Covered
    <3> QED BY <3>1, <3>2
  <2> QED BY <1>9, <2>1, <2>2, <2>3, <2>4, <2>5 DEF Request
<1>10. CASE PollerPolls
  BY <1>10, PollWritePreserves, GuardAssumption DEF PollerPolls, Poller, TypeOK
<1>11. CASE LinkLost
  <2> USE DEF rigVars, timerVars
  <2>1. TypeOK'
    <3>1. /\ force' \in [Forcers -> {"idle", "called", "unkey", "readback", "polling"}]
          /\ request' \in [Keyers -> {"idle", "on", "off", "tune", "arm", "readback", "polling"}]
      BY <1>11 DEF LinkLost, PollCallerContinues, TypeOK
    <3>2. reports' \in Seq(BOOLEAN \X Askers) /\ faults' \in 0..MaxFaults
      BY <1>11, GuardAssumption DEF LinkLost, Fault, TypeOK
    <3> QED BY <1>11, <3>1, <3>2 DEF LinkLost, TypeOK, Askers
  <2>2. ReaderMatchesCache' /\ DownShowsReceive' /\ BusIsPolling'
    BY <1>11, GuardAssumption DEF LinkLost, ReaderMatchesCache, DownShowsReceive, BusIsPolling,
                                  Nobody
  <2> QED BY <1>11, <2>1, <2>2 DEF LinkLost, UncoveredIsUnkeyed, Covered
<1>12. CASE OnDisconnected
  BY <1>12 DEF OnDisconnected, rigVars, TypeOK, ReaderMatchesCache, HasConn, DownShowsReceive,
               BusIsPolling, UncoveredIsUnkeyed, Covered
<1>13. CASE Reconnects
  BY <1>13 DEF Reconnects, rigVars, timerVars, TypeOK, ReaderMatchesCache, HasConn,
               DownShowsReceive, BusIsPolling, UncoveredIsUnkeyed, Covered, WillBeNoticed
<1>14. CASE UNCHANGED vars
  BY <1>14 DEF vars, TypeOK, ReaderMatchesCache, HasConn, DownShowsReceive, BusIsPolling,
               UncoveredIsUnkeyed, Covered, ForceUnderWay, WillBeNoticed
<1> QED BY <1>1, <1>2, <1>3, <1>4, <1>5, <1>6, <1>7, <1>8, <1>9, <1>10, <1>11, <1>12, <1>13, <1>14
        DEF Next, Radio, Session

\* GuardInv holds in every reachable state: what the reader owes the timer
\* matches the cache, and a radio nothing covers is in receive.
THEOREM GuardInvariant == Spec => []GuardInv
<1> QED BY InitGuardInv, NextGuardInv, PTL DEF Spec

\* A transmission always has something that will end it, in whatever order the
\* reader, the dead-man timer, ForceRX, the API requests and the loss of the
\* link take their steps, unless ForceRX failed or was overtaken by a key-down.
THEOREM TransmissionIsCovered == Spec => []KeyedIsCovered
<1>1. GuardInv => KeyedIsCovered
    BY DEF GuardInv, UncoveredIsUnkeyed, KeyedIsCovered
<1> QED BY <1>1, GuardInvariant, PTL

TimerInv == GuardInv /\ TimerHasTransmission

\* Every step keeps TimerInv.
LEMMA NextTimerInv ==
    ASSUME TimerInv, [Next]_vars
    PROVE  TimerHasTransmission'
<1> USE DEF TimerInv, TimerHasTransmission
<1>1. CASE Radio
    BY <1>1 DEF Radio, PanelKeys, PanelUnkeys, RigPushes, timerVars
<1>2. CASE ReaderApplies
  <2>1. Head(reports)[1] \in BOOLEAN
    BY <1>2, TailKeepsNotice DEF ReaderApplies, deadman, GuardInv, TypeOK, Askers
  <2> QED BY <1>2, <2>1 DEF ReaderApplies, deadman, GuardInv, TypeOK
<1>3. CASE ReaderSetsTimer
    BY <1>3 DEF ReaderSetsTimer, GuardInv, ReaderMatchesCache
<1>4. CASE PollerPolls \/ LinkLost \/ OnDisconnected \/ Reconnects
  <2>1. armed' = FALSE \/ UNCHANGED timerVars
    BY <1>4 DEF PollerPolls, LinkLost, OnDisconnected, Reconnects
  <2> QED BY <2>1 DEF timerVars
<1>5. ASSUME NEW q \in Forcers \cup Keyers \cup {Poller}, Polls(q)
      PROVE  TimerHasTransmission'
    BY <1>5 DEF Polls, PollReturns, PollTimesOut, timerVars
<1>6. ASSUME NEW f \in Forcers, DeadmanFires(f) \/ ForceCalled(f) \/ ForceRX(f)
      PROVE  TimerHasTransmission'
    BY <1>6 DEF DeadmanFires, ForceCalled, ForceRX, ForceDisarms, ForceUnkeys, ForceFails,
                ForcePolls, timerVars
<1>7. ASSUME NEW k \in Keyers, RequestStarts(k) \/ Request(k)
      PROVE  TimerHasTransmission'
    BY <1>7 DEF RequestStarts, Request, RequestKeys, RequestArms, RequestUnkeys, RequestFails,
                RequestPolls, timerVars
<1>8. CASE UNCHANGED vars
    BY <1>8 DEF vars
<1> QED BY <1>1, <1>2, <1>3, <1>4, <1>5, <1>6, <1>7, <1>8 DEF Next, Session

\* An armed dead-man always belongs to a transmission the cache shows, to one
\* whose end the reader is about to act on, or to a tuning cycle: no timer
\* survives to abort a transmission it was not armed for.
THEOREM TimerBelongsToTransmission == Spec => []TimerHasTransmission
<1>1. Init => TimerInv
    BY InitGuardInv DEF Init, TimerInv, TimerHasTransmission
<1>2. TimerInv /\ [Next]_vars => TimerInv'
    BY NextGuardInv, NextTimerInv DEF TimerInv
<1>3. TimerInv => TimerHasTransmission
    BY DEF TimerInv
<1> QED BY <1>1, <1>2, <1>3, PTL DEF Spec
=============================================================================
