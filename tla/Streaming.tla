------------------------------ MODULE Streaming ------------------------------
(***************************************************************************)
(* The WebSocket stream from either end, so that one run covers it: one    *)
(* radio feeding a client's two lanes ("lane"), several radios sharing     *)
(* them ("shared"), and the program that follows a stream ("monitor").     *)
(* The ends meet at the messages StateStream writes and Monitor reads;     *)
(* here they do not move together, a behaviour is a behaviour of one.      *)
(***************************************************************************)
EXTENDS StateStream

CONSTANTS
    SharedRadios, SharedFields, SharedMaxSeq,           \* "shared"
    Shown, Buffer, MaxChanges, MaxFaults                \* "monitor"

ASSUME StreamingAssumption ==
    Buffer \in Nat \ {0} /\ MaxChanges \in Nat /\ MaxFaults \in Nat

VARIABLES
    machine,    \* the part that runs
    server, count, owed, wire, link, monitor, display, unhealed, missed, faults
                                                        \* Monitor's

Shared == INSTANCE StateStream
          WITH Radios <- SharedRadios, Fields <- SharedFields, MaxSeq <- SharedMaxSeq
Follow == INSTANCE Monitor

monitorVars == <<server, count, owed, wire, link, monitor, display, unhealed, missed, faults>>
streamingVars == <<machine, vars, monitorVars>>

StreamingInit ==
    /\ machine \in {"lane", "shared", "monitor"}
    /\ IF machine = "shared" THEN Shared!Init ELSE Init
    /\ Follow!Init

OnLane(A) == machine = "lane" /\ A /\ UNCHANGED <<machine, monitorVars>>
OnShared(A) == machine = "shared" /\ A /\ UNCHANGED <<machine, monitorVars>>
OnMonitor(A) == machine = "monitor" /\ A /\ UNCHANGED <<machine, vars>>

StreamingNext == OnLane(Next) \/ OnShared(Shared!Next) \/ OnMonitor(Follow!Next)

\* Each part's own fairness, for the part that runs.
StreamingFairness ==
    /\ \A g \in Publishers : WF_streamingVars(OnLane(Publish(g)))
    /\ WF_streamingVars(OnLane(Enqueue)) /\ WF_streamingVars(OnLane(Drain))
    /\ WF_streamingVars(OnLane(WakeUp)) /\ WF_streamingVars(OnLane(TimerFires))
    /\ \A r \in Radios : /\ WF_streamingVars(OnLane(StateIntervalEnds(r)))
                         /\ WF_streamingVars(OnLane(ResyncIntervalEnds(r)))
    /\ WF_streamingVars(OnMonitor(Follow!Works))
    /\ WF_streamingVars(OnMonitor(Follow!Keepalive))
    /\ WF_streamingVars(OnMonitor(Follow!WriteResync))

StreamingSpec == StreamingInit /\ [][StreamingNext]_streamingVars /\ StreamingFairness
=============================================================================
