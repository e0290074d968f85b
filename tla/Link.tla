-------------------------------- MODULE Link --------------------------------
(***************************************************************************)
(* Between a radio and those who listen to it, so that one run covers it:  *)
(* the transactions of one connection ("conn"), the supervisor and poller  *)
(* that make and break connections ("supervisor"), and the way an event    *)
(* takes from the sessions to the WebSocket clients ("delivery").  A       *)
(* behaviour is a behaviour of one part; the other two stand still.        *)
(***************************************************************************)
EXTENDS Conn, Supervisor

CONSTANTS Stations, Viewers, SubCap, AggCap, MaxEvents          \* "delivery"

VARIABLES
    part,       \* the part that runs
    published, sub, forwarding, agg, stopping, mgrClosed, loop, hubClosed,
    done, toStop, viewer, heard, silent                 \* Delivery's

Deliver == INSTANCE Delivery

deliveryVars ==
    <<published, sub, forwarding, agg, stopping, mgrClosed, loop, hubClosed,
      done, toStop, viewer, heard, silent>>
partVars == <<part, vars, supervisorVars, deliveryVars>>

\* Where the supervisor stands still it has no radio to supervise.
LinkInit ==
    /\ part \in {"conn", "supervisor", "delivery"}
    /\ Init /\ Deliver!Init
    /\ SupervisorInit
    /\ part # "supervisor" => ~port /\ power = "off"

OnConn(A) == part = "conn" /\ A /\ UNCHANGED <<part, supervisorVars, deliveryVars>>
OnSupervisor(A) == part = "supervisor" /\ A /\ UNCHANGED <<part, vars, deliveryVars>>
OnDelivery(A) == part = "delivery" /\ A /\ UNCHANGED <<part, vars, supervisorVars>>

LinkNext == OnConn(Next) \/ OnSupervisor(SupervisorNext) \/ OnDelivery(Deliver!Next)

\* Each part's own fairness.  A behaviour is of one part, so one condition on
\* what is the running part's says the same as a condition for each.
LinkFairness ==
    /\ WF_partVars(OnConn(Reads) \/ OnSupervisor(Supervise) \/ OnDelivery(Deliver!Stops))
    /\ WF_partVars(\/ OnConn(Closes)
                   \/ OnSupervisor(Polls("fast"))
                   \/ OnDelivery(Deliver!HubRuns))
    /\ WF_partVars(OnSupervisor(Polls("slow")) \/ OnDelivery(Deliver!HubStops))
    /\ WF_partVars(\/ OnSupervisor(PowerOnSends \/ PowerOnArms)
                   \/ OnDelivery(Deliver!Closings))
    /\ \A c \in Callers : SF_partVars(OnConn(Locks(c))) /\ WF_partVars(OnConn(Proceeds(c)))
    /\ \A r \in Stations : WF_partVars(OnDelivery(Deliver!Forwards(r)))
    /\ \A c \in Viewers : WF_partVars(OnDelivery(Deliver!Serves(c)))

LinkSpec == LinkInit /\ [][LinkNext]_partVars /\ LinkFairness
=============================================================================
