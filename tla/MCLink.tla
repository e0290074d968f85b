------------------------------- MODULE MCLink -------------------------------
(* A small instance of Link for TLC, and the properties of its delivery     *)
(* under names a configuration can give.                                    *)
EXTENDS Link

\* Every transaction returns (conn.Do): EveryCallReturns for one caller, since
\* nothing tells the callers apart.
CallReturns ==
    LET c == CHOOSE caller \in Callers : TRUE IN ~At(c, "idle") ~> At(c, "idle")

\* A loss on the way to the hub is announced, and no channel closed twice
\* (aggregate.send, subscribers.add).
LossIsAnnounced == Deliver!LossIsAnnounced

\* Shutting the hub or the manager down reaches everybody (Hub.Close, Hub.add,
\* Manager.Close).
ShutdownReaches ==
    (hubClosed \/ mgrClosed)
        ~> loop = "ended" /\ (hubClosed => \A c \in Viewers : viewer[c] \in {"away", "gone"})
=============================================================================
