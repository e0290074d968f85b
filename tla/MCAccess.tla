------------------------------ MODULE MCAccess ------------------------------
(* A small instance of Access for TLC. *)
EXTENDS Access

\* Nobody is let in with a wrong name or password, and a ticket works once
\* (Authenticator.Verify, ticketStore.redeem).
AdmissionIsEarned == Admit!AdmissionIsEarned

\* A lease its client stops renewing ends without anybody asking about it
\* (Manager.expire).
AbandonedLeaseEnds ==
    \A r \in Radios, g \in 1..MaxGen :
        (gate = "leases" /\ Has(r) /\ locks[r].gen = g) ~> ~(Has(r) /\ locks[r].gen = g)
=============================================================================
