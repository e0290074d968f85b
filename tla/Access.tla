------------------------------- MODULE Access -------------------------------
(***************************************************************************)
(* The two gates of the HTTP side, so that one run covers them: who is let *)
(* in ("admission") and who may use a transmitter ("leases").  Admission   *)
(* hands the user's name to the handlers that Interlock models; beyond     *)
(* that they share nothing, and a behaviour is a behaviour of one.         *)
(***************************************************************************)
EXTENDS Interlock

CONSTANTS Strangers, Requests, MaxTickets, TicketTTL, CacheTTL, MaxClock, MaxIssued

VARIABLES
    gate,                                                   \* the part that runs
    clock, serving, cache, impostor, tickets, issued, admitted  \* Admission's

Admit == INSTANCE Admission

ASSUME AccessAssumption ==
    MaxTickets \in Nat \ {0} /\ TicketTTL \in Nat /\ CacheTTL \in Nat

admissionVars == <<clock, serving, cache, impostor, tickets, issued, admitted>>
accessVars == <<gate, allVars, admissionVars>>

AccessInit ==
    /\ gate \in {"admission", "leases"} /\ InterlockInit /\ Admit!Init
    /\ gate = "admission" => enabled

OnAdmission(A) == gate = "admission" /\ A /\ UNCHANGED <<gate, allVars>>
OnLeases(A) == gate = "leases" /\ A /\ UNCHANGED <<gate, admissionVars>>

AccessNext == OnAdmission(Admit!Next) \/ OnLeases(InterlockNext)

\* InterlockFairness, for the leases.
AccessFairness ==
    /\ WF_accessVars(OnLeases(Tick /\ UNCHANGED apiVars))
    /\ \A r \in Radios : WF_accessVars(OnLeases(TimerFires(r) /\ UNCHANGED apiVars))
    /\ \A r \in Radios, g \in 1..MaxGen :
          /\ WF_accessVars(OnLeases(Expire(r, g) /\ UNCHANGED apiVars))
          /\ WF_accessVars(OnLeases(OnExpire(r, g)))
    /\ \A u \in Users :
          /\ WF_accessVars(OnLeases(\E by \in Keying : Keys(u, by) \/ Unkeys(u, by)))
          /\ WF_accessVars(OnLeases(RenewLock(u)))
          /\ WF_accessVars(OnLeases(ReleaseLock(u)))
          /\ WF_accessVars(OnLeases(ReleaseForces(u)))

AccessSpec == AccessInit /\ [][AccessNext]_accessVars /\ AccessFairness
=============================================================================
