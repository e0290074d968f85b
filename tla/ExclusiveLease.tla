--------------------------- MODULE ExclusiveLease ---------------------------
(***************************************************************************)
(* What internal/lock promises the rest of the daemon, stated without      *)
(* timers, generations or a map: a radio has at most one holder, a token   *)
(* is good for one uninterrupted tenure and is never honoured again once   *)
(* that tenure has ended, a command is accepted only from the present      *)
(* holder, and nobody takes a radio from another user unless the           *)
(* configuration allows stealing.  LockManager is shown to implement it.   *)
(***************************************************************************)
EXTENDS Naturals

CONSTANTS Radios, Users, AllowSteal

VARIABLES
    holder,     \* holder[r]: the tenure on radio r, or Nobody
    issued,     \* tokens up to this number may have been handed out
    accepted    \* <<radio, token>> if the last decided call was accepted for
                \* the tenure of that token, <<>> if it was not

vars == <<holder, issued, accepted>>

Nobody == [token |-> 0, user |-> "nobody"]

NotAccepted == <<>>

Init ==
    /\ holder = [r \in Radios |-> Nobody]
    /\ issued = 0
    /\ accepted = NotAccepted

\* A fresh token ends whatever tenure the radio had.
Grant(r, u) ==
    /\ holder[r] = Nobody \/ holder[r].user = u \/ AllowSteal
    /\ issued' \in Nat /\ issued' > issued
    /\ holder' = [holder EXCEPT ![r] = [token |-> issued', user |-> u]]
    /\ accepted' = <<r, issued'>>

\* A command or heartbeat is accepted: only ever for the tenure in force.
Accept(r) ==
    /\ holder[r] # Nobody
    /\ accepted' = <<r, holder[r].token>>
    /\ issued' \in Nat /\ issued' >= issued
    /\ UNCHANGED holder

\* A command is turned away and nothing about the tenures moves.
Refuse ==
    /\ accepted' = NotAccepted
    /\ UNCHANGED <<holder, issued>>

\* The holder gives the radio back.
GiveBack(r) ==
    /\ holder' = [holder EXCEPT ![r] = Nobody]
    /\ accepted' = NotAccepted
    /\ UNCHANGED issued

\* Tenures end by themselves: time passes, or the daemon shuts down.
Lapse ==
    \E ended \in SUBSET Radios :
        /\ holder' = [r \in Radios |-> IF r \in ended THEN Nobody ELSE holder[r]]
        /\ UNCHANGED <<issued, accepted>>

Next ==
    \/ \E r \in Radios, u \in Users : Grant(r, u)
    \/ \E r \in Radios : Accept(r) \/ GiveBack(r)
    \/ Refuse
    \/ Lapse

Spec == Init /\ [][Next]_vars
=============================================================================
