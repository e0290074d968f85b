------------------------------ MODULE Interlock ------------------------------
(***************************************************************************)
(* The lease and the transmitter together: the HTTP routes that transmit   *)
(* or end a lease (internal/api/api.go, lock.go, radios.go, cw.go), the    *)
(* manager that grants leases (LockManager, extended here), and ForceRX,   *)
(* which a release and an expiry call.                                     *)
(*                                                                         *)
(* requireLock checks the lease and then runs the handler: everything may  *)
(* happen between the two.  ForceRX is one step here; TransmitGuard takes  *)
(* it apart, and adds the dead-man timer that ends every transmission,     *)
(* whatever becomes of its lease.                                          *)
(***************************************************************************)
EXTENDS LockManager

VARIABLES
    enabled,    \* lock.enabled in the configuration
    request,    \* request[u]: where u's request stands and under which token
    carrier,    \* carrier[r][by]: what keys the radio, by PTT and by CW
    forced,     \* the onExpire callbacks that have run ForceRX
    unforced    \* history: tokens whose tenure ended with no ForceRX owed

apiVars == <<enabled, request, carrier, forced, unforced>>
allVars == <<vars, apiVars>>

Keying == {"ptt", "cw"}

\* What a request asks for once it is past the gate.
Acts == {"key", "unkey", "send", "abort", "release", "renew"}

Idle == [at |-> "idle"]

\* Nothing is keyed.
Off == [token |-> 0]

\* A transmission begun under a token: whether that token's tenure was over
\* when the radio was keyed, and whether a ForceRX has failed to end it.
Carrier == [token : Nat, late : BOOLEAN, kept : BOOLEAN]

InForce(r, token) == Has(r) /\ Held(r) /\ TokenEqual(r, token)

-----------------------------------------------------------------------------
(* The gate                                                                 *)

\* Tokens that lose their tenure in this step although no ForceRX follows: a
\* lapsed entry that somebody else found first, a lease taken over, a shutdown.
EndsUnforced ==
    unforced' = unforced \cup
        {<<r, locks[r].token>> : r \in {x \in DOMAIN locks :
            x \notin DOMAIN locks' \/ locks'[x].token # locks[x].token}}

\* requireLock on a guarded route: with locking on, a request the manager
\* refuses goes no further.
Gate(u, r, token, act) ==
    /\ request[u] = Idle
    /\ \/ /\ enabled /\ Check(r, token) /\ EndsUnforced
          /\ request' = IF reply'.code = "ok"
                        THEN [request EXCEPT ![u] =
                                [at |-> "admitted", act |-> act, radio |-> r, token |-> token]]
                        ELSE request
       \/ /\ ~enabled /\ UNCHANGED <<vars, unforced>>
          /\ request' = [request EXCEPT ![u] =
                            [at |-> "admitted", act |-> act, radio |-> r, token |-> token]]
    /\ UNCHANGED <<enabled, carrier, forced>>

\* A handler that is past the gate and acts on the radio.
Admitted(u, act) == request[u].at = "admitted" /\ request[u].act = act

Finishes(u) == request' = [request EXCEPT ![u] = Idle]

-----------------------------------------------------------------------------
(* The handlers                                                             *)

\* PATCH with ptt, or CW text queued: the radio transmits for this request.
Keys(u, by) ==
    /\ Admitted(u, IF by = "ptt" THEN "key" ELSE "send")
    /\ LET r == request[u].radio IN
       carrier' = [carrier EXCEPT ![r][by] =
                      [token |-> request[u].token, late |-> ~InForce(r, request[u].token),
                       kept |-> FALSE]]
    /\ Finishes(u)
    /\ UNCHANGED <<vars, enabled, forced, unforced>>

\* PATCH with ptt false, and DELETE of the CW queue.
Unkeys(u, by) ==
    /\ Admitted(u, IF by = "ptt" THEN "unkey" ELSE "abort")
    /\ carrier' = [carrier EXCEPT ![request[u].radio][by] = Off]
    /\ Finishes(u)
    /\ UNCHANGED <<vars, enabled, forced, unforced>>

\* The radio, or the link, does not take the command.
Refused(u) ==
    /\ request[u].at = "admitted" /\ request[u].act \in {"key", "unkey", "send"}
    /\ Finishes(u)
    /\ UNCHANGED <<vars, enabled, carrier, forced, unforced>>

\* renewLock: Check has already slid the lease, and Renew slides it again.
RenewLock(u) ==
    /\ Admitted(u, "renew")
    /\ IF enabled
       THEN Renew(request[u].radio, request[u].token) /\ EndsUnforced
       ELSE UNCHANGED <<vars, unforced>>
    /\ Finishes(u)
    /\ UNCHANGED <<enabled, carrier, forced>>

\* acquireLock: no gate, and nothing forces receive for the lease it ends.
AcquireLock(u, r, force) ==
    /\ request[u] = Idle
    /\ Acquire(r, u, force)
    /\ EndsUnforced
    /\ UNCHANGED <<enabled, request, carrier, forced>>

\* A release that answers before it forces receive.
MutantReleaseLock(u) ==
    /\ Admitted(u, "release")
    /\ IF enabled
       THEN Release(request[u].radio, request[u].token)
       ELSE UNCHANGED vars
    /\ Finishes(u)
    /\ UNCHANGED <<enabled, carrier, forced, unforced>>

\* releaseLock: a release that released something forces receive before it is
\* answered.
ReleaseLock(u) ==
    /\ Admitted(u, "release")
    /\ IF enabled
       THEN /\ Release(request[u].radio, request[u].token)
            /\ request' = [request EXCEPT ![u] =
                  IF reply'.code = "released" THEN [@ EXCEPT !.at = "forcing"] ELSE Idle]
       ELSE UNCHANGED vars /\ Finishes(u)
    /\ UNCHANGED <<enabled, carrier, forced, unforced>>

\* lockState, holder: looking at a lease may end a lapsed one.
GetLock(r) ==
    /\ Inspect(r) /\ EndsUnforced
    /\ UNCHANGED <<enabled, request, carrier, forced>>

-----------------------------------------------------------------------------
(* Forcing receive                                                          *)

\* ForceRX: the CW queue is dropped whatever happens; PTT stays up when there
\* is no link or the command fails.
ForceRX(r) ==
    \E fails \in BOOLEAN :
        carrier' = [carrier EXCEPT ![r] =
            [cw |-> Off,
             ptt |-> IF fails /\ @["ptt"] # Off
                     THEN [@["ptt"] EXCEPT !.kept = TRUE] ELSE Off]]

\* The release is answered 204.
ReleaseForces(u) ==
    /\ request[u].at = "forcing"
    /\ ForceRX(request[u].radio)
    /\ Finishes(u)
    /\ UNCHANGED <<vars, enabled, forced, unforced>>

\* The callback that main installs with SetOnExpire.
OnExpire(r, g) ==
    /\ <<r, g>> \in onExpire \ forced
    /\ ForceRX(r)
    /\ forced' = forced \cup {<<r, g>>}
    /\ UNCHANGED <<vars, enabled, request, unforced>>

\* The manager's own goroutines and the clock.
Background ==
    /\ \/ \E r \in Radios : TimerFires(r)
       \/ \E r \in Radios, g \in 1..gen : Expire(r, g)
       \/ Tick
    /\ UNCHANGED apiVars

Shutdown == Close /\ EndsUnforced /\ UNCHANGED <<enabled, request, carrier, forced>>

-----------------------------------------------------------------------------

InterlockInit ==
    /\ Init
    /\ enabled \in BOOLEAN
    /\ request = [u \in Users |-> Idle]
    /\ carrier = [r \in Radios |-> [by \in Keying |-> Off]]
    /\ forced = {} /\ unforced = {}

InterlockNext ==
    \/ \E u \in Users, r \in Radios, token \in Presentable, act \in Acts :
          Gate(u, r, token, act)
    \/ \E u \in Users, by \in Keying : Keys(u, by) \/ Unkeys(u, by)
    \/ \E u \in Users :
          Refused(u) \/ RenewLock(u) \/ ReleaseLock(u) \/ ReleaseForces(u)
    \/ \E u \in Users, r \in Radios, force \in BOOLEAN :
          enabled /\ AcquireLock(u, r, force)
    \/ \E r \in Radios : GetLock(r)
    \/ \E r \in Radios, g \in 1..gen : OnExpire(r, g)
    \/ Background \/ Shutdown

InterlockSpec == InterlockInit /\ [][InterlockNext]_allVars

\* Beside what LockManager's fairness gives, a handler or callback that has
\* begun runs on.
InterlockFairness ==
    /\ Fairness
    /\ \A u \in Users :
          /\ WF_allVars(\E by \in Keying : Keys(u, by) \/ Unkeys(u, by))
          /\ WF_allVars(RenewLock(u)) /\ WF_allVars(ReleaseLock(u))
          /\ WF_allVars(ReleaseForces(u))
    /\ \A r \in Radios, g \in 1..MaxGen : WF_allVars(OnExpire(r, g))

InterlockFairSpec == InterlockSpec /\ InterlockFairness

-----------------------------------------------------------------------------
(* Correctness                                                              *)

\* A ForceRX for this radio is under way or owed.
ForceOwed(r) ==
    \/ \E u \in Users : request[u].at = "forcing" /\ request[u].radio = r
    \/ \E g \in 1..gen : <<r, g>> \in onExpire \ forced

\* A radio transmits under the lease of the request that keyed it, or its
\* lease is over and receive is about to be forced.  These are all the other
\* ways to stay on the air: the request was past requireLock when its lease
\* ended and keyed afterwards, the lease ended with no ForceRX owed (found
\* lapsed by a Check or an Inspect, taken over, shut down), or ForceRX failed.
CarrierHasLease ==
    enabled => \A r \in Radios, by \in Keying :
        LET c == carrier[r][by] IN
        c # Off =>
            \/ Has(r) /\ TokenEqual(r, c.token)
            \/ ForceOwed(r)
            \/ c.late \/ c.kept \/ <<r, c.token>> \in unforced

Request == [at : {"admitted", "forcing"}, act : Acts, radio : Radios, token : Nat]

\* The variables have their types, and nobody holds a token not handed out.
InterlockTypeOK ==
    /\ enabled \in BOOLEAN
    /\ request \in [Users -> Request \cup {Idle}]
    /\ \A u \in Users : request[u] # Idle => request[u].token <= gen
    /\ carrier \in [Radios -> [Keying -> Carrier \cup {Off}]]
    /\ forced \subseteq onExpire

\* A lease in force is not one whose callback has started: when the timer ends
\* it, a ForceRX that has not run yet is owed.
ExpiredIsGone == \A r \in DOMAIN locks : <<r, locks[r].gen>> \notin onExpire

\* The inductive invariant.
InterlockInv == LeaseInv /\ InterlockTypeOK /\ ExpiredIsGone /\ CarrierHasLease
=============================================================================
