----------------------------- MODULE AccessProofs -----------------------------
(***************************************************************************)
(* Proofs about Access, for any number of radios, users, requests and      *)
(* ticks: the leases (LockManager), the transmitters behind them           *)
(* (Interlock), and who is let in (Admission).                             *)
(*                                                                         *)
(* LeaseInv is inductive for the manager alone; its action property and    *)
(* the refinement of ExclusiveLease follow from it.  InterlockInv contains *)
(* it: every handler leaves the manager alone or takes one of its steps    *)
(* (LeasesMove), so what is proved of the manager holds behind the API;    *)
(* what remains is where each carrier's lease goes when a step ends it.    *)
(* AdmissionInv is about the store of tickets, whose order and contents    *)
(* the loops that filter it keep (KeptProofs).                             *)
(***************************************************************************)
EXTENDS MCAccess, KeptProofs, TLAPS

-----------------------------------------------------------------------------
(* The lease manager                                                        *)

\* LeaseInv holds of a manager just built.
LEMMA InitLeaseInv == Init => LeaseInv
BY DEF Init, LeaseInv, TypeOK, TimerBehindEveryLease, FiringIsLapsedOrStale, NoReply

\* What installLocked keeps: the lease it writes has a new generation, which no
\* fired timer carries, and its timer is armed.
LEMMA InstallPreserves ==
    ASSUME LeaseInv, NEW r \in Radios, NEW u \in Users,
           NEW token \in Nat \ {0}, NEW expiresAt \in Nat,
           token <= gen + 1,
           InstallLocked(r, token, u, expiresAt),
           UNCHANGED <<now, firing, onExpire>>,
           reply' \in Reply \cup {NoReply}
    PROVE  LeaseInv'
<1> USE DEF LeaseInv, TypeOK
<1>1. /\ gen' = gen + 1
      /\ DOMAIN locks' = DOMAIN locks \cup {r}
      /\ \A x \in DOMAIN locks' :
            locks'[x] = IF x = r
                        THEN [token |-> token, user |-> u, expiresAt |-> expiresAt,
                              gen |-> gen + 1, armed |-> TRUE]
                        ELSE locks[x]
    BY DEF InstallLocked
<1>2. TypeOK'
  <2>1. now' \in Nat /\ gen' \in Nat /\ DOMAIN locks' \subseteq Radios
        /\ reply' \in Reply \cup {NoReply}'
    BY <1>1 DEF NoReply, Reply, Codes
  <2>2. ASSUME NEW x \in DOMAIN locks'
        PROVE  locks'[x] \in Entry /\ locks'[x].gen <= gen' /\ locks'[x].token <= gen'
    <3>1. CASE x = r
      <4>1. locks'[x] = [token |-> token, user |-> u, expiresAt |-> expiresAt,
                         gen |-> gen + 1, armed |-> TRUE]
        BY <3>1, <1>1
      <4> QED BY <4>1, <1>1 DEF Entry
    <3>2. CASE x # r
      BY <3>2, <1>1 DEF Entry
    <3> QED BY <3>1, <3>2
  <2>3. 1..gen \subseteq 1..gen'
    BY <1>1
  <2>4. firing' \subseteq Radios \X (1..gen') /\ onExpire' \subseteq Radios \X (1..gen')
    BY <2>3
  <2> QED BY <2>1, <2>2, <2>4
<1>3. TimerBehindEveryLease'
    BY <1>1 DEF TimerBehindEveryLease
<1>4. FiringIsLapsedOrStale'
    BY <1>1 DEF FiringIsLapsedOrStale, Held, Entry
<1> QED BY <1>2, <1>3, <1>4

\* What removeLocked keeps.
LEMMA RemovePreserves ==
    ASSUME LeaseInv, NEW r \in Radios,
           RemoveLocked(r),
           UNCHANGED <<now, firing, onExpire>>,
           reply' \in Reply \cup {NoReply}
    PROVE  LeaseInv'
<1>1. /\ gen' = gen
      /\ DOMAIN locks' = DOMAIN locks \ {r}
      /\ \A x \in DOMAIN locks' : locks'[x] = locks[x]
    BY DEF RemoveLocked
<1> QED BY <1>1 DEF LeaseInv, TypeOK, TimerBehindEveryLease, FiringIsLapsedOrStale, Held

\* A refused call keeps everything.
LEMMA RefusePreserves ==
    ASSUME LeaseInv, NEW r \in Radios, NEW token \in Nat, NEW code \in Codes,
           Refuses(r, token, code)
    PROVE  LeaseInv'
BY DEF Refuses, Returns, LeaseInv, TypeOK, TimerBehindEveryLease,
       FiringIsLapsedOrStale, Held, Reply

\* renewLocked keeps the invariant, whichever way it returns.
LEMMA RenewPreserves ==
    ASSUME LeaseInv, NEW r \in Radios, NEW token \in Presentable,
           RenewLocked(r, token)
    PROVE  LeaseInv'
<1>1. token \in Nat
    BY DEF LeaseInv, TypeOK, Presentable
<1>2. CASE Refuses(r, token, "ErrNoLock") \/ Refuses(r, token, "ErrBadToken")
    BY <1>1, <1>2, RefusePreserves DEF Codes
<1>3. CASE RemoveLocked(r) /\ Returns(r, token, "ErrExpired")
    BY <1>1, <1>3, RemovePreserves DEF Returns, Reply, Codes
<1>4. CASE /\ Has(r) /\ Held(r) /\ TokenEqual(r, token)
           /\ InstallLocked(r, locks[r].token, locks[r].user, now + TTL)
           /\ Returns(r, token, "ok")
  <2>1. locks[r] \in Entry /\ locks[r].token <= gen
    BY <1>4 DEF LeaseInv, TypeOK, Has
  <2>2. /\ locks[r].token \in Nat \ {0} /\ locks[r].user \in Users
        /\ locks[r].token <= gen + 1
        /\ now + TTL \in Nat
    BY <2>1, LeaseAssumption DEF LeaseInv, TypeOK, Entry
  <2>3. UNCHANGED <<now, firing, onExpire>> /\ reply' \in Reply \cup {NoReply}
    BY <1>1, <1>4 DEF Returns, Reply, Codes
  <2> QED BY <1>4, <2>2, <2>3, InstallPreserves
<1> QED BY <1>2, <1>3, <1>4 DEF RenewLocked

\* Every step keeps LeaseInv.
LEMMA NextLeaseInv == LeaseInv /\ [Next]_vars => LeaseInv'
<1> SUFFICES ASSUME LeaseInv, [Next]_vars PROVE LeaseInv'
    OBVIOUS
<1>1. ASSUME NEW r \in Radios, NEW u \in Users, NEW force \in BOOLEAN,
             Acquire(r, u, force)
      PROVE  LeaseInv'
  <2>1. CASE AcquireRefused(r, u, force)
    BY <2>1, RefusePreserves DEF AcquireRefused, Codes
  <2>2. CASE AcquireGranted(r, u, force)
    <3>1. gen + 1 \in Nat \ {0} /\ gen + 1 <= gen + 1 /\ now + TTL \in Nat
      BY LeaseAssumption DEF LeaseInv, TypeOK
    <3>2. UNCHANGED <<now, firing, onExpire>> /\ reply' \in Reply \cup {NoReply}
      BY <2>2, <3>1 DEF AcquireGranted, Returns, Reply, Codes
    <3>3. InstallLocked(r, gen + 1, u, now + TTL)
      BY <2>2 DEF AcquireGranted
    <3> QED BY <3>1, <3>2, <3>3, InstallPreserves
  <2> QED BY <1>1, <2>1, <2>2 DEF Acquire
<1>2. ASSUME NEW r \in Radios, NEW token \in Presentable, Renew(r, token)
      PROVE  LeaseInv'
    BY <1>2, RenewPreserves DEF Renew
<1>3. ASSUME NEW r \in Radios, NEW token \in Presentable, Release(r, token)
      PROVE  LeaseInv'
  <2>1. token \in Nat
    BY DEF LeaseInv, TypeOK, Presentable
  <2>2. CASE Refuses(r, token, "ErrNoLock") \/ Refuses(r, token, "ErrBadToken")
    BY <2>1, <2>2, RefusePreserves DEF Codes
  <2>3. CASE RemoveLocked(r) /\ Returns(r, token, "released")
    BY <2>1, <2>3, RemovePreserves DEF Returns, Reply, Codes
  <2> QED BY <1>3, <2>2, <2>3 DEF Release
<1>4. ASSUME NEW r \in Radios, NEW token \in Presentable, Check(r, token)
      PROVE  LeaseInv'
  <2>1. token \in Nat
    BY DEF LeaseInv, TypeOK, Presentable
  <2>2. CASE Refuses(r, token, "ErrNoLock") \/ Refuses(r, token, "ErrHeldByOther")
    BY <2>1, <2>2, RefusePreserves DEF Codes
  <2>3. CASE RemoveLocked(r) /\ Returns(r, token, "ErrExpired")
    BY <2>1, <2>3, RemovePreserves DEF Returns, Reply, Codes
  <2>4. CASE RenewLocked(r, token)
    BY <2>4, RenewPreserves
  <2> QED BY <1>4, <2>2, <2>3, <2>4 DEF Check
<1>5. ASSUME NEW r \in Radios, Inspect(r) PROVE LeaseInv'
    BY <1>5, RemovePreserves DEF Inspect, LeaseInv, TypeOK
<1>6. ASSUME NEW r \in Radios, TimerFires(r) PROVE LeaseInv'
  <2>1. /\ Has(r) /\ locks[r].armed /\ ~Held(r) /\ gen' = gen /\ now' = now
        /\ onExpire' = onExpire /\ reply' = reply
        /\ firing' = firing \cup {<<r, locks[r].gen>>}
        /\ locks' = [locks EXCEPT ![r].armed = FALSE]
    BY <1>6 DEF TimerFires
  <2>2. /\ DOMAIN locks' = DOMAIN locks
        /\ \A x \in DOMAIN locks : x # r => locks'[x] = locks[x]
        /\ locks'[r] = [locks[r] EXCEPT !.armed = FALSE]
    BY <2>1 DEF Has
  <2>3. /\ locks[r] \in Entry /\ locks[r].gen <= gen /\ locks[r].token <= gen
        /\ locks[r].gen \in 1..gen
    BY <2>1 DEF LeaseInv, TypeOK, Has, Entry
  <2>4. /\ locks'[r] \in Entry /\ locks'[r].gen = locks[r].gen
        /\ locks'[r].token = locks[r].token
        /\ locks'[r].expiresAt = locks[r].expiresAt /\ locks'[r].armed = FALSE
    BY <2>2, <2>3 DEF Entry
  <2>5. TypeOK'
    BY <2>1, <2>2, <2>3, <2>4 DEF LeaseInv, TypeOK, NoReply, Reply, Codes
  <2>6. TimerBehindEveryLease'
    BY <2>1, <2>2, <2>4 DEF LeaseInv, TimerBehindEveryLease
  <2>7. FiringIsLapsedOrStale'
    BY <2>1, <2>2, <2>4 DEF LeaseInv, FiringIsLapsedOrStale, Held
  <2> QED BY <2>5, <2>6, <2>7 DEF LeaseInv
<1>7. ASSUME NEW r \in Radios, NEW g \in 1..gen, Expire(r, g) PROVE LeaseInv'
  <2>1. /\ firing' = firing \ {<<r, g>>} /\ now' = now /\ reply' = reply
    BY <1>7 DEF Expire
  <2>2. CASE Has(r) /\ locks[r].gen = g
    <3>1. /\ DOMAIN locks' = DOMAIN locks \ {r} /\ gen' = gen
          /\ \A x \in DOMAIN locks' : locks'[x] = locks[x]
          /\ onExpire' = onExpire \cup {<<r, g>>}
      BY <1>7, <2>2 DEF Expire, RemoveLocked
    <3> QED BY <2>1, <3>1 DEF LeaseInv, TypeOK, TimerBehindEveryLease,
                              FiringIsLapsedOrStale, Held
  <2>3. CASE ~(Has(r) /\ locks[r].gen = g)
    BY <1>7, <2>1, <2>3 DEF Expire, Has, LeaseInv, TypeOK, TimerBehindEveryLease,
                            FiringIsLapsedOrStale, Held
  <2> QED BY <2>2, <2>3
<1>8. CASE Close
    BY <1>8 DEF Close, LeaseInv, TypeOK, TimerBehindEveryLease, FiringIsLapsedOrStale
<1>9. CASE Tick
    BY <1>9 DEF Tick, LeaseInv, TypeOK, TimerBehindEveryLease,
                FiringIsLapsedOrStale, Held, Entry
<1>10. CASE UNCHANGED vars
    BY <1>10 DEF vars, LeaseInv, TypeOK, TimerBehindEveryLease,
                 FiringIsLapsedOrStale, Held
<1> QED BY <1>1, <1>2, <1>3, <1>4, <1>5, <1>6, <1>7, <1>8, <1>9, <1>10 DEF Next

\* LeaseInv holds in every reachable state.
THEOREM LeaseInvariant == Spec => []LeaseInv
BY InitLeaseInv, NextLeaseInv, PTL DEF Spec

\* Expiry is proactive: no lease is ever left without its own timer or its own
\* timer goroutine behind it.
THEOREM ProactiveExpiry == Spec => []TimerBehindEveryLease
BY LeaseInvariant, PTL DEF LeaseInv

\* The callback that takes a transmitter off the air starts only for a lease
\* that has lapsed.
THEOREM OnlyLapsedLeasesExpire == Spec => ExpiryOnlyOfTheLapsed
<1>1. ASSUME LeaseInv, [Next]_vars
      PROVE  \A r \in Radios, g \in 1..gen :
                <<r, g>> \in onExpire' \ onExpire =>
                    Has(r) /\ locks[r].gen = g /\ ~Held(r)
  <2> SUFFICES ASSUME NEW r \in Radios, NEW g \in 1..gen,
                      <<r, g>> \in onExpire' \ onExpire
               PROVE  Has(r) /\ locks[r].gen = g /\ ~Held(r)
    OBVIOUS
  <2>1. PICK x \in Radios, h \in 1..gen : Expire(x, h)
    <3>1. onExpire' # onExpire
      OBVIOUS
    <3> QED BY <1>1, <3>1
            DEF Next, vars, Acquire, AcquireRefused, AcquireGranted, Renew,
                RenewLocked, Release, Check, Refuses, Returns, Inspect,
                TimerFires, Close, Tick
  <2>2. /\ <<x, h>> \in firing /\ Has(x) /\ locks[x].gen = h
        /\ onExpire' = onExpire \cup {<<x, h>>}
    BY <2>1 DEF Expire
  <2>3. x = r /\ h = g
    BY <2>2
  <2> QED BY <1>1, <2>2, <2>3 DEF LeaseInv, FiringIsLapsedOrStale, Has
<1> QED BY <1>1, LeaseInvariant, PTL DEF Spec, ExpiryOnlyOfTheLapsed

-----------------------------------------------------------------------------
(* LockManager implements ExclusiveLease                                    *)

\* The abstract holders, as a function.
Holders == [r \in Radios |-> HolderOf(r)]

\* Writing a lease makes its token the radio's tenure and touches no other.
LEMMA InstallHolders ==
    ASSUME LeaseInv, NEW r \in Radios, NEW u, NEW token,
           InstallLocked(r, token, u, now + TTL), now' = now
    PROVE  Holders' = [Holders EXCEPT ![r] = [token |-> token, user |-> u]]
<1>1. now < now + TTL
    BY LeaseAssumption DEF LeaseInv, TypeOK
<1>2. /\ DOMAIN locks' = DOMAIN locks \cup {r}
      /\ \A x \in DOMAIN locks' :
            locks'[x] = IF x = r
                        THEN [token |-> token, user |-> u, expiresAt |-> now + TTL,
                              gen |-> gen + 1, armed |-> TRUE]
                        ELSE locks[x]
    BY DEF InstallLocked
<1>3. HolderOf(r)' = [token |-> token, user |-> u]
    BY <1>1, <1>2 DEF HolderOf, Has, Held
<1>4. ASSUME NEW x \in Radios, x # r PROVE HolderOf(x)' = HolderOf(x)
    BY <1>2, <1>4 DEF HolderOf, Has, Held
<1> QED BY <1>3, <1>4 DEF Holders

\* Removing an entry ends the radio's tenure and touches no other.
LEMMA RemoveHolders ==
    ASSUME NEW r \in Radios, RemoveLocked(r), now' = now
    PROVE  Holders' = [Holders EXCEPT ![r] = [token |-> 0, user |-> "nobody"]]
<1>1. /\ DOMAIN locks' = DOMAIN locks \ {r}
      /\ \A x \in DOMAIN locks' : locks'[x] = locks[x]
    BY DEF RemoveLocked
<1>2. HolderOf(r)' = [token |-> 0, user |-> "nobody"]
    BY <1>1 DEF HolderOf, Has
<1>3. ASSUME NEW x \in Radios, x # r PROVE HolderOf(x)' = HolderOf(x)
    BY <1>1, <1>3 DEF HolderOf, Has, Held
<1> QED BY <1>2, <1>3 DEF Holders

\* Removing a lapsed entry changes nothing the outside sees.
LEMMA RemoveLapsedHolders ==
    ASSUME NEW r \in Radios, RemoveLocked(r), now' = now, ~Held(r)
    PROVE  Holders' = Holders
<1>1. HolderOf(r) = [token |-> 0, user |-> "nobody"]
    BY DEF HolderOf
<1> QED BY <1>1, RemoveHolders DEF Holders

\* A refused call is an abstract refusal.
LEMMA RefuseRefines ==
    ASSUME LeaseInv, NEW r \in Radios, NEW token, NEW code \in Codes \ {"ok"},
           Returns(r, token, code), gen' = gen, Holders' = Holders
    PROVE  Lease!Refuse
<1>1. AcceptedCall' = <<>>
    BY DEF AcceptedCall, Returns, Codes
<1> QED BY <1>1 DEF Lease!Refuse, Lease!NotAccepted, Holders

\* A renewal, whichever way it returns, is an abstract acceptance or refusal.
LEMMA RenewRefines ==
    ASSUME LeaseInv, NEW r \in Radios, NEW token \in Presentable,
           RenewLocked(r, token)
    PROVE  Lease!Accept(r) \/ Lease!Refuse
<1>1. CASE Refuses(r, token, "ErrNoLock") \/ Refuses(r, token, "ErrBadToken")
  <2>1. gen' = gen /\ Holders' = Holders
    BY <1>1 DEF Refuses, Returns, Holders, HolderOf, Has, Held
  <2> QED BY <1>1, <2>1, RefuseRefines DEF Refuses, Codes
<1>2. CASE ~Held(r) /\ RemoveLocked(r) /\ Returns(r, token, "ErrExpired")
  <2>1. gen' = gen /\ now' = now
    BY <1>2 DEF RemoveLocked, Returns
  <2>2. Holders' = Holders
    BY <1>2, <2>1, RemoveLapsedHolders
  <2> QED BY <1>2, <2>1, <2>2, RefuseRefines DEF Codes
<1>3. CASE /\ Has(r) /\ Held(r) /\ TokenEqual(r, token)
           /\ InstallLocked(r, locks[r].token, locks[r].user, now + TTL)
           /\ Returns(r, token, "ok")
  <2>1. HolderOf(r) = [token |-> locks[r].token, user |-> locks[r].user]
    BY <1>3 DEF HolderOf
  <2>2. Holders' = Holders
    <3>1. now' = now
      BY <1>3 DEF Returns
    <3>2. Holders' = [Holders EXCEPT ![r] = [token |-> locks[r].token,
                                             user |-> locks[r].user]]
      BY <1>3, <3>1, InstallHolders
    <3> QED BY <2>1, <3>2 DEF Holders
  <2>3. gen \in Nat /\ gen' \in Nat /\ gen' >= gen
    BY <1>3 DEF InstallLocked, LeaseInv, TypeOK
  <2>4. locks[r].token = token /\ token # 0
    BY <1>3 DEF TokenEqual
  <2>5. AcceptedCall' = <<r, token>>
    BY <1>3 DEF AcceptedCall, Returns
  <2>6. Holders[r] = HolderOf(r) /\ HolderOf(r).token = token
        /\ HolderOf(r) # [token |-> 0, user |-> "nobody"]
    BY <2>1, <2>4 DEF Holders
  <2> QED BY <2>2, <2>3, <2>5, <2>6 DEF Lease!Accept, Lease!Nobody, Holders
<1> QED BY <1>1, <1>2, <1>3 DEF RenewLocked

\* Every step of the manager is a step of the abstract lease, or a stutter.
LEMMA StepRefines ==
    ASSUME LeaseInv, [Next]_vars
    PROVE  [Lease!Next]_(Lease!vars)
<1>1. ASSUME NEW r \in Radios, NEW u \in Users, NEW force \in BOOLEAN,
             Acquire(r, u, force)
      PROVE  Lease!Next
  <2>1. CASE AcquireRefused(r, u, force)
    <3>1. gen' = gen /\ Holders' = Holders
      BY <2>1 DEF AcquireRefused, Refuses, Returns, Holders, HolderOf, Has, Held
    <3> QED BY <2>1, <3>1, RefuseRefines
            DEF AcquireRefused, Refuses, Codes, Lease!Next
  <2>2. CASE AcquireGranted(r, u, force)
    <3>1. /\ HeldByOther(r, u) => AllowSteal
          /\ InstallLocked(r, gen + 1, u, now + TTL)
          /\ now' = now /\ reply' = [radio |-> r, token |-> gen + 1, code |-> "ok"]
      BY <2>2 DEF AcquireGranted, Returns
    <3>2. Holders' = [Holders EXCEPT ![r] = [token |-> gen + 1, user |-> u]]
      BY <3>1, InstallHolders
    <3>3. gen \in Nat /\ gen' = gen + 1
      BY <3>1 DEF InstallLocked, LeaseInv, TypeOK
    <3>4. AcceptedCall' = <<r, gen + 1>>
      BY <3>1 DEF AcceptedCall
    <3>5. \/ Holders[r] = [token |-> 0, user |-> "nobody"]
          \/ Holders[r].user = u
          \/ AllowSteal
      BY <3>1 DEF HeldByOther, Holders, HolderOf
    <3>6. Lease!Grant(r, u)
      BY <3>2, <3>3, <3>4, <3>5 DEF Lease!Grant, Lease!Nobody, Holders
    <3> QED BY <3>6 DEF Lease!Next
  <2> QED BY <1>1, <2>1, <2>2 DEF Acquire
<1>2. ASSUME NEW r \in Radios, NEW token \in Presentable, Renew(r, token)
      PROVE  Lease!Next
    BY <1>2, RenewRefines DEF Renew, Lease!Next
<1>3. ASSUME NEW r \in Radios, NEW token \in Presentable, Release(r, token)
      PROVE  Lease!Next
  <2>1. CASE Refuses(r, token, "ErrNoLock") \/ Refuses(r, token, "ErrBadToken")
    <3>1. gen' = gen /\ Holders' = Holders
      BY <2>1 DEF Refuses, Returns, Holders, HolderOf, Has, Held
    <3> QED BY <2>1, <3>1, RefuseRefines DEF Refuses, Codes, Lease!Next
  <2>2. CASE RemoveLocked(r) /\ Returns(r, token, "released")
    <3>1. gen' = gen /\ now' = now
      BY <2>2 DEF RemoveLocked, Returns
    <3>2. Holders' = [Holders EXCEPT ![r] = [token |-> 0, user |-> "nobody"]]
      BY <2>2, <3>1, RemoveHolders
    <3>3. AcceptedCall' = <<>>
      BY <2>2 DEF AcceptedCall, Returns
    <3>4. Lease!GiveBack(r)
      BY <3>1, <3>2, <3>3 DEF Lease!GiveBack, Lease!Nobody, Lease!NotAccepted, Holders
    <3> QED BY <3>4 DEF Lease!Next
  <2> QED BY <1>3, <2>1, <2>2 DEF Release
<1>4. ASSUME NEW r \in Radios, NEW token \in Presentable, Check(r, token)
      PROVE  Lease!Next
  <2>1. CASE Refuses(r, token, "ErrNoLock") \/ Refuses(r, token, "ErrHeldByOther")
    <3>1. gen' = gen /\ Holders' = Holders
      BY <2>1 DEF Refuses, Returns, Holders, HolderOf, Has, Held
    <3> QED BY <2>1, <3>1, RefuseRefines DEF Refuses, Codes, Lease!Next
  <2>2. CASE ~Held(r) /\ RemoveLocked(r) /\ Returns(r, token, "ErrExpired")
    <3>1. gen' = gen /\ now' = now
      BY <2>2 DEF RemoveLocked, Returns
    <3>2. Holders' = Holders
      BY <2>2, <3>1, RemoveLapsedHolders
    <3> QED BY <2>2, <3>1, <3>2, RefuseRefines DEF Codes, Lease!Next
  <2>3. CASE RenewLocked(r, token)
    BY <2>3, RenewRefines DEF Lease!Next
  <2> QED BY <1>4, <2>1, <2>2, <2>3 DEF Check
<1>5. ASSUME NEW r \in Radios, Inspect(r) PROVE UNCHANGED Lease!vars
  <2>1. gen' = gen /\ now' = now /\ reply' = reply /\ ~Held(r) /\ RemoveLocked(r)
    BY <1>5 DEF Inspect, RemoveLocked
  <2>2. Holders' = Holders
    BY <2>1, RemoveLapsedHolders
  <2> QED BY <2>1, <2>2 DEF Lease!vars, Holders, AcceptedCall
<1>6. ASSUME NEW r \in Radios, TimerFires(r) PROVE UNCHANGED Lease!vars
  <2>1. /\ gen' = gen /\ now' = now /\ reply' = reply /\ Has(r)
        /\ locks' = [locks EXCEPT ![r].armed = FALSE]
    BY <1>6 DEF TimerFires
  <2>2. locks[r] \in Entry
    BY <2>1 DEF Has, LeaseInv, TypeOK
  <2>3. ASSUME NEW x \in DOMAIN locks
        PROVE  /\ locks'[x].token = locks[x].token /\ locks'[x].user = locks[x].user
               /\ locks'[x].expiresAt = locks[x].expiresAt
    BY <2>1, <2>2, <2>3 DEF Entry, Has
  <2>4. Holders' = Holders
    BY <2>1, <2>3 DEF Holders, HolderOf, Has, Held
  <2> QED BY <2>1, <2>4 DEF Lease!vars, Holders, AcceptedCall
<1>7. ASSUME NEW r \in Radios, NEW g \in 1..gen, Expire(r, g)
      PROVE  UNCHANGED Lease!vars
  <2>1. /\ now' = now /\ reply' = reply /\ gen' = gen
        /\ <<r, g>> \in firing
    BY <1>7 DEF Expire, RemoveLocked
  <2>2. CASE Has(r) /\ locks[r].gen = g
    <3>1. ~Held(r) /\ RemoveLocked(r)
      BY <1>7, <2>1, <2>2 DEF Expire, LeaseInv, FiringIsLapsedOrStale, Has
    <3>2. Holders' = Holders
      BY <2>1, <3>1, RemoveLapsedHolders
    <3> QED BY <2>1, <3>2 DEF Lease!vars, Holders, AcceptedCall
  <2>3. CASE ~(Has(r) /\ locks[r].gen = g)
    BY <1>7, <2>1, <2>3 DEF Expire, Lease!vars, AcceptedCall, HolderOf, Has, Held
  <2> QED BY <2>2, <2>3
<1>8. CASE Close
  <2>1. Holders' = [r \in Radios |-> IF r \in Radios
                                     THEN [token |-> 0, user |-> "nobody"]
                                     ELSE Holders[r]]
    BY <1>8 DEF Close, Holders, HolderOf, Has
  <2>2. gen' = gen /\ AcceptedCall' = AcceptedCall
    BY <1>8 DEF Close, AcceptedCall
  <2>3. Lease!Lapse
    BY <2>1, <2>2 DEF Lease!Lapse, Lease!Nobody, Holders
  <2> QED BY <2>3 DEF Lease!Next
<1>9. CASE Tick
  <2> DEFINE ended == {r \in Radios : Has(r) /\ ~Held(r)'}
  <2>1. /\ now' = now + 1 /\ now \in Nat /\ locks' = locks /\ gen' = gen
        /\ AcceptedCall' = AcceptedCall
    BY <1>9 DEF Tick, AcceptedCall, LeaseInv, TypeOK
  <2>2. ASSUME NEW r \in Radios
        PROVE  HolderOf(r)' = IF r \in ended THEN [token |-> 0, user |-> "nobody"]
                                             ELSE HolderOf(r)
    <3>1. Has(r) => locks[r].expiresAt \in Nat
      BY DEF Has, LeaseInv, TypeOK, Entry
    <3> QED BY <2>1, <3>1 DEF HolderOf, Has, Held
  <2>3. Holders' = [r \in Radios |-> IF r \in ended
                                     THEN [token |-> 0, user |-> "nobody"]
                                     ELSE Holders[r]]
    BY <2>2 DEF Holders
  <2>4. Lease!Lapse
    BY <2>1, <2>3 DEF Lease!Lapse, Lease!Nobody, Holders
  <2> QED BY <2>4 DEF Lease!Next
<1>10. CASE UNCHANGED vars
    BY <1>10 DEF vars, Lease!vars, AcceptedCall, HolderOf, Has, Held
<1> QED BY <1>1, <1>2, <1>3, <1>4, <1>5, <1>6, <1>7, <1>8, <1>9, <1>10 DEF Next

\* A lapsed or superseded token is never honoured again, a command is accepted
\* only for the tenure in force, and a radio changes hands against its holder's
\* will only where stealing is allowed: LockManager implements ExclusiveLease.
THEOREM LeaseRefinement == Spec => ImplementsExclusiveLease
<1>1. Init => Lease!Init
    BY DEF Init, Lease!Init, Lease!Nobody, Lease!NotAccepted, HolderOf, Has,
           AcceptedCall, NoReply
<1>2. LeaseInv /\ [Next]_vars => [Lease!Next]_(Lease!vars)
    BY StepRefines
<1> QED BY <1>1, <1>2, LeaseInvariant, PTL
        DEF Spec, ImplementsExclusiveLease, Lease!Spec

-----------------------------------------------------------------------------
(* The manager inside Interlock                                             *)

\* A token that a request carries can be presented.
LEMMA RequestsArePresentable ==
    ASSUME InterlockInv, NEW u \in Users, request[u] # Idle
    PROVE  /\ request[u].radio \in Radios /\ request[u].token \in Presentable
           /\ request[u].act \in Acts /\ request[u].at \in {"admitted", "forcing"}
BY DEF InterlockInv, InterlockTypeOK, Request, Presentable, LeaseInv, TypeOK

\* A handler, a callback or the background leaves the manager alone or takes
\* one of its steps.
LEMMA LeasesMove ==
    ASSUME InterlockInv, [InterlockNext]_allVars
    PROVE  [Next]_vars
<1>1. ASSUME NEW u \in Users, NEW r \in Radios, NEW token \in Presentable,
             NEW act \in Acts, Gate(u, r, token, act)
      PROVE  [Next]_vars
    BY <1>1 DEF Gate, Next
<1>2. ASSUME NEW u \in Users, NEW by \in Keying, Keys(u, by) \/ Unkeys(u, by)
      PROVE  [Next]_vars
    BY <1>2 DEF Keys, Unkeys
<1>3. ASSUME NEW u \in Users, RenewLock(u) PROVE [Next]_vars
    BY <1>3, RequestsArePresentable DEF RenewLock, Admitted, Idle, Next
<1>4. ASSUME NEW u \in Users, ReleaseLock(u) PROVE [Next]_vars
    BY <1>4, RequestsArePresentable DEF ReleaseLock, Admitted, Idle, Next
<1>5. ASSUME NEW u \in Users, Refused(u) \/ ReleaseForces(u) PROVE [Next]_vars
    BY <1>5 DEF Refused, ReleaseForces
<1>6. ASSUME NEW u \in Users, NEW r \in Radios, NEW force \in BOOLEAN,
             AcquireLock(u, r, force)
      PROVE  [Next]_vars
    BY <1>6 DEF AcquireLock, Next
<1>7. ASSUME NEW r \in Radios, GetLock(r) PROVE [Next]_vars
    BY <1>7 DEF GetLock, Next
<1>8. ASSUME NEW r \in Radios, NEW g \in 1..gen, OnExpire(r, g) PROVE [Next]_vars
    BY <1>8 DEF OnExpire
<1>9. CASE Background
    BY <1>9 DEF Background, Next
<1>10. CASE Shutdown
    BY <1>10 DEF Shutdown, Next
<1>11. CASE UNCHANGED allVars
    BY <1>11 DEF allVars
<1> QED BY <1>1, <1>2, <1>3, <1>4, <1>5, <1>6, <1>7, <1>8, <1>9, <1>10, <1>11
        DEF InterlockNext

\* What any step of the manager does: generations and callbacks only become
\* more, and an entry that is new or rewritten has a generation of its own.
LEMMA LeaseStep ==
    ASSUME LeaseInv, [Next]_vars
    PROVE  /\ gen' \in Nat /\ gen <= gen' /\ onExpire \subseteq onExpire'
           /\ \A r \in DOMAIN locks' :
                 \/ r \in DOMAIN locks /\ locks'[r].gen = locks[r].gen
                 \/ locks'[r].gen = gen + 1
<1> USE DEF LeaseInv, TypeOK
<1>1. ASSUME NEW r, NEW token, NEW user, NEW expiresAt,
             InstallLocked(r, token, user, expiresAt), onExpire' = onExpire
      PROVE  /\ gen' \in Nat /\ gen <= gen' /\ onExpire \subseteq onExpire'
             /\ \A x \in DOMAIN locks' :
                   \/ x \in DOMAIN locks /\ locks'[x].gen = locks[x].gen
                   \/ locks'[x].gen = gen + 1
    BY <1>1 DEF InstallLocked
<1>2. ASSUME NEW r, RemoveLocked(r), onExpire \subseteq onExpire'
      PROVE  /\ gen' \in Nat /\ gen <= gen' /\ onExpire \subseteq onExpire'
             /\ \A x \in DOMAIN locks' :
                   \/ x \in DOMAIN locks /\ locks'[x].gen = locks[x].gen
                   \/ locks'[x].gen = gen + 1
    BY <1>2 DEF RemoveLocked
<1>3. ASSUME UNCHANGED <<locks, gen, onExpire>>
      PROVE  /\ gen' \in Nat /\ gen <= gen' /\ onExpire \subseteq onExpire'
             /\ \A x \in DOMAIN locks' :
                   \/ x \in DOMAIN locks /\ locks'[x].gen = locks[x].gen
                   \/ locks'[x].gen = gen + 1
    BY <1>3
<1>4. ASSUME NEW r \in Radios, NEW u \in Users, NEW force \in BOOLEAN,
             Acquire(r, u, force)
      PROVE  \/ InstallLocked(r, gen + 1, u, now + TTL) /\ onExpire' = onExpire
             \/ UNCHANGED <<locks, gen, onExpire>>
    BY <1>4 DEF Acquire, AcquireGranted, AcquireRefused, Refuses, Returns
<1>5. ASSUME NEW r \in Radios, NEW token \in Presentable,
             RenewLocked(r, token) \/ Release(r, token) \/ Check(r, token)
      PROVE  \/ /\ InstallLocked(r, locks[r].token, locks[r].user, now + TTL)
                /\ onExpire' = onExpire
             \/ RemoveLocked(r) /\ onExpire' = onExpire
             \/ UNCHANGED <<locks, gen, onExpire>>
    BY <1>5 DEF RenewLocked, Release, Check, Refuses, Returns
<1>6. ASSUME NEW r \in Radios, Inspect(r)
      PROVE  RemoveLocked(r) /\ onExpire' = onExpire
    BY <1>6 DEF Inspect
<1>7. ASSUME NEW r \in Radios, TimerFires(r)
      PROVE  /\ gen' \in Nat /\ gen <= gen' /\ onExpire \subseteq onExpire'
             /\ \A x \in DOMAIN locks' :
                   \/ x \in DOMAIN locks /\ locks'[x].gen = locks[x].gen
                   \/ locks'[x].gen = gen + 1
    BY <1>7 DEF TimerFires, Has, Entry
<1>8. ASSUME NEW r \in Radios, NEW g \in 1..gen, Expire(r, g)
      PROVE  \/ RemoveLocked(r) /\ onExpire \subseteq onExpire'
             \/ UNCHANGED <<locks, gen, onExpire>>
    BY <1>8 DEF Expire
<1>9. CASE Close
    BY <1>9 DEF Close
<1>10. CASE Tick \/ UNCHANGED vars
    BY <1>3, <1>10 DEF Tick, vars
<1> QED BY <1>1, <1>2, <1>3, <1>4, <1>5, <1>6, <1>7, <1>8, <1>9, <1>10
        DEF Next, Renew

\* A callback that has started belongs to no present lease: the entry it ended
\* is gone, and a new one has a new generation.
LEMMA ExpiredStaysGone ==
    ASSUME LeaseInv, ExpiredIsGone, [Next]_vars
    PROVE  ExpiredIsGone'
<1> SUFFICES ASSUME NEW r \in DOMAIN locks', <<r, locks'[r].gen>> \in onExpire'
             PROVE  FALSE
    BY DEF ExpiredIsGone
<1>1. r \in Radios /\ gen \in Nat /\ onExpire \subseteq Radios \X (1..gen)
    <2>1. LeaseInv'
        BY NextLeaseInv
    <2> QED BY <2>1 DEF LeaseInv, TypeOK
<1>2. <<r, locks'[r].gen>> \notin onExpire
    BY <1>1, LeaseStep DEF ExpiredIsGone
<1>3. PICK x \in Radios, h \in 1..gen : Expire(x, h)
    <2>1. onExpire' # onExpire
        BY <1>2
    <2> QED BY <2>1
            DEF Next, vars, Acquire, AcquireRefused, AcquireGranted, Renew,
                RenewLocked, Release, Check, Refuses, Returns, Inspect,
                TimerFires, Close, Tick
<1>4. /\ onExpire' = onExpire \cup {<<x, h>>}
      /\ DOMAIN locks' = DOMAIN locks \ {x}
    BY <1>2, <1>3 DEF Expire, RemoveLocked
<1> QED BY <1>2, <1>4

-----------------------------------------------------------------------------
(* A carrier and its lease                                                  *)

\* A step that keys nothing keeps CarrierHasLease if each lease it ends leaves
\* a ForceRX owed or its token among the unforced, and it pays no such debt.
LEMMA CarrierKept ==
    ASSUME CarrierHasLease, InterlockTypeOK, carrier' = carrier, enabled' = enabled,
           unforced \subseteq unforced',
           \A r \in Radios : ForceOwed(r) => ForceOwed(r)',
           \A r \in DOMAIN locks :
              \/ r \in DOMAIN locks' /\ locks'[r].token = locks[r].token
              \/ ForceOwed(r)'
              \/ <<r, locks[r].token>> \in unforced'
    PROVE  CarrierHasLease'
BY DEF CarrierHasLease, Has, TokenEqual

\* What is owed stays owed while no request that forces receive and no callback
\* moves on.
LEMMA DebtStays ==
    ASSUME InterlockInv, gen' \in Nat, gen <= gen', onExpire \subseteq onExpire',
           forced' = forced,
           \A u \in Users : request[u].at = "forcing" => request'[u] = request[u]
    PROVE  \A r \in Radios : ForceOwed(r) => ForceOwed(r)'
<1>1. ASSUME NEW r \in Radios, NEW u \in Users,
             request[u].at = "forcing" /\ request[u].radio = r
      PROVE  ForceOwed(r)'
    <2>1. request'[u] = request[u]
        BY <1>1
    <2> QED BY <1>1, <2>1 DEF ForceOwed
<1>2. ASSUME NEW r \in Radios, NEW g \in 1..gen, <<r, g>> \in onExpire \ forced
      PROVE  ForceOwed(r)'
    <2>1. g \in 1..gen'
        BY DEF InterlockInv, LeaseInv, TypeOK
    <2>2. <<r, g>> \in onExpire' \ forced'
        BY <1>2
    <2> QED BY <2>1, <2>2 DEF ForceOwed
<1> QED BY <1>1, <1>2 DEF ForceOwed

\* The types of Interlock's own variables, for a step that leaves the carrier
\* and the callbacks alone and gives at most one request something to do.
LEMMA RequestMoves ==
    ASSUME InterlockInv, gen' \in Nat, gen <= gen', onExpire \subseteq onExpire',
           NEW u \in Users, NEW q \in Request \cup {Idle},
           q # Idle => q.token <= gen', request' = [request EXCEPT ![u] = q],
           UNCHANGED <<enabled, forced>>,
           carrier' \in [Radios -> [Keying -> Carrier \cup {Off}]]
    PROVE  InterlockTypeOK'
<1>1. /\ request' \in [Users -> Request \cup {Idle}]
      /\ request'[u] = q /\ \A v \in Users : v # u => request'[v] = request[v]
    BY DEF InterlockInv, InterlockTypeOK
<1>2. \A v \in Users : request'[v] # Idle => request'[v].token <= gen'
    <2> SUFFICES ASSUME NEW v \in Users, request'[v] # Idle, v # u
                 PROVE  request'[v].token <= gen'
        BY <1>1
    <2>1. request[v] \in Request /\ request[v].token <= gen /\ request'[v] = request[v]
        BY <1>1 DEF InterlockInv, InterlockTypeOK
    <2> QED BY <2>1 DEF Request, InterlockInv, LeaseInv, TypeOK
<1> QED BY <1>1, <1>2 DEF InterlockInv, InterlockTypeOK

\* The types, for a step that leaves Interlock's requests and callbacks alone.
LEMMA TypesStay ==
    ASSUME InterlockInv, gen' \in Nat, gen <= gen', onExpire \subseteq onExpire',
           UNCHANGED <<enabled, request, carrier>>, forced' \subseteq onExpire'
    PROVE  InterlockTypeOK'
<1>1. ASSUME NEW u \in Users, request[u] # Idle PROVE request[u].token <= gen'
    <2>1. request[u] \in Request /\ request[u].token <= gen
        BY <1>1 DEF InterlockInv, InterlockTypeOK
    <2> QED BY <2>1 DEF Request, InterlockInv, LeaseInv, TypeOK
<1> QED BY <1>1 DEF InterlockInv, InterlockTypeOK

\* Every lease the manager ends in a step with EndsUnforced is accounted for.
LEMMA UnforcedIsNoted ==
    ASSUME EndsUnforced
    PROVE  /\ unforced \subseteq unforced'
           /\ \A r \in DOMAIN locks :
                 \/ r \in DOMAIN locks' /\ locks'[r].token = locks[r].token
                 \/ <<r, locks[r].token>> \in unforced'
BY DEF EndsUnforced

\* ForceRX leaves nothing keyed on its radio but what it failed to unkey, and
\* touches no other radio.
LEMMA ForceRXClears ==
    ASSUME InterlockTypeOK, NEW r \in Radios, ForceRX(r)
    PROVE  /\ carrier' \in [Radios -> [Keying -> Carrier \cup {Off}]]
           /\ \A by \in Keying : carrier'[r][by] = Off \/ carrier'[r][by].kept
           /\ \A x \in Radios : x # r => carrier'[x] = carrier[x]
<1>1. PICK fails \in BOOLEAN :
        carrier' = [carrier EXCEPT ![r] =
            [cw |-> Off,
             ptt |-> IF fails /\ carrier[r]["ptt"] # Off
                     THEN [carrier[r]["ptt"] EXCEPT !.kept = TRUE] ELSE Off]]
    BY DEF ForceRX
<1>2. carrier[r]["ptt"] \in Carrier \cup {Off}
    BY DEF InterlockTypeOK, Keying
<1>3. carrier[r]["ptt"] # Off => [carrier[r]["ptt"] EXCEPT !.kept = TRUE] \in Carrier
                                 /\ [carrier[r]["ptt"] EXCEPT !.kept = TRUE].kept
    BY <1>2 DEF Carrier
<1>4. carrier'[r] = [cw |-> Off,
                     ptt |-> IF fails /\ carrier[r]["ptt"] # Off
                             THEN [carrier[r]["ptt"] EXCEPT !.kept = TRUE] ELSE Off]
    BY <1>1 DEF InterlockTypeOK
<1>5. carrier'[r] \in [Keying -> Carrier \cup {Off}]
      /\ \A by \in Keying : carrier'[r][by] = Off \/ carrier'[r][by].kept
    <2> DEFINE ptt == IF fails /\ carrier[r]["ptt"] # Off
                      THEN [carrier[r]["ptt"] EXCEPT !.kept = TRUE] ELSE Off
    <2>1. ptt \in Carrier \cup {Off} /\ (ptt = Off \/ ptt.kept)
        BY <1>3
    <2>2. carrier'[r] = [cw |-> Off, ptt |-> ptt]
        BY <1>4
    <2> HIDE DEF ptt
    <2>3. [cw |-> Off, ptt |-> ptt] = [by \in Keying |-> IF by = "cw" THEN Off ELSE ptt]
        BY DEF Keying
    <2> QED BY <2>1, <2>2, <2>3
<1> QED BY <1>1, <1>5 DEF InterlockTypeOK

-----------------------------------------------------------------------------
(* Every step                                                               *)

\* The manager just built holds no lease and keys nothing.
LEMMA InitInterlockInv == InterlockInit => InterlockInv
<1> SUFFICES ASSUME InterlockInit PROVE InterlockInv
    OBVIOUS
<1>1. LeaseInv
    BY InitLeaseInv DEF InterlockInit
<1>2. ExpiredIsGone
    BY DEF InterlockInit, Init, ExpiredIsGone
<1>3. InterlockTypeOK /\ CarrierHasLease
    BY DEF InterlockInit, Init, InterlockTypeOK, CarrierHasLease, Idle
<1> QED BY <1>1, <1>2, <1>3 DEF InterlockInv

\* The gate, before the handler.
LEMMA GatePreserves ==
    ASSUME InterlockInv, [Next]_vars, NEW u \in Users, NEW r \in Radios,
           NEW token \in Presentable, NEW act \in Acts, Gate(u, r, token, act)
    PROVE  InterlockTypeOK' /\ CarrierHasLease'
<1> DEFINE q == [at |-> "admitted", act |-> act, radio |-> r, token |-> token]
<1>1. gen' \in Nat /\ gen <= gen' /\ onExpire \subseteq onExpire'
    BY LeaseStep DEF InterlockInv
<1>2. q \in Request /\ token <= gen'
    BY <1>1 DEF Request, Presentable, InterlockInv, LeaseInv, TypeOK
<1>3. /\ request[u] = Idle /\ UNCHANGED <<enabled, carrier, forced>>
      /\ request' = request \/ request' = [request EXCEPT ![u] = q]
      /\ EndsUnforced \/ UNCHANGED <<locks, unforced>>
    BY DEF Gate, vars
<1>4. InterlockTypeOK'
    <2>1. CASE request' = request
        BY <1>1, <1>3, <2>1, TypesStay DEF InterlockInv, InterlockTypeOK
    <2>2. CASE request' = [request EXCEPT ![u] = q]
        <3> HIDE DEF q
        <3>1. carrier' \in [Radios -> [Keying -> Carrier \cup {Off}]]
            BY <1>3 DEF InterlockInv, InterlockTypeOK
        <3>2. q # Idle => q.token <= gen'
            BY <1>2 DEF q
        <3> QED BY <1>1, <1>2, <1>3, <2>2, <3>1, <3>2, RequestMoves
    <2> QED BY <1>3, <2>1, <2>2
<1>5. \A v \in Users : request[v].at = "forcing" => request'[v] = request[v]
    BY <1>3 DEF Idle, InterlockInv, InterlockTypeOK
<1>6. \A x \in Radios : ForceOwed(x) => ForceOwed(x)'
    BY <1>1, <1>3, <1>5, DebtStays
<1>7. /\ unforced \subseteq unforced'
      /\ \A x \in DOMAIN locks :
            \/ x \in DOMAIN locks' /\ locks'[x].token = locks[x].token
            \/ <<x, locks[x].token>> \in unforced'
    BY <1>3, UnforcedIsNoted
<1>8. CarrierHasLease'
    BY <1>3, <1>6, <1>7, CarrierKept DEF InterlockInv
<1> QED BY <1>4, <1>8

\* A handler that leaves the manager alone: it finishes, and a radio that is
\* keyed outside a lease in force is marked as keyed late.
LEMMA HandlerPreserves ==
    ASSUME InterlockInv, UNCHANGED <<vars, enabled, forced, unforced>>,
           NEW u \in Users, request[u].at = "admitted", Finishes(u),
           NEW r \in Radios, NEW by \in Keying, NEW c \in Carrier \cup {Off},
           c # Off => c.late \/ (Has(r) /\ TokenEqual(r, c.token)),
           carrier' = [carrier EXCEPT ![r][by] = c]
    PROVE  InterlockTypeOK' /\ CarrierHasLease'
<1>1. gen' = gen /\ gen \in Nat /\ onExpire' = onExpire /\ locks' = locks
    BY DEF vars, InterlockInv, LeaseInv, TypeOK
<1>2. /\ carrier' \in [Radios -> [Keying -> Carrier \cup {Off}]]
      /\ carrier'[r][by] = c
      /\ \A x \in Radios, k \in Keying :
            x # r \/ k # by => carrier'[x][k] = carrier[x][k]
    BY DEF InterlockInv, InterlockTypeOK
<1>3. InterlockTypeOK'
    <2>1. UNCHANGED <<enabled, forced>> /\ gen' \in Nat /\ gen <= gen'
          /\ onExpire \subseteq onExpire'
        BY <1>1
    <2>2. Idle \in Request \cup {Idle} /\ request' = [request EXCEPT ![u] = Idle]
        BY DEF Finishes
    <2> QED BY <1>2, <2>1, <2>2, RequestMoves
<1>4. \A v \in Users : request[v].at = "forcing" => request'[v] = request[v]
    BY DEF Finishes, InterlockInv, InterlockTypeOK
<1>5. \A x \in Radios : ForceOwed(x) => ForceOwed(x)'
    BY <1>1, <1>4, DebtStays
<1>6. CarrierHasLease'
    BY <1>1, <1>2, <1>5 DEF CarrierHasLease, Has, TokenEqual, InterlockInv
<1> QED BY <1>3, <1>6

\* ForceRX, and with it the end of the debt it pays.
LEMMA ForcingPreserves ==
    ASSUME InterlockInv, UNCHANGED <<locks, gen, onExpire, enabled, unforced>>,
           NEW r \in Radios, ForceRX(r), InterlockTypeOK',
           \A x \in Radios : x # r /\ ForceOwed(x) => ForceOwed(x)'
    PROVE  CarrierHasLease'
<1>1. /\ \A by \in Keying : carrier'[r][by] = Off \/ carrier'[r][by].kept
      /\ \A x \in Radios : x # r => carrier'[x] = carrier[x]
    BY ForceRXClears DEF InterlockInv
<1> QED BY <1>1 DEF CarrierHasLease, Has, TokenEqual, InterlockInv
\* InterlockInv is inductive.
LEMMA InterlockStep ==
    ASSUME InterlockInv, [InterlockNext]_allVars
    PROVE  InterlockInv'
<1>1. [Next]_vars
    BY LeasesMove
<1>2. LeaseInv' /\ ExpiredIsGone'
    BY <1>1, NextLeaseInv, ExpiredStaysGone DEF InterlockInv
<1>3. gen' \in Nat /\ gen <= gen' /\ onExpire \subseteq onExpire'
    BY <1>1, LeaseStep DEF InterlockInv
<1>4. gen \in Nat /\ forced \subseteq onExpire /\ InterlockTypeOK
    BY DEF InterlockInv, InterlockTypeOK, LeaseInv, TypeOK
<1>5. ASSUME NEW u \in Users, NEW r \in Radios, NEW token \in Presentable,
             NEW act \in Acts, Gate(u, r, token, act)
      PROVE  InterlockTypeOK' /\ CarrierHasLease'
    BY <1>1, <1>5, GatePreserves
<1>6. ASSUME NEW u \in Users, NEW by \in Keying, Keys(u, by)
      PROVE  InterlockTypeOK' /\ CarrierHasLease'
    <2> DEFINE r == request[u].radio
               c == [token |-> request[u].token,
                     late |-> ~InForce(r, request[u].token), kept |-> FALSE]
    <2>1. /\ request[u].at = "admitted" /\ Finishes(u)
          /\ UNCHANGED <<vars, enabled, forced, unforced>>
          /\ carrier' = [carrier EXCEPT ![r][by] = c]
        BY <1>6 DEF Keys, Admitted
    <2>2. r \in Radios /\ request[u].token \in Nat
        BY <1>4, <2>1, RequestsArePresentable DEF Idle, Presentable
    <2>3. c \in Carrier /\ (c.late \/ (Has(r) /\ TokenEqual(r, c.token)))
        BY <2>2 DEF Carrier, InForce
    <2> HIDE DEF r, c
    <2> QED BY <2>1, <2>2, <2>3, HandlerPreserves
<1>7. ASSUME NEW u \in Users, NEW by \in Keying, Unkeys(u, by)
      PROVE  InterlockTypeOK' /\ CarrierHasLease'
    <2>1. /\ request[u].at = "admitted" /\ Finishes(u)
          /\ UNCHANGED <<vars, enabled, forced, unforced>>
          /\ carrier' = [carrier EXCEPT ![request[u].radio][by] = Off]
        BY <1>7 DEF Unkeys, Admitted
    <2>2. request[u].radio \in Radios
        BY <2>1, RequestsArePresentable DEF Idle
    <2> QED BY <2>1, <2>2, HandlerPreserves
<1>8. ASSUME NEW u \in Users, Refused(u) PROVE InterlockTypeOK' /\ CarrierHasLease'
    <2>1. /\ request[u].at = "admitted" /\ request' = [request EXCEPT ![u] = Idle]
          /\ locks' = locks /\ UNCHANGED <<enabled, carrier, forced, unforced>>
        BY <1>8 DEF Refused, Finishes, vars
    <2>2. InterlockTypeOK'
        <3>1. Idle \in Request \cup {Idle}
            OBVIOUS
        <3>2. carrier' \in [Radios -> [Keying -> Carrier \cup {Off}]]
            BY <2>1, <1>4 DEF InterlockTypeOK
        <3> QED BY <1>3, <2>1, <3>1, <3>2, RequestMoves
    <2>3. \A v \in Users : request[v].at = "forcing" => request'[v] = request[v]
        BY <1>4, <2>1 DEF InterlockTypeOK
    <2>4. \A x \in Radios : ForceOwed(x) => ForceOwed(x)'
        BY <1>3, <2>1, <2>3, DebtStays
    <2> QED BY <1>4, <2>1, <2>2, <2>4, CarrierKept DEF InterlockInv
<1>9. ASSUME NEW u \in Users, RenewLock(u) PROVE InterlockTypeOK' /\ CarrierHasLease'
    <2>1. /\ request[u].at = "admitted" /\ request' = [request EXCEPT ![u] = Idle]
          /\ EndsUnforced \/ UNCHANGED <<locks, unforced>>
          /\ UNCHANGED <<enabled, carrier, forced>>
        BY <1>9 DEF RenewLock, Admitted, Finishes, vars
    <2>2. InterlockTypeOK'
        <3>1. Idle \in Request \cup {Idle}
            OBVIOUS
        <3>2. carrier' \in [Radios -> [Keying -> Carrier \cup {Off}]]
            BY <2>1, <1>4 DEF InterlockTypeOK
        <3> QED BY <1>3, <2>1, <3>1, <3>2, RequestMoves
    <2>3. \A v \in Users : request[v].at = "forcing" => request'[v] = request[v]
        BY <1>4, <2>1 DEF InterlockTypeOK
    <2>4. \A x \in Radios : ForceOwed(x) => ForceOwed(x)'
        BY <1>3, <2>1, <2>3, DebtStays
    <2>5. /\ unforced \subseteq unforced'
          /\ \A x \in DOMAIN locks :
                \/ x \in DOMAIN locks' /\ locks'[x].token = locks[x].token
                \/ <<x, locks[x].token>> \in unforced'
        BY <2>1, UnforcedIsNoted
    <2> QED BY <1>4, <2>1, <2>2, <2>4, <2>5, CarrierKept DEF InterlockInv
<1>10. ASSUME NEW u \in Users, ReleaseLock(u) PROVE InterlockTypeOK' /\ CarrierHasLease'
    <2> DEFINE r == request[u].radio
               q == [request[u] EXCEPT !.at = "forcing"]
    <2>1. /\ request[u].at = "admitted" /\ request[u] \in Request
          /\ request[u].token <= gen /\ r \in Radios
          /\ UNCHANGED <<enabled, carrier, forced, unforced>>
        BY <1>4, <1>10 DEF ReleaseLock, Admitted, Idle, InterlockTypeOK, Request
    <2>2. q \in Request /\ q.at = "forcing" /\ q.radio = r /\ q.token <= gen'
        <3>1. gen <= gen' /\ request[u].token \in Nat
            BY <1>3, <2>1 DEF Request
        <3> QED BY <1>3, <1>4, <2>1, <3>1 DEF Request
    <2>3. \/ /\ request' = [request EXCEPT ![u] = q]
             /\ Has(r) /\ RemoveLocked(r)
          \/ request' = [request EXCEPT ![u] = Idle] /\ locks' = locks
        BY <1>10 DEF ReleaseLock, Admitted, Finishes, Release, Refuses, Returns, vars
    <2>4. carrier' \in [Radios -> [Keying -> Carrier \cup {Off}]]
        BY <2>1, <1>4 DEF InterlockTypeOK
    <2>5. \A v \in Users : request[v].at = "forcing" => request'[v] = request[v]
        BY <1>4, <2>1, <2>3 DEF InterlockTypeOK
    <2>6. \A x \in Radios : ForceOwed(x) => ForceOwed(x)'
        BY <1>3, <2>1, <2>5, DebtStays
    <2> HIDE DEF q
    <2>7. InterlockTypeOK'
        <3>1. Idle \in Request \cup {Idle} /\ q \in Request \cup {Idle}
            BY <2>2
        <3>2. CASE request' = [request EXCEPT ![u] = q]
            BY <1>3, <2>1, <2>2, <2>4, <3>1, <3>2, RequestMoves
        <3>3. CASE request' = [request EXCEPT ![u] = Idle]
            BY <1>3, <2>1, <2>4, <3>1, <3>3, RequestMoves
        <3> QED BY <2>3, <3>2, <3>3
    <2>8. ASSUME NEW x \in DOMAIN locks
          PROVE  \/ x \in DOMAIN locks' /\ locks'[x].token = locks[x].token
                 \/ ForceOwed(x)'
        <3>1. CASE request' = [request EXCEPT ![u] = q] /\ RemoveLocked(r) /\ x = r
            <4>1. request'[u] = q
                BY <1>4, <3>1 DEF InterlockTypeOK
            <4> QED BY <2>2, <3>1, <4>1 DEF ForceOwed
        <3>2. CASE RemoveLocked(r) /\ x # r
            BY <3>2 DEF RemoveLocked
        <3>3. CASE locks' = locks
            BY <3>3
        <3> QED BY <2>3, <3>1, <3>2, <3>3
    <2> QED BY <1>4, <2>1, <2>6, <2>7, <2>8, CarrierKept DEF InterlockInv
<1>11. ASSUME NEW u \in Users, ReleaseForces(u) PROVE InterlockTypeOK' /\ CarrierHasLease'
    <2>1. /\ request[u].at = "forcing" /\ ForceRX(request[u].radio)
          /\ request' = [request EXCEPT ![u] = Idle]
          /\ UNCHANGED <<locks, gen, onExpire, enabled, forced, unforced>>
        BY <1>11 DEF ReleaseForces, Finishes, vars
    <2>2. request[u].radio \in Radios
        BY <2>1, RequestsArePresentable DEF Idle
    <2>3. InterlockTypeOK'
        <3>1. carrier' \in [Radios -> [Keying -> Carrier \cup {Off}]]
            BY <1>4, <2>1, <2>2, ForceRXClears
        <3>2. Idle \in Request \cup {Idle}
            OBVIOUS
        <3> QED BY <1>3, <2>1, <3>1, <3>2, RequestMoves
    <2>4. ASSUME NEW x \in Radios, x # request[u].radio, ForceOwed(x)
          PROVE  ForceOwed(x)'
        <3>1. \A v \in Users : v # u => request'[v] = request[v]
            BY <1>4, <2>1 DEF InterlockTypeOK
        <3> QED BY <2>1, <2>4, <3>1 DEF ForceOwed
    <2> QED BY <2>1, <2>2, <2>3, <2>4, ForcingPreserves
<1>12. ASSUME EndsUnforced, UNCHANGED <<enabled, request, carrier, forced>>
       PROVE  InterlockTypeOK' /\ CarrierHasLease'
    <2>1. EndsUnforced /\ UNCHANGED <<enabled, request, carrier, forced>>
        BY <1>12
    <2>2. \A x \in Radios : ForceOwed(x) => ForceOwed(x)'
        BY <1>3, <2>1, DebtStays
    <2>3. InterlockTypeOK'
        BY <1>3, <1>4, <2>1, TypesStay
    <2> QED BY <1>4, <2>1, <2>2, <2>3, UnforcedIsNoted, CarrierKept DEF InterlockInv
<1>13. ASSUME NEW r \in Radios, NEW g \in 1..gen, OnExpire(r, g)
       PROVE  InterlockTypeOK' /\ CarrierHasLease'
    <2>1. /\ <<r, g>> \in onExpire /\ ForceRX(r) /\ forced' = forced \cup {<<r, g>>}
          /\ UNCHANGED <<locks, gen, onExpire, enabled, request, unforced>>
        BY <1>13 DEF OnExpire, vars
    <2>2. InterlockTypeOK'
        BY <1>4, <2>1, ForceRXClears DEF InterlockTypeOK
    <2>3. ASSUME NEW x \in Radios, x # r, ForceOwed(x) PROVE ForceOwed(x)'
        BY <2>1, <2>3 DEF ForceOwed
    <2> QED BY <2>1, <2>2, <2>3, ForcingPreserves
<1>14. ASSUME Background PROVE InterlockTypeOK' /\ CarrierHasLease'
    <2>1. UNCHANGED <<enabled, request, carrier, forced, unforced>>
        BY <1>14 DEF Background, apiVars
    <2>2. \A x \in Radios : ForceOwed(x) => ForceOwed(x)'
        BY <1>3, <2>1, DebtStays
    <2>3. InterlockTypeOK'
        BY <1>3, <1>4, <2>1, TypesStay
    <2>4. ASSUME NEW x \in DOMAIN locks
          PROVE  \/ x \in DOMAIN locks' /\ locks'[x].token = locks[x].token
                 \/ ForceOwed(x)'
        <3>1. CASE \E r \in Radios : TimerFires(r)
            BY <3>1 DEF TimerFires, Has, InterlockInv, LeaseInv, TypeOK, Entry
        <3>2. CASE Tick
            BY <3>2 DEF Tick
        <3>3. ASSUME NEW r \in Radios, NEW g \in 1..gen, Expire(r, g), x \notin DOMAIN locks'
              PROVE  ForceOwed(x)'
            <4>1. /\ x = r /\ locks[r].gen = g /\ <<r, g>> \in onExpire' /\ gen' = gen
                BY <3>3 DEF Expire, RemoveLocked
            <4>2. <<r, g>> \notin forced'
                BY <1>4, <2>1, <4>1 DEF InterlockInv, ExpiredIsGone
            <4> QED BY <4>1, <4>2 DEF ForceOwed
        <3>4. ASSUME NEW r \in Radios, NEW g \in 1..gen, Expire(r, g), x \in DOMAIN locks'
              PROVE  locks'[x].token = locks[x].token
            BY <3>4 DEF Expire, RemoveLocked
        <3> QED BY <1>14, <3>1, <3>2, <3>3, <3>4 DEF Background
    <2>5. unforced \subseteq unforced'
        BY <2>1
    <2> QED BY <1>4, <2>1, <2>2, <2>3, <2>4, <2>5, CarrierKept DEF InterlockInv
<1>15. ASSUME UNCHANGED allVars PROVE InterlockTypeOK' /\ CarrierHasLease'
    <2>1. UNCHANGED <<locks, gen, onExpire, enabled, request, carrier, forced, unforced>>
        BY <1>15 DEF allVars, apiVars, vars
    <2>2. \A x \in Radios : ForceOwed(x) => ForceOwed(x)'
        BY <2>1 DEF ForceOwed
    <2>3. InterlockTypeOK'
        BY <1>3, <1>4, <2>1, TypesStay
    <2> QED BY <1>4, <2>1, <2>2, <2>3, CarrierKept DEF InterlockInv
<1>16. InterlockTypeOK' /\ CarrierHasLease'
    <2>1. ASSUME NEW u \in Users, NEW r \in Radios, NEW force \in BOOLEAN,
                 AcquireLock(u, r, force)
          PROVE  EndsUnforced /\ UNCHANGED <<enabled, request, carrier, forced>>
        BY <2>1 DEF AcquireLock
    <2>2. ASSUME NEW r \in Radios, GetLock(r)
          PROVE  EndsUnforced /\ UNCHANGED <<enabled, request, carrier, forced>>
        BY <2>2 DEF GetLock
    <2>3. Shutdown => EndsUnforced /\ UNCHANGED <<enabled, request, carrier, forced>>
        BY DEF Shutdown
    <2> QED BY <1>5, <1>6, <1>7, <1>8, <1>9, <1>10, <1>11, <1>12, <1>13, <1>14, <1>15,
               <2>1, <2>2, <2>3 DEF InterlockNext
<1> QED BY <1>2, <1>16 DEF InterlockInv

-----------------------------------------------------------------------------
(* The theorems, of the specification with both gates                       *)

\* While the admission gate moves, the leases stand still.
LEMMA AccessStep ==
    ASSUME InterlockInv, [AccessNext]_accessVars
    PROVE  InterlockInv' /\ [InterlockNext]_allVars /\ [Next]_vars
<1>1. [InterlockNext]_allVars
    BY DEF AccessNext, OnAdmission, OnLeases, accessVars
<1> QED BY <1>1, InterlockStep, LeasesMove

\* InterlockInv holds in every reachable state.
THEOREM InterlockInvariant == AccessSpec => []InterlockInv
<1>1. AccessInit => InterlockInv
    BY InitInterlockInv DEF AccessInit
<1>2. InterlockInv /\ [AccessNext]_accessVars => InterlockInv'
    BY AccessStep
<1> QED BY <1>1, <1>2, PTL DEF AccessSpec

\* A radio transmits under the lease of the request that keyed it, or receive
\* is about to be forced, or it does for one of the named reasons (requireLock,
\* Manager.expire, releaseLock).
THEOREM TransmitterHasLease == AccessSpec => []CarrierHasLease
BY InterlockInvariant, PTL DEF InterlockInv

\* Behind the API the manager is still an exclusive lease, and its callbacks
\* start only for leases that have lapsed: no handler does to it what its own
\* methods would not.
THEOREM LeaseBehindTheAPI == AccessSpec => ImplementsExclusiveLease /\ ExpiryOnlyOfTheLapsed
<1>1. AccessInit /\ [][AccessNext]_accessVars => Spec
    <2>1. AccessInit => Init
        BY DEF AccessInit, InterlockInit
    <2>2. AccessInit => InterlockInv
        BY InitInterlockInv DEF AccessInit
    <2>3. InterlockInv /\ [AccessNext]_accessVars => InterlockInv' /\ [Next]_vars
        BY AccessStep
    <2> QED BY <2>1, <2>2, <2>3, PTL DEF Spec
<1> QED BY <1>1, LeaseRefinement, OnlyLapsedLeasesExpire, PTL DEF AccessSpec

-----------------------------------------------------------------------------
(* Who is let in (Admission)                                                *)

\* In a store whose ids rise, what a loop keeps is in the store and rises too.
LEMMA KeptTickets ==
    ASSUME NEW s \in Seq(Admit!Ticket), NEW S,
           \A j, k \in 1..Len(s) : j < k => s[j].id < s[k].id
    PROVE  /\ Admit!Kept(s, S) \in Seq(Admit!Ticket)
           /\ Admit!In(Admit!Kept(s, S)) = Admit!In(s) \cap S
           /\ \A j, k \in 1..Len(Admit!Kept(s, S)) :
                  j < k => Admit!Kept(s, S)[j].id < Admit!Kept(s, S)[k].id
<1>1. Admit!Kept(s, S) = Kept(s, S)
    BY DEF Kept, Admit!Kept
<1> DEFINE R == {p \in Admit!Ticket \X Admit!Ticket : p[1].id < p[2].id}
<1>2. /\ Kept(s, S) \in Seq(Admit!Ticket \cap S)
      /\ Len(Kept(s, S)) <= Len(s)
      /\ In(Kept(s, S)) = In(s) \cap S
    BY KeptType
<1>3. Kept(s, S) \in Seq(Admit!Ticket)
    BY <1>2
<1>5. \A i, j \in 1..Len(s) : i < j => <<s[i], s[j]>> \in R
    <2>1. \A i \in 1..Len(s) : s[i] \in Admit!Ticket
        BY ElementOfSeq
    <2> QED BY <2>1
<1>6. \A i, j \in 1..Len(Kept(s, S)) : i < j => <<Kept(s, S)[i], Kept(s, S)[j]>> \in R
    <2> HIDE DEF R
    <2> QED BY <1>5, KeptInOrder
<1>7. \A i, j \in 1..Len(Kept(s, S)) : i < j => Kept(s, S)[i].id < Kept(s, S)[j].id
    BY <1>6
<1> QED BY <1>1, <1>2, <1>3, <1>7 DEF In, Admit!In

\* What a sweep leaves in the store.
LEMMA Swept ==
    ASSUME Admit!AdmissionInv, NEW asOf
    PROVE  /\ Admit!Sweep(asOf) \in Seq(Admit!Ticket)
           /\ Admit!In(Admit!Sweep(asOf)) = {t \in Admit!In(tickets) : asOf < t.expires}
           /\ \A j, k \in 1..Len(Admit!Sweep(asOf)) :
                  j < k => Admit!Sweep(asOf)[j].id < Admit!Sweep(asOf)[k].id
<1>1. /\ tickets \in Seq(Admit!Ticket)
      /\ \A j, k \in 1..Len(tickets) : j < k => tickets[j].id < tickets[k].id
    BY DEF Admit!AdmissionInv, Admit!TypeOK, Admit!StoreInOrder
<1> QED BY <1>1, KeptTickets DEF Admit!Sweep

\* A ticket of the store is the one issued under its number.
LEMMA InStore ==
    ASSUME Admit!AdmissionInv, NEW t \in Admit!In(tickets)
    PROVE  /\ t.id \in 1..Len(issued) /\ t = issued[t.id] /\ Admit!Stored(t.id)
           /\ t \in Admit!Ticket
<1>1. PICK k \in 1..Len(tickets) : t = tickets[k]
    BY DEF Admit!In
<1>2. t.id \in 1..Len(issued) /\ t = issued[t.id]
    BY <1>1 DEF Admit!AdmissionInv, Admit!StoreInOrder
<1>3. t \in Admit!Ticket
    BY <1>1, ElementOfSeq DEF Admit!AdmissionInv, Admit!TypeOK
<1> QED BY <1>2, <1>3 DEF Admit!Stored

\* Nothing issued, nobody admitted (New, NewHub).
LEMMA InitAdmissionInv ==
    ASSUME AccessAssumption, Admit!Init
    PROVE  Admit!AdmissionInv
<1>1. /\ cache = <<>> /\ impostor = FALSE /\ clock = 0 /\ tickets = <<>> /\ issued = <<>>
      /\ admitted = <<>> /\ serving = [q \in Requests |-> Admit!Idle]
    BY DEF Admit!Init
<1>2. Len(tickets) = 0 /\ Len(issued) = 0 /\ Len(admitted) = 0 /\ DOMAIN cache = {}
    BY <1>1
<1>3. /\ tickets \in Seq(Admit!Ticket) /\ issued \in Seq(Admit!Ticket)
      /\ admitted \in Seq([id : Nat, user : Users, now : Nat])
    BY <1>1, EmptySeq
<1>4. \A q \in Requests : serving[q] = Admit!Idle
    BY <1>1
<1>5. Admit!TypeOK
    BY <1>1, <1>3 DEF Admit!TypeOK, Admit!Idle
<1>6. Admit!StoreInOrder /\ Admit!AdmissionIsEarned
    BY <1>1, <1>2 DEF Admit!StoreInOrder, Admit!AdmissionIsEarned
<1>7. \A q \in Requests :
          serving[q].now <= clock /\ (Admit!Holds(q, "issue") => serving[q].user \in Users)
    <2> SUFFICES ASSUME NEW q \in Requests
                 PROVE  serving[q].now <= clock /\ serving[q].op # "issue"
        BY DEF Admit!Holds
    <2>0. serving[q] = [op |-> "idle", user |-> "none", id |-> 0, now |-> 0]
        BY <1>4 DEF Admit!Idle
    <2>1. serving[q].now = 0 /\ serving[q].op = "idle"
        BY <2>0
    <2> QED BY <1>1, <2>1
<1> QED BY <1>2, <1>5, <1>6, <1>7 DEF Admit!AdmissionInv

\* Time only lets more tickets lapse.
LEMMA ClockTicksAdmission ==
    ASSUME Admit!AdmissionInv, Admit!ClockTicks
    PROVE  Admit!AdmissionInv'
<1>1. /\ clock \in Nat /\ clock' = clock + 1 /\ clock' \in Nat
      /\ UNCHANGED <<serving, cache, impostor, tickets, issued, admitted>>
    BY DEF Admit!ClockTicks, Admit!cacheVars, Admit!ticketVars, Admit!AdmissionInv, Admit!TypeOK
<1>2. Admit!TypeOK' /\ Admit!StoreInOrder'
    <2>1. Admit!TypeOK'
        BY <1>1 DEF Admit!AdmissionInv, Admit!TypeOK
    <2>2. Admit!StoreInOrder'
        BY <1>1 DEF Admit!AdmissionInv, Admit!StoreInOrder
    <2> QED BY <2>1, <2>2
<1>3. Admit!AdmissionIsEarned'
    <2>1. \A id \in 1..Len(issued) : issued[id].expires \in Nat
        <3>1. \A id \in 1..Len(issued) : issued[id] \in Admit!Ticket
            BY ElementOfSeq DEF Admit!AdmissionInv, Admit!TypeOK
        <3> QED BY <3>1 DEF Admit!Ticket
    <2>2. \A id \in 1..Len(issued) : clock >= issued[id].expires => clock' >= issued[id].expires
        BY <1>1, <2>1
    <2>3. ASSUME NEW id \in 1..Len(issued)
          PROVE  /\ Admit!Stored(id)' <=> Admit!Stored(id)
                 /\ Admit!Used(id)' <=> Admit!Used(id)
        BY <1>1 DEF Admit!Stored, Admit!Used, Admit!In
    <2>4. /\ ~impostor
          /\ \A i \in 1..Len(admitted) : /\ admitted[i].user = issued[admitted[i].id].user
                                        /\ admitted[i].now < issued[admitted[i].id].expires
          /\ \A i, j \in 1..Len(admitted) : admitted[i].id = admitted[j].id => i = j
          /\ \A id \in 1..Len(issued) :
                /\ ~(Admit!Stored(id) /\ Admit!Used(id))
                /\ \/ Admit!Stored(id) \/ Admit!Used(id) \/ clock >= issued[id].expires
                   \/ id + MaxTickets <= Len(issued)
        BY DEF Admit!AdmissionInv, Admit!AdmissionIsEarned
    <2>5. ASSUME NEW id \in 1..Len(issued)
          PROVE  /\ ~(Admit!Stored(id)' /\ Admit!Used(id)')
                 /\ \/ Admit!Stored(id)' \/ Admit!Used(id)' \/ clock' >= issued[id].expires
                    \/ id + MaxTickets <= Len(issued)
        BY <2>2, <2>3, <2>4
    <2> QED BY <1>1, <2>4, <2>5 DEF Admit!AdmissionIsEarned
<1>4. \A q \in Requests : serving[q].now <= clock'
    <2>1. \A q \in Requests : serving[q].now \in Nat /\ serving[q].now <= clock
        BY DEF Admit!AdmissionInv, Admit!TypeOK
    <2> QED BY <1>1, <2>1
<1> QED BY <1>1, <1>2, <1>3, <1>4 DEF Admit!AdmissionInv, Admit!Holds

\* Only what passes the comparison is cached, under name and password.
LEMMA VerifiesAdmission ==
    ASSUME Admit!AdmissionInv, NEW c \in Admit!Credentials, Admit!Verifies(c)
    PROVE  Admit!AdmissionInv'
<1>1. UNCHANGED <<clock, serving, tickets, issued, admitted>>
    BY DEF Admit!Verifies, Admit!ticketVars
<1>2. \A x \in DOMAIN cache : Admit!Right(x)
    BY DEF Admit!AdmissionInv
<1>3. ~impostor /\ impostor' = FALSE
    BY <1>2 DEF Admit!AdmissionInv, Admit!AdmissionIsEarned, Admit!Verifies, Admit!CacheKey
<1>4. \A x \in DOMAIN cache' : Admit!Right(x)
    BY <1>2 DEF Admit!Verifies, Admit!CacheKey, Admit!Right
<1>5. Admit!TypeOK' /\ Admit!StoreInOrder'
    BY <1>1 DEF Admit!AdmissionInv, Admit!TypeOK, Admit!StoreInOrder
<1>6. Admit!AdmissionIsEarned'
    BY <1>1, <1>3
    DEF Admit!AdmissionInv, Admit!AdmissionIsEarned, Admit!Stored, Admit!Used, Admit!In
<1> QED BY <1>1, <1>4, <1>5, <1>6 DEF Admit!AdmissionInv, Admit!Holds, Admit!Right

\* A request that reads the clock and waits for the mutex.
LEMMA ArrivesAdmission ==
    ASSUME Admit!AdmissionInv, NEW q \in Requests,
           \/ \E u \in Users : Admit!AsksForTicket(q, u)
           \/ \E id \in 0..Len(issued) : Admit!PresentsTicket(q, id)
    PROVE  Admit!AdmissionInv'
<1>0. UNCHANGED <<clock, cache, impostor, tickets, issued, admitted>>
    BY DEF Admit!AsksForTicket, Admit!PresentsTicket, Admit!cacheVars, Admit!ticketVars
<1>1. \E r \in [op : {"issue", "redeem"}, user : Users \cup {"none"}, id : Nat, now : Nat] :
            /\ serving' = [serving EXCEPT ![q] = r] /\ r.now = clock
            /\ r.op = "issue" => r.user \in Users
    <2>1. clock \in Nat /\ Len(issued) \in Nat
        BY LenProperties DEF Admit!AdmissionInv, Admit!TypeOK
    <2>2. CASE \E u \in Users : Admit!AsksForTicket(q, u)
        <3>1. PICK u \in Users : Admit!AsksForTicket(q, u)
            BY <2>2
        <3> DEFINE r == [op |-> "issue", user |-> u, id |-> 0, now |-> clock]
        <3>2. serving' = [serving EXCEPT ![q] = r]
            BY <3>1 DEF Admit!AsksForTicket
        <3>3. /\ r \in [op : {"issue", "redeem"}, user : Users \cup {"none"}, id : Nat, now : Nat]
              /\ r.now = clock /\ (r.op = "issue" => r.user \in Users)
            BY <2>1
        <3> HIDE DEF r
        <3> QED BY <3>2, <3>3
    <2>3. CASE \E id \in 0..Len(issued) : Admit!PresentsTicket(q, id)
        <3>1. PICK id \in 0..Len(issued) : Admit!PresentsTicket(q, id)
            BY <2>3
        <3> DEFINE r == [op |-> "redeem", user |-> "none", id |-> id, now |-> clock]
        <3>2. serving' = [serving EXCEPT ![q] = r]
            BY <3>1 DEF Admit!PresentsTicket
        <3>3. /\ r \in [op : {"issue", "redeem"}, user : Users \cup {"none"}, id : Nat, now : Nat]
              /\ r.now = clock /\ (r.op = "issue" => r.user \in Users)
            BY <2>1
        <3> HIDE DEF r
        <3> QED BY <3>2, <3>3
    <2> QED BY <2>2, <2>3
<1>2. PICK r \in [op : {"issue", "redeem"}, user : Users \cup {"none"}, id : Nat, now : Nat] :
            /\ serving' = [serving EXCEPT ![q] = r] /\ r.now = clock
            /\ r.op = "issue" => r.user \in Users
    BY <1>1
<1>3. /\ clock \in Nat
      /\ serving \in [Requests -> [op : {"idle", "issue", "redeem"}, user : Users \cup {"none"},
                                   id : Nat, now : Nat]]
    BY DEF Admit!AdmissionInv, Admit!TypeOK
<1>4. \A p \in Requests : serving'[p] = IF p = q THEN r ELSE serving[p]
    BY <1>2, <1>3
<1>5. Admit!TypeOK' /\ Admit!StoreInOrder'
    <2>1. serving' \in [Requests -> [op : {"idle", "issue", "redeem"}, user : Users \cup {"none"},
                                    id : Nat, now : Nat]]
        BY <1>2, <1>3
    <2> QED BY <1>0, <2>1 DEF Admit!AdmissionInv, Admit!TypeOK, Admit!StoreInOrder
<1>6. Admit!AdmissionIsEarned'
    <2>1. ~impostor'
        BY <1>0 DEF Admit!AdmissionInv, Admit!AdmissionIsEarned
    <2> QED BY <1>0, <2>1
            DEF Admit!AdmissionInv, Admit!AdmissionIsEarned, Admit!Stored, Admit!Used, Admit!In
<1>7. \A p \in Requests : /\ serving'[p].now <= clock'
                          /\ serving'[p].op = "issue" => serving'[p].user \in Users
    <2> SUFFICES ASSUME NEW p \in Requests
                 PROVE  /\ serving'[p].now <= clock
                        /\ serving'[p].op = "issue" => serving'[p].user \in Users
        BY <1>0
    <2>1. CASE p = q
        <3>1. serving'[p] = r
            BY <1>4, <2>1
        <3> QED BY <1>2, <1>3, <3>1
    <2>2. CASE p # q
        BY <1>4, <2>2 DEF Admit!AdmissionInv, Admit!Holds
    <2> QED BY <2>1, <2>2
<1> QED BY <1>0, <1>5, <1>6, <1>7 DEF Admit!AdmissionInv, Admit!Holds, Admit!Right

\* What a request that is served does to the requests.
LEMMA ServedRequests ==
    ASSUME Admit!AdmissionInv, NEW q \in Requests, UNCHANGED clock,
           serving' = [serving EXCEPT ![q] = Admit!Idle]
    PROVE  /\ serving' \in [Requests -> [op : {"idle", "issue", "redeem"},
                                         user : Users \cup {"none"}, id : Nat, now : Nat]]
           /\ \A p \in Requests : /\ serving'[p].now <= clock'
                                  /\ serving'[p].op = "issue" => serving'[p].user \in Users
<1>1. /\ clock \in Nat
      /\ serving \in [Requests -> [op : {"idle", "issue", "redeem"}, user : Users \cup {"none"},
                                   id : Nat, now : Nat]]
    BY DEF Admit!AdmissionInv, Admit!TypeOK
<1>2. Admit!Idle \in [op : {"idle", "issue", "redeem"}, user : Users \cup {"none"},
                      id : Nat, now : Nat]
    BY DEF Admit!Idle
<1>3. Admit!Idle.now = 0 /\ Admit!Idle.op = "idle"
    BY DEF Admit!Idle
<1>4. \A p \in Requests : serving'[p] = IF p = q THEN Admit!Idle ELSE serving[p]
    BY <1>1
<1>5. ASSUME NEW p \in Requests
      PROVE  /\ serving'[p].now <= clock'
             /\ serving'[p].op = "issue" => serving'[p].user \in Users
    <2>1. CASE p = q
        BY <1>1, <1>3, <1>4, <2>1
    <2>2. CASE p # q
        BY <1>4, <2>2 DEF Admit!AdmissionInv, Admit!Holds
    <2> QED BY <2>1, <2>2
<1>6. serving' \in [Requests -> [op : {"idle", "issue", "redeem"},
                                 user : Users \cup {"none"}, id : Nat, now : Nat]]
    BY <1>1, <1>2
<1> QED BY <1>5, <1>6

\* The store never holds more ids than were issued after its oldest.
LEMMA OldestInStore ==
    ASSUME NEW s \in Seq(Admit!Ticket), NEW n \in Nat, Len(s) # 0,
           \A k \in 1..Len(s) : s[k].id \in 1..n,
           \A j, k \in 1..Len(s) : j < k => s[j].id < s[k].id
    PROVE  s[1].id + Len(s) <= n + 1
<1>1. Len(s) \in Nat /\ Len(s) \in 1..Len(s) /\ 1 \in 1..Len(s)
    BY LenProperties
<1> DEFINE f == [k \in 1..Len(s) |-> s[k].id]
<1>2. \A k \in 1..Len(s) : f[k] = s[k].id /\ f[k] \in Nat
    OBVIOUS
<1>3. \A j, k \in 1..Len(s) : j < k => f[j] < f[k]
    BY <1>2
<1> HIDE DEF f
<1>4. f[1] + Len(s) <= f[Len(s)] + 1
    BY <1>1, <1>2, <1>3, RisingRoom
<1>5. f[1] = s[1].id /\ f[Len(s)] = s[Len(s)].id /\ s[Len(s)].id \in 1..n /\ f[1] \in Nat
    BY <1>1, <1>2
<1> QED BY <1>1, <1>4, <1>5

\* A new ticket comes last; only at the cap does a live one, the oldest, go.
LEMMA IssuesAdmission ==
    ASSUME AccessAssumption, Admit!AdmissionInv, NEW q \in Requests, Admit!Issues(q)
    PROVE  Admit!AdmissionInv'
<1>1. PICK asOf, live, n : asOf = serving[q].now /\ live = Admit!Sweep(asOf) /\ n = Len(issued)
    OBVIOUS
<1>2. PICK t : t = [id |-> n + 1, user |-> serving[q].user, expires |-> asOf + TicketTTL]
    OBVIOUS
<1>3. PICK base : base = IF Len(live) >= MaxTickets THEN Tail(live) ELSE live
    OBVIOUS
<1>4. /\ tickets' = Append(base, t) /\ issued' = Append(issued, t)
      /\ serving' = [serving EXCEPT ![q] = Admit!Idle]
      /\ UNCHANGED <<clock, cache, impostor, admitted>>
      /\ Admit!Holds(q, "issue")
    BY <1>1, <1>2, <1>3 DEF Admit!Issues, Admit!cacheVars
<1>5. /\ asOf \in Nat /\ asOf <= clock /\ clock \in Nat /\ n \in Nat
      /\ serving[q].user \in Users /\ issued \in Seq(Admit!Ticket)
    <2>1. asOf \in Nat /\ clock \in Nat /\ issued \in Seq(Admit!Ticket)
        BY <1>1 DEF Admit!AdmissionInv, Admit!TypeOK
    <2>2. asOf <= clock /\ serving[q].user \in Users
        BY <1>1, <1>4 DEF Admit!AdmissionInv
    <2> QED BY <1>1, <2>1, <2>2, LenProperties
<1>6. t \in Admit!Ticket /\ t.id = n + 1
    BY <1>2, <1>5 DEF Admit!Ticket, AccessAssumption
<1>7. /\ live \in Seq(Admit!Ticket) /\ Len(live) \in Nat
      /\ Admit!In(live) = {x \in Admit!In(tickets) : asOf < x.expires}
      /\ \A j, k \in 1..Len(live) : j < k => live[j].id < live[k].id
      /\ \A k \in 1..Len(live) : live[k] \in Admit!In(live) /\ live[k] \in Admit!In(tickets)
    <2>1. /\ live \in Seq(Admit!Ticket)
          /\ Admit!In(live) = {x \in Admit!In(tickets) : asOf < x.expires}
          /\ \A j, k \in 1..Len(live) : j < k => live[j].id < live[k].id
        BY <1>1, Swept
    <2>2. \A k \in 1..Len(live) : live[k] \in Admit!In(live)
        BY DEF Admit!In
    <2> QED BY <2>1, <2>2, LenProperties
<1>8. \A k \in 1..Len(live) : live[k].id \in 1..n /\ live[k] = issued[live[k].id]
    BY <1>1, <1>7, InStore
<1>9. /\ base \in Seq(Admit!Ticket) /\ Len(base) \in Nat
      /\ \A j, k \in 1..Len(base) : j < k => base[j].id < base[k].id
      /\ \A k \in 1..Len(base) : /\ base[k] \in Admit!In(tickets)
                                 /\ base[k].id \in 1..n /\ base[k] = issued[base[k].id]
      /\ \A x \in Admit!In(live) :
            x \in Admit!In(base) \/ (Len(live) >= MaxTickets /\ Len(live) # 0 /\ x = live[1])
    <2>1. CASE Len(live) >= MaxTickets
        <3>1. Len(live) # 0 /\ live # <<>> /\ base = Tail(live)
            BY <1>3, <1>7, <2>1, EmptySeq DEF AccessAssumption
        <3>2. /\ base \in Seq(Admit!Ticket) /\ Len(base) = Len(live) - 1
              /\ \A k \in 1..Len(base) : base[k] = live[k + 1]
            BY <1>7, <3>1, HeadTailProperties
        <3>3. \A k \in 1..Len(base) : k + 1 \in 1..Len(live)
            BY <1>7, <3>2
        <3>4. \A j, k \in 1..Len(base) : j < k => base[j].id < base[k].id
            BY <1>7, <3>2, <3>3
        <3>5. \A k \in 1..Len(base) : /\ base[k] \in Admit!In(tickets)
                                      /\ base[k].id \in 1..n /\ base[k] = issued[base[k].id]
            BY <1>7, <1>8, <3>2, <3>3
        <3>6. ASSUME NEW x \in Admit!In(live) PROVE x \in Admit!In(base) \/ x = live[1]
            <4>1. PICK k \in 1..Len(live) : x = live[k]
                BY DEF Admit!In
            <4>2. k = 1 \/ (k - 1 \in 1..Len(base) /\ base[k - 1] = live[k])
                BY <1>7, <3>2
            <4> QED BY <4>1, <4>2 DEF Admit!In
        <3>7. Len(base) \in Nat
            BY <3>2, LenProperties
        <3> QED BY <2>1, <3>1, <3>2, <3>4, <3>5, <3>6, <3>7
    <2>2. CASE ~(Len(live) >= MaxTickets)
        BY <1>3, <1>7, <1>8, <2>2
    <2> QED BY <2>1, <2>2
<1>10. /\ tickets' \in Seq(Admit!Ticket) /\ Len(tickets') = Len(base) + 1
       /\ \A k \in 1..Len(base) : tickets'[k] = base[k]
       /\ tickets'[Len(base) + 1] = t
    BY <1>4, <1>6, <1>9, AppendProperties
<1>11. /\ issued' \in Seq(Admit!Ticket) /\ Len(issued') = n + 1
       /\ \A id \in 1..n : issued'[id] = issued[id]
       /\ issued'[n + 1] = t
    BY <1>1, <1>4, <1>5, <1>6, AppendProperties
<1>12. Admit!TypeOK'
    BY <1>4, <1>10, <1>11, ServedRequests DEF Admit!AdmissionInv, Admit!TypeOK
<1>13. Admit!StoreInOrder'
    <2>1. \A k \in 1..Len(tickets') : k \in 1..Len(base) \/ k = Len(base) + 1
        BY <1>9, <1>10
    <2>2. ASSUME NEW k \in 1..Len(tickets')
          PROVE  tickets'[k].id \in 1..Len(issued') /\ tickets'[k] = issued'[tickets'[k].id]
        <3>1. CASE k \in 1..Len(base)
            <4>1. tickets'[k] = base[k]
                BY <1>10, <3>1
            <4>2. base[k].id \in 1..n /\ base[k] = issued[base[k].id]
                BY <1>9, <3>1
            <4>3. base[k].id \in 1..Len(issued') /\ issued'[base[k].id] = base[k]
                BY <1>5, <1>11, <4>2
            <4> QED BY <4>1, <4>3
        <3>2. CASE k = Len(base) + 1
            <4>1. tickets'[k] = t /\ t.id = n + 1
                BY <1>6, <1>10, <3>2
            <4>2. n + 1 \in 1..Len(issued') /\ issued'[n + 1] = t
                BY <1>5, <1>11
            <4> QED BY <4>1, <4>2
        <3> QED BY <2>1, <3>1, <3>2
    <2>3. ASSUME NEW j \in 1..Len(tickets'), NEW k \in 1..Len(tickets'), j < k
          PROVE  tickets'[j].id < tickets'[k].id
        <3>1. j \in 1..Len(base)
            BY <1>9, <1>10, <2>3
        <3>2. CASE k \in 1..Len(base)
            BY <1>9, <1>10, <2>3, <3>1, <3>2
        <3>3. CASE k = Len(base) + 1
            <4>1. tickets'[j].id \in 1..n /\ tickets'[k].id = n + 1
                BY <1>6, <1>9, <1>10, <3>1, <3>3
            <4> QED BY <1>5, <4>1
        <3> QED BY <2>1, <3>2, <3>3
    <2> QED BY <2>2, <2>3 DEF Admit!StoreInOrder
<1>14. \A id \in 1..Len(issued') : issued'[id].id = id
    BY <1>1, <1>5, <1>6, <1>11 DEF Admit!AdmissionInv
<1>15. \A i \in 1..Len(admitted) : admitted[i].id \in 1..n /\ admitted[i].id \in 1..Len(issued')
    BY <1>1, <1>5, <1>11 DEF Admit!AdmissionInv
<1>16. Admit!AdmissionIsEarned'
    <2>1. ~impostor'
        BY <1>4 DEF Admit!AdmissionInv, Admit!AdmissionIsEarned
    <2>2. \A i \in 1..Len(admitted) :
              LET a == admitted[i] IN a.user = issued'[a.id].user /\ a.now < issued'[a.id].expires
        BY <1>11, <1>15 DEF Admit!AdmissionInv, Admit!AdmissionIsEarned
    <2>3. ASSUME NEW id \in 1..n
          PROVE  /\ Admit!Stored(id)' => Admit!Stored(id)
                 /\ \/ Admit!Stored(id)' \/ Admit!Used(id) \/ clock >= issued[id].expires
                    \/ id + MaxTickets <= n + 1
        <3>1. issued'[id] = issued[id] /\ issued[id].id = id /\ id # n + 1
            BY <1>1, <1>5, <1>11 DEF Admit!AdmissionInv
        <3>2. ASSUME Admit!Stored(id)' PROVE Admit!Stored(id)
            <4>1. PICK k \in 1..Len(tickets') : issued[id] = tickets'[k]
                BY <3>1, <3>2 DEF Admit!Stored, Admit!In
            <4>2. k # Len(base) + 1
                BY <1>6, <1>10, <3>1, <4>1
            <4>3. k \in 1..Len(base)
                BY <1>9, <1>10, <4>2
            <4> QED BY <1>9, <1>10, <4>1, <4>3 DEF Admit!Stored
        <3>3. ASSUME Admit!Stored(id), ~(clock >= issued[id].expires)
              PROVE  Admit!Stored(id)' \/ id + MaxTickets <= n + 1
            <4>1. issued[id] \in Admit!Ticket
                BY <1>1, <1>5, ElementOfSeq
            <4>2. asOf < issued[id].expires
                BY <1>5, <3>3, <4>1 DEF Admit!Ticket
            <4>3. issued[id] \in Admit!In(live)
                BY <1>7, <3>3, <4>2 DEF Admit!Stored
            <4>4. CASE issued[id] \in Admit!In(base)
                <5>1. PICK k \in 1..Len(base) : issued[id] = base[k]
                    BY <4>4 DEF Admit!In
                <5>2. k \in 1..Len(tickets') /\ tickets'[k] = issued'[id]
                    BY <1>9, <1>10, <3>1, <5>1
                <5> QED BY <5>2 DEF Admit!Stored, Admit!In
            <4>5. CASE Len(live) >= MaxTickets /\ Len(live) # 0 /\ issued[id] = live[1]
                <5>1. live[1].id + Len(live) <= n + 1 /\ live[1].id = id
                    BY <1>5, <1>7, <1>8, <3>1, <4>5, OldestInStore
                <5> QED BY <1>5, <1>7, <4>5, <5>1 DEF AccessAssumption
            <4> QED BY <1>9, <4>3, <4>4, <4>5
        <3>4. \/ Admit!Stored(id) \/ Admit!Used(id) \/ clock >= issued[id].expires
              \/ id + MaxTickets <= n
            BY <1>1 DEF Admit!AdmissionInv, Admit!AdmissionIsEarned
        <3>5. id + MaxTickets <= n => id + MaxTickets <= n + 1
            BY <1>5 DEF AccessAssumption
        <3> QED BY <3>2, <3>3, <3>4, <3>5
    <2>4. Admit!Stored(n + 1)'
        <3>1. Len(base) + 1 \in 1..Len(tickets') /\ tickets'[Len(base) + 1] = issued'[n + 1]
            BY <1>9, <1>10, <1>11
        <3> QED BY <3>1 DEF Admit!Stored, Admit!In
    <2>5. ~Admit!Used(n + 1)
        BY <1>5, <1>15 DEF Admit!Used
    <2>6. ASSUME NEW id \in 1..Len(issued')
          PROVE  /\ ~(Admit!Stored(id)' /\ Admit!Used(id))
                 /\ \/ Admit!Stored(id)' \/ Admit!Used(id) \/ clock >= issued'[id].expires
                    \/ id + MaxTickets <= Len(issued')
        <3>1. CASE id = n + 1
            BY <2>4, <2>5, <3>1
        <3>2. CASE id \in 1..n
            BY <1>1, <1>11, <2>3, <3>2 DEF Admit!AdmissionInv, Admit!AdmissionIsEarned
        <3> QED BY <1>5, <1>11, <3>1, <3>2
    <2>7. \A id : Admit!Used(id)' <=> Admit!Used(id)
        BY <1>4 DEF Admit!Used
    <2> QED BY <1>4, <2>1, <2>2, <2>6, <2>7 DEF Admit!AdmissionInv, Admit!AdmissionIsEarned
<1>17. \A p \in Requests : /\ serving'[p].now <= clock'
                           /\ serving'[p].op = "issue" => serving'[p].user \in Users
    BY <1>4, ServedRequests
<1> QED BY <1>4, <1>12, <1>13, <1>14, <1>15, <1>16, <1>17
        DEF Admit!AdmissionInv, Admit!Holds, Admit!Right

\* What is redeemed was in the store, and is not any more.
LEMMA RedeemsAdmission ==
    ASSUME AccessAssumption, Admit!AdmissionInv, NEW q \in Requests, Admit!Redeems(q)
    PROVE  Admit!AdmissionInv'
<1>1. PICK asOf, want, live, n :
          /\ asOf = serving[q].now /\ want = serving[q].id
          /\ live = Admit!Sweep(asOf) /\ n = Len(issued)
    OBVIOUS
<1>2. /\ tickets' = Admit!Taken(live, want)
      /\ serving' = [serving EXCEPT ![q] = Admit!Idle]
      /\ UNCHANGED <<clock, cache, impostor, issued>>
      /\ \/ \E t \in Admit!In(live) :
               /\ t.id = want
               /\ admitted' = Append(admitted, [id |-> t.id, user |-> t.user, now |-> asOf])
         \/ /\ \A t \in Admit!In(live) : t.id # want
            /\ UNCHANGED admitted
    BY <1>1 DEF Admit!Redeems, Admit!cacheVars
<1>3. /\ asOf \in Nat /\ asOf <= clock /\ clock \in Nat /\ n \in Nat
      /\ issued \in Seq(Admit!Ticket)
      /\ admitted \in Seq([id : Nat, user : Users, now : Nat]) /\ Len(admitted) \in Nat
    <2>1. /\ asOf \in Nat /\ clock \in Nat /\ issued \in Seq(Admit!Ticket)
          /\ admitted \in Seq([id : Nat, user : Users, now : Nat])
        BY <1>1 DEF Admit!AdmissionInv, Admit!TypeOK
    <2>2. asOf <= clock
        BY <1>1 DEF Admit!AdmissionInv
    <2> QED BY <1>1, <2>1, <2>2, LenProperties
<1>4. /\ live \in Seq(Admit!Ticket)
      /\ Admit!In(live) = {x \in Admit!In(tickets) : asOf < x.expires}
      /\ \A j, k \in 1..Len(live) : j < k => live[j].id < live[k].id
    BY <1>1, Swept
<1>5. /\ tickets' \in Seq(Admit!Ticket)
      /\ Admit!In(tickets') = {x \in Admit!In(live) : x.id # want}
      /\ \A j, k \in 1..Len(tickets') : j < k => tickets'[j].id < tickets'[k].id
    BY <1>2, <1>4, KeptTickets DEF Admit!Taken
<1>6. \A x \in Admit!In(tickets') :
          /\ x \in Admit!In(tickets) /\ x.id # want
          /\ x.id \in 1..n /\ x = issued[x.id]
    BY <1>1, <1>4, <1>5, InStore
<1>7. Admit!StoreInOrder'
    <2>1. \A k \in 1..Len(tickets') : tickets'[k] \in Admit!In(tickets')
        BY DEF Admit!In
    <2> QED BY <1>1, <1>2, <1>5, <1>6, <2>1 DEF Admit!StoreInOrder
\* What is new among the admitted.
<1>8. /\ admitted' \in Seq([id : Nat, user : Users, now : Nat])
      /\ \A i \in 1..Len(admitted) : i \in 1..Len(admitted') /\ admitted'[i] = admitted[i]
      /\ \A i \in 1..Len(admitted') :
            i \in 1..Len(admitted)
            \/ /\ i = Len(admitted) + 1
               /\ admitted'[i].id = want /\ want \in 1..n
               /\ admitted'[i].user = issued[want].user
               /\ admitted'[i].now < issued[want].expires
               /\ Admit!Stored(want)
      /\ \A t \in Admit!In(live) : t.id = want => Admit!Used(want)'
    <2>1. ASSUME \A t \in Admit!In(live) : t.id # want, UNCHANGED admitted
          PROVE  <1>8!:
        BY <1>3, <2>1
    <2>2. ASSUME NEW t \in Admit!In(live), t.id = want,
                 admitted' = Append(admitted, [id |-> t.id, user |-> t.user, now |-> asOf])
          PROVE  <1>8!:
        <3>1. /\ t \in Admit!In(tickets) /\ asOf < t.expires
              /\ want \in 1..n /\ t = issued[want] /\ Admit!Stored(want) /\ t \in Admit!Ticket
            BY <1>1, <1>4, <2>2, InStore
        <3>2. PICK a : a = [id |-> t.id, user |-> t.user, now |-> asOf]
            OBVIOUS
        <3>3. /\ a \in [id : Nat, user : Users, now : Nat]
              /\ a.id = want /\ a.user = t.user /\ a.now = asOf
            BY <1>3, <2>2, <3>1, <3>2 DEF Admit!Ticket
        <3>4. /\ admitted' \in Seq([id : Nat, user : Users, now : Nat])
              /\ Len(admitted') = Len(admitted) + 1
              /\ \A i \in 1..Len(admitted) : admitted'[i] = admitted[i]
              /\ admitted'[Len(admitted) + 1] = a
            BY <1>3, <2>2, <3>2, <3>3, AppendProperties
        <3>5. Admit!Used(want)'
            <4>1. Len(admitted) + 1 \in 1..Len(admitted')
                BY <1>3, <3>4
            <4> QED BY <3>3, <3>4, <4>1 DEF Admit!Used
        <3>6. \A i \in 1..Len(admitted') : i \in 1..Len(admitted) \/ i = Len(admitted) + 1
            BY <1>3, <3>4
        <3>7. \A i \in 1..Len(admitted) : i \in 1..Len(admitted')
            BY <1>3, <3>4
        <3> QED BY <3>1, <3>3, <3>4, <3>5, <3>6, <3>7
    <2> QED BY <1>2, <2>1, <2>2
<1>9. Admit!TypeOK'
    BY <1>2, <1>5, <1>8, ServedRequests DEF Admit!AdmissionInv, Admit!TypeOK
<1>10. \A i \in 1..Len(admitted) : admitted[i].id \in 1..n /\ Admit!Used(admitted[i].id)
    BY <1>1 DEF Admit!AdmissionInv, Admit!Used
<1>11. \A i \in 1..Len(admitted') : admitted'[i].id \in 1..Len(issued')
    BY <1>1, <1>2, <1>8, <1>10
<1>12. Admit!AdmissionIsEarned'
    <2>1. ~impostor'
        BY <1>2 DEF Admit!AdmissionInv, Admit!AdmissionIsEarned
    <2>2. ASSUME NEW i \in 1..Len(admitted')
          PROVE  /\ admitted'[i].user = issued'[admitted'[i].id].user
                 /\ admitted'[i].now < issued'[admitted'[i].id].expires
        <3>1. CASE i \in 1..Len(admitted)
            BY <1>2, <1>8, <3>1 DEF Admit!AdmissionInv, Admit!AdmissionIsEarned
        <3>2. CASE i \notin 1..Len(admitted)
            BY <1>2, <1>8, <3>2
        <3> QED BY <3>1, <3>2
    <2>3. ASSUME NEW i \in 1..Len(admitted'), NEW j \in 1..Len(admitted'),
                 admitted'[i].id = admitted'[j].id
          PROVE  i = j
        <3>1. want \in 1..n /\ Admit!Stored(want) => ~Admit!Used(want)
            BY <1>1 DEF Admit!AdmissionInv, Admit!AdmissionIsEarned
        <3>2. CASE i \in 1..Len(admitted) /\ j \in 1..Len(admitted)
            BY <1>8, <2>3, <3>2 DEF Admit!AdmissionInv, Admit!AdmissionIsEarned
        <3>3. CASE i \notin 1..Len(admitted) /\ j \in 1..Len(admitted)
            BY <1>8, <1>10, <2>3, <3>1, <3>3
        <3>4. CASE i \in 1..Len(admitted) /\ j \notin 1..Len(admitted)
            BY <1>8, <1>10, <2>3, <3>1, <3>4
        <3>5. CASE i \notin 1..Len(admitted) /\ j \notin 1..Len(admitted)
            BY <1>8, <3>5
        <3> QED BY <3>2, <3>3, <3>4, <3>5
    <2>4. ASSUME NEW id \in 1..n
          PROVE  /\ ~(Admit!Stored(id)' /\ Admit!Used(id)')
                 /\ \/ Admit!Stored(id)' \/ Admit!Used(id)' \/ clock >= issued[id].expires
                    \/ id + MaxTickets <= n
        <3>1. issued'[id] = issued[id] /\ issued[id].id = id /\ issued[id] \in Admit!Ticket
            BY <1>1, <1>2, <1>3, ElementOfSeq DEF Admit!AdmissionInv
        <3>2. Admit!Stored(id)' => Admit!Stored(id) /\ id # want
            BY <1>6, <3>1 DEF Admit!Stored
        <3>3. Admit!Used(id)' => Admit!Used(id) \/ id = want
            BY <1>8 DEF Admit!Used
        <3>4. Admit!Used(id) => Admit!Used(id)'
            BY <1>8 DEF Admit!Used
        <3>5. ASSUME Admit!Stored(id), ~(clock >= issued[id].expires)
              PROVE  Admit!Stored(id)' \/ Admit!Used(id)'
            <4>1. asOf < issued[id].expires
                BY <1>3, <3>1, <3>5 DEF Admit!Ticket
            <4>2. issued[id] \in Admit!In(live)
                BY <1>4, <3>5, <4>1 DEF Admit!Stored
            <4>3. CASE id = want
                BY <1>8, <3>1, <4>2, <4>3
            <4>4. CASE id # want
                BY <1>5, <3>1, <4>2, <4>4 DEF Admit!Stored
            <4> QED BY <4>3, <4>4
        <3>6. /\ ~(Admit!Stored(id) /\ Admit!Used(id))
              /\ \/ Admit!Stored(id) \/ Admit!Used(id) \/ clock >= issued[id].expires
                 \/ id + MaxTickets <= n
            BY <1>1 DEF Admit!AdmissionInv, Admit!AdmissionIsEarned
        <3> QED BY <3>2, <3>3, <3>4, <3>5, <3>6
    <2> QED BY <1>1, <1>2, <2>1, <2>2, <2>3, <2>4 DEF Admit!AdmissionIsEarned
<1>13. \A p \in Requests : /\ serving'[p].now <= clock'
                           /\ serving'[p].op = "issue" => serving'[p].user \in Users
    BY <1>2, ServedRequests
<1> QED BY <1>2, <1>7, <1>9, <1>11, <1>12, <1>13
        DEF Admit!AdmissionInv, Admit!Holds, Admit!Right

\* Every call of the authenticator and of the ticket store keeps the invariant.
LEMMA AdmissionStep ==
    ASSUME AccessAssumption, Admit!AdmissionInv, [Admit!Next]_(Admit!vars)
    PROVE  Admit!AdmissionInv'
<1>1. CASE Admit!ClockTicks
    BY <1>1, ClockTicksAdmission
<1>2. CASE \E c \in Admit!Credentials : Admit!Verifies(c)
    BY <1>2, VerifiesAdmission
<1>3. ASSUME NEW q \in Requests,
             \/ \E u \in Users : Admit!AsksForTicket(q, u)
             \/ \E id \in 0..Len(issued) : Admit!PresentsTicket(q, id)
      PROVE  Admit!AdmissionInv'
    BY <1>3, ArrivesAdmission
<1>4. ASSUME NEW q \in Requests, Admit!Issues(q) PROVE Admit!AdmissionInv'
    BY <1>4, IssuesAdmission
<1>5. ASSUME NEW q \in Requests, Admit!Redeems(q) PROVE Admit!AdmissionInv'
    BY <1>5, RedeemsAdmission
<1>6. CASE UNCHANGED Admit!vars
    <2>1. UNCHANGED <<clock, serving, cache, impostor, tickets, issued, admitted>>
        BY <1>6 DEF Admit!vars, Admit!cacheVars, Admit!ticketVars
    <2>2. ~impostor'
        BY <2>1 DEF Admit!AdmissionInv, Admit!AdmissionIsEarned
    <2>3. Admit!TypeOK' /\ Admit!StoreInOrder'
        BY <2>1 DEF Admit!AdmissionInv, Admit!TypeOK, Admit!StoreInOrder
    <2>4. Admit!AdmissionIsEarned'
        BY <2>1, <2>2
        DEF Admit!AdmissionInv, Admit!AdmissionIsEarned, Admit!Stored, Admit!Used, Admit!In
    <2> QED BY <2>1, <2>3, <2>4 DEF Admit!AdmissionInv, Admit!Holds, Admit!Right
<1> QED BY <1>1, <1>2, <1>3, <1>4, <1>5, <1>6 DEF Admit!Next

\* Nobody is let in with a wrong name or password; a ticket lets its owner in
\* once and in time, and is there until then unless the cap pushed it out, for
\* any number of requests, tickets and ticks (Verify, redeem, sweepLocked).
THEOREM OnlyTheEarnedGetIn == AccessSpec => []AdmissionIsEarned
<1>1. AccessInit => Admit!AdmissionInv
    BY InitAdmissionInv, AccessAssumption DEF AccessInit
<1>2. Admit!AdmissionInv /\ [AccessNext]_accessVars => Admit!AdmissionInv'
    <2> SUFFICES ASSUME Admit!AdmissionInv, [AccessNext]_accessVars
                 PROVE  Admit!AdmissionInv'
        OBVIOUS
    <2>1. [Admit!Next]_(Admit!vars)
        BY DEF AccessNext, OnAdmission, OnLeases, accessVars, admissionVars, Admit!vars,
               Admit!cacheVars, Admit!ticketVars
    <2> QED BY <2>1, AdmissionStep, AccessAssumption
<1>3. Admit!AdmissionInv => AdmissionIsEarned
    BY DEF Admit!AdmissionInv, AdmissionIsEarned
<1> QED BY <1>1, <1>2, <1>3, PTL DEF AccessSpec
=============================================================================
