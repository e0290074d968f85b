----------------------------- MODULE LockManager -----------------------------
(***************************************************************************)
(* internal/lock/lock.go: one advisory lease per radio, with a sliding TTL *)
(* and an expiry timer per lease.                                          *)
(*                                                                         *)
(* Every exported method takes m.mu for its whole body, so each is one     *)
(* action.  A lease timer is not under the mutex: time.AfterFunc fires at  *)
(* some moment at or after the lease's end (TimerFires) and its goroutine  *)
(* then queues for the mutex (Expire), with any number of calls between    *)
(* the two.  timer.Stop takes an armed timer away with its entry and has   *)
(* no effect on a goroutine already started.                               *)
(*                                                                         *)
(* A token is 128 random bits in the code.  Here it is the generation of   *)
(* the installLocked that first carried it, which is all that randomness   *)
(* is used for: no two acquisitions share one.  Token 0 is the empty       *)
(* string.                                                                 *)
(***************************************************************************)
EXTENDS Naturals

CONSTANTS
    Radios,     \* radio ids, the keys of m.locks
    Users,      \* authenticated users
    TTL,        \* m.ttl, in clock ticks
    AllowSteal, \* m.allowSteal
    MaxTime,    \* bound: the clock stops here, and no lease may end later
    MaxGen      \* bound: installLocked runs at most this many times

ASSUME LeaseAssumption ==
    /\ TTL \in Nat \ {0}
    /\ AllowSteal \in BOOLEAN
    /\ MaxTime \in Nat
    /\ MaxGen \in Nat
    /\ "nobody" \notin Users

VARIABLES
    now,        \* the wall clock
    locks,      \* m.locks: a function from the radios that have an entry
    gen,        \* m.gen
    firing,     \* <<radio, gen>> of timers that fired and wait for m.mu
    onExpire,   \* <<radio, gen>> of onExpire callbacks running or to be run
    reply       \* what the last call to return told its caller

vars == <<now, locks, gen, firing, onExpire, reply>>

Entry == [token : Nat \ {0}, user : Users, expiresAt : Nat,
          gen : Nat \ {0}, armed : BOOLEAN]

Codes == {"ok", "released", "ErrHeldByOther", "ErrNoLock", "ErrBadToken", "ErrExpired"}

Reply == [radio : Radios, token : Nat, code : Codes]

\* Nothing has been asked yet.
NoReply == [code |-> "none"]

\* Tokens a caller can present: the empty one, a token of some acquisition, or
\* a number no acquisition was given, standing for garbage.
Presentable == 0..gen

-----------------------------------------------------------------------------
(* The helpers of the mutex-holding methods                                 *)

Has(r) == r \in DOMAIN locks

\* Lock.Held
Held(r) == now < locks[r].expiresAt

\* Acquire's conflict: an unexpired lease that belongs to another user.
HeldByOther(r, u) == Has(r) /\ Held(r) /\ locks[r].user # u

\* tokenEqual: the empty token matches nothing.
TokenEqual(r, token) == token # 0 /\ locks[r].token = token

\* A renewal that forgets to arm the new lease's timer.
MutantInstallUnarmed(r, token, user, expiresAt) ==
    /\ gen < MaxGen
    /\ expiresAt <= MaxTime
    /\ gen' = gen + 1
    /\ locks' = [x \in DOMAIN locks \cup {r} |->
                   IF x = r
                   THEN [token |-> token, user |-> user, expiresAt |-> expiresAt,
                         gen |-> gen + 1, armed |-> ~Has(r)]
                   ELSE locks[x]]

\* A renewal that keeps its predecessor's generation.
MutantInstallReusesGen(r, token, user, expiresAt) ==
    /\ gen < MaxGen
    /\ expiresAt <= MaxTime
    /\ gen' = IF Has(r) THEN gen ELSE gen + 1
    /\ locks' = [x \in DOMAIN locks \cup {r} |->
                   IF x = r
                   THEN [token |-> token, user |-> user, expiresAt |-> expiresAt,
                         gen |-> gen', armed |-> TRUE]
                   ELSE locks[x]]

\* installLocked: the old timer is stopped with the entry it belonged to.
InstallLocked(r, token, user, expiresAt) ==
    /\ gen < MaxGen
    /\ expiresAt <= MaxTime
    /\ gen' = gen + 1
    /\ locks' = [x \in DOMAIN locks \cup {r} |->
                   IF x = r
                   THEN [token |-> token, user |-> user, expiresAt |-> expiresAt,
                         gen |-> gen + 1, armed |-> TRUE]
                   ELSE locks[x]]

\* removeLocked: no callback runs.
RemoveLocked(r) ==
    /\ locks' = [x \in DOMAIN locks \ {r} |-> locks[x]]
    /\ UNCHANGED gen

\* The call returns to its caller, and no timer goroutine moved meanwhile.
Returns(r, token, code) ==
    /\ reply' = [radio |-> r, token |-> token, code |-> code]
    /\ UNCHANGED <<now, firing, onExpire>>

\* The call returns an error and leaves the manager alone.
Refuses(r, token, code) ==
    /\ Returns(r, token, code)
    /\ UNCHANGED <<locks, gen>>

-----------------------------------------------------------------------------
(* The exported methods                                                     *)

\* Acquire, refused: a conflict, and no licence to steal.
AcquireRefused(r, u, force) ==
    /\ HeldByOther(r, u) /\ ~(force /\ AllowSteal)
    /\ Refuses(r, 0, "ErrHeldByOther")

\* An acquisition that does not look for a holder.
MutantAcquireIgnoresHolder(r, u, force) ==
    /\ InstallLocked(r, gen + 1, u, now + TTL)
    /\ Returns(r, gen + 1, "ok")

\* Acquire, granted: the radio is free, lapsed, the caller's own, or stolen.  A
\* lapsed entry is overwritten like any other.
AcquireGranted(r, u, force) ==
    /\ HeldByOther(r, u) => force /\ AllowSteal
    /\ InstallLocked(r, gen + 1, u, now + TTL)
    /\ Returns(r, gen + 1, "ok")

Acquire(r, u, force) == AcquireRefused(r, u, force) \/ AcquireGranted(r, u, force)

\* A renewal that does not test the clock.
MutantRenewRevives(r, token) ==
    \/ ~Has(r) /\ Refuses(r, token, "ErrNoLock")
    \/ Has(r) /\ ~TokenEqual(r, token) /\ Refuses(r, token, "ErrBadToken")
    \/ /\ Has(r) /\ TokenEqual(r, token)
       /\ InstallLocked(r, locks[r].token, locks[r].user, now + TTL)
       /\ Returns(r, token, "ok")

\* renewLocked
RenewLocked(r, token) ==
    \/ ~Has(r) /\ Refuses(r, token, "ErrNoLock")
    \/ Has(r) /\ ~Held(r) /\ RemoveLocked(r) /\ Returns(r, token, "ErrExpired")
    \/ Has(r) /\ Held(r) /\ ~TokenEqual(r, token) /\ Refuses(r, token, "ErrBadToken")
    \/ /\ Has(r) /\ Held(r) /\ TokenEqual(r, token)
       /\ InstallLocked(r, locks[r].token, locks[r].user, now + TTL)
       /\ Returns(r, token, "ok")

\* Renew: the heartbeat.
Renew(r, token) == RenewLocked(r, token)

\* Release tests the token and not the clock.
Release(r, token) ==
    \/ ~Has(r) /\ Refuses(r, token, "ErrNoLock")
    \/ Has(r) /\ ~TokenEqual(r, token) /\ Refuses(r, token, "ErrBadToken")
    \/ Has(r) /\ TokenEqual(r, token) /\ RemoveLocked(r) /\ Returns(r, token, "released")

\* Check with locking enabled: the gate of every state-changing route.  A lapsed
\* lease is removed here, without its callback, when its timer has not got the
\* mutex yet.
Check(r, token) ==
    \/ ~Has(r) /\ Refuses(r, token, "ErrNoLock")
    \/ Has(r) /\ ~Held(r) /\ RemoveLocked(r) /\ Returns(r, token, "ErrExpired")
    \/ Has(r) /\ Held(r) /\ token = 0 /\ Refuses(r, token, "ErrNoLock")
    \/ /\ Has(r) /\ Held(r) /\ token # 0 /\ ~TokenEqual(r, token)
       /\ Refuses(r, token, "ErrHeldByOther")
    \/ Has(r) /\ Held(r) /\ TokenEqual(r, token) /\ RenewLocked(r, token)

\* Inspect answers a GET, and removes a lapsed entry on the way.  Its reply is a
\* report and not a decision, so it leaves reply alone.
Inspect(r) ==
    /\ Has(r) /\ ~Held(r)
    /\ RemoveLocked(r)
    /\ UNCHANGED <<now, firing, onExpire, reply>>

\* Close stops every timer and forgets every lease.
Close ==
    /\ DOMAIN locks # {}
    /\ locks' = [x \in {} |-> locks[x]]
    /\ UNCHANGED <<now, gen, firing, onExpire, reply>>

-----------------------------------------------------------------------------
(* The clock and the timer goroutines                                       *)

Tick ==
    /\ now < MaxTime
    /\ now' = now + 1
    /\ UNCHANGED <<locks, gen, firing, onExpire, reply>>

\* time.AfterFunc: not before the lease ends, and as late as it likes after.
TimerFires(r) ==
    /\ Has(r) /\ locks[r].armed /\ ~Held(r)
    /\ locks' = [locks EXCEPT ![r].armed = FALSE]
    /\ firing' = firing \cup {<<r, locks[r].gen>>}
    /\ UNCHANGED <<now, gen, onExpire, reply>>

\* A timer that does not compare generations.
MutantExpireTrustsTimer(r, g) ==
    /\ <<r, g>> \in firing
    /\ firing' = firing \ {<<r, g>>}
    /\ IF Has(r)
       THEN RemoveLocked(r) /\ onExpire' = onExpire \cup {<<r, g>>}
       ELSE UNCHANGED <<locks, gen, onExpire>>
    /\ UNCHANGED <<now, reply>>

\* expire(radio, g): nothing if a renewal, a new lease or a removal came first.
Expire(r, g) ==
    /\ <<r, g>> \in firing
    /\ firing' = firing \ {<<r, g>>}
    /\ IF Has(r) /\ locks[r].gen = g
       THEN RemoveLocked(r) /\ onExpire' = onExpire \cup {<<r, g>>}
       ELSE UNCHANGED <<locks, gen, onExpire>>
    /\ UNCHANGED <<now, reply>>

-----------------------------------------------------------------------------

Init ==
    /\ now = 0
    /\ locks = [x \in {} |-> 0]
    /\ gen = 0
    /\ firing = {}
    /\ onExpire = {}
    /\ reply = NoReply

Next ==
    \/ \E r \in Radios, u \in Users, force \in BOOLEAN : Acquire(r, u, force)
    \/ \E r \in Radios, token \in Presentable :
          Renew(r, token) \/ Release(r, token) \/ Check(r, token)
    \/ \E r \in Radios : Inspect(r) \/ TimerFires(r)
    \/ \E r \in Radios, g \in 1..gen : Expire(r, g)
    \/ Close
    \/ Tick

Spec == Init /\ [][Next]_vars

\* The clock runs, the runtime fires timers that are due, and a goroutine that
\* queues for the mutex gets it.  No request is ever owed to us.
Fairness ==
    /\ WF_vars(Tick)
    /\ \A r \in Radios : WF_vars(TimerFires(r))
    /\ \A r \in Radios, g \in 1..MaxGen : WF_vars(Expire(r, g))

FairSpec == Spec /\ Fairness

-----------------------------------------------------------------------------
(* Properties                                                               *)

\* Every variable has its type, and no lease, timer or callback carries a
\* generation that installLocked has not handed out.
TypeOK ==
    /\ now \in Nat
    /\ gen \in Nat
    /\ DOMAIN locks \subseteq Radios
    /\ \A r \in DOMAIN locks :
          /\ locks[r] \in Entry
          /\ locks[r].gen <= gen /\ locks[r].token <= gen
    /\ firing \subseteq Radios \X (1..gen)
    /\ onExpire \subseteq Radios \X (1..gen)
    /\ reply \in Reply \cup {NoReply}

\* A lease that nobody touches again still has something that will end it: its
\* own timer is armed, or its own timer goroutine is on its way to the mutex.
\* This is what makes expiry proactive (the package comment's second point).
TimerBehindEveryLease ==
    \A r \in DOMAIN locks : locks[r].armed \/ <<r, locks[r].gen>> \in firing

\* A timer goroutine that waits for the mutex belongs to a lease that has
\* lapsed, or to no present lease at all: never to one renewed meanwhile.
FiringIsLapsedOrStale ==
    \A r \in DOMAIN locks :
        <<r, locks[r].gen>> \in firing => ~Held(r) /\ ~locks[r].armed

\* The inductive invariant.
LeaseInv == TypeOK /\ TimerBehindEveryLease /\ FiringIsLapsedOrStale

\* The safety callback, which takes a transmitter off the air, starts only for
\* a lease that has lapsed, however the timer, the renewals and the mutex
\* interleave (the comment on entry.gen).
ExpiryOnlyOfTheLapsed ==
    [][\A r \in Radios, g \in 1..gen :
          <<r, g>> \in onExpire' \ onExpire =>
              Has(r) /\ locks[r].gen = g /\ ~Held(r)]_vars

\* The tenure the outside sees: an entry counts while it is unexpired.
HolderOf(r) ==
    IF Has(r) /\ Held(r)
    THEN [token |-> locks[r].token, user |-> locks[r].user]
    ELSE [token |-> 0, user |-> "nobody"]

AcceptedCall ==
    IF reply.code = "ok" THEN <<reply.radio, reply.token>> ELSE <<>>

Lease == INSTANCE ExclusiveLease WITH
            holder   <- [r \in Radios |-> HolderOf(r)],
            issued   <- gen,
            accepted <- AcceptedCall

\* The manager implements ExclusiveLease: in particular no call, in any order
\* with the clock and the timers, brings a lapsed or superseded token back to
\* life, and a command is accepted only for the tenure in force.
ImplementsExclusiveLease == Lease!Spec

\* A lease its client stops renewing ends without anybody asking about it.
IdleLeaseEnds ==
    \A r \in Radios, g \in 1..MaxGen :
        (Has(r) /\ locks[r].gen = g) ~> ~(Has(r) /\ locks[r].gen = g)

\* The package comment (lock.go:13-17) and DESIGN.md section 7: a lease that
\* runs out fires the callback that drops PTT.  Said of every step that takes a
\* lapsed entry out of the map, other than shutdown and an explicit release,
\* after which the API forces receive itself.
LapseRunsCallback ==
    [][\A r \in DOMAIN locks :
          ~Held(r) /\ r \notin DOMAIN locks' =>
              \/ <<r, locks[r].gen>> \in onExpire'
              \/ Close
              \/ \E token \in Presentable : Release(r, token)]_vars
=============================================================================
