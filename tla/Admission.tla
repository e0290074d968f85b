------------------------------ MODULE Admission ------------------------------
(***************************************************************************)
(* Who is let in.  Basic credentials (internal/auth): a comparison that is *)
(* slow on purpose, and a cache of those that passed it.  And the          *)
(* WebSocket tickets (internal/ws/ticket.go): an authenticated request is  *)
(* given one, and whoever presents it within its TTL is let in once, as    *)
(* the user it was given to.  The ticket calls read the clock before they  *)
(* take the mutex: what they sweep and stamp with may be old.              *)
(*                                                                         *)
(* A user's password is the user's own name; a hash is its password.       *)
(***************************************************************************)
EXTENDS Naturals, Sequences, Kept

CONSTANTS
    Users,      \* the configured names
    Strangers,  \* names that are not configured
    Requests,   \* HTTP requests being served at the same time
    MaxTickets, \* maxTickets
    TicketTTL,  \* ticketTTL
    CacheTTL,   \* auth.cache_ttl
    MaxClock,   \* bound: ticks of the clock
    MaxIssued   \* bound: tickets issued

VARIABLES
    clock,      \* the wall clock
    cache,      \* a.cache: the expiry of each entry, by its key
    impostor,   \* history: a wrong name or password was let in
    tickets,    \* s.tickets, oldest first
    serving,    \* serving[q]: where q stands between its clock read and its answer
    issued,     \* history: owner and expiry of every ticket, in order of issue
    admitted    \* history: who was let in with which ticket, how often

cacheVars == <<cache, impostor>>
ticketVars == <<tickets, issued, admitted>>
vars == <<clock, serving, cacheVars, ticketVars>>

Idle == [op |-> "idle", user |-> "none", id |-> 0, now |-> 0]
Holds(q, op) == serving[q].op = op
Credentials == (Users \cup Strangers) \X Users

Init ==
    /\ cache = <<>> /\ impostor = FALSE
    /\ clock = 0 /\ tickets = <<>> /\ issued = <<>> /\ admitted = <<>>
    /\ serving = [q \in Requests |-> Idle]

ClockTicks ==
    /\ clock < MaxClock /\ clock' = clock + 1
    /\ UNCHANGED <<serving, cacheVars, ticketVars>>

-----------------------------------------------------------------------------
(* Basic credentials                                                        *)

\* A key that forgets the name.
MutantCacheKey(c) == <<c[2]>>

\* newCacheKey: name and password, told apart.
CacheKey(c) == c

Right(c) == c[1] \in Users /\ c[2] = c[1]

\* Verify: an entry that is live is as good as the comparison; one that is not
\* goes, and what passes the comparison is stored.  The comparison reads
\* nothing that changes, and stands for the hash of a name that is unknown.
Verifies(c) ==
    LET k == CacheKey(c)
        hit == k \in DOMAIN cache /\ clock < cache[k]
    IN /\ cache' = IF hit THEN cache
                   ELSE IF Right(c)
                   THEN [x \in DOMAIN cache \cup {k} |-> IF x = k THEN clock + CacheTTL ELSE cache[x]]
                   ELSE [x \in DOMAIN cache \ {k} |-> cache[x]]
       /\ impostor' = (impostor \/ (hit /\ ~Right(c)))
       /\ UNCHANGED <<clock, serving, ticketVars>>

-----------------------------------------------------------------------------
(* Tickets                                                                  *)

\* TicketHandler: the middleware has authenticated the user.
AsksForTicket(q, u) ==
    /\ serving[q] = Idle /\ Len(issued) < MaxIssued
    /\ serving' = [serving EXCEPT ![q] = [op |-> "issue", user |-> u, id |-> 0, now |-> clock]]
    /\ UNCHANGED <<clock, cacheVars, ticketVars>>

\* Hub.Handler: a ticket that was issued, or one that never was (0).
PresentsTicket(q, id) ==
    /\ serving[q] = Idle
    /\ serving' = [serving EXCEPT ![q] = [op |-> "redeem", user |-> "none", id |-> id, now |-> clock]]
    /\ UNCHANGED <<clock, cacheVars, ticketVars>>

\* A sweep that spares the ticket that expires now.
MutantSweep(now) == Kept(tickets, {t \in In(tickets) : now <= t.expires})

\* sweepLocked
Sweep(now) == Kept(tickets, {t \in In(tickets) : now < t.expires})

\* issue, under the mutex: at the cap the oldest ticket makes room.
Issues(q) ==
    /\ Holds(q, "issue")
    /\ LET t == [id |-> Len(issued) + 1, user |-> serving[q].user,
                 expires |-> serving[q].now + TicketTTL]
           live == Sweep(serving[q].now)
       IN /\ tickets' = Append(IF Len(live) >= MaxTickets THEN Tail(live) ELSE live, t)
          /\ issued' = Append(issued, t)
    /\ serving' = [serving EXCEPT ![q] = Idle]
    /\ UNCHANGED <<clock, cacheVars, admitted>>

\* A ticket that is left in the store.
MutantTaken(live, id) == live

Taken(live, id) == Kept(live, {t \in In(live) : t.id # id})

\* redeem, under the mutex.
Redeems(q) ==
    /\ Holds(q, "redeem")
    /\ LET live == Sweep(serving[q].now)
       IN /\ tickets' = Taken(live, serving[q].id)
          /\ \/ \E t \in In(live) :
                   /\ t.id = serving[q].id
                   /\ admitted' = Append(admitted, [id |-> t.id, user |-> t.user,
                                                    now |-> serving[q].now])
             \/ /\ \A t \in In(live) : t.id # serving[q].id
                /\ UNCHANGED admitted
    /\ serving' = [serving EXCEPT ![q] = Idle]
    /\ UNCHANGED <<clock, cacheVars, issued>>

Next ==
    \/ ClockTicks
    \/ \E c \in Credentials : Verifies(c)
    \/ \E q \in Requests :
          \/ \E u \in Users : AsksForTicket(q, u)
          \/ \E id \in 0..Len(issued) : PresentsTicket(q, id)
          \/ Issues(q) \/ Redeems(q)

Spec == Init /\ [][Next]_vars

-----------------------------------------------------------------------------
(* Correctness                                                              *)

Stored(id) == issued[id] \in In(tickets)
Used(id) == \E i \in 1..Len(admitted) : admitted[i].id = id

\* Nobody is let in with a wrong name or password, by the comparison or by the
\* cache (Verify); and a ticket lets its owner in once, before it expires; and until then it is in
\* the store, unless MaxTickets later ones pushed it out (redeem, sweepLocked).
AdmissionIsEarned ==
    /\ ~impostor
    /\ \A i \in 1..Len(admitted) :
          LET a == admitted[i] IN a.user = issued[a.id].user /\ a.now < issued[a.id].expires
    /\ \A i, j \in 1..Len(admitted) : admitted[i].id = admitted[j].id => i = j
    /\ \A id \in 1..Len(issued) :
          /\ ~(Stored(id) /\ Used(id))
          /\ \/ Stored(id) \/ Used(id) \/ clock >= issued[id].expires
             \/ id + MaxTickets <= Len(issued)

\* What keeps it: the store is some of what was issued, oldest first, the cache
\* has only what passed the comparison, and no reading of the clock is ahead.
Ticket == [id : Nat, user : Users, expires : Nat]

TypeOK ==
    /\ clock \in Nat
    /\ tickets \in Seq(Ticket) /\ issued \in Seq(Ticket)
    /\ admitted \in Seq([id : Nat, user : Users, now : Nat])
    /\ serving \in [Requests -> [op : {"idle", "issue", "redeem"}, user : Users \cup {"none"},
                                 id : Nat, now : Nat]]

StoreInOrder ==
    /\ \A k \in 1..Len(tickets) :
          tickets[k].id \in 1..Len(issued) /\ tickets[k] = issued[tickets[k].id]
    /\ \A j, k \in 1..Len(tickets) : j < k => tickets[j].id < tickets[k].id

AdmissionInv ==
    /\ TypeOK /\ StoreInOrder /\ AdmissionIsEarned
    /\ \A c \in DOMAIN cache : Right(c)
    /\ \A i \in 1..Len(issued) : issued[i].id = i
    /\ \A i \in 1..Len(admitted) : admitted[i].id \in 1..Len(issued)
    /\ \A q \in Requests :
          serving[q].now <= clock /\ (Holds(q, "issue") => serving[q].user \in Users)
=============================================================================
