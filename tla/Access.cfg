\* One radio and two users whose leases, handlers and callbacks interleave; two
\* requests, one ticket in the store and a clock of one tick for those who are let in.
CONSTANTS
    Radios = {r1}
    Users = {u1, u2}
    TTL = 2
    AllowSteal = TRUE
    MaxTime = 4
    MaxGen = 3
    Strangers = {s1}
    Requests = {q1, q2}
    MaxTickets = 1
    TicketTTL = 1
    CacheTTL = 1
    MaxClock = 1
    MaxIssued = 2
SPECIFICATION AccessSpec
INVARIANT CarrierHasLease
INVARIANT AdmissionIsEarned
PROPERTY ImplementsExclusiveLease
PROPERTY ExpiryOnlyOfTheLapsed
PROPERTY AbandonedLeaseEnds
CHECK_DEADLOCK FALSE
