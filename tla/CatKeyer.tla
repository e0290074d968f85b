------------------------------ MODULE CatKeyer ------------------------------
(***************************************************************************)
(* The Morse sender that feeds a radio's own CW buffer                     *)
(* (internal/cw/cat.go, catSender): text cut into chunks and queued, one   *)
(* pacing loop that waits for room and hands over a chunk at a time, and   *)
(* Abort, which has to drop the queue and stop what the radio holds.       *)
(*                                                                         *)
(* Chunks are numbered in the order they were queued, which is what        *)
(* catSender.nextID does.  A context is the number of Aborts that had      *)
(* replaced it; a chunk handed over and an Abort's stop order are each a   *)
(* transaction of the radio's connection, of which there is one at a time. *)
(*                                                                         *)
(* The radio is external: its buffer, a queue it keys from.  Radios that   *)
(* can be asked for room (Kenwood, KY;) and radios that cannot (Icom) are  *)
(* the two values of asks, fixed at start.                                 *)
(***************************************************************************)
EXTENDS Naturals, Sequences, SequencesExt

CONSTANTS
    ChunksInFlight, \* cfg.CW.ChunksInFlight: chunks beyond the one sounding
    RigRoom,        \* chunks the buffer of an asked radio takes
    Aborters,       \* goroutines that abort: an API request, a forced RX
    MaxTexts,       \* bound: chunks queued
    MaxAborts,      \* bound: Aborts begun
    MaxFaults       \* bound: transactions that fail

VARIABLES
    queue,      \* s.queue
    closed,     \* s.closed
    queued,     \* s.nextID
    aborts,     \* Aborts begun so far
    faults,     \* failed transactions so far
    asks,       \* the radio answers BufferFree
    inflight,   \* s.inflight: chunks by our reckoning still sounding
    ctx,        \* s.ctx
    cancelled,  \* contexts that have been cancelled
    loop,       \* the pacing loop: where it is, its chunk and its context
    cmdMu,      \* the connection is in a transaction
    aborter,    \* where each Abort is, and what it means to stop
    rig,        \* the radio's buffer, the chunk it is sounding first
    unpaced,    \* history: the radio may hold what inflight does not know of
    stale,      \* history: the loop's chunk was taken off the queue unsent
    silenced    \* history: chunks up to here were stopped by an Abort

textVars == <<queue, closed, queued>>
rigVars == <<rig, unpaced>>
abortVars == <<aborts, ctx, cancelled, aborter, silenced>>
vars == <<textVars, faults, asks, inflight, loop, cmdMu, rigVars, stale,
          abortVars>>

NoAbort == [at |-> "idle", ctx |-> 0, upTo |-> 0]

Init ==
    /\ queue = <<>> /\ closed = FALSE /\ queued = 0
    /\ aborts = 0 /\ faults = 0
    /\ asks \in BOOLEAN
    /\ inflight = <<>>
    /\ ctx = 0 /\ cancelled = {}
    /\ loop = [at |-> "head", chunk |-> 0, ctx |-> 0]
    /\ cmdMu = FALSE
    /\ aborter = [a \in Aborters |-> NoAbort]
    /\ rig = <<>> /\ unpaced = FALSE
    /\ stale = FALSE /\ silenced = 0

-----------------------------------------------------------------------------
(* The callers                                                              *)

\* The queue goes, and with it the chunk the loop is waiting to send.
DropQueue == stale' = (stale \/ loop.chunk \in ToSet(queue))

\* The slip of not telling the loop.
MutantBroadcast == UNCHANGED loop

\* s.cond.Broadcast: a loop asleep on an empty queue looks again.
Broadcast ==
    loop' = IF loop.at = "parked" THEN [loop EXCEPT !.at = "head"] ELSE loop

\* Enqueue of a text that fits one chunk; a longer one is several of these.
Enqueue(replace) ==
    /\ ~closed /\ queued < MaxTexts
    /\ queued' = queued + 1
    /\ IF replace
       THEN queue' = <<queued'>> /\ DropQueue
       ELSE queue' = Append(queue, queued') /\ UNCHANGED stale
    /\ Broadcast
    /\ UNCHANGED <<closed, faults, asks, inflight, cmdMu, rigVars, abortVars>>

Backlog == rig # <<>> \/ loop.at = "writing"

\* Abort, under the mutex: the queue and the estimate go, the context is
\* replaced.  From here until the radio has stopped it may hold more than
\* the estimate says.
AbortSwaps(a) ==
    /\ aborter[a].at = "idle" /\ aborts < MaxAborts
    /\ aborts' = aborts + 1
    /\ DropQueue
    /\ queue' = <<>> /\ inflight' = <<>>
    /\ ctx' = IF closed THEN ctx ELSE ctx + 1
    /\ aborter' = [aborter EXCEPT ![a] =
                     [at |-> "cancel", ctx |-> ctx, upTo |-> queued]]
    /\ Broadcast
    /\ unpaced' = (unpaced \/ Backlog)
    /\ UNCHANGED <<closed, queued, faults, asks, cancelled, cmdMu, rig, silenced>>

\* The slip of telling the radio and leaving the loop's transaction alone.
MutantAbortCancels(a) ==
    /\ aborter[a].at = "cancel"
    /\ aborter' = [aborter EXCEPT ![a].at = "stop"]
    /\ UNCHANGED <<textVars, faults, asks, inflight, loop, cmdMu, rigVars,
                   stale, aborts, ctx, cancelled, silenced>>

AbortCancels(a) ==
    /\ aborter[a].at = "cancel"
    /\ cancelled' = cancelled \cup {aborter[a].ctx}
    /\ aborter' = [aborter EXCEPT ![a].at = "stop"]
    /\ UNCHANGED <<textVars, faults, asks, inflight, loop, cmdMu, rigVars,
                   stale, aborts, ctx, silenced>>

\* ms.Abort: the radio stops and discards its buffer, or the transaction
\* fails, which is only logged.
AbortStops(a) ==
    /\ aborter[a].at = "stop" /\ ~cmdMu
    /\ \/ /\ rig' = <<>> /\ unpaced' = FALSE
          /\ silenced' = IF (\A b \in Aborters : aborter[b].at # "cancel")
                             /\ aborter[a].upTo > silenced
                         THEN aborter[a].upTo ELSE silenced
          /\ UNCHANGED faults
       \/ /\ faults < MaxFaults /\ faults' = faults + 1
          /\ UNCHANGED <<rigVars, silenced>>
    /\ aborter' = [aborter EXCEPT ![a] = NoAbort]
    /\ UNCHANGED <<textVars, asks, inflight, loop, cmdMu, stale, aborts, ctx,
                   cancelled>>

Close ==
    /\ ~closed /\ closed' = TRUE
    /\ DropQueue /\ queue' = <<>>
    /\ cancelled' = cancelled \cup {ctx}
    /\ Broadcast
    /\ UNCHANGED <<queued, faults, asks, inflight, cmdMu, rigVars, aborts, ctx,
                   aborter, silenced>>

-----------------------------------------------------------------------------
(* The pacing loop, run                                                     *)

Goes(where) == loop' = [loop EXCEPT !.at = where]

Aborted == loop.ctx \in cancelled

\* fail: a CAT error gives up on the whole queue.
Fail == queue' = <<>> /\ DropQueue

\* An error seen by the loop: the cancelling of its context is no failure.
SeesError == IF Aborted THEN UNCHANGED <<queue, stale>> ELSE Fail

LooksAtHead ==
    /\ loop.at = "head"
    /\ loop' = IF closed THEN [loop EXCEPT !.at = "done"]
               ELSE IF queue = <<>> THEN [loop EXCEPT !.at = "parked"]
               ELSE [at |-> "room", chunk |-> Head(queue), ctx |-> ctx]
    /\ stale' = FALSE
    /\ UNCHANGED <<textVars, faults, asks, inflight, cmdMu, rigVars, abortVars>>

MutantRoom == IF asks THEN Len(rig) <= RigRoom
              ELSE Len(inflight) <= ChunksInFlight + 1

\* waitForRoom with a radio that answers BufferFree; waitForDrain otherwise.
Room == IF asks THEN Len(rig) < RigRoom ELSE Len(inflight) <= ChunksInFlight

FindsRoom ==
    /\ loop.at = "room" /\ Room
    /\ asks => ~Aborted /\ ~cmdMu
    /\ Goes("recheck")
    /\ UNCHANGED <<textVars, faults, asks, inflight, cmdMu, rigVars, stale,
                   abortVars>>

\* The wait is given up: cancelled, or the radio could not be asked.
RoomFails ==
    /\ loop.at = "room"
    /\ \/ Aborted /\ UNCHANGED faults
       \/ asks /\ faults < MaxFaults /\ faults' = faults + 1
    /\ SeesError
    /\ Goes("head")
    /\ UNCHANGED <<closed, queued, asks, inflight, cmdMu, rigVars, abortVars>>

MutantStillHead == ~closed /\ ctx = loop.ctx /\ queue # <<>>

StillHead ==
    ~closed /\ ctx = loop.ctx /\ queue # <<>> /\ Head(queue) = loop.chunk

Rechecks ==
    /\ loop.at = "recheck"
    /\ IF StillHead
       THEN queue' = Tail(queue) /\ Goes("send")
       ELSE UNCHANGED queue /\ Goes("head")
    /\ UNCHANGED <<closed, queued, faults, asks, inflight, cmdMu, rigVars,
                   stale, abortVars>>

\* SendChunk takes the connection, or finds its context cancelled first.
SendBegins ==
    /\ loop.at = "send"
    /\ IF Aborted
       THEN Goes("head") /\ UNCHANGED cmdMu
       ELSE ~cmdMu /\ cmdMu' = TRUE /\ Goes("writing")
    /\ UNCHANGED <<textVars, faults, asks, inflight, rigVars, stale, abortVars>>

\* The radio takes the chunk.  The transaction may still end in an error: the
\* answer lost, or the context cancelled before it came.
SendWrites ==
    /\ loop.at = "writing"
    /\ rig' = Append(rig, loop.chunk)
    /\ cmdMu' = FALSE
    /\ \/ Goes("sent") /\ UNCHANGED <<faults, unpaced>>
       \/ Aborted /\ Goes("lost") /\ UNCHANGED faults /\ unpaced' = TRUE
       \/ /\ faults < MaxFaults /\ faults' = faults + 1
          /\ Goes("lost") /\ unpaced' = TRUE
    /\ UNCHANGED <<textVars, asks, inflight, stale, abortVars>>

\* Nothing reaches the radio: no link, or it refused the chunk.
SendFails ==
    /\ loop.at = "writing"
    /\ faults < MaxFaults /\ faults' = faults + 1
    /\ cmdMu' = FALSE
    /\ Goes("lost")
    /\ UNCHANGED <<textVars, asks, inflight, rigVars, stale, abortVars>>

\* recordSentLocked: whatever happened to the queue or the context since.
Records ==
    /\ loop.at = "sent"
    /\ inflight' = Append(inflight, loop.chunk)
    /\ Goes("head")
    /\ UNCHANGED <<textVars, faults, asks, cmdMu, rigVars, stale, abortVars>>

GivesUp ==
    /\ loop.at = "lost"
    /\ SeesError
    /\ Goes("head")
    /\ UNCHANGED <<closed, queued, faults, asks, inflight, cmdMu, rigVars, abortVars>>

-----------------------------------------------------------------------------
(* Time: the radio keys, and the estimate runs out                          *)

RigKeys ==
    /\ rig # <<>>
    /\ rig' = Tail(rig)
    /\ unpaced' = (unpaced /\ Len(rig) > 1)
    /\ UNCHANGED <<textVars, faults, asks, inflight, loop, cmdMu, stale, abortVars>>

\* pruneLocked.  The estimate of a chunk starts when it was acknowledged or
\* the one before it ends, so while it knows of everything the radio holds
\* it does not run out before the radio has keyed the chunk.
Elapses ==
    /\ inflight # <<>>
    /\ unpaced \/ Head(inflight) \notin ToSet(rig)
    /\ inflight' = Tail(inflight)
    /\ UNCHANGED <<textVars, faults, asks, loop, cmdMu, rigVars, stale, abortVars>>

-----------------------------------------------------------------------------
LoopStep ==
    \/ LooksAtHead \/ FindsRoom \/ RoomFails \/ Rechecks
    \/ SendBegins \/ SendWrites \/ SendFails \/ Records \/ GivesUp

AbortStep(a) == AbortCancels(a) \/ AbortStops(a)

Next ==
    \/ \E replace \in BOOLEAN : Enqueue(replace)
    \/ \E a \in Aborters : AbortSwaps(a) \/ AbortStep(a)
    \/ Close
    \/ LoopStep
    \/ RigKeys
    \/ Elapses

Spec == Init /\ [][Next]_vars

-----------------------------------------------------------------------------
(* Correctness                                                              *)

\* The radio's buffer is never overrun: a radio that can be asked never gets
\* more than it said it has room for, and one that cannot never more than
\* ChunksInFlight beyond the one it sounds, unless it may hold chunks the
\* estimate was told to forget (catSender.waitForRoom, waitForDrain).
NoOverrun ==
    IF asks THEN Len(rig) <= RigRoom
    ELSE ~unpaced => Len(rig) <= ChunksInFlight + 1

\* What Replace, Abort, Close or an error took off the queue is never handed
\* to the radio afterwards, and nothing is handed over twice or out of order
\* (catSender.run, the check after waitForRoom).
HandedOverOnce ==
    LET onTheWay == IF loop.at \in {"send", "writing"} THEN <<loop.chunk>> ELSE <<>>
        order == rig \o onTheWay \o queue
    IN  /\ \A i, j \in 1..Len(order) : i < j => order[i] < order[j]
        /\ onTheWay # <<>> => ~stale

\* Once Abort has returned and the radio took the order, none of the text
\* queued before that Abort sounds or will sound (catSender.Abort, whose two
\* halves and the cancelling in between make it so).  An Abort that stops the
\* radio while another is between unlocking and cancelling is not counted:
\* the chunk under way has the other's context, and its stop is still to come.
AbortSilences == \A i \in 1..Len(rig) : rig[i] > silenced

-----------------------------------------------------------------------------
\* What keeps these three through every step.
TypeOK ==
    /\ queue \in Seq(Nat) /\ rig \in Seq(Nat) /\ inflight \in Seq(Nat)
    /\ queued \in Nat /\ silenced \in Nat /\ faults \in Nat /\ ctx \in Nat
    /\ closed \in BOOLEAN /\ asks \in BOOLEAN /\ cmdMu \in BOOLEAN
    /\ unpaced \in BOOLEAN /\ stale \in BOOLEAN
    /\ cancelled \subseteq Nat
    /\ loop \in [at : {"head", "parked", "room", "recheck", "send", "writing", "sent",
                       "lost", "done"}, chunk : Nat, ctx : Nat]
    /\ aborter \in [Aborters -> [at : {"idle", "cancel", "stop"}, ctx : Nat, upTo : Nat]]

Increasing(s) == \A i, j \in 1..Len(s) : i < j => s[i] < s[j]

\* All that was accepted is numbered, what the radio has comes before what is
\* queued, and a chunk on its way is between them.
ChunksInOrder ==
    /\ Increasing(rig) /\ Increasing(queue)
    /\ \A j \in 1..Len(queue) :
          /\ 0 < queue[j] /\ queue[j] <= queued
          /\ \A i \in 1..Len(rig) : rig[i] < queue[j]
    /\ \A i \in 1..Len(rig) : rig[i] <= queued

OnTheWay ==
    /\ loop.chunk <= queued
    /\ loop.at \in {"send", "writing"} =>
          /\ ~stale
          /\ \A i \in 1..Len(rig) : rig[i] < loop.chunk
          /\ \A j \in 1..Len(queue) : loop.chunk < queue[j]
    \* A chunk taken off the queue is not found there again.
    /\ loop.at \in {"room", "recheck"} /\ stale =>
          \A j \in 1..Len(queue) : queue[j] # loop.chunk

\* The room found is still there when the chunk is written: nobody else writes.
RoomIsKept ==
    loop.at \in {"recheck", "send", "writing"} =>
        IF asks THEN Len(rig) < RigRoom ELSE Len(inflight) <= ChunksInFlight

\* The estimate, with the chunk about to be recorded, ends in what the radio has.
EstimateCovers ==
    LET est == IF loop.at = "sent" THEN Append(inflight, loop.chunk) ELSE inflight IN
    ~unpaced =>
        /\ Len(rig) <= Len(est)
        /\ \A i \in 1..Len(rig) : rig[i] = est[i + Len(est) - Len(rig)]

\* The loop's context is cancelled, or about to be.
Doomed ==
    Aborted \/ \E b \in Aborters : aborter[b].at = "cancel" /\ aborter[b].ctx = loop.ctx

\* An Abort leaves nothing of before it queued, and dooms the chunk on its way.
AbortsBite ==
    /\ loop.ctx # ctx => Doomed
    /\ silenced <= queued
    /\ loop.at = "writing" => cmdMu /\ loop.chunk > silenced
    /\ loop.at = "send" /\ loop.chunk <= silenced => Aborted
    /\ \A j \in 1..Len(queue) : queue[j] > silenced
    /\ \A a \in Aborters : aborter[a].at # "idle" =>
          /\ aborter[a].upTo <= queued
          /\ \A j \in 1..Len(queue) : queue[j] > aborter[a].upTo
          /\ loop.at = "send" /\ loop.chunk <= aborter[a].upTo => Doomed

CatInv ==
    /\ TypeOK /\ ChunksInOrder /\ OnTheWay /\ RoomIsKept /\ EstimateCovers /\ AbortsBite
    /\ NoOverrun /\ AbortSilences
=============================================================================
