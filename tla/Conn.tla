-------------------------------- MODULE Conn --------------------------------
(***************************************************************************)
(* One connection to a radio (internal/rig/conn.go): transactions that     *)
(* hold cmdMu from before the waiter is registered until it is gone, the   *)
(* one reader that applies every frame to the state cache and then hands   *)
(* it to a waiter by reply key, and the teardown that any side may begin.  *)
(*                                                                         *)
(* A reply carries a key and nothing that names the request it answers;    *)
(* the field "of" is the model's, so that properties can tell.  The radio  *)
(* and the line are external: a command may be ignored, answered as late   *)
(* as the radio likes, and the radio may speak unasked.                    *)
(***************************************************************************)
EXTENDS Naturals, Sequences

CONSTANTS
    Callers,    \* goroutines that use the connection
    Keys,       \* reply keys
    MaxCalls,   \* bound: transactions begun
    MaxPushes   \* bound: frames the radio sends unasked

ASSUME ConnAssumption ==
    /\ MaxCalls \in Nat /\ MaxPushes \in Nat
    /\ Keys \cap {"unsolicited", "none", "exited"} = {}
    /\ "nobody" \notin Callers

VARIABLES
    call,       \* call[c]: where c stands in Do or Send, for which key and number
    calls,      \* transactions begun so far
    cmdMu,      \* who holds cmdMu, or "nobody"
    waiters,    \* c.waiters
    slot,       \* slot[c]: the reply in the waiter's channel, or NoFrame
    toRig,      \* commands on their way to the radio
    fromRig,    \* frames on their way to the reader
    pushes,     \* frames sent unasked so far
    reader,     \* the frame applied and not yet delivered, NoFrame, or Exited
    applied,    \* history: transactions whose replies the cache has seen
    closing,    \* c.closing: the transport is closed
    closed,     \* conn.close has returned to the supervisor
    results     \* history: how each transaction ended

vars == <<call, calls, cmdMu, waiters, slot, toRig, fromRig, pushes, reader,
          applied, closing, closed, results>>
rigVars == <<toRig, fromRig, pushes>>
readerVars == <<reader, applied>>
linkVars == <<closing, closed>>
waitVars == <<cmdMu, waiters, slot, results>>

Nobody == "nobody"
NoFrame == [key |-> "none", of |-> 0]
Exited == [key |-> "exited", of |-> 0]
Frame == [key : Keys \cup {"unsolicited"}, of : 0..MaxCalls]

Idle == [at |-> "idle", kind |-> "none", key |-> "none", id |-> 0]

At(c, where) == call[c].at = where
Move(c, where) == call' = [call EXCEPT ![c].at = where]

-----------------------------------------------------------------------------
(* A transaction                                                            *)

\* c.waiters without the one at i.
Without(i) == SubSeq(waiters, 1, i - 1) \o SubSeq(waiters, i + 1, Len(waiters))

\* unregister: the waiter goes, if the reader has not taken it already.
Unregister(c) ==
    IF \E i \in 1..Len(waiters) : waiters[i] = c
    THEN \E i \in 1..Len(waiters) : waiters[i] = c /\ waiters' = Without(i)
    ELSE UNCHANGED waiters

\* A call that leaves its waiter behind.
MutantEndsKeepsWaiter(c, outcome, from) ==
    /\ call' = [call EXCEPT ![c] = Idle]
    /\ results' = results \cup {[id |-> call[c].id, outcome |-> outcome, from |-> from]}
    /\ slot' = [slot EXCEPT ![c] = NoFrame]
    /\ cmdMu' = Nobody
    /\ UNCHANGED waiters

\* A call that returns with the mutex held when its wait was in vain.
MutantEndsKeepsLock(c, outcome, from) ==
    /\ call' = [call EXCEPT ![c] = Idle]
    /\ results' = results \cup {[id |-> call[c].id, outcome |-> outcome, from |-> from]}
    /\ Unregister(c)
    /\ slot' = [slot EXCEPT ![c] = NoFrame]
    /\ cmdMu' = IF outcome = "timeout" THEN cmdMu ELSE Nobody

\* The call returns: unregister, and unlock last.
Ends(c, outcome, from) ==
    /\ call' = [call EXCEPT ![c] = Idle]
    /\ results' = results \cup {[id |-> call[c].id, outcome |-> outcome, from |-> from]}
    /\ Unregister(c)
    /\ slot' = [slot EXCEPT ![c] = NoFrame]
    /\ cmdMu' = Nobody

\* A backend calls Do, or Send for a command the radio does not answer.
Begins(c) ==
    /\ At(c, "idle") /\ calls < MaxCalls
    /\ \E kind \in {"do", "send"}, key \in Keys :
          call' = [call EXCEPT ![c] =
                     [at |-> "queued", kind |-> kind, key |-> key, id |-> calls + 1]]
    /\ calls' = calls + 1
    /\ UNCHANGED <<waitVars, rigVars, readerVars, linkVars>>

\* cmdMu.Lock, which no context interrupts.
Locks(c) ==
    /\ At(c, "queued") /\ cmdMu = Nobody
    /\ cmdMu' = c
    /\ Move(c, "locked")
    /\ UNCHANGED <<calls, waiters, slot, results, rigVars, readerVars, linkVars>>

\* ctx.Err after the lock, or the context ending the wait for a reply.
Cancelled(c) ==
    /\ At(c, "locked") \/ At(c, "waiting")
    /\ Ends(c, "cancelled", 0)
    /\ UNCHANGED <<calls, rigVars, readerVars, linkVars>>

\* Do: register, which refuses on a connection being closed.
Registers(c) ==
    /\ At(c, "locked") /\ call[c].kind = "do"
    /\ IF closing
       THEN Ends(c, "disconnected", 0)
       ELSE /\ waiters' = Append(waiters, c)
            /\ Move(c, "registered")
            /\ UNCHANGED <<cmdMu, slot, results>>
    /\ UNCHANGED <<calls, rigVars, readerVars, linkVars>>

\* The moment writeLocked is reached.
ReadyToWrite(c) == At(c, "registered") \/ (At(c, "locked") /\ call[c].kind = "send")

\* writeLocked puts the command on the wire; a Send is over.
Writes(c) ==
    /\ ReadyToWrite(c) /\ ~closing
    /\ toRig' = Append(toRig, [key |-> call[c].key, of |-> call[c].id])
    /\ IF call[c].kind = "send"
       THEN Ends(c, "sent", 0)
       ELSE Move(c, "waiting") /\ UNCHANGED waitVars
    /\ UNCHANGED <<calls, fromRig, pushes, readerVars, linkVars>>

\* writeLocked fails: the connection is closing, or the write finds the port
\* gone and closes it.
WriteFails(c) ==
    /\ ReadyToWrite(c)
    /\ closing' = TRUE
    /\ Ends(c, "disconnected", 0)
    /\ UNCHANGED <<calls, closed, rigVars, readerVars>>

\* select: the waiter's channel.
Replied(c) ==
    /\ At(c, "waiting") /\ slot[c] # NoFrame
    /\ Ends(c, "reply", slot[c].of)
    /\ UNCHANGED <<calls, rigVars, readerVars, linkVars>>

\* select: the timer, which may win over a reply already there.
TimesOut(c) ==
    /\ At(c, "waiting")
    /\ Ends(c, "timeout", 0)
    /\ UNCHANGED <<calls, rigVars, readerVars, linkVars>>

\* select: c.done, with a last look at the channel.
Disconnected(c) ==
    /\ At(c, "waiting") /\ reader = Exited /\ slot[c] = NoFrame
    /\ Ends(c, "disconnected", 0)
    /\ UNCHANGED <<calls, rigVars, readerVars, linkVars>>

-----------------------------------------------------------------------------
(* The radio                                                                *)

\* An answer, a refusal, or silence.
RigAnswers ==
    /\ toRig # <<>>
    /\ toRig' = Tail(toRig)
    /\ fromRig' \in {fromRig, Append(fromRig, Head(toRig))}
    /\ UNCHANGED <<call, calls, pushes, waitVars, readerVars, linkVars>>

\* A push, the echo of a CI-V bus, or a frame that happens to have a reply's key.
RigPushes ==
    /\ pushes < MaxPushes
    /\ pushes' = pushes + 1
    /\ \E key \in Keys \cup {"unsolicited"} :
          fromRig' = Append(fromRig, [key |-> key, of |-> 0])
    /\ UNCHANGED <<call, calls, toRig, waitVars, readerVars, linkVars>>

-----------------------------------------------------------------------------
(* The reader                                                               *)

\* A reader that leaves the cache to whoever asked.
MutantApplies ==
    /\ reader = NoFrame /\ fromRig # <<>>
    /\ reader' = Head(fromRig)
    /\ fromRig' = Tail(fromRig)
    /\ UNCHANGED <<call, calls, toRig, pushes, applied, waitVars, linkVars>>

\* applyUpdate.  What the scanner has buffered is still read after the close.
Applies ==
    /\ reader = NoFrame /\ fromRig # <<>>
    /\ reader' = Head(fromRig)
    /\ fromRig' = Tail(fromRig)
    /\ applied' = applied \cup {Head(fromRig).of}
    /\ UNCHANGED <<call, calls, toRig, pushes, waitVars, linkVars>>

\* The waiters that want the reader's frame, by position.
Wanting == {i \in 1..Len(waiters) : call[waiters[i]].key = reader.key}

\* deliver, to the oldest of them; nobody waiting, the frame is dropped.
Delivers ==
    /\ reader \notin {NoFrame, Exited}
    /\ reader' = NoFrame
    /\ IF Wanting = {}
       THEN UNCHANGED <<waiters, slot>>
       ELSE \E i \in Wanting :
            /\ \A j \in Wanting : i <= j
            /\ slot' = [slot EXCEPT ![waiters[i]] = reader]
            /\ waiters' = Without(i)
    /\ UNCHANGED <<call, calls, cmdMu, results, rigVars, applied, linkVars>>

\* End of the stream: fail, forget the waiters, close c.done.
ReaderExits ==
    /\ reader = NoFrame
    /\ reader' = Exited
    /\ closing' = TRUE
    /\ waiters' = <<>>
    /\ UNCHANGED <<call, calls, cmdMu, slot, results, rigVars, applied, closed>>

-----------------------------------------------------------------------------
(* The owners                                                               *)

\* fail: the poller gives up, or the supervisor tears the connection down.
Fails ==
    /\ ~closing
    /\ closing' = TRUE
    /\ UNCHANGED <<call, calls, waitVars, rigVars, readerVars, closed>>

\* A close that does not wait for the reader.
MutantCloses ==
    /\ closing /\ ~closed
    /\ closed' = TRUE
    /\ UNCHANGED <<call, calls, waitVars, rigVars, readerVars, closing>>

\* close returns once the reader has gone.
Closes ==
    /\ closing /\ ~closed /\ reader = Exited
    /\ closed' = TRUE
    /\ UNCHANGED <<call, calls, waitVars, rigVars, readerVars, closing>>

-----------------------------------------------------------------------------

Init ==
    /\ call = [c \in Callers |-> Idle] /\ calls = 0
    /\ cmdMu = Nobody /\ waiters = <<>>
    /\ slot = [c \in Callers |-> NoFrame]
    /\ toRig = <<>> /\ fromRig = <<>> /\ pushes = 0
    /\ reader = NoFrame /\ applied = {}
    /\ closing = FALSE /\ closed = FALSE
    /\ results = {}

\* A Do that registers its waiter when the write is done.
MutantDo(c) ==
    \/ Locks(c) \/ Cancelled(c) \/ Writes(c) \/ WriteFails(c)
    \/ Replied(c) \/ TimesOut(c) \/ Disconnected(c)
    \/ /\ At(c, "locked") /\ call[c].kind = "do"
       /\ Move(c, "registered")
       /\ UNCHANGED <<calls, waitVars, rigVars, readerVars, linkVars>>
    \/ /\ At(c, "waiting") /\ waiters = <<>>
       /\ waiters' = Append(waiters, c)
       /\ UNCHANGED <<call, calls, cmdMu, slot, results, rigVars, readerVars, linkVars>>

Do(c) ==
    \/ Locks(c) \/ Cancelled(c) \/ Registers(c) \/ Writes(c) \/ WriteFails(c)
    \/ Replied(c) \/ TimesOut(c) \/ Disconnected(c)

Next ==
    \/ \E c \in Callers : Begins(c) \/ Do(c)
    \/ RigAnswers \/ RigPushes
    \/ Applies \/ Delivers \/ ReaderExits
    \/ Fails \/ Closes

Spec == Init /\ [][Next]_vars

\* What the holder of cmdMu waits for, and what the reader does, without end of
\* stream while the transport is open.
Proceeds(c) ==
    \/ Registers(c) \/ Writes(c) \/ WriteFails(c)
    \/ Replied(c) \/ TimesOut(c) \/ Disconnected(c)
Reads == Applies \/ Delivers \/ (closing /\ ReaderExits)

\* A goroutine that can take a step does; sync.Mutex serves a waiter it has
\* starved; a transport that is closed ends the reader's stream.
Fairness ==
    /\ \A c \in Callers : SF_vars(Locks(c)) /\ WF_vars(Proceeds(c))
    /\ WF_vars(Reads) /\ WF_vars(Closes)

FairSpec == Spec /\ Fairness

-----------------------------------------------------------------------------
(* Properties                                                               *)

TypeOK ==
    /\ call \in [Callers -> [at : {"queued", "locked", "registered", "waiting"},
                             kind : {"do", "send"}, key : Keys, id : 1..MaxCalls] \cup {Idle}]
    /\ calls \in 0..MaxCalls
    /\ cmdMu \in Callers \cup {Nobody}
    /\ waiters \in Seq(Callers)
    /\ slot \in [Callers -> Frame \cup {NoFrame}]
    /\ toRig \in Seq(Frame) /\ fromRig \in Seq(Frame)
    /\ pushes \in 0..MaxPushes
    /\ reader \in Frame \cup {NoFrame, Exited}
    /\ applied \subseteq 0..MaxCalls
    /\ closing \in BOOLEAN /\ closed \in BOOLEAN
    /\ results \subseteq [id : 1..MaxCalls,
                          outcome : {"reply", "sent", "timeout", "cancelled", "disconnected"},
                          from : 0..MaxCalls]

\* However many goroutines use the radio, one transaction is on the wire at a
\* time: a waiter belongs to the holder of cmdMu, and nobody leaves one behind.
OneTransaction ==
    /\ \A c \in Callers : call[c].at \in {"locked", "registered", "waiting"} <=> cmdMu = c
    /\ Len(waiters) <= 1
    /\ \A i \in 1..Len(waiters) : cmdMu = waiters[i] /\ call[waiters[i]].at \in {"registered", "waiting"}
    /\ \A c \in Callers : slot[c] # NoFrame => cmdMu = c

\* What a frame answers, if it answers a call under way, has that call's key.
Fits(f) ==
    /\ f.of <= calls
    /\ \A c \in Callers : ~At(c, "idle") /\ call[c].id = f.of => call[c].key = f.key

FramesFit ==
    /\ \A i \in 1..Len(toRig) : Fits(toRig[i])
    /\ \A i \in 1..Len(fromRig) : Fits(fromRig[i])
    /\ reader \in Frame => Fits(reader)
    /\ \A c \in Callers : ~At(c, "idle") => call[c].id \in 1..calls
    /\ \A c, d \in Callers : c # d /\ ~At(c, "idle") => call[c].id # call[d].id

\* A call that waits can be found by the reader, or has its reply, or will see
\* that the reader is gone.
WaiterListens ==
    \A c \in Callers : At(c, "registered") \/ At(c, "waiting") =>
        \/ slot[c] # NoFrame
        \/ reader = Exited
        \/ \E i \in 1..Len(waiters) : waiters[i] = c

\* A reply that waits in a channel has been applied, and the reader applies
\* before it delivers; it has gone when close returns.
AppliedFirst ==
    /\ reader \in Frame => reader.of \in applied
    /\ \A c \in Callers : slot[c] # NoFrame => slot[c].of \in applied
    /\ closed => reader = Exited

\* The inductive invariant.
ConnInv == TypeOK /\ OneTransaction /\ FramesFit /\ WaiterListens /\ AppliedFirst

\* A transaction that ends with a reply finds it in the state cache: what reads
\* the cache after a poll reads what the poll brought.
ReplyIsInCache == \A r \in results : r.outcome = "reply" => r.from \in applied

\* The reader never throws away the answer to a transaction that still waits for
\* one: the waiter is there before the radio can have answered.
NoAnswerLost ==
    [][\A c \in Callers :
          At(c, "waiting") /\ slot[c] = NoFrame /\ reader.of = call[c].id /\ reader' = NoFrame
              => slot'[c] # NoFrame]_vars

\* Once close has returned the connection's frames no longer reach the cache.
NothingAppliedAfterClose == [][closed => UNCHANGED applied]_vars

\* Every transaction returns, whatever the radio and the line do.
EveryCallReturns == \A c \in Callers : ~At(c, "idle") ~> At(c, "idle")
=============================================================================
