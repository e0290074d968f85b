------------------------------ MODULE LinkProofs ------------------------------
(***************************************************************************)
(* Proofs about Link: the transactions of a connection (Conn), the life of *)
(* connections (Supervisor) and the way of an event to the WebSocket hub   *)
(* (Delivery), for any number of callers, requests, faults, radios, events *)
(* and buffers of any size.  ConnInv, SupervisorInv and DeliveryInv are    *)
(* inductive, each for its part; a step of Link is a step of one part.     *)
(***************************************************************************)
EXTENDS MCLink, SequenceTheorems, TLAPS

-----------------------------------------------------------------------------
(* The transactions of a connection                                         *)

\* Records of calls and frames, as the provers need to see them.
Calling == [at : {"queued", "locked", "registered", "waiting"},
            kind : {"do", "send"}, key : Keys, id : 1..MaxCalls]

\* The sentinels are no frames.
LEMMA NoFrameIsNone == NoFrame \notin Frame /\ Exited \notin Frame /\ NoFrame # Exited
<1> QED
  BY ConnAssumption DEF NoFrame, Exited, Frame

\* A call in any stage is told from an idle caller.
LEMMA IdleIsIdle ==
  /\ Idle.at = "idle" /\ Idle.id = 0
  /\ \A x \in Calling : /\ x.at \in {"queued", "locked", "registered", "waiting"}
                        /\ x.at # "idle" /\ x.key \in Keys /\ x.id \in 1..MaxCalls
<1> QED
  BY DEF Idle, Calling

\* A sequence of at most one element loses it.
LEMMA LastRemoved ==
  ASSUME NEW S, NEW s \in Seq(S), Len(s) <= 1, NEW i \in 1..Len(s)
  PROVE  SubSeq(s, 1, i - 1) \o SubSeq(s, i + 1, Len(s)) = <<>>
<1>0. Len(s) \in Nat
  BY LenProperties
<1>1. i = 1 /\ Len(s) = 1
  <2>1. ASSUME NEW n \in Nat, n <= 1, NEW k \in 1..n PROVE k = 1 /\ n = 1
    BY <2>1
  <2> QED
    BY <1>0, <2>1
<1>2. SubSeq(s, 1, 0) = <<>> /\ SubSeq(s, 2, 1) = <<>>
  BY SubSeqEmpty
<1>3. <<>> \o <<>> = <<>>
  BY ConcatEmptySeq, EmptySeq
<1> QED
  BY <1>1, <1>2, <1>3

\* Taking the first of a queue, or adding one at its end, keeps what holds of
\* all its members.
LEMMA TailOf ==
  ASSUME NEW S, NEW s \in Seq(S), s # <<>>
  PROVE  /\ Tail(s) \in Seq(S) /\ Head(s) \in S /\ Head(s) = s[1] /\ 1 \in 1..Len(s)
         /\ \A i \in 1..Len(Tail(s)) : i + 1 \in 1..Len(s) /\ Tail(s)[i] = s[i + 1]
<1> QED
  OBVIOUS

\* What appending does to a queue.
LEMMA AppendOf ==
  ASSUME NEW S, NEW s \in Seq(S), NEW e \in S
  PROVE  /\ Append(s, e) \in Seq(S) /\ Len(Append(s, e)) = Len(s) + 1
         /\ Append(s, e)[Len(s) + 1] = e
         /\ \A i \in 1..Len(s) : Append(s, e)[i] = s[i]
<1> QED
  OBVIOUS

\* A connection just made (newConn).
LEMMA InitInv == Init => ConnInv
<1> SUFFICES ASSUME Init PROVE ConnInv
  OBVIOUS
<1> USE ConnAssumption
<1>1. TypeOK
  <2>1. call \in [Callers -> Calling \cup {Idle}] /\ slot \in [Callers -> Frame \cup {NoFrame}]
    BY DEF Init
  <2>2. waiters \in Seq(Callers) /\ toRig \in Seq(Frame) /\ fromRig \in Seq(Frame)
    BY DEF Init
  <2>3. calls \in 0..MaxCalls /\ pushes \in 0..MaxPushes /\ cmdMu \in Callers \cup {Nobody}
    BY DEF Init
  <2>4. /\ reader \in Frame \cup {NoFrame, Exited} /\ applied \subseteq 0..MaxCalls
        /\ closing \in BOOLEAN /\ closed \in BOOLEAN /\ results = {}
    BY DEF Init
  <2> QED
    BY <2>1, <2>2, <2>3, <2>4 DEF TypeOK, Calling
<1>2. OneTransaction
  BY DEF Init, OneTransaction, Idle, Nobody
<1>3. FramesFit
  BY NoFrameIsNone DEF Init, FramesFit, Fits, At, Idle
<1>4. WaiterListens
  BY DEF Init, WaiterListens, At, Idle
<1>5. AppliedFirst
  BY NoFrameIsNone DEF Init, AppliedFirst
<1> QED
  BY <1>1, <1>2, <1>3, <1>4, <1>5 DEF ConnInv

-----------------------------------------------------------------------------
(* What the helpers of the actions do                                       *)

\* The holder of cmdMu unregisters: no waiter is left.
LEMMA NoWaiterLeft ==
  ASSUME TypeOK, OneTransaction, NEW c \in Callers, cmdMu = c, Unregister(c)
  PROVE  waiters' = <<>>
<1>1. waiters \in Seq(Callers) /\ Len(waiters) <= 1 /\ Len(waiters) \in Nat
  BY LenProperties DEF TypeOK, OneTransaction
<1>2. CASE \E i \in 1..Len(waiters) : waiters[i] = c
  <2>1. PICK i \in 1..Len(waiters) : waiters' = Without(i)
    BY <1>2 DEF Unregister
  <2> QED
    BY <1>1, <2>1, LastRemoved DEF Without
<1>3. CASE ~\E i \in 1..Len(waiters) : waiters[i] = c
  <2>1. \A i \in 1..Len(waiters) : waiters[i] = c
    BY DEF OneTransaction
  <2>2. Len(waiters) = 0
    BY <1>1, <1>3, <2>1
  <2> QED
    BY <1>1, <1>3, <2>2, EmptySeq DEF Unregister
<1> QED
  BY <1>2, <1>3

\* A call that moves keeps its key and number.
LEMMA Moved ==
  ASSUME TypeOK, NEW c \in Callers, call[c].at # "idle",
         NEW where \in {"queued", "locked", "registered", "waiting"}, Move(c, where)
  PROVE  /\ call' \in [Callers -> Calling \cup {Idle}]
         /\ call'[c].at = where /\ call'[c].key = call[c].key /\ call'[c].id = call[c].id
         /\ \A d \in Callers : d # c => call'[d] = call[d]
<1>1. call[c] \in Calling
  BY IdleIsIdle DEF TypeOK, Calling
<1>2. [call[c] EXCEPT !.at = where] \in Calling
  BY <1>1 DEF Calling
<1>3. call' = [call EXCEPT ![c] = [call[c] EXCEPT !.at = where]]
  BY DEF Move
<1>4. /\ [call[c] EXCEPT !.at = where].at = where
      /\ [call[c] EXCEPT !.at = where].key = call[c].key
      /\ [call[c] EXCEPT !.at = where].id = call[c].id
  BY <1>1 DEF Calling
<1> HIDE DEF Calling
<1> QED
  BY <1>2, <1>3, <1>4 DEF TypeOK, Calling

\* Frames that fitted still do when no call begins or changes its key or number.
LEMMA StillFits ==
  ASSUME NEW f, Fits(f), calls' = calls,
         \A d \in Callers : \/ call'[d].at = "idle"
                            \/ call[d].at # "idle" /\ call'[d].id = call[d].id
                                                  /\ call'[d].key = call[d].key
  PROVE  f.of <= calls' /\ \A d \in Callers :
            ~At(d, "idle")' /\ call'[d].id = f.of => call'[d].key = f.key
<1> QED
  BY DEF Fits, At

\* A call that returns leaves no trace of itself.
LEMMA EndedInv ==
  ASSUME ConnInv, NEW c \in Callers, cmdMu = c,
         NEW outcome \in {"reply", "sent", "timeout", "cancelled", "disconnected"},
         NEW from \in 0..MaxCalls, Ends(c, outcome, from),
         UNCHANGED <<calls, fromRig, pushes, reader, applied, closed>>,
         toRig' \in Seq(Frame), \A i \in 1..Len(toRig') : Fits(toRig'[i]),
         closing' \in BOOLEAN
  PROVE  ConnInv'
<1> USE ConnAssumption
<1>1. TypeOK /\ OneTransaction /\ FramesFit /\ WaiterListens /\ AppliedFirst
  BY DEF ConnInv
<1>2. waiters' = <<>>
  BY <1>1, NoWaiterLeft DEF Ends
<1>3. call[c] \in Calling /\ call[c].at # "idle"
  BY <1>1, IdleIsIdle DEF TypeOK, OneTransaction, Calling
<1>4. /\ call' \in [Callers -> Calling \cup {Idle}]
      /\ call'[c] = Idle /\ \A d \in Callers : d # c => call'[d] = call[d]
  BY <1>1 DEF TypeOK, Ends, Calling
<1>5. /\ slot' \in [Callers -> Frame \cup {NoFrame}]
      /\ slot'[c] = NoFrame /\ \A d \in Callers : d # c => slot'[d] = slot[d]
  BY <1>1 DEF TypeOK, Ends
<1>6. results' \subseteq [id : 1..MaxCalls,
                         outcome : {"reply", "sent", "timeout", "cancelled", "disconnected"},
                         from : 0..MaxCalls]
  BY <1>1, <1>3, IdleIsIdle DEF TypeOK, Ends
<1>7. TypeOK'
  BY <1>1, <1>2, <1>4, <1>5, <1>6, EmptySeq DEF TypeOK, Calling, Ends
<1>8. OneTransaction'
  BY <1>1, <1>2, <1>4, <1>5, EmptySeq, IdleIsIdle DEF OneTransaction, Ends, TypeOK, Nobody
<1>9. \A d \in Callers : \/ call'[d].at = "idle"
                         \/ call[d].at # "idle" /\ call'[d].id = call[d].id
                                               /\ call'[d].key = call[d].key
  BY <1>4, IdleIsIdle
<1>10. FramesFit'
  <2> DEFINE After(f) ==
        /\ f.of <= calls'
        /\ \A d \in Callers : call'[d].at # "idle" /\ call'[d].id = f.of => call'[d].key = f.key
  <2>1. \A f : Fits(f) => After(f)
    BY <1>9, StillFits DEF At
  <2>2. \A i \in 1..Len(toRig') : After(toRig'[i])
    BY <2>1
  <2>3. \A i \in 1..Len(fromRig') : After(fromRig'[i])
    <3> HIDE DEF After
    <3> QED  BY <1>1, <2>1 DEF FramesFit
  <2>4. reader' \in Frame => After(reader')
    <3> HIDE DEF After
    <3> QED  BY <1>1, <2>1 DEF FramesFit
  <2>5. (\A d \in Callers : ~At(d, "idle") => call[d].id \in 1..calls)'
    BY <1>1, <1>4, IdleIsIdle DEF FramesFit, At
  <2>6. (\A d, e \in Callers : d # e /\ ~At(d, "idle") => call[d].id # call[e].id)'
    <3> SUFFICES ASSUME NEW d \in Callers, NEW e \in Callers, d # e, call'[d].at # "idle"
                 PROVE  call'[d].id # call'[e].id
      BY DEF At
    <3>1. call'[d] = call[d] /\ call[d].id \in 1..calls
      BY <1>1, <1>4, IdleIsIdle DEF FramesFit, At
    <3>2. CASE e = c
      BY <3>1, <3>2, <1>4, IdleIsIdle
    <3>3. CASE e # c
      BY <3>1, <3>3, <1>1, <1>4 DEF FramesFit, At
    <3> QED  BY <3>2, <3>3
  <2> QED
    BY <2>2, <2>3, <2>4, <2>5, <2>6 DEF FramesFit, Fits, At
<1>11. WaiterListens'
  BY <1>1, <1>4, IdleIsIdle DEF WaiterListens, OneTransaction, At, Nobody
<1>12. AppliedFirst'
  BY <1>1, <1>5 DEF AppliedFirst
<1> QED
  BY <1>7, <1>8, <1>10, <1>11, <1>12 DEF ConnInv

\* A call that moves on changes nothing frames could fit.
LEMMA MovedFits ==
  ASSUME ConnInv, NEW c \in Callers, ~At(c, "idle"),
         NEW where \in {"queued", "locked", "registered", "waiting"}, Move(c, where),
         UNCHANGED <<calls, fromRig, reader>>,
         \A i \in 1..Len(toRig') : Fits(toRig'[i])
  PROVE  FramesFit'
<1> DEFINE After(f) ==
      /\ f.of <= calls'
      /\ \A d \in Callers : call'[d].at # "idle" /\ call'[d].id = f.of => call'[d].key = f.key
<1>1. FramesFit /\ TypeOK
  BY DEF ConnInv
<1>2. \A d \in Callers : /\ call'[d].at = "idle" <=> call[d].at = "idle"
                         /\ call'[d].id = call[d].id /\ call'[d].key = call[d].key
  BY <1>1, Moved DEF At
<1>3. \A f : Fits(f) => After(f)
  BY <1>2 DEF Fits, At
<1>4. /\ \A i \in 1..Len(toRig') : After(toRig'[i])
      /\ \A i \in 1..Len(fromRig') : After(fromRig'[i])
      /\ reader' \in Frame => After(reader')
  <2> HIDE DEF After
  <2> QED  BY <1>1, <1>3 DEF FramesFit
<1>5. /\ (\A d \in Callers : ~At(d, "idle") => call[d].id \in 1..calls)'
      /\ (\A d, e \in Callers : d # e /\ ~At(d, "idle") => call[d].id # call[e].id)'
  BY <1>1, <1>2 DEF FramesFit, At
<1> QED
  BY <1>4, <1>5 DEF FramesFit, Fits, At

-----------------------------------------------------------------------------
(* The actions of a caller                                                  *)

\* A call waits for cmdMu (conn.Do, conn.Send).
LEMMA BeginsInv == ASSUME ConnInv, NEW c \in Callers, Begins(c) PROVE ConnInv'
<1>1. TypeOK /\ OneTransaction /\ FramesFit /\ WaiterListens /\ AppliedFirst
  BY DEF ConnInv
<1>2. PICK new \in Calling : /\ new.at = "queued" /\ new.id = calls + 1
                             /\ call' = [call EXCEPT ![c] = new]
  <2>1. PICK kind \in {"do", "send"}, key \in Keys :
           call' = [call EXCEPT ![c] = [at |-> "queued", kind |-> kind, key |-> key, id |-> calls + 1]]
    BY DEF Begins
  <2>2. [at |-> "queued", kind |-> kind, key |-> key, id |-> calls + 1] \in Calling
    BY <1>1, ConnAssumption DEF Begins, TypeOK, Calling
  <2> QED
    BY <2>1, <2>2
<1> HIDE DEF Calling
<1>3. /\ call' \in [Callers -> Calling \cup {Idle}] /\ call'[c] = new
      /\ \A d \in Callers : d # c => call'[d] = call[d]
  BY <1>1, <1>2 DEF TypeOK, Calling
<1>4. calls' = calls + 1 /\ calls \in Nat /\ calls' \in 0..MaxCalls
  BY <1>1, ConnAssumption DEF Begins, TypeOK
<1>5. TypeOK'
  BY <1>1, <1>3, <1>4 DEF TypeOK, Calling, Begins, waitVars, rigVars, readerVars, linkVars
<1>6. OneTransaction'
  BY <1>1, <1>2, <1>3 DEF OneTransaction, Begins, waitVars, At
<1>7. FramesFit'
  <2> DEFINE After(f) ==
        /\ f.of <= calls'
        /\ \A d \in Callers : call'[d].at # "idle" /\ call'[d].id = f.of => call'[d].key = f.key
  <2>1. \A f \in Frame : Fits(f) => After(f)
    BY <1>2, <1>3, <1>4 DEF Fits, At, Frame
  <2>2. /\ \A i \in 1..Len(toRig') : After(toRig'[i])
        /\ \A i \in 1..Len(fromRig') : After(fromRig'[i])
        /\ reader' \in Frame => After(reader')
    <3> HIDE DEF After
    <3>1. /\ \A i \in 1..Len(toRig) : toRig[i] \in Frame
          /\ \A i \in 1..Len(fromRig) : fromRig[i] \in Frame
      BY <1>1, ElementOfSeq DEF TypeOK
    <3> QED  BY <1>1, <2>1, <3>1 DEF FramesFit, Begins, rigVars, readerVars
  <2>3. (\A d \in Callers : ~At(d, "idle") => call[d].id \in 1..calls)'
    BY <1>1, <1>2, <1>3, <1>4 DEF FramesFit, At
  <2>4. ASSUME NEW d \in Callers, NEW e \in Callers, d # e, call'[d].at # "idle"
        PROVE  call'[d].id # call'[e].id
    <3>1. \A x \in Callers : x # c => call'[x].id \in 0..calls
      BY <1>1, <1>3, <1>4, IdleIsIdle DEF FramesFit, At, TypeOK, Calling
    <3>2. CASE d = c
      BY <3>1, <3>2, <2>4, <1>2, <1>3, <1>4
    <3>3. CASE e = c
      BY <3>1, <3>3, <2>4, <1>2, <1>3, <1>4
    <3>4. CASE d # c /\ e # c
      BY <3>4, <2>4, <1>1, <1>3 DEF FramesFit, At
    <3> QED  BY <3>2, <3>3, <3>4
  <2> QED
    BY <2>2, <2>3, <2>4 DEF FramesFit, Fits, At
<1>8. WaiterListens'
  BY <1>1, <1>2, <1>3 DEF WaiterListens, At, Begins, waitVars, readerVars
<1>9. AppliedFirst'
  BY <1>1 DEF AppliedFirst, Begins, waitVars, readerVars, linkVars
<1> QED
  BY <1>5, <1>6, <1>7, <1>8, <1>9 DEF ConnInv

\* A call has cmdMu.
LEMMA LocksInv == ASSUME ConnInv, NEW c \in Callers, Locks(c) PROVE ConnInv'
<1>1. TypeOK /\ OneTransaction /\ FramesFit /\ WaiterListens /\ AppliedFirst
  BY DEF ConnInv
<1>2. /\ call' \in [Callers -> Calling \cup {Idle}]
      /\ call'[c].at = "locked" /\ \A d \in Callers : d # c => call'[d] = call[d]
  BY <1>1, Moved DEF Locks, At
<1> HIDE DEF Calling
<1>3. TypeOK'
  BY <1>1, <1>2 DEF TypeOK, Calling, Locks, rigVars, readerVars, linkVars
<1>4. OneTransaction'
  BY <1>1, <1>2, ConnAssumption DEF OneTransaction, Locks, Nobody, TypeOK
<1>5. FramesFit'
  BY <1>1, MovedFits DEF Locks, At, rigVars, readerVars, FramesFit
<1>6. WaiterListens'
  BY <1>1, <1>2 DEF WaiterListens, At, Locks, readerVars
<1>7. AppliedFirst'
  BY <1>1 DEF AppliedFirst, Locks, readerVars, linkVars
<1> QED
  BY <1>3, <1>4, <1>5, <1>6, <1>7 DEF ConnInv

\* Whoever is past the lock holds it.
LEMMA Holding ==
  ASSUME OneTransaction, NEW c \in Callers,
         At(c, "locked") \/ At(c, "registered") \/ At(c, "waiting")
  PROVE  cmdMu = c
<1> QED
  BY DEF OneTransaction, At

\* A call puts its waiter in the table (conn.Do).
LEMMA RegistersInv == ASSUME ConnInv, NEW c \in Callers, Registers(c) PROVE ConnInv'
<1>1. TypeOK /\ OneTransaction /\ FramesFit /\ WaiterListens /\ AppliedFirst
  BY DEF ConnInv
<1>2. cmdMu = c
  BY <1>1, Holding DEF Registers
<1>3. CASE closing
  BY <1>1, <1>2, <1>3, EndedInv, ConnAssumption
     DEF Registers, rigVars, readerVars, linkVars, TypeOK, FramesFit
<1>4. CASE ~closing
  <2>1. /\ call' \in [Callers -> Calling \cup {Idle}]
        /\ call'[c].at = "registered" /\ \A d \in Callers : d # c => call'[d] = call[d]
    BY <1>1, <1>4, Moved DEF Registers, At
  <2>2. waiters = <<>>
    <3>1. waiters \in Seq(Callers) /\ Len(waiters) \in Nat
      BY <1>1, LenProperties DEF TypeOK
    <3>2. Len(waiters) = 0
      BY <1>1, <1>2, <3>1 DEF OneTransaction, Registers, At
    <3> QED  BY <3>1, <3>2, EmptySeq
  <2>3. waiters' \in Seq(Callers) /\ Len(waiters') = 1 /\ waiters'[1] = c
    <3>1. <<>> \in Seq(Callers) /\ Len(<<>>) = 0 /\ waiters' = Append(<<>>, c)
      BY <1>4, <2>2 DEF Registers
    <3>2. /\ Append(<<>>, c) \in Seq(Callers) /\ Len(Append(<<>>, c)) = Len(<<>>) + 1
          /\ Append(<<>>, c)[Len(<<>>) + 1] = c
      BY <3>1, AppendOf
    <3> QED  BY <3>1, <3>2
  <2> HIDE DEF Calling
  <2>4. TypeOK'
    BY <1>1, <1>4, <2>1, <2>3 DEF TypeOK, Calling, Registers, rigVars, readerVars, linkVars
  <2>5. OneTransaction'
    BY <1>1, <1>2, <1>4, <2>1, <2>3 DEF OneTransaction, Registers, At
  <2>6. FramesFit'
    BY <1>1, <1>4, MovedFits DEF Registers, At, rigVars, readerVars, FramesFit
  <2>7. WaiterListens'
    BY <1>1, <1>2, <1>4, <2>1, <2>3 DEF WaiterListens, At, OneTransaction
  <2>8. AppliedFirst'
    BY <1>1, <1>4 DEF AppliedFirst, Registers, readerVars, linkVars
  <2> QED
    BY <2>4, <2>5, <2>6, <2>7, <2>8 DEF ConnInv
<1> QED
  BY <1>3, <1>4

\* A call writes its frame (conn.Do, conn.Send).
LEMMA WritesInv == ASSUME ConnInv, NEW c \in Callers, Writes(c) PROVE ConnInv'
<1> DEFINE command == [key |-> call[c].key, of |-> call[c].id]
<1>1. TypeOK /\ OneTransaction /\ FramesFit /\ WaiterListens /\ AppliedFirst
  BY DEF ConnInv
<1>2. cmdMu = c
  BY <1>1, Holding DEF Writes, ReadyToWrite
<1>3. call[c] \in Calling /\ ~At(c, "idle")
  BY <1>1, IdleIsIdle DEF TypeOK, Calling, Writes, ReadyToWrite, At
<1>4. command \in Frame /\ Fits(command)
  <2>1. command \in Frame
    BY <1>3, IdleIsIdle, ConnAssumption DEF Frame
  <2>2. command.of <= calls
    BY <1>1, <1>3, ConnAssumption DEF FramesFit, TypeOK
  <2>3. ASSUME NEW d \in Callers, ~At(d, "idle"), call[d].id = command.of
        PROVE  call[d].key = command.key
    BY <1>1, <1>3, <2>3 DEF FramesFit
  <2> QED
    BY <2>1, <2>2, <2>3 DEF Fits
<1> HIDE DEF command
<1>5. toRig' = Append(toRig, command)
  BY DEF Writes, command
<1>6. toRig' \in Seq(Frame) /\ \A i \in 1..Len(toRig') : Fits(toRig'[i])
  <2>1. toRig \in Seq(Frame) /\ Len(toRig) \in Nat
    BY <1>1, LenProperties DEF TypeOK
  <2>2. /\ toRig' \in Seq(Frame) /\ Len(toRig') = Len(toRig) + 1
        /\ toRig'[Len(toRig) + 1] = command
        /\ \A i \in 1..Len(toRig) : toRig'[i] = toRig[i]
    BY <1>4, <1>5, <2>1, AppendOf
  <2>3. \A i \in 1..Len(toRig') : i \in 1..Len(toRig) \/ i = Len(toRig) + 1
    BY <2>1, <2>2
  <2> QED
    BY <1>1, <1>4, <2>2, <2>3 DEF FramesFit
<1>7. CASE call[c].kind = "send"
  BY <1>1, <1>2, <1>6, <1>7, EndedInv, ConnAssumption
     DEF Writes, readerVars, linkVars, TypeOK
<1>8. CASE call[c].kind # "send"
  <2>1. At(c, "registered") /\ Move(c, "waiting") /\ UNCHANGED waitVars
    BY <1>8 DEF Writes, ReadyToWrite
  <2>2. /\ call' \in [Callers -> Calling \cup {Idle}]
        /\ call'[c].at = "waiting" /\ \A d \in Callers : d # c => call'[d] = call[d]
    BY <1>1, <2>1, Moved DEF At
  <2> HIDE DEF Calling
  <2>3. TypeOK'
    BY <1>1, <1>6, <2>1, <2>2 DEF TypeOK, Calling, Writes, waitVars, readerVars, linkVars
  <2>4. OneTransaction'
    BY <1>1, <2>1, <2>2 DEF OneTransaction, waitVars, At
  <2>5. FramesFit'
    BY <1>3, <1>6, <2>1, MovedFits DEF Writes, readerVars
  <2>6. WaiterListens'
    BY <1>1, <2>1, <2>2 DEF WaiterListens, At, Writes, waitVars, readerVars
  <2>7. AppliedFirst'
    BY <1>1, <2>1 DEF AppliedFirst, Writes, waitVars, readerVars, linkVars
  <2> QED
    BY <2>3, <2>4, <2>5, <2>6, <2>7 DEF ConnInv
<1> QED
  BY <1>7, <1>8

\* The ways a call ends without a frame of its own.
LEMMA ReturnsInv ==
  ASSUME ConnInv, NEW c \in Callers,
         Cancelled(c) \/ WriteFails(c) \/ Replied(c) \/ TimesOut(c) \/ Disconnected(c)
  PROVE  ConnInv'
<1>1. TypeOK /\ OneTransaction /\ FramesFit
  BY DEF ConnInv
<1>2. cmdMu = c
  BY <1>1, Holding DEF Cancelled, WriteFails, ReadyToWrite, Replied, TimesOut, Disconnected
<1>3. slot[c] # NoFrame => slot[c].of \in 0..MaxCalls
  BY <1>1 DEF TypeOK, Frame
<1>4. 0 \in 0..MaxCalls
  BY ConnAssumption
<1>5. toRig' \in Seq(Frame) /\ \A i \in 1..Len(toRig') : Fits(toRig'[i])
  BY <1>1 DEF TypeOK, FramesFit, Cancelled, WriteFails, Replied, TimesOut, Disconnected, rigVars
<1>6. CASE WriteFails(c)
  BY <1>2, <1>4, <1>5, <1>6, EndedInv DEF WriteFails, rigVars, readerVars
<1>7. CASE Replied(c)
  BY <1>1, <1>2, <1>3, <1>5, <1>7, EndedInv DEF Replied, rigVars, readerVars, linkVars, TypeOK
<1>8. CASE Cancelled(c) \/ TimesOut(c) \/ Disconnected(c)
  BY <1>1, <1>2, <1>4, <1>5, <1>8, EndedInv
     DEF Cancelled, TimesOut, Disconnected, rigVars, readerVars, linkVars, TypeOK
<1> QED
  BY <1>6, <1>7, <1>8

-----------------------------------------------------------------------------
(* The radio and the reader                                                 *)

\* The radio answers a frame.
LEMMA RigAnswersInv == ASSUME ConnInv, RigAnswers PROVE ConnInv'
<1>1. TypeOK /\ OneTransaction /\ FramesFit /\ WaiterListens /\ AppliedFirst
  BY DEF ConnInv
<1>2. /\ toRig' = Tail(toRig) /\ toRig' \in Seq(Frame) /\ Head(toRig) \in Frame
      /\ Head(toRig) = toRig[1] /\ 1 \in 1..Len(toRig)
      /\ \A i \in 1..Len(toRig') : i + 1 \in 1..Len(toRig) /\ toRig'[i] = toRig[i + 1]
  BY <1>1, TailOf DEF TypeOK, RigAnswers
<1>3. fromRig' \in Seq(Frame) /\ \A i \in 1..Len(fromRig') : Fits(fromRig'[i])
  <2>1. CASE fromRig' = fromRig
    BY <1>1, <2>1 DEF TypeOK, FramesFit
  <2>2. CASE fromRig' = Append(fromRig, Head(toRig))
    <3>1. fromRig \in Seq(Frame) /\ Len(fromRig) \in Nat
      BY <1>1, LenProperties DEF TypeOK
    <3>2. /\ fromRig' \in Seq(Frame) /\ Len(fromRig') = Len(fromRig) + 1
          /\ fromRig'[Len(fromRig) + 1] = Head(toRig)
          /\ \A i \in 1..Len(fromRig) : fromRig'[i] = fromRig[i]
      BY <1>2, <2>2, <3>1, AppendOf
    <3>3. \A i \in 1..Len(fromRig') : i \in 1..Len(fromRig) \/ i = Len(fromRig) + 1
      BY <3>1, <3>2
    <3> QED
      BY <1>1, <1>2, <3>2, <3>3 DEF FramesFit
  <2> QED
    BY <2>1, <2>2 DEF RigAnswers
<1>4. TypeOK'
  BY <1>1, <1>2, <1>3 DEF TypeOK, RigAnswers, waitVars, readerVars, linkVars
<1>5. FramesFit'
  <2>1. \A i \in 1..Len(toRig') : Fits(toRig'[i])
    BY <1>1, <1>2 DEF FramesFit
  <2> QED
    BY <1>1, <1>3, <2>1 DEF FramesFit, Fits, At, RigAnswers, readerVars
<1>6. OneTransaction' /\ WaiterListens' /\ AppliedFirst'
  BY <1>1 DEF OneTransaction, WaiterListens, AppliedFirst, At,
              RigAnswers, waitVars, readerVars, linkVars
<1> QED
  BY <1>1, <1>4, <1>5, <1>6 DEF ConnInv

\* The radio sends what nobody asked for.
LEMMA RigPushesInv == ASSUME ConnInv, RigPushes PROVE ConnInv'
<1>1. TypeOK /\ OneTransaction /\ FramesFit /\ WaiterListens /\ AppliedFirst
  BY DEF ConnInv
<1>2. PICK push \in Frame : push.of = 0 /\ fromRig' = Append(fromRig, push)
  <2>1. PICK key \in Keys \cup {"unsolicited"} :
           fromRig' = Append(fromRig, [key |-> key, of |-> 0])
    BY DEF RigPushes
  <2>2. [key |-> key, of |-> 0] \in Frame
    BY ConnAssumption DEF Frame
  <2> QED
    BY <2>1, <2>2
<1>3. Fits(push)
  BY <1>1, <1>2, ConnAssumption DEF Fits, FramesFit, TypeOK
<1>4. fromRig' \in Seq(Frame) /\ \A i \in 1..Len(fromRig') : Fits(fromRig'[i])
  <2>1. fromRig \in Seq(Frame) /\ Len(fromRig) \in Nat
    BY <1>1, LenProperties DEF TypeOK
  <2>2. /\ fromRig' \in Seq(Frame) /\ Len(fromRig') = Len(fromRig) + 1
        /\ fromRig'[Len(fromRig) + 1] = push
        /\ \A i \in 1..Len(fromRig) : fromRig'[i] = fromRig[i]
    BY <1>2, <2>1, AppendOf
  <2>3. \A i \in 1..Len(fromRig') : i \in 1..Len(fromRig) \/ i = Len(fromRig) + 1
    BY <2>1, <2>2
  <2> QED
    BY <1>1, <1>3, <2>2, <2>3 DEF FramesFit
<1>5. pushes' \in 0..MaxPushes
  BY <1>1, ConnAssumption DEF TypeOK, RigPushes
<1>6. TypeOK'
  BY <1>1, <1>4, <1>5 DEF TypeOK, RigPushes, waitVars, readerVars, linkVars
<1>7. FramesFit'
  BY <1>1, <1>4 DEF FramesFit, Fits, At, RigPushes, readerVars
<1>8. OneTransaction' /\ WaiterListens' /\ AppliedFirst'
  BY <1>1 DEF OneTransaction, WaiterListens, AppliedFirst, At,
              RigPushes, waitVars, readerVars, linkVars
<1> QED
  BY <1>1, <1>6, <1>7, <1>8 DEF ConnInv

\* The reader folds a frame into the cache (conn.readLoop).
LEMMA AppliesInv == ASSUME ConnInv, Applies PROVE ConnInv'
<1>1. TypeOK /\ OneTransaction /\ FramesFit /\ WaiterListens /\ AppliedFirst
  BY DEF ConnInv
<1>2. /\ fromRig' \in Seq(Frame) /\ reader' \in Frame
      /\ reader' = fromRig[1] /\ 1 \in 1..Len(fromRig)
      /\ \A i \in 1..Len(fromRig') : i + 1 \in 1..Len(fromRig) /\ fromRig'[i] = fromRig[i + 1]
      /\ applied' = applied \cup {reader'.of}
  BY <1>1, TailOf DEF TypeOK, Applies
<1>3. applied' \subseteq 0..MaxCalls
  BY <1>1, <1>2 DEF TypeOK, Frame
<1>4. TypeOK'
  BY <1>1, <1>2, <1>3 DEF TypeOK, Applies, waitVars, linkVars
<1>5. FramesFit'
  <2>1. Fits(reader') /\ \A i \in 1..Len(fromRig') : Fits(fromRig'[i])
    BY <1>1, <1>2 DEF FramesFit
  <2> QED
    BY <1>1, <2>1 DEF FramesFit, Fits, At, Applies
<1>6. reader # Exited /\ ~closed
  BY <1>1, NoFrameIsNone DEF Applies, AppliedFirst
<1>7. OneTransaction' /\ WaiterListens'
  BY <1>1, <1>6 DEF OneTransaction, WaiterListens, At, Applies, waitVars
<1>8. AppliedFirst'
  BY <1>1, <1>2, <1>6 DEF AppliedFirst, Applies, waitVars, linkVars
<1> QED
  BY <1>1, <1>4, <1>5, <1>7, <1>8 DEF ConnInv

\* The reader's waiter is the only one, and its call is under way.
LEMMA TakenWaiter ==
  ASSUME TypeOK, OneTransaction, NEW i \in Wanting, waiters' = Without(i)
  PROVE  /\ waiters' = <<>> /\ Len(waiters) = 1 /\ i = 1
         /\ waiters[1] \in Callers /\ cmdMu = waiters[1]
<1>1. waiters \in Seq(Callers) /\ Len(waiters) \in Nat /\ Len(waiters) <= 1
  BY LenProperties DEF TypeOK, OneTransaction
<1>2. i \in 1..Len(waiters)
  BY DEF Wanting
<1>3. waiters' = <<>>
  BY <1>1, <1>2, LastRemoved DEF Without
<1>4. Len(waiters) = 1 /\ i = 1
  <2>1. ASSUME NEW n \in Nat, n <= 1, NEW k \in 1..n PROVE k = 1 /\ n = 1
    BY <2>1
  <2> QED
    BY <1>1, <1>2, <2>1
<1>5. waiters[1] \in Callers
  BY <1>1, <1>2, <1>4, ElementOfSeq
<1> QED
  BY <1>2, <1>3, <1>4, <1>5 DEF OneTransaction

\* The reader hands a frame to its waiter (conn.deliver).
LEMMA DeliversInv == ASSUME ConnInv, Delivers PROVE ConnInv'
<1>1. TypeOK /\ OneTransaction /\ FramesFit /\ WaiterListens /\ AppliedFirst
  BY DEF ConnInv
<1>2. reader \in Frame /\ reader' = NoFrame
  BY <1>1 DEF TypeOK, Delivers
<1>3. FramesFit'
  BY <1>1, <1>2, NoFrameIsNone DEF FramesFit, Fits, At, Delivers, rigVars
<1>4. ~closed /\ closed' = closed
  BY <1>1, <1>2, NoFrameIsNone DEF AppliedFirst, Delivers, linkVars
<1>5. CASE Wanting = {}
  <2>1. UNCHANGED <<waiters, slot>>
    BY <1>5 DEF Delivers
  <2>2. TypeOK'
    BY <1>1, <1>2, <2>1 DEF TypeOK, Delivers, rigVars, linkVars
  <2>3. OneTransaction' /\ WaiterListens' /\ AppliedFirst'
    BY <1>1, <1>2, <1>4, <2>1, NoFrameIsNone
       DEF OneTransaction, WaiterListens, AppliedFirst, At, Delivers
  <2> QED
    BY <1>3, <2>2, <2>3 DEF ConnInv
<1>6. CASE Wanting # {}
  <2>1. PICK i \in Wanting : slot' = [slot EXCEPT ![waiters[i]] = reader] /\ waiters' = Without(i)
    BY <1>6 DEF Delivers
  <2> DEFINE w == waiters[1]
  <2>2. waiters' = <<>> /\ Len(waiters) = 1 /\ i = 1 /\ w \in Callers /\ cmdMu = w
    BY <1>1, <2>1, TakenWaiter
  <2>3. /\ slot' \in [Callers -> Frame \cup {NoFrame}]
        /\ slot'[w] = reader /\ \A d \in Callers : d # w => slot'[d] = slot[d]
    BY <1>1, <1>2, <2>1, <2>2 DEF TypeOK
  <2> HIDE DEF w
  <2>4. TypeOK'
    BY <1>1, <1>2, <2>2, <2>3, EmptySeq DEF TypeOK, Delivers, rigVars, linkVars
  <2>5. OneTransaction'
    BY <1>1, <2>2, <2>3, EmptySeq DEF OneTransaction, Delivers
  <2>6. WaiterListens'
    BY <1>1, <1>2, <2>2, <2>3, NoFrameIsNone DEF WaiterListens, OneTransaction, At, Delivers
  <2>7. AppliedFirst'
    BY <1>1, <1>2, <1>4, <2>3, NoFrameIsNone DEF AppliedFirst, Delivers
  <2> QED
    BY <1>3, <2>4, <2>5, <2>6, <2>7 DEF ConnInv
<1> QED
  BY <1>5, <1>6

\* The reader finds the end of the stream.
LEMMA ReaderExitsInv == ASSUME ConnInv, ReaderExits PROVE ConnInv'
<1>1. TypeOK /\ OneTransaction /\ FramesFit /\ AppliedFirst
  BY DEF ConnInv
<1>2. TypeOK' /\ OneTransaction' /\ FramesFit' /\ WaiterListens' /\ AppliedFirst'
  BY <1>1, NoFrameIsNone, EmptySeq
     DEF TypeOK, OneTransaction, FramesFit, Fits, WaiterListens, AppliedFirst, At,
         ReaderExits, rigVars
<1> QED
  BY <1>2 DEF ConnInv

\* The connection fails or is closed (conn.fail, conn.close).
LEMMA OwnersInv == ASSUME ConnInv, Fails \/ Closes PROVE ConnInv'
<1>1. TypeOK /\ OneTransaction /\ FramesFit /\ WaiterListens /\ AppliedFirst
  BY DEF ConnInv
<1>2. UNCHANGED <<call, calls, waitVars, rigVars, readerVars>>
  BY DEF Fails, Closes
<1>3. TypeOK'
  BY <1>1, <1>2 DEF TypeOK, waitVars, rigVars, readerVars, Fails, Closes
<1>4. OneTransaction' /\ FramesFit' /\ WaiterListens'
  BY <1>1, <1>2 DEF OneTransaction, FramesFit, Fits, WaiterListens, At,
                    waitVars, rigVars, readerVars
<1>5. AppliedFirst'
  BY <1>1, <1>2 DEF AppliedFirst, waitVars, readerVars, Fails, Closes
<1> QED
  BY <1>3, <1>4, <1>5 DEF ConnInv

-----------------------------------------------------------------------------

\* Every step of a connection keeps ConnInv.
LEMMA StepInv == ConnInv /\ [Next]_vars => ConnInv'
<1> SUFFICES ASSUME ConnInv, [Next]_vars PROVE ConnInv'
  OBVIOUS
<1>1. ASSUME NEW c \in Callers, Begins(c) PROVE ConnInv'
  BY <1>1, BeginsInv
<1>2. ASSUME NEW c \in Callers, Do(c) PROVE ConnInv'
  BY <1>2, LocksInv, RegistersInv, WritesInv, ReturnsInv DEF Do
<1>3. CASE RigAnswers \/ RigPushes
  BY <1>3, RigAnswersInv, RigPushesInv
<1>4. CASE Applies \/ Delivers \/ ReaderExits
  BY <1>4, AppliesInv, DeliversInv, ReaderExitsInv
<1>5. CASE Fails \/ Closes
  BY <1>5, OwnersInv
<1>6. CASE UNCHANGED vars
  BY <1>6 DEF vars, ConnInv, TypeOK, OneTransaction, FramesFit, Fits, WaiterListens,
              AppliedFirst, At
<1> QED
  BY <1>1, <1>2, <1>3, <1>4, <1>5, <1>6 DEF Next

\* One transaction is on the wire at a time, frames fit the calls they answer, and
\* a waiting call can be found by the reader (conn.Do, conn.deliver), for any
\* number of callers, keys, calls and pushes.
THEOREM ConnInvariant == Spec => []ConnInv
<1> QED
  BY InitInv, StepInv, PTL DEF Spec

\* A transaction that ends with a reply finds it in the state cache (the reader
\* applies before it delivers, conn.go:44-47).
THEOREM ReplyIsApplied == Spec => []ReplyIsInCache
<1>1. Init => ReplyIsInCache
  BY DEF Init, ReplyIsInCache
<1>2. ASSUME ConnInv, ReplyIsInCache, [Next]_vars PROVE ReplyIsInCache'
  <2>1. applied \subseteq applied'
    BY <1>2 DEF Next, Do, Begins, Locks, Cancelled, Registers, Writes, WriteFails, Replied,
                TimesOut, Disconnected, RigAnswers, RigPushes, Applies, Delivers, ReaderExits,
                Fails, Closes, readerVars, vars
  <2>2. ASSUME NEW r \in results', r \notin results, r.outcome = "reply"
        PROVE  r.from \in applied
    <3>1. CASE \E c \in Callers : Replied(c)
      <4>1. PICK c \in Callers : Replied(c)
        BY <3>1
      <4> QED
        BY <1>2, <2>2, <4>1 DEF Replied, Ends, ConnInv, AppliedFirst
    <3>2. CASE ~\E c \in Callers : Replied(c)
      <4>1. UNCHANGED results \/ \E c \in Callers, outcome \in
               {"cancelled", "disconnected", "sent", "timeout"} : Ends(c, outcome, 0)
        BY <1>2, <3>2
           DEF Next, Do, Begins, Locks, Cancelled, Registers, Writes, WriteFails, TimesOut,
               Disconnected, RigAnswers, RigPushes, Applies, Delivers, ReaderExits, Fails,
               Closes, waitVars, vars
      <4>2. ASSUME NEW c \in Callers,
                   NEW outcome \in {"cancelled", "disconnected", "sent", "timeout"},
                   Ends(c, outcome, 0)
            PROVE  r.outcome = outcome
        BY <2>2, <4>2 DEF Ends
      <4> QED
        BY <2>2, <4>1, <4>2
    <3> QED
      BY <3>1, <3>2
  <2> QED
    BY <1>2, <2>1, <2>2 DEF ReplyIsInCache
<1> QED
  BY <1>1, <1>2, ConnInvariant, PTL DEF Spec

\* The reader never throws away the answer to a call that still waits for it: the
\* waiter is registered before the write (the comment on conn.Do).
THEOREM AwaitedIsDelivered == Spec => NoAnswerLost
<1>1. ASSUME ConnInv, [Next]_vars, NEW c \in Callers,
             At(c, "waiting"), slot[c] = NoFrame, reader.of = call[c].id, reader' = NoFrame
      PROVE  slot'[c] # NoFrame
  <2>1. call[c].id >= 1 /\ ~At(c, "idle")
    BY <1>1, ConnAssumption DEF ConnInv, FramesFit, At, TypeOK
  <2>2. reader \in Frame /\ reader # NoFrame
    BY <1>1, <2>1, NoFrameIsNone DEF ConnInv, TypeOK, NoFrame, Exited
  <2>3. PICK i \in 1..Len(waiters) : waiters[i] = c
    BY <1>1, <2>2, NoFrameIsNone DEF ConnInv, WaiterListens
  <2>4. i \in Wanting
    BY <1>1, <2>1, <2>2, <2>3 DEF ConnInv, FramesFit, Fits, Wanting
  <2>5. Delivers
    BY <1>1, <2>2, NoFrameIsNone
       DEF Next, Do, Begins, Locks, Cancelled, Registers, Writes, WriteFails, Replied,
           TimesOut, Disconnected, RigAnswers, RigPushes, Applies, ReaderExits, Fails,
           Closes, readerVars, vars
  <2>6. PICK j \in Wanting : slot' = [slot EXCEPT ![waiters[j]] = reader] /\ waiters' = Without(j)
    BY <2>4, <2>5 DEF Delivers
  <2>7. Len(waiters) = 1 /\ j = 1
    BY <1>1, <2>6, TakenWaiter DEF ConnInv
  <2>8. waiters[j] = c
    BY <2>3, <2>7
  <2> QED
    BY <1>1, <2>2, <2>6, <2>8 DEF ConnInv, TypeOK
<1>2. ConnInv /\ [Next]_vars =>
        [\A c \in Callers :
          At(c, "waiting") /\ slot[c] = NoFrame /\ reader.of = call[c].id /\ reader' = NoFrame
              => slot'[c] # NoFrame]_vars
  BY <1>1
<1> QED
  BY <1>2, ConnInvariant, PTL DEF Spec, NoAnswerLost

\* Once close has returned no frame of this connection reaches the cache: close
\* waits for the reader (conn.close).
THEOREM ClosedIsQuiet == Spec => NothingAppliedAfterClose
<1>1. ConnInv /\ [Next]_vars => [closed => UNCHANGED applied]_vars
  BY NoFrameIsNone
     DEF ConnInv, AppliedFirst, Next, Do, Begins, Locks, Cancelled, Registers, Writes,
         WriteFails, Replied, TimesOut, Disconnected, RigAnswers, RigPushes, Applies, Delivers,
         ReaderExits, Fails, Closes, readerVars, vars
<1> QED
  BY <1>1, ConnInvariant, PTL DEF Spec, NothingAppliedAfterClose

-----------------------------------------------------------------------------
(* The life of connections                                                  *)

\* A change of one field of what clients are shown.
LEMMA ShownType ==
    ASSUME NEW s \in [connected : BOOLEAN, standby : BOOLEAN], NEW b \in BOOLEAN
    PROVE  /\ [s EXCEPT !.connected = b] \in [connected : BOOLEAN, standby : BOOLEAN]
           /\ [s EXCEPT !.standby = b] \in [connected : BOOLEAN, standby : BOOLEAN]
           /\ [s EXCEPT !.connected = b].connected = b
           /\ [s EXCEPT !.connected = b].standby = s.standby
           /\ [s EXCEPT !.standby = b].connected = s.connected
           /\ [s EXCEPT !.standby = b].standby = b
<1> QED OBVIOUS

\* Wake-ups sent, armed and under way add up to more than those sent.
LEMMA SpentIsAsked ==
    ASSUME NEW w \in Nat, NEW r \in Nat, NEW armed, NEW idle,
           w + (IF armed THEN 1 ELSE 0) + (IF idle THEN 0 ELSE 1) <= r
    PROVE  w <= r
<1> QED OBVIOUS

\* A session just started (Session.Start).
LEMMA InitSupervisorInv == SupervisorInit => SupervisorInv
<1> SUFFICES ASSUME SupervisorInit PROVE SupervisorInv
    OBVIOUS
<1>1. 0 \in 0..MaxFaults /\ 0 \in 0..MaxRequests /\ NoFails \in [Tiers -> 0..MaxPollFailures]
    BY SupervisorAssumption DEF NoFails
<1>2. SupervisorTypes
    BY <1>1 DEF SupervisorInit, SupervisorTypes, Places
<1>3. PlaceDecides
    BY DEF SupervisorInit, PlaceDecides
<1>4. WakesAreAskedFor /\ BelowLimit
    BY DEF SupervisorInit, WakesAreAskedFor, BelowLimit
<1> QED BY <1>2, <1>3, <1>4 DEF SupervisorInv

\* The poll counters below their limit, after a poll that left the link up.
LEMMA PollCounts ==
    ASSUME SupervisorInv, NEW tier \in Tiers, Polls(tier)
    PROVE  /\ fails' \in [Tiers -> 0..MaxPollFailures]
           /\ link' = "up" => \A t \in Tiers : fails'[t] < MaxPollFailures
           /\ link' \in {"up", "failed"}
<1> USE DEF SupervisorInv
<1>1. \A t \in Tiers : fails[t] \in 0..(MaxPollFailures - 1)
    BY SupervisorAssumption DEF Polls, BelowLimit, SupervisorTypes
<1>2. PICK outcome : fails' = [fails EXCEPT ![tier] =
                         IF outcome = "ok" THEN 0
                         ELSE IF Counts(tier, outcome) THEN @ + 1 ELSE @]
    BY DEF Polls
<1>3. \A t \in Tiers : fails'[t] \in 0..MaxPollFailures /\ (t # tier => fails'[t] = fails[t])
    BY <1>1, <1>2, SupervisorAssumption DEF SupervisorTypes
<1>4. fails' \in [Tiers -> 0..MaxPollFailures]
    BY <1>2, <1>3 DEF SupervisorTypes
<1>5. link' = IF AtLimit(fails'[tier]) THEN "failed" ELSE link
    BY DEF Polls
<1>6. link = "up"
    BY DEF Polls
<1>7. link' = "up" => \A t \in Tiers : fails'[t] < MaxPollFailures
    BY <1>1, <1>3, <1>5, SupervisorAssumption DEF AtLimit
<1> QED BY <1>4, <1>5, <1>6, <1>7

\* A step of the supervisor that leaves the radio, the requests and the histories
\* alone keeps the types, once the variables it writes have theirs.
LEMMA SuperviseTypes ==
    ASSUME SupervisorTypes, UNCHANGED <<radioVars, wakeVars, ghostVars, cancelled>>,
           at' \in Places, conn' \in BOOLEAN, link' \in {"none", "up", "failed"},
           connected' \in BOOLEAN, standby' \in BOOLEAN,
           shown' \in [connected : BOOLEAN, standby : BOOLEAN],
           fails' \in [Tiers -> 0..MaxPollFailures]
    PROVE  SupervisorTypes'
<1>1. UNCHANGED <<port, power, faults, wakeWanted, powerOn, requests, wakes, cancelled, inited, ailing>>
    BY DEF radioVars, wakeVars, ghostVars
<1> QED BY <1>1 DEF SupervisorTypes

\* Every step of the supervisor and the poller keeps SupervisorInv.
LEMMA NextSupervisorInv == SupervisorInv /\ [SupervisorNext]_supervisorVars => SupervisorInv'
<1> SUFFICES ASSUME SupervisorInv, [SupervisorNext]_supervisorVars PROVE SupervisorInv'
    OBVIOUS
<1> USE DEF SupervisorInv
<1>1. CASE Surroundings
  <2>1. UNCHANGED <<at, conn, connected, standby, shown, fails, wakeWanted, powerOn, requests,
                    wakes, cancelled, inited, ailing>>
      BY <1>1 DEF Surroundings, CablePulled, CableReseated, SwitchedOff, SwitchedOn,
                  flagVars, wakeVars, ghostVars
  <2>2. link' \in {link, "failed"}
      BY <1>1 DEF Surroundings, CablePulled, CableReseated, SwitchedOff, SwitchedOn
  <2>3. port' \in BOOLEAN /\ power' \in {"awake", "standby", "off"}
      BY <1>1 DEF Surroundings, CablePulled, CableReseated, SwitchedOff, SwitchedOn, SupervisorTypes
  <2>4. faults' = faults \/ Fault
      BY <1>1 DEF Surroundings, CablePulled, CableReseated, SwitchedOff, SwitchedOn
  <2>5. faults' \in 0..MaxFaults
      BY <2>4, SupervisorAssumption DEF Fault, SupervisorTypes
  <2>6. SupervisorTypes'
      BY <2>1, <2>2, <2>3, <2>5 DEF SupervisorTypes
  <2> QED BY <2>1, <2>2, <2>6 DEF PlaceDecides, WakesAreAskedFor, BelowLimit
<1>2. CASE PowerOn
  <2>1. WakesAreAskedFor'
      BY <1>2 DEF PowerOn, PowerOnLooks, PowerOnSends, PowerOnArms, SendWake, WakesAreAskedFor,
                  SupervisorTypes
  <2>2. UNCHANGED <<port, faults, at, conn, link, connected, standby, shown, fails, cancelled,
                    inited, ailing>>
      BY <1>2 DEF PowerOn, PowerOnLooks, PowerOnSends, PowerOnArms, radioVars, flagVars, ghostVars
  <2>3. /\ power' \in {"awake", "standby", "off"} /\ wakeWanted' \in BOOLEAN
        /\ powerOn' \in {"idle", "send", "arm"}
      BY <1>2 DEF PowerOn, PowerOnLooks, PowerOnSends, PowerOnArms, SendWake, SupervisorTypes, radioVars
  <2>4. requests' \in 0..MaxRequests
      BY <1>2, SupervisorAssumption DEF PowerOn, PowerOnLooks, PowerOnSends, PowerOnArms, SupervisorTypes
  <2>5. wakes' \in {wakes, wakes + 1}
      BY <1>2 DEF PowerOn, PowerOnLooks, PowerOnSends, PowerOnArms, SendWake
  <2>6. wakes' \in 0..MaxRequests
    <3>1. wakes' \in Nat
        BY <2>5 DEF SupervisorTypes
    <3>2. requests' \in Nat
        BY <2>4, SupervisorAssumption
    <3>3. wakes' <= requests'
        BY <2>1, <3>1, <3>2, SpentIsAsked DEF WakesAreAskedFor
    <3> QED BY <2>4, <3>1, <3>3, SupervisorAssumption
  <2>7. SupervisorTypes'
      BY <2>2, <2>3, <2>4, <2>6 DEF SupervisorTypes
  <2> QED BY <2>1, <2>2, <2>7 DEF PlaceDecides, BelowLimit
<1>3. CASE Supervise
  <2>1. CASE Dials
    <3>1. UNCHANGED <<port, power, faults, connected, standby, shown, fails, wakeWanted, powerOn,
                      requests, wakes, cancelled>>
        BY <2>1 DEF Dials, radioVars, wakeVars
    <3>2. CASE at' \in {"stopped", "backoff"} /\ UNCHANGED <<conn, link, ghostVars>>
        BY <2>1, <3>1, <3>2 DEF Dials, SupervisorTypes, Places, PlaceDecides, WakesAreAskedFor,
                                BelowLimit, ghostVars
    <3>3. CASE /\ at' = "wake" /\ conn' = TRUE /\ link' = "up"
               /\ inited' = FALSE /\ ailing' = FALSE
      <4>1. SupervisorTypes'
          BY <3>1, <3>3 DEF SupervisorTypes, Places
      <4> QED BY <2>1, <3>1, <3>3, <4>1 DEF Dials, PlaceDecides, WakesAreAskedFor, BelowLimit
    <3> QED BY <2>1, <3>2, <3>3 DEF Dials, GoTo
  <2>2. CASE SendsArmedWake
    <3>1. WakesAreAskedFor' /\ wakes' \in 0..MaxRequests
        BY <2>2, SupervisorAssumption
        DEF SendsArmedWake, TakeWakeRequest, SendWake, WakesAreAskedFor, SupervisorTypes
    <3>2. /\ power' \in {"awake", "standby", "off"} /\ wakeWanted' \in BOOLEAN
          /\ UNCHANGED <<port, faults, link, conn, connected, standby, shown, fails, powerOn,
                         requests, cancelled, inited, ailing>>
          /\ at' = IF at = "wake" THEN "init" ELSE "reinit"
          /\ at \in {"wake", "rewake"}
        BY <2>2 DEF SendsArmedWake, TakeWakeRequest, SendWake, SupervisorTypes, GoTo, flagVars, ghostVars
    <3> QED BY <3>1, <3>2 DEF SupervisorTypes, Places, PlaceDecides, BelowLimit
  <2>3. CASE TriesInit
    <3>1. PICK outcome \in Outcomes("fast") :
             /\ Exchange("fast", outcome)
             /\ inited' = (inited \/ outcome = "ok")
             /\ GoTo(CASE outcome = "ok"      -> IF at = "init" THEN "slow" ELSE "unparkToLive"
                       [] outcome = "refused" -> IF at = "init" THEN "park" ELSE "parked"
                       [] OTHER               -> IF at = "init" THEN "teardown" ELSE "unparkToDie")
        BY <2>3 DEF TriesInit
    <3>2. faults' \in 0..MaxFaults /\ UNCHANGED <<port, power>>
        BY <3>1, SupervisorAssumption DEF Exchange, Outcomes, SupervisorTypes
    <3>3. UNCHANGED <<link, conn, connected, standby, shown, fails, wakeWanted, powerOn, requests,
                      wakes, cancelled, ailing>> /\ at \in {"init", "reinit"}
        BY <2>3 DEF TriesInit, flagVars, wakeVars
    <3>4. inited' \in BOOLEAN /\ (inited => inited')
        BY <3>1 DEF SupervisorTypes
    <3>5. at' \in IF at = "init" THEN {"slow", "park", "teardown"}
                  ELSE {"unparkToLive", "parked", "unparkToDie"}
        BY <3>1, <3>3 DEF GoTo
    <3>6. at' \in {"slow", "unparkToLive"} => inited'
        BY <3>1, <3>3 DEF GoTo
    <3> QED BY <3>2, <3>3, <3>4, <3>5, <3>6
            DEF SupervisorTypes, Places, PlaceDecides, WakesAreAskedFor, BelowLimit
  <2>4. CASE Parks \/ ShowsPark
    <3>1. UNCHANGED <<port, power, faults, fails, wakeWanted, powerOn, requests, wakes, cancelled,
                      inited, ailing>>
        BY <2>4 DEF Parks, ShowsPark, radioVars, wakeVars, ghostVars
    <3>2. CASE Parks
      <4>1. SupervisorTypes'
        <5>1. at' \in Places
            BY <3>2 DEF Parks, GoTo, Places
        <5>2. /\ conn' \in BOOLEAN /\ link' \in {"none", "up", "failed"}
              /\ connected' \in BOOLEAN /\ standby' \in BOOLEAN
            BY <3>2 DEF Parks, SupervisorTypes
        <5>3. shown' \in [connected : BOOLEAN, standby : BOOLEAN]
            BY <3>2 DEF Parks, SupervisorTypes
        <5>4. fails' \in [Tiers -> 0..MaxPollFailures]
            BY <3>1 DEF SupervisorTypes
        <5>5. UNCHANGED <<radioVars, wakeVars, ghostVars, cancelled>>
            BY <3>2 DEF Parks
        <5> QED BY <5>1, <5>2, <5>3, <5>4, <5>5, SuperviseTypes
      <4> QED BY <3>1, <3>2, <4>1 DEF Parks, GoTo, SupervisorTypes, PlaceDecides, WakesAreAskedFor, BelowLimit
    <3>3. CASE ShowsPark
      <4>1. SupervisorTypes'
        <5>1. at' \in Places
            BY <3>3 DEF ShowsPark, GoTo, Places
        <5>2. /\ conn' \in BOOLEAN /\ link' \in {"none", "up", "failed"}
              /\ connected' \in BOOLEAN /\ standby' \in BOOLEAN
            BY <3>3 DEF ShowsPark, SupervisorTypes
        <5>3. shown' \in [connected : BOOLEAN, standby : BOOLEAN]
            BY <3>3 DEF ShowsPark
        <5>4. fails' \in [Tiers -> 0..MaxPollFailures]
            BY <3>1 DEF SupervisorTypes
        <5>5. UNCHANGED <<radioVars, wakeVars, ghostVars, cancelled>>
            BY <3>3 DEF ShowsPark
        <5> QED BY <5>1, <5>2, <5>3, <5>4, <5>5, SuperviseTypes
      <4> QED BY <3>1, <3>3, <4>1 DEF ShowsPark, GoTo, SupervisorTypes, PlaceDecides, WakesAreAskedFor, BelowLimit
    <3> QED BY <2>4, <3>2, <3>3
  <2>5. CASE ParkedTicks \/ ParkedEnds
      BY <2>5 DEF ParkedTicks, ParkedEnds, GoTo, SupervisorTypes, Places, PlaceDecides, WakesAreAskedFor,
                  BelowLimit, radioVars, flagVars, wakeVars, ghostVars
  <2>6. CASE Unparks
    <3>1. SupervisorTypes'
      <4>1. shown' \in [connected : BOOLEAN, standby : BOOLEAN]
          BY <2>6, ShownType DEF Unparks, SupervisorTypes
      <4>2. at' \in Places /\ standby' \in BOOLEAN
          BY <2>6 DEF Unparks, GoTo, Places
      <4> QED BY <2>6, <4>1, <4>2 DEF Unparks, SupervisorTypes, radioVars, wakeVars, ghostVars
    <3>2. PlaceDecides'
        BY <2>6 DEF Unparks, GoTo, SupervisorTypes, PlaceDecides, ghostVars
    <3> QED BY <2>6, <3>1, <3>2 DEF Unparks, GoTo, WakesAreAskedFor, BelowLimit, wakeVars
  <2>7. CASE FirstPoll
    <3>1. PICK outcome \in Outcomes(at) :
             /\ Exchange(at, outcome)
             /\ GoTo(IF ~Passes(at, outcome) THEN "teardown"
                     ELSE IF at = "slow" THEN "fast" ELSE "announce")
        BY <2>7 DEF FirstPoll
    <3>2. faults' \in 0..MaxFaults /\ UNCHANGED <<port, power>>
        BY <3>1, SupervisorAssumption DEF Exchange, Outcomes, SupervisorTypes
    <3>3. UNCHANGED <<link, conn, connected, standby, shown, fails, wakeWanted, powerOn, requests,
                      wakes, cancelled, inited, ailing>> /\ at \in {"slow", "fast"}
        BY <2>7 DEF FirstPoll, flagVars, wakeVars, Tiers
    <3>4. at' \in {"teardown", "fast", "announce"}
        BY <3>1 DEF GoTo, SupervisorTypes
    <3> QED BY <3>2, <3>3, <3>4 DEF SupervisorTypes, Places, PlaceDecides, WakesAreAskedFor, BelowLimit
  <2>8. CASE Announces
      BY <2>8 DEF Announces, GoTo, SupervisorTypes, Places, PlaceDecides, WakesAreAskedFor, BelowLimit,
                  radioVars, wakeVars, ghostVars
  <2>9. CASE ShowsLive
    <3>1. fails' \in [Tiers -> 0..MaxPollFailures] /\ \A t \in Tiers : fails'[t] < MaxPollFailures
        BY <2>9, SupervisorAssumption DEF ShowsLive, NoFails
    <3>2. /\ UNCHANGED <<port, power, faults, wakeWanted, powerOn, requests, wakes, cancelled,
                         inited, ailing, cancelled, conn, link, connected, standby>>
          /\ at = "showLive" /\ at' = "running"
          /\ shown' = [shown EXCEPT !.connected = TRUE]
        BY <2>9 DEF ShowsLive, GoTo, radioVars, wakeVars, ghostVars
    <3>3. SupervisorTypes'
      <4>1. shown' \in [connected : BOOLEAN, standby : BOOLEAN]
          BY <3>2 DEF SupervisorTypes
      <4>2. at' \in Places
          BY <3>2 DEF Places
      <4> QED BY <3>1, <3>2, <4>1, <4>2 DEF SupervisorTypes
    <3>4. PlaceDecides'
        BY <3>2 DEF SupervisorTypes, PlaceDecides
    <3>5. WakesAreAskedFor' /\ BelowLimit'
        BY <3>1, <3>2 DEF WakesAreAskedFor, BelowLimit
    <3> QED BY <3>3, <3>4, <3>5 DEF SupervisorInv
  <2>10. CASE RunEnds
    <3>1. /\ UNCHANGED <<port, power, faults, fails, wakeWanted, powerOn, requests, wakes, cancelled,
                         inited, ailing, conn, link, connected, standby, shown>>
          /\ at = "running" /\ at' = "teardown" /\ at' \in Places
        BY <2>10 DEF RunEnds, GoTo, Places, radioVars, flagVars, wakeVars, ghostVars
    <3>2. SupervisorTypes'
        BY <3>1 DEF SupervisorTypes
    <3>3. PlaceDecides'
        BY <3>1 DEF SupervisorTypes, PlaceDecides
    <3> QED BY <3>1, <3>2, <3>3 DEF WakesAreAskedFor, BelowLimit
  <2>11. CASE TearsDown \/ ShowsLoss
    <3>1. UNCHANGED <<port, power, faults, fails, wakeWanted, powerOn, requests, wakes, cancelled,
                      inited, ailing>>
        BY <2>11 DEF TearsDown, ShowsLoss, radioVars, wakeVars, ghostVars
    <3>2. CASE TearsDown
      <4>1. SupervisorTypes'
        <5>1. at' \in Places
            BY <3>2 DEF TearsDown, GoTo, Places
        <5>2. /\ conn' \in BOOLEAN /\ link' \in {"none", "up", "failed"}
              /\ connected' \in BOOLEAN /\ standby' \in BOOLEAN
            BY <3>2 DEF TearsDown, SupervisorTypes
        <5>3. shown' \in [connected : BOOLEAN, standby : BOOLEAN]
            BY <3>2 DEF TearsDown, SupervisorTypes
        <5>4. fails' \in [Tiers -> 0..MaxPollFailures]
            BY <3>1 DEF SupervisorTypes
        <5>5. UNCHANGED <<radioVars, wakeVars, ghostVars, cancelled>>
            BY <3>2 DEF TearsDown
        <5> QED BY <5>1, <5>2, <5>3, <5>4, <5>5, SuperviseTypes
      <4> QED BY <3>1, <3>2, <4>1 DEF TearsDown, GoTo, SupervisorTypes, PlaceDecides, WakesAreAskedFor, BelowLimit
    <3>3. CASE ShowsLoss
      <4>1. SupervisorTypes'
        <5>1. shown' \in [connected : BOOLEAN, standby : BOOLEAN]
            BY <3>3, ShownType DEF ShowsLoss, SupervisorTypes
        <5>2. at' \in Places
            BY <3>3 DEF ShowsLoss, GoTo, Places
        <5> QED BY <3>1, <3>3, <5>1, <5>2 DEF ShowsLoss, SupervisorTypes
      <4> QED BY <3>1, <3>3, <4>1 DEF ShowsLoss, GoTo, SupervisorTypes, PlaceDecides, WakesAreAskedFor, BelowLimit
    <3> QED BY <2>11, <3>2, <3>3
  <2>12. CASE BacksOff
      BY <2>12 DEF BacksOff, GoTo, SupervisorTypes, Places, PlaceDecides, WakesAreAskedFor, BelowLimit,
                  radioVars, flagVars, wakeVars, ghostVars
  <2> QED BY <1>3, <2>1, <2>2, <2>3, <2>4, <2>5, <2>6, <2>7, <2>8, <2>9, <2>10, <2>11, <2>12
          DEF Supervise
<1>4. ASSUME NEW tier \in Tiers, Polls(tier)
      PROVE  SupervisorInv'
  <2>1. faults' \in 0..MaxFaults /\ UNCHANGED <<port, power>>
      BY <1>4, SupervisorAssumption DEF Polls, Exchange, Outcomes, SupervisorTypes
  <2>2. ailing' \in BOOLEAN
      BY <1>4 DEF Polls, SupervisorTypes
  <2>3. UNCHANGED <<at, conn, connected, standby, shown, wakeWanted, powerOn, requests, wakes,
                    cancelled, inited>>
      BY <1>4 DEF Polls, flagVars, wakeVars
  <2> QED BY <1>4, <2>1, <2>2, <2>3, PollCounts
          DEF SupervisorTypes, PlaceDecides, WakesAreAskedFor, BelowLimit
<1>5. CASE Cancel
    BY <1>5 DEF Cancel, SupervisorTypes, PlaceDecides, WakesAreAskedFor, BelowLimit, radioVars, flagVars,
                wakeVars, ghostVars
<1>6. CASE UNCHANGED supervisorVars
    BY <1>6 DEF supervisorVars, SupervisorTypes, PlaceDecides, WakesAreAskedFor, BelowLimit
<1> QED BY <1>1, <1>2, <1>3, <1>4, <1>5, <1>6 DEF SupervisorNext

\* Where the supervisor stands decides the flags, what clients are shown and
\* whether Init has succeeded, in every reachable state.
THEOREM SupervisorInvariant == SupervisorSpec => []SupervisorInv
<1> QED BY InitSupervisorInv, NextSupervisorInv, PTL DEF SupervisorSpec

\* A command requireConnected lets through finds an initialised radio, except in
\* the instant before a parked connection is torn down.
THEOREM OnlyInitialisedIsUsable == SupervisorSpec => []UsableIsInitialised
<1>1. SupervisorInv => UsableIsInitialised
    BY DEF SupervisorInv, PlaceDecides, UsableIsInitialised, Usable, SupervisorTypes, Places
<1> QED BY <1>1, SupervisorInvariant, PTL

\* The flags of the write path and the published state agree away from the steps
\* that change both.
THEOREM CacheAgreesWithFlags == SupervisorSpec => []FlagsAgree
<1>1. SupervisorInv => FlagsAgree
    BY DEF SupervisorInv, PlaceDecides, FlagsAgree, SupervisorTypes
<1> QED BY <1>1, SupervisorInvariant, PTL

\* Each power-on request wakes the radio at most once.
THEOREM OneWakePerRequest == SupervisorSpec => []WakesAreAskedFor
<1>1. SupervisorInv => WakesAreAskedFor
    BY DEF SupervisorInv
<1> QED BY <1>1, SupervisorInvariant, PTL

\* The poller ends a connection only when the radio has failed a poll: refusals
\* of the optional tier never add up to a lost link.
THEOREM RefusingRadioKeepsLink == SupervisorSpec => RefusalsKeepTheLink
<1>1. SupervisorInv /\ [SupervisorNext]_supervisorVars => [link = "up" /\ link' = "failed" => ailing' \/ ~port']_supervisorVars
  <2> SUFFICES ASSUME SupervisorInv, SupervisorNext, link = "up", link' = "failed"
               PROVE  ailing' \/ ~port'
      OBVIOUS
  <2>1. CASE Surroundings
      BY <2>1 DEF Surroundings, CablePulled, CableReseated, SwitchedOff, SwitchedOn
  <2>2. CASE PowerOn \/ Cancel
      BY <2>2 DEF PowerOn, PowerOnLooks, PowerOnSends, PowerOnArms, Cancel
  <2>3. CASE Supervise
      BY <2>3 DEF Supervise, Dials, SendsArmedWake, TriesInit, Parks, ShowsPark, ParkedTicks,
                  ParkedEnds, Unparks, FirstPoll, Announces, ShowsLive, RunEnds, TearsDown,
                  ShowsLoss, BacksOff
  <2>4. ASSUME NEW tier \in Tiers, Polls(tier)
        PROVE  ailing'
    <3>1. PICK outcome \in Outcomes(tier) :
             /\ fails' = [fails EXCEPT ![tier] =
                         IF outcome = "ok" THEN 0
                         ELSE IF Counts(tier, outcome) THEN @ + 1 ELSE @]
             /\ ailing' = (ailing \/ outcome = "silent" \/ power # "awake")
        BY <2>4 DEF Polls
    <3>2. AtLimit(fails'[tier]) /\ at = "running"
        BY <2>4 DEF Polls
    <3>3. fails[tier] \in 0..(MaxPollFailures - 1)
        BY <3>2, SupervisorAssumption DEF SupervisorInv, BelowLimit, SupervisorTypes
    <3>4. Counts(tier, outcome)
      <4> SUFFICES ASSUME ~Counts(tier, outcome) PROVE FALSE
          OBVIOUS
      <4>1. fails'[tier] \in {0, fails[tier]}
          BY <3>1 DEF SupervisorInv, SupervisorTypes
      <4> QED BY <4>1, <3>2, <3>3, SupervisorAssumption DEF AtLimit
    <3>5. outcome = "silent" \/ power # "awake"
        BY <3>4 DEF Counts, Outcomes
    <3> QED BY <3>1, <3>5
  <2> QED BY <2>1, <2>2, <2>3, <2>4 DEF SupervisorNext
<1> QED BY <1>1, SupervisorInvariant, PTL DEF SupervisorSpec, RefusalsKeepTheLink

-----------------------------------------------------------------------------
(* The way of an event                                                      *)

\* The types of what is on the way, one fact at a time.
LEMMA DeliveryTypes ==
    ASSUME Deliver!TypeOK
    PROVE  /\ agg.queue \in Seq(Deliver!AggEvent) /\ agg.dropped \in Nat
           /\ Len(agg.queue) \in Nat /\ agg.closed \in BOOLEAN
           /\ \A i \in 1..Len(agg.queue) :
                 /\ agg.queue[i] \in Deliver!AggEvent /\ agg.queue[i].radio \in Stations
                 /\ agg.queue[i].n \in Nat /\ agg.queue[i].dropped \in Nat
           /\ \A r \in Stations :
                 /\ published[r] \in Nat /\ heard[r].n \in Nat
                 /\ sub[r].queue \in Seq(Deliver!SubEvent) /\ sub[r].dropped \in Nat
                 /\ sub[r].open \in BOOLEAN /\ sub[r].twice \in BOOLEAN
                 /\ Len(sub[r].queue) \in Nat
<1>1. agg.queue \in Seq(Deliver!AggEvent) /\ agg.dropped \in Nat /\ agg.closed \in BOOLEAN
    BY DEF Deliver!TypeOK
<1>2. \A r \in Stations :
          /\ published[r] \in Nat /\ heard[r].n \in Nat
          /\ sub[r].queue \in Seq(Deliver!SubEvent) /\ sub[r].dropped \in Nat
          /\ sub[r].open \in BOOLEAN /\ sub[r].twice \in BOOLEAN
    BY DEF Deliver!TypeOK
<1>3. \A i \in 1..Len(agg.queue) : agg.queue[i] \in Deliver!AggEvent
    BY <1>1, ElementOfSeq
<1>4. \A x \in Deliver!AggEvent : x.radio \in Stations /\ x.n \in Nat /\ x.dropped \in Nat
    BY DEF Deliver!AggEvent
<1>5. Len(agg.queue) \in Nat /\ \A r \in Stations : Len(sub[r].queue) \in Nat
    BY <1>1, <1>2, LenProperties
<1> QED BY <1>1, <1>2, <1>3, <1>4, <1>5

\* The events to come are those of the queue and the next.
LEMMA WithNext ==
    ASSUME NEW q \in Seq(Deliver!SubEvent), NEW n \in Nat, NEW dropped \in Nat, NEW c,
           c = Append(q, [n |-> n + 1, dropped |-> dropped])
    PROVE  /\ c \in Seq(Deliver!SubEvent)
           /\ Len(q) \in Nat /\ Len(c) = Len(q) + 1
           /\ \A i \in 1..Len(q) : c[i] = q[i]
           /\ c[Len(q) + 1] = [n |-> n + 1, dropped |-> dropped]
           /\ \A i \in 1..Len(c) : c[i].n \in Nat /\ c[i].dropped \in Nat
<1>1. PICK next : next = [n |-> n + 1, dropped |-> dropped]
    OBVIOUS
<1>2. next \in Deliver!SubEvent
    BY <1>1 DEF Deliver!SubEvent
<1>3. /\ c \in Seq(Deliver!SubEvent) /\ Len(c) = Len(q) + 1
      /\ \A i \in 1..Len(q) : c[i] = q[i]
      /\ c[Len(q) + 1] = next
    BY <1>1, <1>2, AppendProperties
<1>4. \A i \in 1..Len(c) : c[i] \in Deliver!SubEvent
    BY <1>3, ElementOfSeq
<1>5. \A x \in Deliver!SubEvent : x.n \in Nat /\ x.dropped \in Nat
    BY DEF Deliver!SubEvent
<1> QED BY <1>1, <1>3, <1>4, <1>5, LenProperties

\* What comes to the forwarder, event by event (subscriber.ch).
LEMMA ComingIs ==
    ASSUME Deliver!TypeOK, NEW r \in Stations
    PROVE  /\ Deliver!Coming(r) \in Seq(Deliver!SubEvent)
           /\ Len(Deliver!Coming(r)) = Len(sub[r].queue) + 1
           /\ \A i \in 1..Len(sub[r].queue) : Deliver!Coming(r)[i] = sub[r].queue[i]
           /\ Deliver!Coming(r)[Len(sub[r].queue) + 1]
                  = [n |-> published[r] + 1, dropped |-> sub[r].dropped]
           /\ \A i \in 1..Len(Deliver!Coming(r)) :
                 Deliver!Coming(r)[i].n \in Nat /\ Deliver!Coming(r)[i].dropped \in Nat
<1>1. PICK q, n, dropped : q = sub[r].queue /\ n = published[r] /\ dropped = sub[r].dropped
    OBVIOUS
<1>2. q \in Seq(Deliver!SubEvent) /\ n \in Nat /\ dropped \in Nat
    BY <1>1, DeliveryTypes
<1>3. PICK c : c = Append(q, [n |-> n + 1, dropped |-> dropped])
    OBVIOUS
<1>4. c = Deliver!Coming(r)
    BY <1>1, <1>3 DEF Deliver!Coming
<1>5. /\ c \in Seq(Deliver!SubEvent)
      /\ Len(c) = Len(q) + 1
      /\ \A i \in 1..Len(q) : c[i] = q[i]
      /\ c[Len(q) + 1] = [n |-> n + 1, dropped |-> dropped]
      /\ \A i \in 1..Len(c) : c[i].n \in Nat /\ c[i].dropped \in Nat
    BY <1>2, <1>3, WithNext
<1> QED BY <1>1, <1>4, <1>5

\* Queues just made (NewManager, NewHub).
LEMMA InitDeliveryInv == Deliver!Init => Deliver!DeliveryInv
<1> SUFFICES ASSUME Deliver!Init PROVE Deliver!DeliveryInv
    OBVIOUS
<1>1. /\ agg.queue = <<>> /\ agg.dropped = 0 /\ agg.closed = FALSE /\ silent = FALSE
      /\ \A r \in Stations : /\ published[r] = 0 /\ heard[r].n = 0
                             /\ sub[r].queue = <<>> /\ sub[r].dropped = 0 /\ sub[r].twice = FALSE
    BY DEF Deliver!Init
<1>2. <<>> \in Seq(Deliver!SubEvent) /\ <<>> \in Seq(Deliver!AggEvent)
    BY EmptySeq
<1>3. Deliver!TypeOK
    <2>1. agg \in [queue : Seq(Deliver!AggEvent), dropped : Nat, closed : BOOLEAN]
        BY <1>2 DEF Deliver!Init
    <2>2. sub \in [Stations -> [queue : Seq(Deliver!SubEvent), dropped : Nat,
                                listed : BOOLEAN, open : BOOLEAN, twice : BOOLEAN]]
        BY <1>2 DEF Deliver!Init
    <2>3. heard \in [Stations -> [n : Nat, flagged : BOOLEAN]] /\ silent \in BOOLEAN
          /\ published \in [Stations -> Nat]
        BY DEF Deliver!Init
    <2> QED BY <2>1, <2>2, <2>3 DEF Deliver!TypeOK
<1>4. Deliver!LossIsAnnounced
    BY <1>1 DEF Deliver!LossIsAnnounced
<1>5. ASSUME NEW r \in Stations PROVE Deliver!NothingHidden(r) /\ Deliver!InOrder(r)
    <2>1. /\ Len(agg.queue) = 0 /\ Len(sub[r].queue) = 0 /\ Len(Deliver!Coming(r)) = 1
          /\ Deliver!Coming(r)[1].n = 1
        <3>1. Len(agg.queue) = 0 /\ Len(sub[r].queue) = 0
            BY <1>1
        <3>2. /\ Len(Deliver!Coming(r)) = Len(sub[r].queue) + 1
              /\ Deliver!Coming(r)[Len(sub[r].queue) + 1]
                     = [n |-> published[r] + 1, dropped |-> sub[r].dropped]
            BY <1>3, ComingIs
        <3>3. Deliver!Coming(r)[1] = [n |-> published[r] + 1, dropped |-> sub[r].dropped]
            BY <3>1, <3>2
        <3> QED BY <1>1, <3>1, <3>2, <3>3
    <2>2. Deliver!Clear(r, Deliver!Coming(r)[1].n, Len(agg.queue))
        BY <1>1, <2>1 DEF Deliver!Clear
    <2> QED BY <1>1, <2>1, <2>2 DEF Deliver!NothingHidden, Deliver!InOrder
<1> QED BY <1>1, <1>3, <1>4, <1>5 DEF Deliver!DeliveryInv

\* A step that moves no event.
LEMMA SameEvents ==
    ASSUME Deliver!DeliveryInv, UNCHANGED <<published, heard>>,
           agg'.queue = agg.queue, agg'.dropped = agg.dropped,
           \A r \in Stations : sub'[r].queue = sub[r].queue /\ sub'[r].dropped = sub[r].dropped
    PROVE  \A r \in Stations : Deliver!NothingHidden(r)' /\ Deliver!InOrder(r)'
<1> SUFFICES ASSUME NEW r \in Stations PROVE Deliver!NothingHidden(r)' /\ Deliver!InOrder(r)'
    OBVIOUS
<1>1. Deliver!Coming(r)' = Deliver!Coming(r)
    BY DEF Deliver!Coming
<1>2. \A n, len : Deliver!Clear(r, n, len)' <=> Deliver!Clear(r, n, len)
    BY DEF Deliver!Clear
<1>3. Deliver!NothingHidden(r) /\ Deliver!InOrder(r)
    BY DEF Deliver!DeliveryInv
<1>4. Deliver!NothingHidden(r)'
    BY <1>1, <1>2, <1>3 DEF Deliver!NothingHidden
<1>5. Deliver!InOrder(r)'
    BY <1>1, <1>3 DEF Deliver!InOrder
<1> QED BY <1>4, <1>5

\* A subscription whose channel is closed, once, and nothing else.
LEMMA ClosedOnce ==
    ASSUME Deliver!DeliveryInv, NEW r \in Stations, NEW s,
           s = sub[r] \/ s = [sub[r] EXCEPT !.listed = FALSE]
               \/ (sub[r].open /\ s = Deliver!CloseChannel(sub[r]))
    PROVE  /\ s \in [queue : Seq(Deliver!SubEvent), dropped : Nat,
                     listed : BOOLEAN, open : BOOLEAN, twice : BOOLEAN]
           /\ s.queue = sub[r].queue /\ s.dropped = sub[r].dropped /\ ~s.twice
<1>1. /\ sub[r] \in [queue : Seq(Deliver!SubEvent), dropped : Nat,
                     listed : BOOLEAN, open : BOOLEAN, twice : BOOLEAN]
      /\ ~sub[r].twice
    BY DEF Deliver!DeliveryInv, Deliver!TypeOK, Deliver!LossIsAnnounced
<1>2. CASE s = sub[r]
    BY <1>1, <1>2
<1>3. CASE s = [sub[r] EXCEPT !.listed = FALSE]
    BY <1>1, <1>3
<1>4. CASE sub[r].open /\ s = Deliver!CloseChannel(sub[r])
    <2>1. s = [sub[r] EXCEPT !.listed = FALSE, !.open = FALSE,
                             !.twice = sub[r].twice \/ ~sub[r].open]
        BY <1>4 DEF Deliver!CloseChannel
    <2>2. (sub[r].twice \/ ~sub[r].open) = FALSE
        BY <1>1, <1>4
    <2>3. s = [sub[r] EXCEPT !.listed = FALSE, !.open = FALSE, !.twice = FALSE]
        BY <2>1, <2>2
    <2> QED BY <1>1, <2>3
<1> QED BY <1>2, <1>3, <1>4

\* Shutting down closes every channel once and hides nothing.
LEMMA ShutdownDelivery ==
    ASSUME Deliver!DeliveryInv,
           Deliver!Unsubscribe \/ \E r \in Stations : Deliver!CloseAll(r)
    PROVE  Deliver!DeliveryInv'
<1>1. UNCHANGED <<published, forwarding, agg, heard, silent>>
    BY DEF Deliver!Unsubscribe, Deliver!CloseAll, Deliver!aggSide, Deliver!heardSide
<1>2. /\ sub' = [r \in Stations |-> sub'[r]]
      /\ \A r \in Stations :
            \/ sub'[r] = sub[r] \/ sub'[r] = [sub[r] EXCEPT !.listed = FALSE]
            \/ sub[r].open /\ sub'[r] = Deliver!CloseChannel(sub[r])
    <2>1. sub = [r \in Stations |-> sub[r]]
        BY DEF Deliver!DeliveryInv, Deliver!TypeOK
    <2>2. CASE Deliver!Unsubscribe
        BY <2>2 DEF Deliver!Unsubscribe, Deliver!Unsubscribed
    <2>3. CASE \E r \in Stations : Deliver!CloseAll(r)
        <3>1. PICK x \in Stations : Deliver!CloseAll(x)
            BY <2>3
        <3>2. PICK s : s = IF sub[x].open THEN Deliver!CloseChannel(sub[x])
                           ELSE [sub[x] EXCEPT !.listed = FALSE]
            OBVIOUS
        <3>3. sub' = [sub EXCEPT ![x] = s]
            BY <3>1, <3>2 DEF Deliver!CloseAll
        <3>4. \A r \in Stations : sub'[r] = IF r = x THEN s ELSE sub[r]
            BY <2>1, <3>3
        <3>5. sub' = [r \in Stations |-> sub'[r]]
            BY <2>1, <3>3
        <3> QED BY <3>2, <3>4, <3>5
    <2> QED BY <2>2, <2>3
<1>3. ASSUME NEW r \in Stations
      PROVE  /\ sub'[r] \in [queue : Seq(Deliver!SubEvent), dropped : Nat,
                             listed : BOOLEAN, open : BOOLEAN, twice : BOOLEAN]
             /\ sub'[r].queue = sub[r].queue /\ sub'[r].dropped = sub[r].dropped
             /\ ~sub'[r].twice
    BY <1>2, ClosedOnce
<1>4. Deliver!TypeOK'
    <2>1. sub' \in [Stations -> [queue : Seq(Deliver!SubEvent), dropped : Nat,
                                 listed : BOOLEAN, open : BOOLEAN, twice : BOOLEAN]]
        BY <1>2, <1>3
    <2> QED BY <1>1, <2>1 DEF Deliver!DeliveryInv, Deliver!TypeOK
<1>5. Deliver!LossIsAnnounced'
    <2>1. ~silent'
        BY <1>1 DEF Deliver!DeliveryInv, Deliver!LossIsAnnounced
    <2> QED BY <1>3, <2>1 DEF Deliver!LossIsAnnounced
<1>6. \A r \in Stations : Deliver!NothingHidden(r)' /\ Deliver!InOrder(r)'
    BY <1>1, <1>3, SameEvents
<1> QED BY <1>1, <1>4, <1>5, <1>6 DEF Deliver!DeliveryInv

\* An event published is the one that was to come, or is lost and counted in the
\* next: either way nothing is hidden.
LEMMA PublishDelivery ==
    ASSUME Deliver!DeliveryInv, NEW r \in Stations, Deliver!Publish(r)
    PROVE  Deliver!DeliveryInv'
<1>1. PICK q, s, p : q = sub[r].queue /\ s = sub[r].dropped /\ p = published[r]
    OBVIOUS
<1>2. /\ UNCHANGED <<forwarding, agg, heard, silent>>
      /\ published' = [published EXCEPT ![r] = p + 1]
      /\ \/ sub' = [sub EXCEPT ![r].queue = Append(q, [n |-> p + 1, dropped |-> s]),
                               ![r].dropped = 0]
         \/ sub' = [sub EXCEPT ![r].dropped = s + 1]
    <2>1. published[r] + 1 = published'[r]
        BY DEF Deliver!Publish, Deliver!DeliveryInv, Deliver!TypeOK
    <2> QED BY <1>1, <2>1 DEF Deliver!Publish, Deliver!aggSide, Deliver!heardSide
<1>3. /\ q \in Seq(Deliver!SubEvent) /\ Len(q) \in Nat /\ s \in Nat /\ p \in Nat
      /\ [n |-> p + 1, dropped |-> s] \in Deliver!SubEvent
      /\ Append(q, [n |-> p + 1, dropped |-> s]) \in Seq(Deliver!SubEvent)
    <2>1. /\ q \in Seq(Deliver!SubEvent) /\ Len(q) \in Nat /\ s \in Nat /\ p \in Nat
        BY <1>1, DeliveryTypes DEF Deliver!DeliveryInv
    <2>2. [n |-> p + 1, dropped |-> s] \in Deliver!SubEvent
        BY <2>1 DEF Deliver!SubEvent
    <2> QED BY <2>1, <2>2, AppendProperties
<1>4. /\ \A x \in Stations : x # r => sub'[x] = sub[x] /\ published'[x] = published[x]
      /\ published'[r] = p + 1 /\ sub'[r].twice = sub[r].twice
      /\ \/ sub'[r].queue = Append(q, [n |-> p + 1, dropped |-> s]) /\ sub'[r].dropped = 0
         \/ sub'[r].queue = q /\ sub'[r].dropped = s + 1
    BY <1>1, <1>2 DEF Deliver!DeliveryInv, Deliver!TypeOK
<1>5. Deliver!TypeOK'
    <2>1. sub' \in [Stations -> [queue : Seq(Deliver!SubEvent), dropped : Nat,
                                 listed : BOOLEAN, open : BOOLEAN, twice : BOOLEAN]]
        <3>1. sub \in [Stations -> [queue : Seq(Deliver!SubEvent), dropped : Nat,
                                   listed : BOOLEAN, open : BOOLEAN, twice : BOOLEAN]]
            BY DEF Deliver!DeliveryInv, Deliver!TypeOK
        <3>2. PICK more : more = Append(q, [n |-> p + 1, dropped |-> s])
            OBVIOUS
        <3>3. more \in Seq(Deliver!SubEvent) /\ s + 1 \in Nat
            BY <1>3, <3>2
        <3>4. \/ sub' = [sub EXCEPT ![r].queue = more, ![r].dropped = 0]
              \/ sub' = [sub EXCEPT ![r].dropped = s + 1]
            BY <1>2, <3>2
        <3>5. CASE sub' = [sub EXCEPT ![r].queue = more, ![r].dropped = 0]
            <4>1. [sub[r] EXCEPT !.queue = more, !.dropped = 0]
                      \in [queue : Seq(Deliver!SubEvent), dropped : Nat,
                           listed : BOOLEAN, open : BOOLEAN, twice : BOOLEAN]
                BY <3>1, <3>3
            <4>2. sub' = [sub EXCEPT ![r] = [sub[r] EXCEPT !.queue = more, !.dropped = 0]]
                BY <3>1, <3>5
            <4> QED BY <3>1, <4>1, <4>2
        <3>6. CASE sub' = [sub EXCEPT ![r].dropped = s + 1]
            BY <3>1, <3>3, <3>6
        <3> QED BY <3>4, <3>5, <3>6
    <2>2. published' \in [Stations -> Nat]
        BY <1>2, <1>3 DEF Deliver!DeliveryInv, Deliver!TypeOK
    <2> QED BY <1>2, <2>1, <2>2 DEF Deliver!DeliveryInv, Deliver!TypeOK
<1>6. Deliver!LossIsAnnounced'
    <2>1. ~silent' /\ \A x \in Stations : ~sub[x].twice
        BY <1>2 DEF Deliver!DeliveryInv, Deliver!LossIsAnnounced
    <2>2. ASSUME NEW x \in Stations PROVE ~sub'[x].twice
        BY <1>4, <2>1
    <2> QED BY <2>1, <2>2 DEF Deliver!LossIsAnnounced
<1>7. \A x \in Stations : \A n, len : Deliver!Clear(x, n, len)' <=> Deliver!Clear(x, n, len)
    BY <1>2 DEF Deliver!Clear
<1>8. ASSUME NEW x \in Stations PROVE Deliver!NothingHidden(x) /\ Deliver!InOrder(x)
    BY DEF Deliver!DeliveryInv
<1>9. ASSUME NEW x \in Stations, x # r PROVE Deliver!NothingHidden(x)' /\ Deliver!InOrder(x)'
    <2>1. Deliver!Coming(x)' = Deliver!Coming(x)
        BY <1>4, <1>9 DEF Deliver!Coming
    <2>2. Deliver!NothingHidden(x)'
        BY <1>2, <1>7, <1>8, <2>1 DEF Deliver!NothingHidden
    <2>3. Deliver!InOrder(x)'
        BY <1>2, <1>8, <2>1 DEF Deliver!InOrder
    <2> QED BY <2>2, <2>3
<1>10. PICK c, d : c = Deliver!Coming(r) /\ d = Deliver!Coming(r)'
    OBVIOUS
<1>11. /\ Len(c) = Len(q) + 1
       /\ \A i \in 1..Len(q) : c[i] = q[i]
       /\ c[Len(q) + 1] = [n |-> p + 1, dropped |-> s]
       /\ \A i \in 1..Len(c) : c[i].n \in Nat /\ c[i].dropped \in Nat
    BY <1>1, <1>10, ComingIs DEF Deliver!DeliveryInv
\* What is to come afterwards: the same, and one more.
<1>12. /\ Len(d) \in Nat /\ Len(d) >= 1
       /\ \A j \in 1..Len(d) :
             \/ j \in 1..Len(c) /\ d[j] = c[j]
             \/ /\ j = Len(d) /\ d[j].n = p + 2
                /\ d[j].dropped > 0 \/ (j - 1 \in 1..Len(c) /\ d[j - 1].n = p + 1)
    <2>1. CASE sub'[r].queue = Append(q, [n |-> p + 1, dropped |-> s]) /\ sub'[r].dropped = 0
        <3>1. d = Append(c, [n |-> (p + 1) + 1, dropped |-> 0])
            BY <1>1, <1>4, <1>10, <2>1 DEF Deliver!Coming
        <3>0. p + 1 \in Nat
            BY <1>3
        <3>2. c \in Seq(Deliver!SubEvent)
            BY <1>10, ComingIs DEF Deliver!DeliveryInv
        <3>3. /\ Len(d) = Len(c) + 1
              /\ \A i \in 1..Len(c) : d[i] = c[i]
              /\ d[Len(c) + 1] = [n |-> (p + 1) + 1, dropped |-> 0]
            BY <3>0, <3>1, <3>2, WithNext
        <3>4. d[Len(c)].n = p + 1 /\ Len(c) \in 1..Len(c)
            BY <1>3, <1>11, <3>3
        <3> QED BY <1>3, <1>11, <3>3, <3>4
    <2>2. CASE sub'[r].queue = q /\ sub'[r].dropped = s + 1
        <3>1. d = Append(q, [n |-> (p + 1) + 1, dropped |-> s + 1])
            BY <1>1, <1>4, <1>10, <2>2 DEF Deliver!Coming
        <3>2. p + 1 \in Nat /\ s + 1 \in Nat
            BY <1>3
        <3>3. /\ Len(d) = Len(q) + 1
              /\ \A i \in 1..Len(q) : d[i] = q[i]
              /\ d[Len(q) + 1] = [n |-> (p + 1) + 1, dropped |-> s + 1]
            BY <1>3, <3>1, <3>2, WithNext
        <3>4. d[Len(d)].n = p + 2 /\ d[Len(d)].dropped > 0
            BY <1>3, <3>3
        <3>5. \A j \in 1..Len(d) : j = Len(d) \/ (j \in 1..Len(c) /\ d[j] = c[j])
            BY <1>3, <1>11, <3>3
        <3> QED BY <1>3, <3>3, <3>4, <3>5
    <2> QED BY <1>4, <2>1, <2>2
<1>13. 1 \in 1..Len(c) /\ \A i \in 1..Len(c) : c[i].n <= p + 1
    <2>1. \A i \in 1..(Len(c) - 1) : c[i].n <= c[Len(c)].n
        BY <1>3, <1>8, <1>10, <1>11 DEF Deliver!InOrder
    <2> QED BY <1>3, <1>11, <2>1
<1>14. Deliver!NothingHidden(r)'
    <2>1. /\ c[1].dropped > 0 \/ agg.dropped > 0 \/ Deliver!Clear(r, c[1].n, Len(agg.queue))
          /\ \A j \in 2..Len(c) : c[j].dropped > 0 \/ c[j].n <= c[j - 1].n + 1
          /\ \A j \in 1..Len(agg.queue) : agg.queue[j].radio = r =>
                agg.queue[j].dropped > 0 \/ Deliver!Clear(r, agg.queue[j].n, j - 1)
        BY <1>8, <1>10 DEF Deliver!NothingHidden
    <2>2. d[1] = c[1] \/ d[1].dropped > 0
        BY <1>12
    <2>3. ASSUME NEW j \in 2..Len(d) PROVE d[j].dropped > 0 \/ d[j].n <= d[j - 1].n + 1
        <3>1. j \in 1..Len(d) /\ j - 1 \in 1..Len(d) /\ j - 1 # Len(d)
            BY <1>12
        <3>2. j - 1 \in 1..Len(c) /\ d[j - 1] = c[j - 1]
            BY <1>12, <3>1
        <3>3. CASE j \in 1..Len(c) /\ d[j] = c[j]
            BY <2>1, <3>2, <3>3
        <3>4. CASE d[j].dropped > 0 \/ (d[j].n = p + 2 /\ d[j - 1].n = p + 1)
            BY <1>3, <3>4
        <3> QED BY <1>12, <3>1, <3>3, <3>4
    <2> QED BY <1>2, <1>7, <1>10, <2>1, <2>2, <2>3 DEF Deliver!NothingHidden
<1>15. Deliver!InOrder(r)'
    <2>1. /\ \A j \in 1..Len(agg.queue) : agg.queue[j].radio = r =>
                /\ heard[r].n <= agg.queue[j].n /\ agg.queue[j].n \in Nat
                /\ \A i \in 1..(j - 1) :
                      agg.queue[i].radio = r => agg.queue[i].n <= agg.queue[j].n
                /\ \A i \in 1..Len(c) : agg.queue[j].n <= c[i].n
          /\ heard[r].n \in Nat
          /\ \A j \in 1..Len(c) :
                /\ heard[r].n <= c[j].n
                /\ \A i \in 1..(j - 1) : c[i].n <= c[j].n
        BY <1>8, <1>10, DeliveryTypes DEF Deliver!DeliveryInv, Deliver!InOrder
    <2>2. ASSUME NEW j \in 1..Len(agg.queue), agg.queue[j].radio = r, NEW i \in 1..Len(d)
          PROVE  agg.queue[j].n <= d[i].n
        <3>1. agg.queue[j].n \in Nat /\ \A k \in 1..Len(c) : agg.queue[j].n <= c[k].n
            BY <2>1, <2>2
        <3>2. agg.queue[j].n <= p + 1
            BY <1>3, <1>11, <1>13, <3>1
        <3> QED BY <1>3, <1>12, <3>1, <3>2
    <2>3. ASSUME NEW j \in 1..Len(d) PROVE heard[r].n <= d[j].n
        BY <1>3, <1>11, <1>12, <1>13, <2>1
    <2>4. ASSUME NEW j \in 1..Len(d), NEW i \in 1..(j - 1) PROVE d[i].n <= d[j].n
        <3>1. i \in 1..Len(d) /\ i # Len(d)
            BY <1>12
        <3>2. i \in 1..Len(c) /\ d[i] = c[i]
            BY <1>12, <3>1
        <3>3. CASE j \in 1..Len(c) /\ d[j] = c[j]
            BY <2>1, <3>2, <3>3
        <3>4. CASE d[j].n = p + 2
            BY <1>3, <1>11, <1>13, <3>2, <3>4
        <3> QED BY <1>12, <3>3, <3>4
    <2> QED BY <1>2, <1>10, <2>1, <2>2, <2>3, <2>4 DEF Deliver!InOrder
<1> QED BY <1>2, <1>5, <1>6, <1>8, <1>9, <1>14, <1>15 DEF Deliver!DeliveryInv

\* What an event at the end of the aggregate makes of those that may follow it.
LEMMA ClearGrows ==
    ASSUME NEW q, q = agg.queue, NEW len \in Nat, NEW e,
           Len(agg'.queue) = len + 1, \A i \in 1..len : agg'.queue[i] = q[i],
           agg'.queue[len + 1] = e, UNCHANGED heard, NEW r, NEW n
    PROVE  /\ e.radio # r /\ Deliver!Clear(r, n, len) => Deliver!Clear(r, n, len + 1)'
           /\ e.radio # r /\ e.dropped > 0 => Deliver!Clear(r, n, len + 1)'
           /\ e.radio = r /\ n <= e.n + 1 => Deliver!Clear(r, n, len + 1)'
           /\ \A j \in 1..len + 1 : Deliver!Clear(r, n, j - 1) => Deliver!Clear(r, n, j - 1)'
<1>1. PICK p : p = agg'.queue
    OBVIOUS
<1>2. /\ \A i \in 1..len : p[i] = q[i] /\ i \in 1..len + 1
      /\ p[len + 1] = e /\ len + 1 \in 1..len + 1
      /\ \A i \in 1..len + 1 : i \in 1..len \/ i = len + 1
    BY <1>1
<1>3. ASSUME e.radio # r, Deliver!Clear(r, n, len) PROVE Deliver!Clear(r, n, len + 1)'
    <2>1. CASE \E k \in 1..len : q[k].dropped > 0 /\ \A m \in k..len : q[m].radio # r
        <3>1. PICK k \in 1..len : q[k].dropped > 0 /\ \A m \in k..len : q[m].radio # r
            BY <2>1
        <3>2. \A m \in k..len + 1 : p[m].radio # r
            <4>1. \A m \in k..len + 1 : (m \in k..len /\ m \in 1..len) \/ m = len + 1
                OBVIOUS
            <4> QED BY <1>2, <1>3, <3>1, <4>1
        <3>3. k \in 1..len + 1 /\ p[k].dropped > 0
            BY <1>2, <3>1
        <3> QED BY <1>1, <3>2, <3>3 DEF Deliver!Clear
    <2>2. CASE \E k \in 1..len : q[k].radio = r /\ n <= q[k].n + 1
        BY <1>1, <1>2, <2>2 DEF Deliver!Clear
    <2>3. CASE heard[r].flagged /\ \A m \in 1..len : q[m].radio # r
        BY <1>1, <1>2, <1>3, <2>3 DEF Deliver!Clear
    <2>4. CASE n <= heard[r].n + 1
        BY <2>4 DEF Deliver!Clear
    <2> QED BY <1>3, <2>1, <2>2, <2>3, <2>4 DEF Deliver!Clear
<1>4. ASSUME e.radio # r, e.dropped > 0 PROVE Deliver!Clear(r, n, len + 1)'
    <2>1. \A m \in (len + 1)..(len + 1) : p[m].radio # r
        BY <1>2, <1>4
    <2> QED BY <1>1, <1>2, <1>4, <2>1 DEF Deliver!Clear
<1>5. ASSUME e.radio = r, n <= e.n + 1 PROVE Deliver!Clear(r, n, len + 1)'
    BY <1>1, <1>2, <1>5 DEF Deliver!Clear
<1>6. ASSUME NEW j \in 1..len + 1, Deliver!Clear(r, n, j - 1)
      PROVE  Deliver!Clear(r, n, j - 1)'
    <2>0. \A i \in 1..(j - 1) : i \in 1..len
        OBVIOUS
    <2>1. \A i \in 1..(j - 1) : p[i] = q[i]
        BY <1>2, <2>0
    <2>2. \A k \in 1..(j - 1) : \A m \in k..(j - 1) : m \in 1..(j - 1)
        OBVIOUS
    <2> QED BY <1>1, <1>6, <2>1, <2>2 DEF Deliver!Clear
<1> QED BY <1>3, <1>4, <1>5, <1>6

\* An event passed on is announced with what the aggregate has dropped; one
\* dropped here is counted.
LEMMA ForwardDelivery ==
    ASSUME Deliver!DeliveryInv, NEW r \in Stations, Deliver!Forward(r)
    PROVE  Deliver!DeliveryInv'
<1>1. PICK q, s, a, len : q = sub[r].queue /\ s = sub[r].dropped /\ a = agg.queue /\ len = Len(a)
    OBVIOUS
<1>2. PICK e : e = Head(q)
    OBVIOUS
<1>3. /\ UNCHANGED <<published, forwarding, heard, silent>>
      /\ r \in forwarding /\ q # <<>>
      /\ agg' = Deliver!Sent(r, e)
      /\ sub' = [sub EXCEPT ![r].queue = Tail(q)]
    BY <1>1, <1>2 DEF Deliver!Forward, Deliver!heardSide
<1>4. ~agg.closed
    BY <1>3 DEF Deliver!DeliveryInv
<1>5. /\ q \in Seq(Deliver!SubEvent) /\ Len(q) \in Nat /\ Len(q) >= 1
      /\ e = q[1] /\ e \in Deliver!SubEvent /\ e.n \in Nat /\ e.dropped \in Nat
      /\ Tail(q) \in Seq(Deliver!SubEvent) /\ Len(Tail(q)) = Len(q) - 1
      /\ \A i \in 1..Len(Tail(q)) : Tail(q)[i] = q[i + 1] /\ i + 1 \in 1..Len(q)
    <2>1. q \in Seq(Deliver!SubEvent) /\ Len(q) \in Nat
        BY <1>1, DeliveryTypes DEF Deliver!DeliveryInv
    <2>2. /\ Tail(q) \in Seq(Deliver!SubEvent) /\ Len(Tail(q)) = Len(q) - 1
          /\ \A i \in 1..Len(Tail(q)) : Tail(q)[i] = q[i + 1] /\ i + 1 \in 1..Len(q)
          /\ Len(q) >= 1 /\ Head(q) = q[1]
        BY <1>3, <2>1
    <2>3. e \in Deliver!SubEvent
        BY <1>2, <2>1, <2>2, ElementOfSeq
    <2> QED BY <1>2, <2>1, <2>2, <2>3 DEF Deliver!SubEvent
<1>6. a \in Seq(Deliver!AggEvent) /\ len \in Nat /\ agg.dropped \in Nat
    BY <1>1, DeliveryTypes DEF Deliver!DeliveryInv
<1>7. PICK x : x = [radio |-> r, n |-> e.n, dropped |-> e.dropped + agg.dropped]
    OBVIOUS
<1>8. /\ x \in Deliver!AggEvent /\ x.radio = r /\ x.n = e.n
      /\ x.dropped = e.dropped + agg.dropped
    BY <1>5, <1>6, <1>7 DEF Deliver!AggEvent
\* Either the event is put at the end or a drop is counted.
<1>9. \/ /\ agg' = [agg EXCEPT !.queue = Append(a, x), !.dropped = 0]
         /\ agg'.queue = Append(a, x) /\ agg'.dropped = 0
      \/ /\ agg' = [agg EXCEPT !.dropped = agg.dropped + 1]
         /\ agg'.queue = a /\ agg'.dropped = agg.dropped + 1
    <2>1. \/ agg' = [agg EXCEPT !.queue = Append(a, x), !.dropped = 0]
          \/ agg' = [agg EXCEPT !.dropped = agg.dropped + 1]
        BY <1>1, <1>3, <1>4, <1>7 DEF Deliver!Sent
    <2>2. agg \in [queue : Seq(Deliver!AggEvent), dropped : Nat, closed : BOOLEAN]
        BY DEF Deliver!DeliveryInv, Deliver!TypeOK
    <2> QED BY <1>1, <2>1, <2>2
<1>10. Append(a, x) \in Seq(Deliver!AggEvent) /\ Len(Append(a, x)) = len + 1
       /\ Append(a, x)[len + 1] = x /\ \A i \in 1..len : Append(a, x)[i] = a[i]
    BY <1>1, <1>6, <1>8, AppendProperties
<1>11. /\ \A y \in Stations : y # r => sub'[y] = sub[y]
       /\ sub'[r].queue = Tail(q) /\ sub'[r].dropped = s /\ sub'[r].twice = sub[r].twice
    BY <1>1, <1>3 DEF Deliver!DeliveryInv, Deliver!TypeOK
<1>12. Deliver!TypeOK'
    <2>1. sub' \in [Stations -> [queue : Seq(Deliver!SubEvent), dropped : Nat,
                                 listed : BOOLEAN, open : BOOLEAN, twice : BOOLEAN]]
        <3>1. sub \in [Stations -> [queue : Seq(Deliver!SubEvent), dropped : Nat,
                                   listed : BOOLEAN, open : BOOLEAN, twice : BOOLEAN]]
            BY DEF Deliver!DeliveryInv, Deliver!TypeOK
        <3>2. PICK t \in Seq(Deliver!SubEvent) : t = Tail(q)
            BY <1>5
        <3> QED BY <1>3, <3>1, <3>2
    <2>2. agg' \in [queue : Seq(Deliver!AggEvent), dropped : Nat, closed : BOOLEAN]
        <3>1. agg \in [queue : Seq(Deliver!AggEvent), dropped : Nat, closed : BOOLEAN]
            BY DEF Deliver!DeliveryInv, Deliver!TypeOK
        <3>2. PICK t \in Seq(Deliver!AggEvent) : t = Append(a, x)
            BY <1>10
        <3>3. CASE agg' = [agg EXCEPT !.queue = t, !.dropped = 0]
            BY <3>1, <3>3
        <3>4. CASE agg' = [agg EXCEPT !.dropped = agg.dropped + 1]
            BY <1>6, <3>1, <3>4
        <3> QED BY <1>9, <3>2, <3>3, <3>4
    <2> QED BY <1>3, <2>1, <2>2 DEF Deliver!DeliveryInv, Deliver!TypeOK
<1>13. Deliver!LossIsAnnounced'
    <2>1. ~silent' /\ \A y \in Stations : ~sub[y].twice
        BY <1>3 DEF Deliver!DeliveryInv, Deliver!LossIsAnnounced
    <2>2. ASSUME NEW y \in Stations PROVE ~sub'[y].twice
        BY <1>11, <2>1
    <2> QED BY <2>1, <2>2 DEF Deliver!LossIsAnnounced
<1>14. agg'.closed => forwarding' = {}
    BY <1>3, <1>4, <1>9 DEF Deliver!DeliveryInv, Deliver!TypeOK
<1>15. PICK c, d, p : c = Deliver!Coming(r) /\ d = Deliver!Coming(r)' /\ p = published[r]
    OBVIOUS
<1>16. /\ Len(c) = Len(q) + 1 /\ c[1] = e
       /\ \A i \in 1..Len(q) : c[i] = q[i]
       /\ c[Len(q) + 1] = [n |-> p + 1, dropped |-> s]
       /\ \A i \in 1..Len(c) : c[i].n \in Nat /\ c[i].dropped \in Nat
    <2>1. /\ Len(c) = Len(q) + 1
          /\ \A i \in 1..Len(q) : c[i] = q[i]
          /\ c[Len(q) + 1] = [n |-> p + 1, dropped |-> s]
          /\ \A i \in 1..Len(c) : c[i].n \in Nat /\ c[i].dropped \in Nat
        BY <1>1, <1>15, ComingIs DEF Deliver!DeliveryInv
    <2> QED BY <1>5, <2>1
<1>17. Len(d) = Len(q) /\ \A i \in 1..Len(d) : d[i] = c[i + 1] /\ i + 1 \in 1..Len(c)
    <2>1. p \in Nat /\ s \in Nat
        BY <1>1, <1>15, DeliveryTypes DEF Deliver!DeliveryInv
    <2>2. d = Append(Tail(q), [n |-> p + 1, dropped |-> s])
        BY <1>3, <1>11, <1>15 DEF Deliver!Coming
    <2>3. PICK t : t = Tail(q)
        OBVIOUS
    <2>4. /\ Len(d) = Len(t) + 1
          /\ \A i \in 1..Len(t) : d[i] = t[i]
          /\ d[Len(t) + 1] = [n |-> p + 1, dropped |-> s]
        BY <1>5, <2>1, <2>2, <2>3, WithNext
    <2>5. Len(t) = Len(q) - 1 /\ \A i \in 1..Len(t) : t[i] = q[i + 1] /\ i + 1 \in 1..Len(q)
        BY <1>5, <2>3
    <2>6. ASSUME NEW i \in 1..Len(d) PROVE d[i] = c[i + 1] /\ i + 1 \in 1..Len(c)
        <3>1. CASE i \in 1..Len(t)
            <4>1. d[i] = q[i + 1] /\ i + 1 \in 1..Len(q)
                BY <2>4, <2>5, <3>1
            <4>2. c[i + 1] = q[i + 1] /\ i + 1 \in 1..Len(c)
                BY <1>5, <1>16, <4>1
            <4> QED BY <4>1, <4>2
        <3>2. CASE i = Len(q)
            <4>1. d[i] = [n |-> p + 1, dropped |-> s]
                BY <1>5, <2>4, <2>5, <3>2
            <4>2. c[i + 1] = [n |-> p + 1, dropped |-> s] /\ i + 1 \in 1..Len(c)
                BY <1>5, <1>16, <3>2
            <4> QED BY <4>1, <4>2
        <3>3. Len(d) = Len(q) /\ Len(t) = Len(q) - 1 /\ Len(q) \in Nat
            <4>1. Len(q) \in Nat /\ Len(t) = Len(q) - 1 /\ Len(d) = Len(t) + 1
                BY <1>5, <2>4, <2>5
            <4> QED BY <4>1
        <3>4. i \in 1..Len(t) \/ i = Len(q)
            BY <3>3
        <3> QED BY <3>1, <3>2, <3>4
    <2> QED BY <1>5, <2>4, <2>5, <2>6
<1>18. \A y \in Stations : /\ Deliver!NothingHidden(y) /\ Deliver!InOrder(y)
                           /\ y # r => Deliver!Coming(y)' = Deliver!Coming(y)
    BY <1>3, <1>11 DEF Deliver!DeliveryInv, Deliver!Coming
<1>19. /\ e.dropped > 0 \/ agg.dropped > 0 \/ Deliver!Clear(r, e.n, len)
       /\ \A j \in 2..Len(c) : c[j].dropped > 0 \/ c[j].n <= c[j - 1].n + 1
       /\ \A j \in 1..Len(c) : /\ heard[r].n <= c[j].n
                               /\ \A i \in 1..(j - 1) : c[i].n <= c[j].n
       /\ \A j \in 1..len : a[j].radio = r =>
             heard[r].n <= a[j].n /\ \A i \in 1..Len(c) : a[j].n <= c[i].n
       /\ heard[r].n <= e.n
       /\ 1 \in 1..Len(c)
       /\ \A j \in 1..len : a[j].radio = r => a[j].n <= e.n
    <2>1. Deliver!NothingHidden(r) /\ Deliver!InOrder(r) /\ 1 \in 1..Len(c)
        BY <1>5, <1>16, <1>18
    <2> QED BY <1>1, <1>15, <1>16, <2>1 DEF Deliver!NothingHidden, Deliver!InOrder
\* What is still to come of r.
<1>20. /\ \A j \in 2..Len(d) : d[j].dropped > 0 \/ d[j].n <= d[j - 1].n + 1
       /\ d[1].dropped > 0 \/ d[1].n <= e.n + 1
       /\ \A j \in 1..Len(d) : /\ heard[r].n <= d[j].n /\ e.n <= d[j].n
                               /\ \A i \in 1..(j - 1) : d[i].n <= d[j].n
       /\ \A j \in 1..len : a[j].radio = r => \A i \in 1..Len(d) : a[j].n <= d[i].n
    <2>1. ASSUME NEW j \in 2..Len(d) PROVE d[j].dropped > 0 \/ d[j].n <= d[j - 1].n + 1
        <3>1. /\ d[j] = c[j + 1] /\ d[j - 1] = c[(j - 1) + 1] /\ (j - 1) + 1 = j
              /\ j + 1 \in 2..Len(c) /\ (j + 1) - 1 = j
            BY <1>5, <1>16, <1>17
        <3> QED BY <1>19, <3>1
    <2>2. d[1] = c[2] /\ 2 \in 2..Len(c) /\ 2 - 1 = 1
        BY <1>5, <1>16, <1>17
    <2>3. d[1].dropped > 0 \/ d[1].n <= e.n + 1
        BY <1>16, <1>19, <2>2
    <2>4. ASSUME NEW j \in 1..Len(d)
          PROVE  /\ heard[r].n <= d[j].n /\ e.n <= d[j].n
                 /\ \A i \in 1..(j - 1) : d[i].n <= d[j].n
        <3>1. /\ d[j] = c[j + 1] /\ j + 1 \in 1..Len(c) /\ 1 \in 1..((j + 1) - 1)
            BY <1>17
        <3>2. ASSUME NEW i \in 1..(j - 1) PROVE d[i].n <= d[j].n
            <4>1. d[i] = c[i + 1] /\ i + 1 \in 1..((j + 1) - 1)
                BY <1>5, <1>17
            <4> QED BY <1>19, <3>1, <4>1
        <3> QED BY <1>16, <1>19, <3>1, <3>2
    <2>5. \A j \in 1..len : a[j].radio = r => \A i \in 1..Len(d) : a[j].n <= d[i].n
        BY <1>17, <1>19
    <2> QED BY <2>1, <2>3, <2>4, <2>5
<1>21. ASSUME NEW y \in Stations
       PROVE  /\ \A j \in 1..len : a[j].radio = y =>
                    a[j].dropped > 0 \/ Deliver!Clear(y, a[j].n, j - 1)
              /\ \A j \in 1..len : a[j].radio = y =>
                    /\ heard[y].n <= a[j].n
                    /\ \A i \in 1..(j - 1) : a[i].radio = y => a[i].n <= a[j].n
    BY <1>1, <1>18 DEF Deliver!NothingHidden, Deliver!InOrder
<1>22. CASE agg'.queue = Append(a, x) /\ agg'.dropped = 0
    <2>1. PICK b : b = agg'.queue
        OBVIOUS
    <2>2. /\ Len(b) = len + 1 /\ b[len + 1] = x /\ \A i \in 1..len : b[i] = a[i]
          /\ \A i \in 1..Len(b) : i \in 1..len \/ i = len + 1
        BY <1>6, <1>10, <1>22, <2>1
    <2>3. \A y, n :
             /\ y # r /\ Deliver!Clear(y, n, len) => Deliver!Clear(y, n, len + 1)'
             /\ y # r /\ x.dropped > 0 => Deliver!Clear(y, n, len + 1)'
             /\ y = r /\ n <= x.n + 1 => Deliver!Clear(y, n, len + 1)'
             /\ \A j \in 1..len + 1 : Deliver!Clear(y, n, j - 1) => Deliver!Clear(y, n, j - 1)'
        <3>1. /\ a = agg.queue /\ len \in Nat /\ Len(a) = len /\ Len(agg'.queue) = len + 1
              /\ \A i \in 1..len : agg'.queue[i] = a[i]
              /\ agg'.queue[len + 1] = x /\ UNCHANGED heard
            BY <1>1, <1>3, <1>6, <2>1, <2>2
        <3>2. ASSUME NEW y, NEW n
              PROVE  /\ x.radio # y /\ Deliver!Clear(y, n, len) => Deliver!Clear(y, n, len + 1)'
                     /\ x.radio # y /\ x.dropped > 0 => Deliver!Clear(y, n, len + 1)'
                     /\ x.radio = y /\ n <= x.n + 1 => Deliver!Clear(y, n, len + 1)'
                     /\ \A j \in 1..len + 1 :
                           Deliver!Clear(y, n, j - 1) => Deliver!Clear(y, n, j - 1)'
            BY <3>1, ClearGrows
        <3> QED BY <1>8, <3>2
    <2>4. e.dropped > 0 \/ agg.dropped > 0 => x.dropped > 0
        BY <1>5, <1>6, <1>8
    <2>5. ASSUME NEW y \in Stations, NEW j \in 1..Len(b), b[j].radio = y
          PROVE  b[j].dropped > 0 \/ Deliver!Clear(y, b[j].n, j - 1)'
        <3>1. CASE j \in 1..len
            <4>1. j \in 1..len + 1 /\ b[j] = a[j]
                BY <1>6, <2>2, <3>1
            <4> QED BY <1>21, <2>3, <2>5, <3>1, <4>1
        <3>2. CASE j = len + 1
            <4>1. y = r /\ b[j] = x /\ j - 1 = len /\ len + 1 \in 1..len + 1 /\ (len + 1) - 1 = len
                BY <1>6, <1>8, <2>2, <2>5, <3>2
            <4> QED BY <1>8, <1>19, <2>3, <2>4, <4>1
        <3> QED BY <2>2, <3>1, <3>2
    <2>6. ASSUME NEW y \in Stations, y # r
          PROVE  /\ Deliver!Coming(y)[1].dropped > 0
                        \/ Deliver!Clear(y, Deliver!Coming(y)[1].n, Len(b))'
                 /\ \A j \in 2..Len(Deliver!Coming(y)) :
                       Deliver!Coming(y)[j].dropped > 0
                           \/ Deliver!Coming(y)[j].n <= Deliver!Coming(y)[j - 1].n + 1
        BY <1>1, <1>18, <2>2, <2>3, <2>4, <2>6 DEF Deliver!NothingHidden
    <2>7. ASSUME NEW y \in Stations, y # r PROVE Deliver!NothingHidden(y)'
        BY <1>18, <2>1, <2>5, <2>6, <2>7 DEF Deliver!NothingHidden
    <2>8. Deliver!NothingHidden(r)'
        <3>1. d[1].dropped > 0 \/ Deliver!Clear(r, d[1].n, Len(b))'
            BY <1>8, <1>20, <2>2, <2>3
        <3> QED BY <1>15, <1>20, <2>1, <2>5, <3>1 DEF Deliver!NothingHidden
    <2>9. ASSUME NEW y \in Stations, y # r PROVE Deliver!InOrder(y)'
        <3>1. \A j \in 1..Len(b) : b[j].radio = y => j \in 1..len /\ b[j] = a[j]
            BY <1>8, <2>2, <2>9
        <3>2. \A j \in 1..len : \A i \in 1..(j - 1) : i \in 1..len
            BY <1>6
        <3>3. PICK w : w = Deliver!Coming(y)
            OBVIOUS
        <3>4. /\ \A j \in 1..len : a[j].radio = y => \A i \in 1..Len(w) : a[j].n <= w[i].n
              /\ \A j \in 1..Len(w) : /\ heard[y].n <= w[j].n
                                      /\ \A i \in 1..(j - 1) : w[i].n <= w[j].n
            BY <1>1, <1>18, <3>3 DEF Deliver!InOrder
        <3>5. /\ agg'.queue = b /\ Deliver!Coming(y)' = w /\ heard' = heard
            BY <1>3, <1>18, <2>1, <2>9, <3>3
        <3>6. ASSUME NEW j \in 1..Len(b), b[j].radio = y
              PROVE  /\ heard[y].n <= b[j].n
                     /\ \A i \in 1..(j - 1) : b[i].radio = y => b[i].n <= b[j].n
                     /\ \A i \in 1..Len(w) : b[j].n <= w[i].n
            <4>1. j \in 1..len /\ b[j] = a[j]
                BY <3>1, <3>6
            <4>2. \A i \in 1..(j - 1) : b[i] = a[i]
                BY <2>2, <3>2, <4>1
            <4>3. heard[y].n <= a[j].n /\ \A i \in 1..(j - 1) : a[i].radio = y => a[i].n <= a[j].n
                BY <1>21, <3>6, <4>1
            <4>4. \A i \in 1..Len(w) : a[j].n <= w[i].n
                BY <3>4, <3>6, <4>1
            <4>5. \A i \in 1..(j - 1) : b[i].radio = y => b[i].n <= b[j].n
                BY <4>1, <4>2, <4>3
            <4> QED BY <4>1, <4>3, <4>4, <4>5
        <3> QED BY <3>4, <3>5, <3>6 DEF Deliver!InOrder
    <2>10. Deliver!InOrder(r)'
        <3>1. ASSUME NEW j \in 1..Len(b), b[j].radio = r
              PROVE  /\ heard[r].n <= b[j].n
                     /\ \A i \in 1..(j - 1) : b[i].radio = r => b[i].n <= b[j].n
                     /\ \A i \in 1..Len(d) : b[j].n <= d[i].n
            <4>1. \A i \in 1..(j - 1) : i \in 1..len /\ b[i] = a[i]
                BY <1>6, <2>2
            <4>2. CASE j \in 1..len
                BY <1>20, <1>21, <2>2, <3>1, <4>1, <4>2
            <4>3. CASE j = len + 1
                BY <1>8, <1>19, <1>20, <2>2, <4>1, <4>3
            <4> QED BY <2>2, <4>2, <4>3
        <3> QED BY <1>3, <1>15, <1>20, <2>1, <3>1 DEF Deliver!InOrder
    <2> QED BY <1>3, <1>12, <1>13, <1>14, <2>7, <2>8, <2>9, <2>10 DEF Deliver!DeliveryInv
<1>23. CASE agg'.queue = a /\ agg'.dropped = agg.dropped + 1
    <2>1. \A y \in Stations : \A n, k : Deliver!Clear(y, n, k) => Deliver!Clear(y, n, k)'
        BY <1>1, <1>3, <1>23 DEF Deliver!Clear
    <2>2. agg'.dropped > 0
        BY <1>6, <1>23
    <2>3. ASSUME NEW y \in Stations, y # r
          PROVE  Deliver!NothingHidden(y)' /\ Deliver!InOrder(y)'
        <3>1. Deliver!NothingHidden(y)'
            BY <1>1, <1>18, <1>23, <2>1, <2>2, <2>3 DEF Deliver!NothingHidden
        <3>2. Deliver!InOrder(y)'
            BY <1>1, <1>3, <1>18, <1>23, <2>3 DEF Deliver!InOrder
        <3> QED BY <3>1, <3>2
    <2>4. Deliver!NothingHidden(r)'
        BY <1>1, <1>15, <1>20, <1>21, <1>23, <2>1, <2>2 DEF Deliver!NothingHidden
    <2>5. Deliver!InOrder(r)'
        BY <1>1, <1>3, <1>15, <1>20, <1>21, <1>23 DEF Deliver!InOrder
    <2> QED BY <1>3, <1>12, <1>13, <1>14, <2>3, <2>4, <2>5 DEF Deliver!DeliveryInv
<1> QED BY <1>9, <1>22, <1>23

\* What a received event makes of those behind it.
LEMMA ClearShifts ==
    ASSUME Deliver!TypeOK, NEW q, q = agg.queue, q # <<>>, NEW e, e = q[1],
           NEW n, NEW r \in Stations, NEW len \in 1..Len(q),
           \A i \in 1..(Len(q) - 1) : agg'.queue[i] = q[i + 1],
           e.radio = r => heard[r].n <= e.n,
           e.radio = r => heard'[r].n = e.n,
           e.radio # r => /\ heard'[r].n = heard[r].n
                          /\ heard[r].flagged \/ e.dropped > 0 => heard'[r].flagged,
           n \in Nat, Deliver!Clear(r, n, len)
    PROVE  Deliver!Clear(r, n, len - 1)'
<1>1. PICK p : p = agg'.queue
    OBVIOUS
<1>2. /\ Len(q) \in Nat /\ len \in Nat
      /\ \A k \in 2..len : k - 1 \in 1..(len - 1) /\ p[k - 1] = q[k]
      /\ \A m \in 1..(len - 1) : p[m] = q[m + 1] /\ m + 1 \in 1..len
    <2>1. Len(q) \in Nat
        BY DeliveryTypes
    <2>2. ASSUME NEW k \in 2..len PROVE k - 1 \in 1..(len - 1) /\ p[k - 1] = q[k]
        <3>1. k - 1 \in 1..(Len(q) - 1) /\ (k - 1) + 1 = k /\ k - 1 \in 1..(len - 1)
            BY <2>1
        <3> QED BY <1>1, <3>1
    <2>3. ASSUME NEW m \in 1..(len - 1) PROVE p[m] = q[m + 1] /\ m + 1 \in 1..len
        <3>1. m \in 1..(Len(q) - 1) /\ m + 1 \in 1..len
            BY <2>1
        <3> QED BY <1>1, <3>1
    <2> QED BY <2>1, <2>2, <2>3
<1>3. e.n \in Nat /\ heard[r].n \in Nat
    BY DeliveryTypes, <1>2
<1>4. CASE \E k \in 1..len : q[k].dropped > 0 /\ \A m \in k..len : q[m].radio # r
    <2>1. PICK k \in 1..len : q[k].dropped > 0 /\ \A m \in k..len : q[m].radio # r
        BY <1>4
    <2>2. CASE k = 1
        <3>1. e.radio # r /\ e.dropped > 0
            BY <1>2, <2>1, <2>2
        <3>2. \A m \in 1..(len - 1) : p[m].radio # r
            BY <1>2, <2>1, <2>2
        <3> QED BY <1>1, <3>1, <3>2 DEF Deliver!Clear
    <2>3. CASE k # 1
        <3>1. k \in 2..len
            BY <1>2, <2>3
        <3>2. k - 1 \in 1..(len - 1) /\ p[k - 1].dropped > 0
            BY <1>2, <2>1, <3>1
        <3>3. ASSUME NEW m \in (k - 1)..(len - 1) PROVE p[m].radio # r
            <4>1. m \in 1..(len - 1) /\ m + 1 \in k..len
                BY <1>2, <3>1
            <4> QED BY <1>2, <2>1, <4>1
        <3> QED BY <1>1, <3>2, <3>3 DEF Deliver!Clear
    <2> QED BY <2>2, <2>3
<1>5. CASE \E k \in 1..len : q[k].radio = r /\ n <= q[k].n + 1
    <2>1. PICK k \in 1..len : q[k].radio = r /\ n <= q[k].n + 1
        BY <1>5
    <2>2. CASE k = 1
        BY <2>1, <2>2 DEF Deliver!Clear
    <2>3. CASE k # 1
        <3>1. k \in 2..len
            BY <1>2, <2>3
        <3>2. k - 1 \in 1..(len - 1) /\ p[k - 1].radio = r /\ n <= p[k - 1].n + 1
            BY <1>2, <2>1, <3>1
        <3> QED BY <1>1, <3>2 DEF Deliver!Clear
    <2> QED BY <2>2, <2>3
<1>6. CASE heard[r].flagged /\ \A m \in 1..len : q[m].radio # r
    <2>1. e.radio # r
        <3>1. 1 \in 1..len
            BY <1>2
        <3> QED BY <1>6, <3>1
    <2>2. ASSUME NEW m \in 1..(len - 1) PROVE p[m].radio # r
        <3>1. p[m] = q[m + 1] /\ m + 1 \in 1..len
            BY <1>2
        <3> QED BY <1>6, <3>1
    <2> QED BY <1>1, <1>6, <2>1, <2>2 DEF Deliver!Clear
<1>7. CASE n <= heard[r].n + 1
    <2>1. n <= heard'[r].n + 1
        <3>1. CASE e.radio = r
            BY <1>3, <1>7, <3>1
        <3>2. CASE e.radio # r
            BY <1>7, <3>2
        <3> QED BY <3>1, <3>2
    <2> QED BY <2>1 DEF Deliver!Clear
<1> QED BY <1>4, <1>5, <1>6, <1>7 DEF Deliver!Clear

\* The hub takes an event: it misses none before it unannounced.
LEMMA ReceivesDelivery ==
    ASSUME Deliver!DeliveryInv, Deliver!Receives
    PROVE  Deliver!DeliveryInv'
<1>1. PICK q, e : q = agg.queue /\ e = Head(q)
    OBVIOUS
<1>2. PICK told : told = [r \in Stations |-> heard[r].flagged \/ e.dropped > 0]
    OBVIOUS
<1>3. /\ UNCHANGED <<published, sub, forwarding>> /\ q # <<>>
      /\ agg' = [agg EXCEPT !.queue = Tail(q)]
      /\ heard' = [r \in Stations |-> IF r = e.radio THEN [n |-> e.n, flagged |-> FALSE]
                                      ELSE [heard[r] EXCEPT !.flagged = told[r]]]
      /\ silent' = (silent \/ (e.n > heard[e.radio].n + 1 /\ ~told[e.radio]))
    BY <1>1, <1>2 DEF Deliver!Receives, Deliver!rigSide
<1>4. /\ q \in Seq(Deliver!AggEvent) /\ Len(q) \in Nat /\ Len(q) >= 1 /\ e = q[1]
      /\ Tail(q) \in Seq(Deliver!AggEvent) /\ Len(Tail(q)) = Len(q) - 1
      /\ \A i \in 1..(Len(q) - 1) : Tail(q)[i] = q[i + 1]
      /\ e.radio \in Stations /\ e.n \in Nat /\ e.dropped \in Nat
    <2>1. q \in Seq(Deliver!AggEvent) /\ Len(q) \in Nat
        BY <1>1, DeliveryTypes DEF Deliver!DeliveryInv
    <2>2. /\ Len(q) >= 1 /\ Head(q) = q[1]
          /\ Tail(q) \in Seq(Deliver!AggEvent) /\ Len(Tail(q)) = Len(q) - 1
          /\ \A i \in 1..(Len(q) - 1) : Tail(q)[i] = q[i + 1]
        BY <1>3, <2>1
    <2>3. e \in Deliver!AggEvent
        BY <1>1, <2>1, <2>2, ElementOfSeq
    <2> QED BY <1>1, <2>1, <2>2, <2>3 DEF Deliver!AggEvent
<1>5. /\ agg \in [queue : Seq(Deliver!AggEvent), dropped : Nat, closed : BOOLEAN]
      /\ heard \in [Stations -> [n : Nat, flagged : BOOLEAN]]
    BY DEF Deliver!DeliveryInv, Deliver!TypeOK
<1>6. agg'.queue = Tail(q) /\ agg'.dropped = agg.dropped /\ agg'.closed = agg.closed
    BY <1>3, <1>5
<1>7. ASSUME NEW r \in Stations
      PROVE  /\ told[r] \in BOOLEAN
             /\ told[r] <=> heard[r].flagged \/ e.dropped > 0
             /\ r = e.radio => heard'[r].n = e.n
             /\ r # e.radio => heard'[r].n = heard[r].n /\ heard'[r].flagged = told[r]
             /\ heard'[r] \in [n : Nat, flagged : BOOLEAN]
    <2>1. told[r] = (heard[r].flagged \/ e.dropped > 0)
        BY <1>2
    <2>2. told[r] \in BOOLEAN
        BY <2>1
    <2>3. CASE r = e.radio
        BY <1>3, <1>4, <2>1, <2>2, <2>3
    <2>4. CASE r # e.radio
        <3>1. heard'[r] = [heard[r] EXCEPT !.flagged = told[r]]
            BY <1>3, <2>4
        <3>2. heard[r] \in [n : Nat, flagged : BOOLEAN]
            BY <1>5
        <3> QED BY <2>1, <2>2, <2>4, <3>1, <3>2
    <2> QED BY <2>3, <2>4
<1>8. Deliver!TypeOK'
    <2>1. heard' \in [Stations -> [n : Nat, flagged : BOOLEAN]]
        <3>1. heard' = [r \in Stations |-> heard'[r]]
            BY <1>3
        <3> QED BY <1>7, <3>1
    <2>2. agg' \in [queue : Seq(Deliver!AggEvent), dropped : Nat, closed : BOOLEAN]
        BY <1>3, <1>4, <1>5
    <2>3. silent' \in BOOLEAN
        BY <1>3
    <2> QED BY <1>3, <2>1, <2>2, <2>3 DEF Deliver!DeliveryInv, Deliver!TypeOK
<1>9. \A r \in Stations : Deliver!NothingHidden(r) /\ Deliver!InOrder(r)
    BY DEF Deliver!DeliveryInv
<1>10. Deliver!LossIsAnnounced'
    <2>1. ~silent /\ \A r \in Stations : ~sub[r].twice
        BY DEF Deliver!DeliveryInv, Deliver!LossIsAnnounced
    <2>2. PICK r \in Stations : r = e.radio
        BY <1>4
    <2>3. 1 \in 1..Len(q) /\ 1 - 1 = 0 /\ ~(\E k \in 1..0 : TRUE)
        BY <1>4
    <2>4. e.dropped > 0 \/ Deliver!Clear(r, e.n, 0)
        BY <1>1, <1>4, <1>9, <2>2, <2>3 DEF Deliver!NothingHidden
    <2>5. e.dropped > 0 \/ heard[r].flagged \/ e.n <= heard[r].n + 1
        BY <2>3, <2>4 DEF Deliver!Clear
    <2>6. ~(e.n > heard[r].n + 1 /\ ~told[r])
        <3>1. heard[r].n \in Nat
            BY <1>5
        <3>2. e.n <= heard[r].n + 1 => ~(e.n > heard[r].n + 1)
            BY <1>4, <3>1
        <3> QED BY <1>7, <2>5, <3>2
    <2>7. ~silent'
        BY <1>3, <2>1, <2>2, <2>6
    <2> QED BY <1>3, <2>1, <2>7 DEF Deliver!LossIsAnnounced
<1>11. ASSUME NEW r \in Stations
       PROVE  /\ e.radio = r => heard[r].n <= e.n
              /\ \A j \in 1..Len(q) : q[j].radio = r =>
                    /\ q[j].n \in Nat /\ heard'[r].n <= q[j].n
                    /\ \A i \in 1..(j - 1) : q[i].radio = r => q[i].n <= q[j].n
                    /\ \A i \in 1..Len(Deliver!Coming(r)) : q[j].n <= Deliver!Coming(r)[i].n
              /\ \A i \in 1..Len(Deliver!Coming(r)) :
                    Deliver!Coming(r)[i].n \in Nat /\ heard'[r].n <= Deliver!Coming(r)[i].n
    <2>1. 1 \in 1..Len(q)
        BY <1>4
    <2>2. \A j \in 1..Len(q) : q[j].n \in Nat
        BY <1>1, DeliveryTypes DEF Deliver!DeliveryInv
    <2>3. \A i \in 1..Len(Deliver!Coming(r)) : Deliver!Coming(r)[i].n \in Nat
        BY ComingIs DEF Deliver!DeliveryInv
    <2>4. /\ \A j \in 1..Len(q) : q[j].radio = r =>
                /\ heard[r].n <= q[j].n
                /\ \A i \in 1..(j - 1) : q[i].radio = r => q[i].n <= q[j].n
                /\ \A i \in 1..Len(Deliver!Coming(r)) : q[j].n <= Deliver!Coming(r)[i].n
          /\ \A j \in 1..Len(Deliver!Coming(r)) : heard[r].n <= Deliver!Coming(r)[j].n
        BY <1>1, <1>9 DEF Deliver!InOrder
    <2>5. CASE e.radio = r
        <3>1. heard'[r].n = e.n /\ heard[r].n <= e.n
            BY <1>4, <1>7, <2>1, <2>4, <2>5
        <3>2. ASSUME NEW j \in 1..Len(q), q[j].radio = r PROVE e.n <= q[j].n
            <4>1. j = 1 \/ 1 \in 1..(j - 1)
                OBVIOUS
            <4> QED BY <1>4, <2>4, <2>5, <3>2, <4>1
        <3>3. \A i \in 1..Len(Deliver!Coming(r)) : e.n <= Deliver!Coming(r)[i].n
            BY <1>4, <2>1, <2>4, <2>5
        <3> QED BY <2>2, <2>3, <2>4, <3>1, <3>2, <3>3
    <2>6. CASE e.radio # r
        BY <1>7, <2>2, <2>3, <2>4, <2>6
    <2> QED BY <2>5, <2>6
<1>12. ASSUME NEW r \in Stations, NEW n \in Nat, NEW len \in 1..Len(q), Deliver!Clear(r, n, len)
       PROVE  Deliver!Clear(r, n, len - 1)'
    <2>1. \A i \in 1..(Len(q) - 1) : agg'.queue[i] = q[i + 1]
        BY <1>4, <1>6
    <2>2. heard[r].flagged \/ e.dropped > 0 => told[r]
        BY <1>7
    <2>3. e.radio # r => heard'[r].flagged = told[r] /\ heard'[r].n = heard[r].n
        BY <1>7
    <2>4. e.radio # r => /\ heard'[r].n = heard[r].n
                         /\ heard[r].flagged \/ e.dropped > 0 => heard'[r].flagged
        BY <2>2, <2>3
    <2>5. e.radio = r => heard[r].n <= e.n /\ heard'[r].n = e.n
        BY <1>7, <1>11
    <2>6. Deliver!TypeOK /\ q = agg.queue /\ q # <<>> /\ e = q[1]
        BY <1>1, <1>3, <1>4 DEF Deliver!DeliveryInv
    <2> QED BY <1>12, <2>1, <2>4, <2>5, <2>6, ClearShifts
<1>13. \A r \in Stations : Deliver!Coming(r)' = Deliver!Coming(r)
    BY <1>3 DEF Deliver!Coming
<1>14. PICK p : p = agg'.queue
    OBVIOUS
<1>15. /\ Len(p) = Len(q) - 1
       /\ \A j \in 1..Len(p) : p[j] = q[j + 1] /\ j + 1 \in 1..Len(q) /\ (j + 1) - 1 = j
    BY <1>4, <1>6, <1>14
<1>16. ASSUME NEW r \in Stations PROVE Deliver!NothingHidden(r)'
    <2>1. PICK c : c = Deliver!Coming(r)
        OBVIOUS
    <2>2. /\ \A j \in 1..Len(q) : q[j].radio = r =>
                q[j].dropped > 0 \/ Deliver!Clear(r, q[j].n, j - 1)
          /\ c[1].dropped > 0 \/ agg.dropped > 0 \/ Deliver!Clear(r, c[1].n, Len(q))
          /\ \A j \in 2..Len(c) : c[j].dropped > 0 \/ c[j].n <= c[j - 1].n + 1
        BY <1>1, <1>9, <2>1 DEF Deliver!NothingHidden
    <2>3. ASSUME NEW j \in 1..Len(p), p[j].radio = r
          PROVE  p[j].dropped > 0 \/ Deliver!Clear(r, p[j].n, j - 1)'
        <3>1. /\ p[j] = q[j + 1] /\ j + 1 \in 1..Len(q) /\ (j + 1) - 1 = j /\ j \in 1..Len(q)
              /\ q[j + 1].n \in Nat
            BY <1>4, <1>11, <1>15, <2>3
        <3>2. q[j + 1].dropped > 0 \/ Deliver!Clear(r, q[j + 1].n, j)
            BY <2>2, <2>3, <3>1
        <3> QED BY <1>12, <3>1, <3>2
    <2>4. Deliver!Clear(r, c[1].n, Len(q)) => Deliver!Clear(r, c[1].n, Len(p))'
        <3>1. Len(q) \in 1..Len(q) /\ c[1].n \in Nat
            <4>1. Len(q) \in 1..Len(q)
                BY <1>4
            <4>2. Len(sub[r].queue) \in Nat
                BY DeliveryTypes DEF Deliver!DeliveryInv
            <4>3. 1 \in 1..Len(Deliver!Coming(r))
                <5>1. Len(Deliver!Coming(r)) = Len(sub[r].queue) + 1
                    BY ComingIs DEF Deliver!DeliveryInv
                <5> QED BY <4>2, <5>1
            <4>4. Deliver!Coming(r)[1].n \in Nat
                BY <4>3, ComingIs DEF Deliver!DeliveryInv
            <4> QED BY <2>1, <4>1, <4>4
        <3> QED BY <1>12, <1>15, <3>1
    <2> QED BY <1>6, <1>13, <1>14, <2>1, <2>2, <2>3, <2>4 DEF Deliver!NothingHidden
<1>17. ASSUME NEW r \in Stations PROVE Deliver!InOrder(r)'
    <2>1. ASSUME NEW j \in 1..Len(p), p[j].radio = r
          PROVE  /\ heard'[r].n <= p[j].n
                 /\ \A i \in 1..(j - 1) : p[i].radio = r => p[i].n <= p[j].n
                 /\ \A i \in 1..Len(Deliver!Coming(r)) : p[j].n <= Deliver!Coming(r)[i].n
        <3>1. \A i \in 1..(j - 1) : i \in 1..Len(p) /\ i + 1 \in 1..((j + 1) - 1)
            BY <1>4, <1>15
        <3>2. p[j] = q[j + 1] /\ j + 1 \in 1..Len(q) /\ q[j + 1].radio = r
            BY <1>15, <2>1
        <3>3. /\ heard'[r].n <= q[j + 1].n
              /\ \A i \in 1..((j + 1) - 1) : q[i].radio = r => q[i].n <= q[j + 1].n
              /\ \A i \in 1..Len(Deliver!Coming(r)) : q[j + 1].n <= Deliver!Coming(r)[i].n
            BY <1>11, <3>2
        <3>4. ASSUME NEW i \in 1..(j - 1), p[i].radio = r PROVE p[i].n <= p[j].n
            <4>1. i \in 1..Len(p) /\ i + 1 \in 1..((j + 1) - 1)
                BY <3>1
            <4>2. p[i] = q[i + 1]
                BY <1>15, <4>1
            <4> QED BY <3>2, <3>3, <3>4, <4>1, <4>2
        <3> QED BY <3>2, <3>3, <3>4
    <2>2. \A j \in 1..Len(Deliver!Coming(r)) : \A i \in 1..(j - 1) :
              Deliver!Coming(r)[i].n <= Deliver!Coming(r)[j].n
        BY <1>9 DEF Deliver!InOrder
    <2> QED BY <1>11, <1>13, <1>14, <2>1, <2>2 DEF Deliver!InOrder
<1>18. agg'.closed => forwarding' = {}
    BY <1>3, <1>6 DEF Deliver!DeliveryInv
<1> QED BY <1>8, <1>10, <1>16, <1>17, <1>18 DEF Deliver!DeliveryInv

\* The steps that neither queue an event nor take one.
LEMMA QuietDelivery ==
    ASSUME Deliver!DeliveryInv, UNCHANGED <<published, sub, heard, silent>>,
           agg' = agg \/ agg' = [agg EXCEPT !.closed = TRUE],
           (agg'.closed => agg.closed \/ forwarding = {}),
           forwarding' \subseteq forwarding
    PROVE  Deliver!DeliveryInv'
<1>1. agg \in [queue : Seq(Deliver!AggEvent), dropped : Nat, closed : BOOLEAN]
    BY DEF Deliver!DeliveryInv, Deliver!TypeOK
<1>2. /\ agg' \in [queue : Seq(Deliver!AggEvent), dropped : Nat, closed : BOOLEAN]
      /\ agg'.queue = agg.queue /\ agg'.dropped = agg.dropped
    BY <1>1
<1>3. Deliver!TypeOK'
    BY <1>2 DEF Deliver!DeliveryInv, Deliver!TypeOK
<1>4. Deliver!LossIsAnnounced'
    <2>1. ~silent'
        BY DEF Deliver!DeliveryInv, Deliver!LossIsAnnounced
    <2> QED BY <2>1 DEF Deliver!DeliveryInv, Deliver!LossIsAnnounced
<1>5. \A r \in Stations : Deliver!NothingHidden(r)' /\ Deliver!InOrder(r)'
    BY <1>2, SameEvents
<1>6. agg'.closed => forwarding' = {}
    BY DEF Deliver!DeliveryInv
<1> QED BY <1>3, <1>4, <1>5, <1>6 DEF Deliver!DeliveryInv

\* Every step of the fan-out keeps DeliveryInv.
LEMMA DeliveryStep ==
    ASSUME Deliver!DeliveryInv, [Deliver!Next]_(Deliver!vars)
    PROVE  Deliver!DeliveryInv'
<1> USE DEF Deliver!rigSide, Deliver!aggSide, Deliver!hubSide, Deliver!heardSide,
            Deliver!hubRest
<1>1. CASE Deliver!Stops
    <2>1. CASE Deliver!StopBegins
        BY <2>1, QuietDelivery DEF Deliver!StopBegins
    <2>2. CASE Deliver!Unsubscribe
        BY <2>2, ShutdownDelivery
    <2>3. CASE Deliver!StopEnds
        BY <2>3, QuietDelivery DEF Deliver!StopEnds
    <2> QED BY <1>1, <2>1, <2>2, <2>3 DEF Deliver!Stops
<1>2. CASE Deliver!HubRuns
    <2>1. CASE Deliver!Receives
        BY <2>1, ReceivesDelivery
    <2>2. CASE Deliver!Leaves \/ Deliver!LoopEnds
        BY <2>2, QuietDelivery DEF Deliver!Leaves, Deliver!LoopEnds
    <2> QED BY <1>2, <2>1, <2>2 DEF Deliver!HubRuns
<1>3. CASE Deliver!Closings
    BY <1>3, ShutdownDelivery DEF Deliver!Closings
<1>4. ASSUME NEW r \in Stations, Deliver!Publish(r) \/ Deliver!Forwards(r)
      PROVE  Deliver!DeliveryInv'
    <2>1. CASE Deliver!Publish(r)
        BY <2>1, PublishDelivery
    <2>2. CASE Deliver!Forward(r)
        BY <2>2, ForwardDelivery
    <2>3. CASE Deliver!ForwarderEnds(r)
        BY <2>3, QuietDelivery DEF Deliver!ForwarderEnds
    <2> QED BY <1>4, <2>1, <2>2, <2>3 DEF Deliver!Forwards
<1>5. CASE Deliver!ManagerClose \/ Deliver!HubClose \/ Deliver!HubStops
    BY <1>5, QuietDelivery DEF Deliver!ManagerClose, Deliver!HubClose, Deliver!HubStops
<1>6. ASSUME NEW c \in Viewers,
             Deliver!Arrives(c) \/ Deliver!HangsUp(c) \/ Deliver!Serves(c)
      PROVE  Deliver!DeliveryInv'
    BY <1>6, QuietDelivery
    DEF Deliver!Arrives, Deliver!HangsUp, Deliver!Serves, Deliver!Adds, Deliver!Removed
<1>7. CASE UNCHANGED Deliver!vars
    BY <1>7, QuietDelivery DEF Deliver!vars
<1> QED BY <1>1, <1>2, <1>3, <1>4, <1>5, <1>6, <1>7 DEF Deliver!Next

\* Whatever is lost between a session and the hub, the hub has been told of a
\* drop before it takes the next event of that radio, for any number of radios
\* and any buffers (publish, aggregate.send, Hub.run); and no shutdown closes a
\* channel twice (subscribers.add, closeAll).
THEOREM LossIsTold == LinkSpec => []LossIsAnnounced
<1>1. LinkInit => Deliver!DeliveryInv
    BY InitDeliveryInv DEF LinkInit
<1>2. Deliver!DeliveryInv /\ [LinkNext]_partVars => Deliver!DeliveryInv'
    <2> SUFFICES ASSUME Deliver!DeliveryInv, [LinkNext]_partVars
                 PROVE  Deliver!DeliveryInv'
        OBVIOUS
    <2>1. UNCHANGED deliveryVars => UNCHANGED Deliver!vars
        BY DEF deliveryVars, Deliver!vars, Deliver!rigSide, Deliver!aggSide,
               Deliver!hubSide, Deliver!heardSide
    <2>2. [Deliver!Next]_(Deliver!vars)
        BY <2>1 DEF LinkNext, OnDelivery, OnConn, OnSupervisor, partVars
    <2> QED BY <2>2, DeliveryStep
<1>3. Deliver!DeliveryInv => LossIsAnnounced
    BY DEF Deliver!DeliveryInv, LossIsAnnounced
<1> QED BY <1>1, <1>2, <1>3, PTL DEF LinkSpec

-----------------------------------------------------------------------------
(* The parts within the whole                                               *)

\* A behaviour of Link is one of the connection and one of the supervisor: what
\* is proved of either above holds of the specification that joins them
\* (Session.runConnection).
THEOREM PartsOfLink == LinkSpec => Spec /\ SupervisorSpec
<1>1. LinkInit => Init /\ SupervisorInit
    BY DEF LinkInit
<1>2. [LinkNext]_partVars => [Next]_vars /\ [SupervisorNext]_supervisorVars
    BY DEF LinkNext, OnConn, OnSupervisor, OnDelivery, partVars
<1> QED BY <1>1, <1>2, PTL DEF LinkSpec, Spec, SupervisorSpec

\* Every safety property of the two, of Link (conn.Do, conn.deliver, conn.close,
\* Session.supervise, Session.pollTier, Session.PowerOn).
THEOREM LinkIsSafe ==
    LinkSpec => /\ [](ConnInv /\ ReplyIsInCache) /\ NoAnswerLost /\ NothingAppliedAfterClose
                /\ [](UsableIsInitialised /\ FlagsAgree /\ WakesAreAskedFor)
                /\ RefusalsKeepTheLink
BY PartsOfLink, ConnInvariant, ReplyIsApplied, AwaitedIsDelivered, ClosedIsQuiet,
   OnlyInitialisedIsUsable, CacheAgreesWithFlags, OneWakePerRequest, RefusingRadioKeepsLink,
   PTL
=============================================================================
