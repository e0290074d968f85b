----------------------------- MODULE KeyerProofs -----------------------------
(***************************************************************************)
(* Proofs about the serial keyer, for any bounds: SerialInv is inductive,  *)
(* so a control line is up only for the transmission under way.            *)
(***************************************************************************)
EXTENDS MCKeyer, SequenceTheorems, TLAPS

USE DEF Serial!Places, Serial!Up, Serial!Current, Serial!ChannelClosed

\* A serial sender just built (NewSerialKey).
LEMMA InitInv == Serial!Init => Serial!SerialInv
<1> SUFFICES ASSUME Serial!Init PROVE Serial!SerialInv
  OBVIOUS
<1>0. queue \in Seq(Nat) /\ lines \subseteq {"key", "ptt"} /\ stuck \subseteq {"key", "ptt"}
  BY DEF Serial!Init
<1>1. keyer \in [at : Serial!Places, gen : Nat, chan : Nat, sym : Nat, left : Int]
  BY DEF Serial!Init
<1>2. Serial!TypeOK
  BY <1>1, <1>0 DEF Serial!Init, Serial!TypeOK
<1>3. Serial!QueueIsFresh /\ Serial!ChannelTellsGen /\ Serial!PTTIsHeld
      /\ Serial!SymbolIsFresh /\ Serial!LinesAreOwned
  BY DEF Serial!Init, Serial!QueueIsFresh, Serial!ChannelTellsGen, Serial!PTTIsHeld,
         Serial!SymbolIsFresh, Serial!LinesAreOwned
<1> QED
  BY <1>2, <1>3 DEF Serial!SerialInv

-----------------------------------------------------------------------------
(* What the helpers of the actions do                                       *)

\* A keyer that moves keeps the rest of what it carries.
LEMMA MovedKeyer ==
  ASSUME Serial!TypeOK, NEW p \in Serial!Places, Serial!Goes(p)
  PROVE  /\ keyer' \in [at : Serial!Places, gen : Nat, chan : Nat, sym : Nat, left : Int]
         /\ keyer'.at = p /\ keyer'.gen = keyer.gen /\ keyer'.chan = keyer.chan
         /\ keyer'.sym = keyer.sym
<1> QED
  BY DEF Serial!TypeOK, Serial!Goes

\* Dropping lines raises none, and leaves up only what would not drop.
LEMMA Dropped ==
  ASSUME Serial!TypeOK, NEW which \in SUBSET {"key", "ptt"},
         NEW fail \in SUBSET (which \cap lines), Serial!DropAllBut(fail, which)
  PROVE  /\ lines' \subseteq {"key", "ptt"} /\ stuck' \subseteq {"key", "ptt"}
         /\ \A l \in which : l \notin lines' \ stuck'
         /\ \A l \in {"key", "ptt"} \ which :
               (l \in lines' <=> l \in lines) /\ (l \in stuck' <=> l \in stuck)
<1> QED
  BY DEF Serial!TypeOK, Serial!DropAllBut

\* An abort makes the keyer's generation and channel old, and leaves nothing
\* up but what would not drop.
LEMMA AbortedInv ==
  ASSUME Serial!SerialInv, NEW fail \in SUBSET (Serial!Both \cap lines),
         Serial!DropAllBut(fail, Serial!Both),
         gen' = gen + 1, cut' = queued, queue' = <<>>,
         UNCHANGED <<queued, hasPTT>>,
         closed' \in BOOLEAN, closed => closed', busy' \in BOOLEAN, busy' => closed',
         chans' \in Nat, ~closed' => chans' = chans + 1,
         keyer' \in [at : Serial!Places, gen : Nat, chan : Nat, sym : Nat, left : Int],
         keyer'.gen = keyer.gen, keyer'.chan = keyer.chan,
         keyer'.at = keyer.at \/ keyer'.at = "leave"
  PROVE  Serial!SerialInv'
<1> USE DEF Serial!SerialInv
<1>1. Serial!Both \in SUBSET {"key", "ptt"} /\ "key" \in Serial!Both /\ (hasPTT => "ptt" \in Serial!Both)
  BY DEF Serial!Both
<1>2. /\ lines' \subseteq {"key", "ptt"} /\ stuck' \subseteq {"key", "ptt"}
      /\ \A l \in Serial!Both : l \notin lines' \ stuck'
      /\ \A l \in {"key", "ptt"} \ Serial!Both :
            (l \in lines' <=> l \in lines) /\ (l \in stuck' <=> l \in stuck)
  BY <1>1, Dropped
<1>3. Serial!TypeOK'
  BY <1>2 DEF Serial!TypeOK
<1>4. Serial!QueueIsFresh'
  BY <1>3 DEF Serial!QueueIsFresh, Serial!TypeOK
<1>5. Serial!ChannelTellsGen'
  BY DEF Serial!ChannelTellsGen, Serial!TypeOK
<1>6. ~Serial!Current'
  BY DEF Serial!ChannelTellsGen, Serial!TypeOK
<1>7. ~Serial!Up("key")' /\ ~Serial!Up("ptt")'
  BY <1>1, <1>2 DEF Serial!PTTIsHeld
<1>8. Serial!PTTIsHeld' /\ Serial!SymbolIsFresh' /\ Serial!LinesAreOwned'
  BY <1>6, <1>7 DEF Serial!PTTIsHeld, Serial!SymbolIsFresh, Serial!LinesAreOwned
<1> QED
  BY <1>3, <1>4, <1>5, <1>8

-----------------------------------------------------------------------------
(* The callers                                                              *)

\* Text accepted while it plays, or after an Abort (serialSender.Enqueue).
LEMMA EnqueueInv ==
  ASSUME Serial!SerialInv, NEW replace \in BOOLEAN, Serial!Enqueue(replace)
  PROVE  Serial!SerialInv'
<1> USE DEF Serial!SerialInv, Serial!Enqueue, Serial!genVars, Serial!lineVars
<1>1. queue' \in Seq(Nat) /\ queued' \in Nat
  BY DEF Serial!TypeOK
<1>2. Serial!TypeOK'
  BY <1>1 DEF Serial!TypeOK
<1>3. \A i \in 1..Len(queue') : cut < queue'[i] /\ queue'[i] <= queued'
  BY DEF Serial!TypeOK, Serial!QueueIsFresh
<1>4. Serial!QueueIsFresh'
  BY <1>3 DEF Serial!TypeOK, Serial!QueueIsFresh
<1>5. Serial!ChannelTellsGen' /\ Serial!PTTIsHeld' /\ Serial!SymbolIsFresh'
      /\ Serial!LinesAreOwned'
  BY DEF Serial!ChannelTellsGen, Serial!PTTIsHeld, Serial!SymbolIsFresh,
         Serial!LinesAreOwned
<1> QED
  BY <1>2, <1>4, <1>5

\* serialSender.Abort, which drops the lines itself.
LEMMA AbortInv == Serial!SerialInv /\ Serial!Abort => Serial!SerialInv'
<1> SUFFICES ASSUME Serial!SerialInv, Serial!Abort PROVE Serial!SerialInv'
  OBVIOUS
<1> USE DEF Serial!Abort, Serial!AbortLocked
<1>1. PICK fail \in SUBSET (Serial!Both \cap lines) : Serial!DropAllBut(fail, Serial!Both)
  BY DEF Serial!Drop
<1>2. /\ gen \in Nat /\ chans \in Nat /\ closed \in BOOLEAN
      /\ keyer \in [at : Serial!Places, gen : Nat, chan : Nat, sym : Nat, left : Int]
  BY DEF Serial!SerialInv, Serial!TypeOK
<1>3. chans' \in Nat /\ (~closed' => chans' = chans + 1)
  BY <1>2
<1> QED
  BY <1>1, <1>2, <1>3, AbortedInv

\* serialSender.Close.
LEMMA CloseInv == Serial!SerialInv /\ Serial!Close => Serial!SerialInv'
<1> SUFFICES ASSUME Serial!SerialInv, Serial!Close PROVE Serial!SerialInv'
  OBVIOUS
<1> USE DEF Serial!Close
<1>1. PICK fail \in SUBSET (Serial!Both \cap lines) : Serial!DropAllBut(fail, Serial!Both)
  BY DEF Serial!Drop
<1>2. /\ gen \in Nat /\ chans \in Nat /\ busy \in BOOLEAN
      /\ keyer \in [at : Serial!Places, gen : Nat, chan : Nat, sym : Nat, left : Int]
  BY DEF Serial!SerialInv, Serial!TypeOK
<1> QED
  BY <1>1, <1>2, AbortedInv

-----------------------------------------------------------------------------
(* The keyer                                                                *)

\* A step that only moves the keyer, between places where the lines may be
\* the same.
LEMMA TopInv == Serial!SerialInv /\ Serial!Top => Serial!SerialInv'
<1> SUFFICES ASSUME Serial!SerialInv, Serial!Top PROVE Serial!SerialInv'
  OBVIOUS
<1> USE DEF Serial!SerialInv, Serial!Top, Serial!textVars, Serial!genVars, Serial!lineVars
<1>1. keyer' \in [at : Serial!Places, gen : Nat, chan : Nat, sym : Nat, left : Int]
  BY DEF Serial!TypeOK
<1>2. /\ keyer'.at \in {"done", "parked", "lead", "symbol"}
      /\ keyer'.at = "lead" => hasPTT
      /\ keyer'.at = "done" <=> closed
      /\ keyer'.at = "symbol" => ~hasPTT
      /\ keyer'.gen = gen /\ keyer'.chan = chans
  OBVIOUS
<1>3. Serial!TypeOK'
  BY <1>1 DEF Serial!TypeOK
<1>4. Serial!QueueIsFresh' /\ Serial!ChannelTellsGen'
  BY <1>2 DEF Serial!QueueIsFresh, Serial!ChannelTellsGen, Serial!TypeOK
<1>5. ~Serial!Up("ptt") /\ ~Serial!Up("key") /\ (busy => closed)
  BY DEF Serial!LinesAreOwned
<1>6. Serial!PTTIsHeld' /\ Serial!SymbolIsFresh' /\ Serial!LinesAreOwned'
  BY <1>2, <1>5 DEF Serial!PTTIsHeld, Serial!SymbolIsFresh, Serial!LinesAreOwned
<1> QED
  BY <1>3, <1>4, <1>6

\* The goroutine waits for a signal (serialSender.run).
LEMMA WaitingInv ==
  ASSUME Serial!SerialInv,
         Serial!Unparks \/ Serial!GapEnds \/ Serial!MarkEnds
         \/ Serial!TailLooks \/ Serial!TailWakes \/ Serial!TailEnds
  PROVE  Serial!SerialInv'
<1> USE DEF Serial!SerialInv
<1>1. UNCHANGED <<Serial!textVars, hasPTT, Serial!genVars, busy, Serial!lineVars>>
  BY DEF Serial!Unparks, Serial!GapEnds, Serial!MarkEnds, Serial!TailLooks,
         Serial!TailWakes, Serial!TailEnds
<1>2. PICK p \in Serial!Places :
        /\ Serial!Goes(p)
        /\ \/ keyer.at = "parked" /\ p = "top"
           \/ keyer.at = "gap" /\ p = "leave" /\ Serial!ChannelClosed
           \/ keyer.at = "gap" /\ p = "raise"
           \/ keyer.at = "mark" /\ p = "cutoff" /\ Serial!ChannelClosed
           \/ keyer.at = "mark" /\ p = "drop"
           \/ keyer.at \in {"tail", "linger"} /\ p \in {"tail", "unkey", "symbol", "linger"}
  BY DEF Serial!Unparks, Serial!GapEnds, Serial!MarkEnds, Serial!TailLooks,
         Serial!TailWakes, Serial!TailEnds
<1>3. /\ keyer' \in [at : Serial!Places, gen : Nat, chan : Nat, sym : Nat, left : Int]
      /\ keyer'.at = p /\ keyer'.gen = keyer.gen /\ keyer'.chan = keyer.chan
      /\ keyer'.sym = keyer.sym
  BY <1>2, MovedKeyer
<1>4. Serial!TypeOK'
  BY <1>1, <1>3 DEF Serial!TypeOK, Serial!textVars, Serial!genVars, Serial!lineVars
<1>5. Serial!QueueIsFresh'
      /\ Serial!ChannelTellsGen' /\ (Serial!Current' <=> Serial!Current)
  BY <1>1, <1>3 DEF Serial!QueueIsFresh, Serial!ChannelTellsGen, Serial!textVars,
                    Serial!genVars
<1>6. Serial!ChannelClosed => ~Serial!Current
  BY DEF Serial!ChannelTellsGen, Serial!TypeOK
<1>7. Serial!PTTIsHeld' /\ Serial!SymbolIsFresh'
  BY <1>1, <1>2, <1>3, <1>5, <1>6 DEF Serial!PTTIsHeld, Serial!SymbolIsFresh,
                                      Serial!LinesAreOwned, Serial!textVars, Serial!genVars, Serial!lineVars
<1>8. Serial!LinesAreOwned'
  BY <1>1, <1>2, <1>3, <1>5, <1>6 DEF Serial!SymbolIsFresh, Serial!LinesAreOwned,
                                      Serial!textVars, Serial!genVars, Serial!lineVars
<1> QED
  BY <1>4, <1>5, <1>7, <1>8

\* A line raised for the current transmission, or refused, or a failed write
\* that aborts.
LEMMA AssertInv ==
  ASSUME Serial!SerialInv, Serial!RaisesPTT \/ Serial!RaisesKey
  PROVE  Serial!SerialInv'
<1> USE DEF Serial!SerialInv, Serial!AssertLine, Serial!MayRaise
<1>1. PICK line \in {"key", "ptt"}, next \in {"symbol", "mark"} :
        /\ Serial!AssertLine(line, next)
        /\ UNCHANGED <<closed, queued, hasPTT>>
        /\ \/ line = "ptt" /\ next = "symbol" /\ keyer.at = "lead"
           \/ line = "key" /\ next = "mark" /\ keyer.at = "raise"
  BY DEF Serial!RaisesPTT, Serial!RaisesKey
<1> DEFINE Type == [at : Serial!Places, gen : Nat, chan : Nat, sym : Nat, left : Int]
<1>2. CASE ~Serial!Current
      /\ Serial!Goes("leave") /\ UNCHANGED <<queue, Serial!genVars, busy, Serial!lineVars>>
  <2>1. /\ keyer' \in Type /\ keyer'.at = "leave" /\ keyer'.gen = keyer.gen
        /\ keyer'.chan = keyer.chan
    BY <1>2, MovedKeyer
  <2>2. Serial!TypeOK'
    BY <1>1, <1>2, <2>1 DEF Serial!TypeOK, Serial!genVars, Serial!lineVars
  <2>3. Serial!QueueIsFresh' /\ Serial!ChannelTellsGen' /\ ~Serial!Current'
    BY <1>1, <1>2, <2>1 DEF Serial!QueueIsFresh, Serial!ChannelTellsGen, Serial!genVars
  <2>4. Serial!PTTIsHeld' /\ Serial!SymbolIsFresh' /\ Serial!LinesAreOwned'
    BY <1>1, <1>2, <2>1, <2>3 DEF Serial!PTTIsHeld, Serial!SymbolIsFresh,
                                  Serial!LinesAreOwned, Serial!genVars, Serial!lineVars
  <2> QED
    BY <2>2, <2>3, <2>4
<1>3. CASE /\ Serial!Current /\ Serial!Goes(next) /\ lines' = lines \cup {line}
           /\ stuck' = stuck \ {line} /\ UNCHANGED <<queue, Serial!genVars, busy, faults>>
  <2>1. /\ keyer' \in Type /\ keyer'.at = next /\ keyer'.gen = keyer.gen
        /\ keyer'.chan = keyer.chan /\ keyer'.sym = keyer.sym
    BY <1>3, MovedKeyer
  <2>2. Serial!TypeOK'
    BY <1>1, <1>3, <2>1 DEF Serial!TypeOK, Serial!genVars
  <2>3. Serial!QueueIsFresh' /\ Serial!ChannelTellsGen' /\ Serial!Current'
    BY <1>1, <1>3, <2>1 DEF Serial!QueueIsFresh, Serial!ChannelTellsGen, Serial!genVars
  <2>4. Serial!SymbolIsFresh'
    BY <1>1, <1>3, <2>1, <2>3 DEF Serial!SymbolIsFresh, Serial!LinesAreOwned,
                                  Serial!genVars
  <2>5. Serial!PTTIsHeld' /\ Serial!LinesAreOwned'
    <3>1. CASE keyer.at = "lead"
      BY <1>1, <1>3, <2>1, <2>3, <3>1 DEF Serial!PTTIsHeld, Serial!LinesAreOwned,
                                          Serial!genVars
    <3>2. CASE keyer.at = "raise"
      BY <1>1, <1>3, <2>1, <2>3, <3>2 DEF Serial!PTTIsHeld, Serial!SymbolIsFresh,
                                          Serial!LinesAreOwned, Serial!genVars
    <3> QED
      BY <1>1, <3>1, <3>2
  <2> QED
    BY <2>2, <2>3, <2>4, <2>5
<1>4. CASE /\ Serial!Current /\ Serial!Goes("leave") /\ Serial!AbortLocked
           /\ \E fail \in SUBSET (Serial!Both \cap lines) : Serial!DropAllBut(fail, Serial!Both)
  <2>1. PICK fail \in SUBSET (Serial!Both \cap lines) : Serial!DropAllBut(fail, Serial!Both)
    BY <1>4
  <2>2. /\ keyer' \in Type /\ keyer'.at = "leave" /\ keyer'.gen = keyer.gen
        /\ keyer'.chan = keyer.chan
    BY <1>4, MovedKeyer
  <2>3. chans' \in Nat /\ (~closed' => chans' = chans + 1)
    BY <1>1, <1>4 DEF Serial!TypeOK, Serial!AbortLocked
  <2>4. /\ gen' = gen + 1 /\ cut' = queued /\ queue' = <<>> /\ busy' = FALSE
        /\ closed' = closed /\ closed \in BOOLEAN
    BY <1>1, <1>4 DEF Serial!AbortLocked, Serial!TypeOK
  <2>5. UNCHANGED <<queued, hasPTT>> /\ closed' \in BOOLEAN /\ (closed => closed')
    BY <1>1, <2>4
  <2>6. busy' \in BOOLEAN /\ (busy' => closed')
    BY <2>4
  <2> QED
    BY <2>1, <2>2, <2>3, <2>4, <2>5, <2>6, AbortedInv
<1> QED
  BY <1>1, <1>2, <1>3, <1>4

\* What is left of a queue when its head is taken.
LEMMA TailOf ==
  ASSUME NEW q \in Seq(Nat), q # <<>>
  PROVE  /\ Len(q) \in Nat /\ Len(q) >= 1
         /\ Head(q) = q[1] /\ Head(q) \in Nat /\ Tail(q) \in Seq(Nat)
         /\ Len(Tail(q)) = Len(q) - 1
         /\ \A i \in 1..Len(Tail(q)) : Tail(q)[i] = q[i + 1] /\ i + 1 \in 1..Len(q)
<1> QED
  OBVIOUS

\* The next symbol is taken off the queue with the generation it is of.
LEMMA TakesSymbolInv == Serial!SerialInv /\ Serial!TakesSymbol => Serial!SerialInv'
<1> SUFFICES ASSUME Serial!SerialInv, Serial!TakesSymbol PROVE Serial!SerialInv'
  OBVIOUS
<1> USE DEF Serial!SerialInv, Serial!TakesSymbol, Serial!genVars, Serial!lineVars
<1> DEFINE Type == [at : Serial!Places, gen : Nat, chan : Nat, sym : Nat, left : Int]
<1>1. CASE ~Serial!Current /\ Serial!Goes("leave") /\ UNCHANGED <<queue, busy>>
  <2>1. /\ keyer' \in Type /\ keyer'.at = "leave" /\ keyer'.gen = keyer.gen
        /\ keyer'.chan = keyer.chan
    BY <1>1, MovedKeyer
  <2>2. Serial!TypeOK'
    BY <1>1, <2>1 DEF Serial!TypeOK
  <2>3. Serial!QueueIsFresh' /\ Serial!ChannelTellsGen' /\ Serial!PTTIsHeld'
        /\ Serial!SymbolIsFresh' /\ Serial!LinesAreOwned'
    BY <1>1, <2>1 DEF Serial!QueueIsFresh, Serial!ChannelTellsGen, Serial!PTTIsHeld,
                      Serial!SymbolIsFresh, Serial!LinesAreOwned
  <2> QED
    BY <2>2, <2>3
<1>2. CASE Serial!Current /\ queue = <<>> /\ busy' = FALSE
      /\ Serial!Goes("tail") /\ UNCHANGED queue
  <2>1. /\ keyer' \in Type /\ keyer'.at = "tail" /\ keyer'.gen = keyer.gen
        /\ keyer'.chan = keyer.chan
    BY <1>2, MovedKeyer
  <2>2. Serial!TypeOK'
    BY <1>2, <2>1 DEF Serial!TypeOK
  <2>3. Serial!QueueIsFresh' /\ Serial!ChannelTellsGen' /\ Serial!PTTIsHeld'
        /\ Serial!SymbolIsFresh' /\ Serial!LinesAreOwned'
    BY <1>2, <2>1 DEF Serial!QueueIsFresh, Serial!ChannelTellsGen, Serial!PTTIsHeld,
                      Serial!SymbolIsFresh, Serial!LinesAreOwned
  <2> QED
    BY <2>2, <2>3
<1>3. CASE /\ Serial!Current /\ queue # <<>> /\ queue' = Tail(queue) /\ busy' = TRUE
           /\ \E n \in 0..MaxElements :
                keyer' = [keyer EXCEPT !.at = IF n = 0 THEN "symbol" ELSE "gap",
                                       !.sym = Head(queue), !.left = n]
  <2>1. /\ Head(queue) = queue[1] /\ 1 \in 1..Len(queue) /\ Head(queue) \in Nat
        /\ queue' \in Seq(Nat) /\ Len(queue') = Len(queue) - 1
        /\ \A i \in 1..Len(queue') : queue'[i] = queue[i + 1] /\ i + 1 \in 1..Len(queue)
    <3>1. queue \in Seq(Nat) /\ queue # <<>> /\ queue' = Tail(queue)
      BY <1>3 DEF Serial!TypeOK
    <3> HIDE DEF Serial!TakesSymbol
    <3> QED
      BY <3>1, TailOf
  <2>6. cut < Head(queue)
    BY <2>1 DEF Serial!QueueIsFresh
  <2>2. /\ keyer' \in Type /\ keyer'.at \in {"symbol", "gap"} /\ keyer'.gen = keyer.gen
        /\ keyer'.chan = keyer.chan /\ keyer'.sym = Head(queue)
    <3>1. PICK n \in 0..MaxElements :
             keyer' = [keyer EXCEPT !.at = IF n = 0 THEN "symbol" ELSE "gap",
                                    !.sym = Head(queue), !.left = n]
      BY <1>3
    <3>2. keyer \in Type
      BY DEF Serial!TypeOK
    <3>3. (IF n = 0 THEN "symbol" ELSE "gap") \in {"symbol", "gap"} \cap Serial!Places
      OBVIOUS
    <3> HIDE DEF Serial!TakesSymbol
    <3>4. Head(queue) \in Nat /\ n \in Int
      BY <2>1
    <3> DEFINE p == IF n = 0 THEN "symbol" ELSE "gap"
    <3>5. p \in {"symbol", "gap"} /\ p \in Serial!Places
      BY <3>3
    <3>6. keyer' = [keyer EXCEPT !.at = p, !.sym = Head(queue), !.left = n]
      BY <3>1
    <3> HIDE DEF p
    <3>7. /\ keyer' \in Type
          /\ keyer'.at = p /\ keyer'.gen = keyer.gen /\ keyer'.chan = keyer.chan
          /\ keyer'.sym = Head(queue)
      <4> HIDE <2>1, <3>1
      <4>1. ASSUME NEW k \in Type, NEW new, new = [k EXCEPT !.at = p,
                   !.sym = Head(queue), !.left = n]
            PROVE  /\ new \in Type
                   /\ new.at = p /\ new.gen = k.gen /\ new.chan = k.chan /\ new.sym = Head(queue)
        <5> HIDE DEF Serial!TakesSymbol, Serial!SerialInv
        <5>1. Head(queue) \in Nat /\ n \in Int /\ p \in Serial!Places
          BY <3>4, <3>5
        <5> QED
          BY <4>1, <5>1
      <4> QED
        BY <3>2, <3>6, <4>1
    <3> QED
      BY <3>5, <3>7
  <2>3. Serial!TypeOK'
    BY <1>3, <2>1, <2>2 DEF Serial!TypeOK
  <2>4. Serial!QueueIsFresh'
    BY <1>3, <2>1 DEF Serial!QueueIsFresh
  <2>5. Serial!ChannelTellsGen' /\ Serial!PTTIsHeld' /\ Serial!SymbolIsFresh'
        /\ Serial!LinesAreOwned'
    BY <1>3, <2>6, <2>2 DEF Serial!ChannelTellsGen, Serial!PTTIsHeld,
                            Serial!SymbolIsFresh, Serial!LinesAreOwned
  <2> QED
    BY <2>3, <2>4, <2>5
<1> QED
  BY <1>1, <1>2, <1>3

\* The key line goes down, or will not.
LEMMA DropsKeyInv == Serial!SerialInv /\ Serial!DropsKey => Serial!SerialInv'
<1> SUFFICES ASSUME Serial!SerialInv, Serial!DropsKey PROVE Serial!SerialInv'
  OBVIOUS
<1> USE DEF Serial!SerialInv, Serial!DropsKey, Serial!textVars, Serial!genVars
<1>1. PICK fail \in SUBSET ({"key"} \cap lines) : Serial!DropAllBut(fail, {"key"})
  BY DEF Serial!Drop
<1>2. /\ lines' \subseteq {"key", "ptt"} /\ stuck' \subseteq {"key", "ptt"}
      /\ "key" \notin lines' \ stuck'
      /\ ("ptt" \in lines' <=> "ptt" \in lines) /\ ("ptt" \in stuck' <=> "ptt" \in stuck)
  <2>1. {"key"} \in SUBSET {"key", "ptt"}
    OBVIOUS
  <2>2. Serial!TypeOK
    OBVIOUS
  <2> HIDE DEF Serial!DropsKey, Serial!SerialInv
  <2> QED
    BY <1>1, <2>1, <2>2, Dropped
<1>3. /\ keyer' \in [at : Serial!Places, gen : Nat, chan : Nat, sym : Nat, left : Int]
      /\ keyer'.gen = keyer.gen /\ keyer'.chan = keyer.chan /\ keyer'.sym = keyer.sym
      /\ \/ keyer.at = "drop" /\ keyer'.at \in {"gap", "symbol"}
         \/ keyer.at = "cutoff" /\ keyer'.at = "leave"
  <2> DEFINE Type == [at : Serial!Places, gen : Nat, chan : Nat, sym : Nat, left : Int]
  <2>1. CASE keyer.at = "cutoff"
    <3>1. Serial!Goes("leave")
      BY <2>1 DEF Serial!AfterElement
    <3> QED
      BY <2>1, <3>1, MovedKeyer
  <2>2. CASE keyer.at = "drop"
    <3> DEFINE p == IF keyer.left > 1 THEN "gap" ELSE "symbol"
    <3>1. keyer' = [keyer EXCEPT !.at = p, !.left = keyer.left - 1]
      BY <2>2 DEF Serial!AfterElement
    <3>2. keyer \in Type /\ keyer.left - 1 \in Int
      BY DEF Serial!TypeOK
    <3>3. p \in {"gap", "symbol"} /\ p \in Serial!Places
      OBVIOUS
    <3> HIDE DEF Serial!DropsKey, Serial!SerialInv, p
    <3> QED
      BY <2>2, <3>1, <3>2, <3>3
  <2> QED
    BY <2>1, <2>2
<1>4. Serial!TypeOK'
  BY <1>2, <1>3 DEF Serial!TypeOK
<1>5. Serial!QueueIsFresh'
      /\ Serial!ChannelTellsGen' /\ (Serial!Current' <=> Serial!Current)
  <2>1. keyer'.gen = keyer.gen /\ keyer'.chan = keyer.chan
    BY <1>3
  <2> QED
    BY <2>1 DEF Serial!QueueIsFresh, Serial!ChannelTellsGen
<1>6. Serial!PTTIsHeld' /\ Serial!SymbolIsFresh' /\ Serial!LinesAreOwned'
  BY <1>2, <1>3, <1>5 DEF Serial!PTTIsHeld, Serial!SymbolIsFresh, Serial!LinesAreOwned
<1> QED
  BY <1>4, <1>5, <1>6

\* The PTT line goes down, or will not.
LEMMA DropsPTTInv == Serial!SerialInv /\ Serial!DropsPTT => Serial!SerialInv'
<1> SUFFICES ASSUME Serial!SerialInv, Serial!DropsPTT PROVE Serial!SerialInv'
  OBVIOUS
<1> USE DEF Serial!SerialInv, Serial!DropsPTT, Serial!textVars, Serial!genVars
<1>1. /\ keyer' \in [at : Serial!Places, gen : Nat, chan : Nat, sym : Nat, left : Int]
      /\ keyer'.at = "leave" /\ keyer'.gen = keyer.gen /\ keyer'.chan = keyer.chan
  BY MovedKeyer
<1>2. /\ lines' \subseteq {"key", "ptt"} /\ stuck' \subseteq {"key", "ptt"}
      /\ "ptt" \notin lines' \ stuck'
      /\ ("key" \in lines' \ stuck' => Serial!Up("key"))
  <2>1. CASE hasPTT
    <3>1. PICK fail \in SUBSET ({"ptt"} \cap lines) : Serial!DropAllBut(fail, {"ptt"})
      BY <2>1 DEF Serial!Drop
    <3>2. {"ptt"} \in SUBSET {"key", "ptt"} /\ Serial!TypeOK
      OBVIOUS
    <3> HIDE DEF Serial!DropsPTT, Serial!SerialInv
    <3> QED
      BY <3>1, <3>2, Dropped
  <2>2. CASE ~hasPTT
    BY <2>2 DEF Serial!lineVars, Serial!TypeOK, Serial!PTTIsHeld
  <2> QED
    BY <2>1, <2>2
<1>3. Serial!TypeOK'
  BY <1>1, <1>2 DEF Serial!TypeOK
<1>4. Serial!QueueIsFresh'
      /\ Serial!ChannelTellsGen' /\ (Serial!Current' <=> Serial!Current)
  BY <1>1 DEF Serial!QueueIsFresh, Serial!ChannelTellsGen
<1>5. Serial!PTTIsHeld' /\ Serial!SymbolIsFresh' /\ Serial!LinesAreOwned'
  BY <1>1, <1>2, <1>4 DEF Serial!PTTIsHeld, Serial!SymbolIsFresh, Serial!LinesAreOwned
<1> QED
  BY <1>3, <1>4, <1>5

\* The goroutine ends after Close.
LEMMA LeavesInv == Serial!SerialInv /\ Serial!Leaves => Serial!SerialInv'
<1> SUFFICES ASSUME Serial!SerialInv, Serial!Leaves PROVE Serial!SerialInv'
  OBVIOUS
<1> USE DEF Serial!SerialInv, Serial!Leaves, Serial!textVars, Serial!genVars,
            Serial!lineVars
<1>1. /\ keyer' \in [at : Serial!Places, gen : Nat, chan : Nat, sym : Nat, left : Int]
      /\ keyer'.at = "top" /\ keyer'.gen = keyer.gen /\ keyer'.chan = keyer.chan
  BY MovedKeyer
<1>2. Serial!TypeOK'
  BY <1>1 DEF Serial!TypeOK
<1>3. Serial!QueueIsFresh'
      /\ Serial!ChannelTellsGen' /\ (Serial!Current' <=> Serial!Current)
  BY <1>1 DEF Serial!QueueIsFresh, Serial!ChannelTellsGen
<1>4. Serial!PTTIsHeld' /\ Serial!SymbolIsFresh' /\ Serial!LinesAreOwned'
  BY <1>1, <1>3 DEF Serial!PTTIsHeld, Serial!SymbolIsFresh, Serial!LinesAreOwned
<1> QED
  BY <1>2, <1>3, <1>4

\* The sender stands still.
LEMMA StutterInv == Serial!SerialInv /\ UNCHANGED Serial!vars => Serial!SerialInv'
<1> SUFFICES ASSUME Serial!SerialInv, UNCHANGED Serial!vars PROVE Serial!SerialInv'
  OBVIOUS
<1> QED
  BY DEF Serial!SerialInv, Serial!TypeOK, Serial!QueueIsFresh, Serial!ChannelTellsGen,
         Serial!PTTIsHeld, Serial!SymbolIsFresh, Serial!LinesAreOwned,
         Serial!vars, Serial!textVars, Serial!genVars, Serial!lineVars

\* SerialInv is inductive.
LEMMA SerialInvStep == Serial!SerialInv /\ Serial!Next => Serial!SerialInv'
<1> SUFFICES ASSUME Serial!SerialInv, Serial!Next PROVE Serial!SerialInv'
  OBVIOUS
<1>1. ASSUME NEW replace \in BOOLEAN, Serial!Enqueue(replace) PROVE Serial!SerialInv'
  BY <1>1, EnqueueInv
<1>2. CASE Serial!Signals
  BY <1>2 DEF Serial!Signals, Serial!SerialInv, Serial!TypeOK, Serial!QueueIsFresh,
              Serial!ChannelTellsGen, Serial!PTTIsHeld, Serial!SymbolIsFresh,
              Serial!LinesAreOwned, Serial!textVars, Serial!genVars, Serial!lineVars
<1>3. CASE Serial!Abort
  BY <1>3, AbortInv
<1>4. CASE Serial!Close
  BY <1>4, CloseInv
<1>5. CASE Serial!KeyerStep
  BY <1>5, TopInv, WaitingInv, AssertInv, TakesSymbolInv, DropsKeyInv, DropsPTTInv,
     LeavesInv DEF Serial!KeyerStep
<1> QED
  BY <1>1, <1>2, <1>3, <1>4, <1>5 DEF Serial!Next

-----------------------------------------------------------------------------
(* The sender that uses the radio's buffer: what its helpers do             *)

\* Where the pacing loop can be.
LoopAt == {"head", "parked", "room", "recheck", "send", "writing", "sent", "lost", "done"}
Loop == [at : LoopAt, chunk : Nat, ctx : Nat]

\* A loop that moves keeps its chunk and its context.
LEMMA MovedLoop ==
  ASSUME loop \in Loop, NEW p \in LoopAt, Cat!Goes(p)
  PROVE  loop' \in Loop /\ loop'.at = p /\ loop'.chunk = loop.chunk /\ loop'.ctx = loop.ctx
<1> QED
  BY DEF Loop, Cat!Goes

\* A loop that is woken looks at the head of the queue.
LEMMA WokenLoop ==
  ASSUME loop \in Loop, Cat!Broadcast
  PROVE  /\ loop' \in Loop /\ loop'.chunk = loop.chunk /\ loop'.ctx = loop.ctx
         /\ loop'.at = loop.at \/ (loop.at = "parked" /\ loop'.at = "head")
<1> QED
  BY DEF Loop, LoopAt, Cat!Broadcast

\* What is stale when the queue goes.
LEMMA DroppedQueue ==
  ASSUME NEW q \in Seq(Nat), queue = q, stale \in BOOLEAN, Cat!DropQueue
  PROVE  /\ stale' \in BOOLEAN
         /\ stale' <=> stale \/ \E j \in 1..Len(queue) : queue[j] = loop.chunk
<1>1. DOMAIN queue = 1..Len(queue)
  BY LenProperties
<1> QED
  BY <1>1 DEF Cat!DropQueue, Cat!ToSet

\* What the types of the CAT sender come to.
LEMMA CatTypes ==
  ASSUME Cat!CatInv
  PROVE  /\ queue \in Seq(Nat) /\ rig \in Seq(Nat) /\ inflight \in Seq(Nat)
         /\ Len(queue) \in Nat /\ Len(rig) \in Nat /\ Len(inflight) \in Nat
         /\ \A j \in 1..Len(queue) : queue[j] \in Nat
         /\ \A i \in 1..Len(rig) : rig[i] \in Nat
         /\ queued \in Nat /\ silenced \in Nat /\ ctx \in Nat /\ faults \in Nat
         /\ loop \in Loop /\ loop.at \in LoopAt /\ loop.chunk \in Nat /\ loop.ctx \in Nat
         /\ stale \in BOOLEAN /\ unpaced \in BOOLEAN
<1>1. /\ queue \in Seq(Nat) /\ rig \in Seq(Nat) /\ inflight \in Seq(Nat)
      /\ queued \in Nat /\ silenced \in Nat /\ ctx \in Nat /\ faults \in Nat
      /\ loop \in Loop /\ stale \in BOOLEAN /\ unpaced \in BOOLEAN
  BY DEF Cat!CatInv, Cat!TypeOK, Loop, LoopAt
<1> QED
  BY <1>1, LenProperties, ElementOfSeq DEF Loop

\* A CAT sender just built (NewCAT).
LEMMA InitCatInv == Cat!Init => Cat!CatInv
<1> SUFFICES ASSUME Cat!Init PROVE Cat!CatInv
  OBVIOUS
<1>1. <<>> \in Seq(Nat) /\ Len(<<>>) = 0
  BY EmptySeq
<1>2. Cat!TypeOK
  <2>1. loop \in [at : {"head", "parked", "room", "recheck", "send", "writing", "sent",
                        "lost", "done"}, chunk : Nat, ctx : Nat]
    BY DEF Cat!Init
  <2>2. aborter \in [Aborters -> [at : {"idle", "cancel", "stop"}, ctx : Nat, upTo : Nat]]
    BY DEF Cat!Init, Cat!NoAbort
  <2> QED
    BY <1>1, <2>1, <2>2 DEF Cat!Init, Cat!TypeOK
<1>3. /\ queue = <<>> /\ rig = <<>> /\ inflight = <<>> /\ queued = 0 /\ silenced = 0 /\ ctx = 0
      /\ loop.at = "head" /\ loop.chunk = 0 /\ loop.ctx = 0
      /\ \A a \in Aborters : aborter[a].at = "idle"
  BY DEF Cat!Init, Cat!NoAbort
<1>4. Cat!ChunksInOrder /\ Cat!OnTheWay /\ Cat!RoomIsKept /\ Cat!EstimateCovers
  BY <1>1, <1>3 DEF Cat!ChunksInOrder, Cat!OnTheWay, Cat!RoomIsKept, Cat!EstimateCovers,
                    Cat!Increasing
<1>5. Cat!AbortsBite /\ Cat!NoOverrun /\ Cat!AbortSilences
  BY <1>1, <1>3, KeyerAssumption DEF Cat!AbortsBite, Cat!NoOverrun, Cat!AbortSilences
<1> QED
  BY <1>2, <1>4, <1>5 DEF Cat!CatInv

-----------------------------------------------------------------------------
(* The sender that uses the radio's buffer: its steps                       *)

\* A chunk queued gets a number of its own, above all there are.
LEMMA CatEnqueueInv ==
  ASSUME Cat!CatInv, NEW replace \in BOOLEAN, Cat!Enqueue(replace)
  PROVE  Cat!CatInv'
<1>1. /\ queued' = queued + 1 /\ Cat!Broadcast
      /\ UNCHANGED <<closed, faults, asks, inflight, cmdMu, rig, unpaced>>
      /\ UNCHANGED <<aborts, ctx, cancelled, aborter, silenced>>
  BY DEF Cat!Enqueue, Cat!rigVars, Cat!abortVars
<1>2. /\ queue \in Seq(Nat) /\ Len(queue) \in Nat /\ queued \in Nat /\ silenced \in Nat
      /\ loop.chunk \in Nat /\ loop \in Loop /\ stale \in BOOLEAN
      /\ \A j \in 1..Len(queue) : queue[j] \in Nat
      /\ \A i \in 1..Len(rig) : rig[i] \in Nat
  BY CatTypes
<1>3. /\ loop' \in Loop /\ loop'.chunk = loop.chunk /\ loop'.ctx = loop.ctx
      /\ loop'.at = loop.at \/ (loop.at = "parked" /\ loop'.at = "head")
  BY <1>1, <1>2, WokenLoop
<1>4. /\ loop.chunk <= queued
      /\ loop.at \in {"send", "writing"} =>
            /\ ~stale
            /\ \A i \in 1..Len(rig) : rig[i] < loop.chunk
            /\ \A j \in 1..Len(queue) : loop.chunk < queue[j]
      /\ loop.at \in {"room", "recheck"} /\ stale =>
            \A j \in 1..Len(queue) : queue[j] # loop.chunk
  BY DEF Cat!CatInv, Cat!OnTheWay
<1>5. /\ queue' \in Seq(Nat) /\ stale' \in BOOLEAN /\ Len(queue') \in Nat \ {0}
      /\ queue'[Len(queue')] = queued'
      /\ \A j \in 1..Len(queue') : j < Len(queue') => j \in 1..Len(queue) /\ queue'[j] = queue[j]
      /\ stale' => stale \/ \E j \in 1..Len(queue) : queue[j] = loop.chunk
      /\ stale' /\ ~stale => Len(queue') = 1
  <2>1. CASE replace
    <3>1. queue' = <<queued'>> /\ Cat!DropQueue
      BY <2>1 DEF Cat!Enqueue
    <3>2. queued' \in Nat
      BY <1>1, <1>2
    <3>3. /\ queue' \in Seq(Nat) /\ Len(queue') = 1 /\ queue'[1] = queued'
      BY <3>1, <3>2
    <3>4. stale' \in BOOLEAN /\ (stale' <=> stale \/ \E j \in 1..Len(queue) : queue[j] = loop.chunk)
      BY <1>2, <3>1, DroppedQueue
    <3> QED
      BY <3>3, <3>4
  <2>2. CASE ~replace
    <3>1. queue' = Append(queue, queued') /\ stale' = stale
      BY <2>2 DEF Cat!Enqueue
    <3>2. queued' \in Nat
      BY <1>1, <1>2
    <3>3. /\ queue' \in Seq(Nat) /\ Len(queue') = Len(queue) + 1
          /\ \A i \in 1..Len(queue) : queue'[i] = queue[i]
          /\ queue'[Len(queue) + 1] = queued'
      BY <1>2, <3>1, <3>2, AppendProperties
    <3> QED
      BY <1>2, <3>1, <3>3
  <2> QED
    BY <2>1, <2>2
<1>6. Cat!TypeOK'
  BY <1>1, <1>2, <1>3, <1>5 DEF Cat!CatInv, Cat!TypeOK, Loop, LoopAt
<1>7. Cat!ChunksInOrder'
  <2>1. /\ Cat!Increasing(rig) /\ Cat!Increasing(queue)
        /\ \A j \in 1..Len(queue) :
              /\ 0 < queue[j] /\ queue[j] <= queued
              /\ \A i \in 1..Len(rig) : rig[i] < queue[j]
        /\ \A i \in 1..Len(rig) : rig[i] <= queued
    BY DEF Cat!CatInv, Cat!ChunksInOrder
  <2>2. ASSUME NEW j \in 1..Len(queue')
        PROVE  /\ 0 < queue'[j] /\ queue'[j] <= queued'
               /\ \A i \in 1..Len(rig) : rig[i] < queue'[j]
    <3>1. CASE j = Len(queue')
      BY <1>1, <1>2, <1>5, <2>1, <3>1
    <3>2. CASE j < Len(queue')
      BY <1>1, <1>2, <1>5, <2>1, <3>2
    <3> QED
      BY <1>5, <3>1, <3>2
  <2>3. Cat!Increasing(queue)'
    <3> SUFFICES ASSUME NEW i \in 1..Len(queue'), NEW j \in 1..Len(queue'), i < j
                 PROVE  queue'[i] < queue'[j]
      BY DEF Cat!Increasing
    <3>1. i < Len(queue') /\ i \in 1..Len(queue) /\ queue'[i] = queue[i]
      BY <1>5
    <3>2. CASE j = Len(queue')
      BY <1>1, <1>2, <1>5, <2>1, <3>1, <3>2
    <3>3. CASE j < Len(queue')
      BY <1>5, <2>1, <3>1, <3>3 DEF Cat!Increasing
    <3> QED
      BY <1>5, <3>2, <3>3
  <2>4. \A i \in 1..Len(rig) : rig[i] <= queued'
    BY <1>1, <1>2, <2>1
  <2> QED
    BY <1>1, <2>1, <2>2, <2>3, <2>4 DEF Cat!ChunksInOrder, Cat!Increasing
<1>8. Cat!OnTheWay'
  <2>1. loop'.chunk <= queued'
    BY <1>1, <1>2, <1>3, <1>4
  <2>2. ASSUME loop'.at \in {"send", "writing"}
        PROVE  /\ ~stale'
               /\ \A i \in 1..Len(rig) : rig[i] < loop'.chunk
               /\ \A j \in 1..Len(queue') : loop'.chunk < queue'[j]
    <3>1. loop.at \in {"send", "writing"}
      BY <1>3, <2>2
    <3>2. ~stale'
      BY <1>2, <1>4, <1>5, <3>1
    <3>3. \A j \in 1..Len(queue') : loop.chunk < queue'[j]
      BY <1>1, <1>2, <1>4, <1>5, <3>1
    <3> QED
      BY <1>3, <1>4, <3>1, <3>2, <3>3
  <2>3. ASSUME loop'.at \in {"room", "recheck"}, stale', NEW j \in 1..Len(queue')
        PROVE  queue'[j] # loop'.chunk
    <3>1. loop.at \in {"room", "recheck"}
      BY <1>3, <2>3
    <3>2. CASE j = Len(queue')
      BY <1>1, <1>2, <1>3, <1>4, <1>5, <3>2
    <3>3. CASE j < Len(queue')
      BY <1>3, <1>4, <1>5, <2>3, <3>1, <3>3
    <3> QED
      BY <1>5, <3>2, <3>3
  <2> QED
    BY <1>1, <2>1, <2>2, <2>3 DEF Cat!OnTheWay
<1>9. Cat!RoomIsKept' /\ Cat!EstimateCovers' /\ Cat!NoOverrun' /\ Cat!AbortSilences'
  <2>1. Cat!RoomIsKept'
    BY <1>1, <1>3 DEF Cat!CatInv, Cat!RoomIsKept
  <2>2. Cat!EstimateCovers'
    BY <1>1, <1>3 DEF Cat!CatInv, Cat!EstimateCovers
  <2> QED
    BY <1>1, <2>1, <2>2 DEF Cat!CatInv, Cat!NoOverrun, Cat!AbortSilences
<1>10. Cat!AbortsBite'
  <2>1. Cat!Doomed' <=> Cat!Doomed
    BY <1>1, <1>3 DEF Cat!Doomed, Cat!Aborted
  <2>0. ASSUME NEW n \in Nat, n <= queued, \A j \in 1..Len(queue) : queue[j] > n,
               NEW j \in 1..Len(queue')
        PROVE  queue'[j] > n
    <3>1. CASE j = Len(queue')
      BY <1>1, <1>2, <1>5, <2>0, <3>1
    <3>2. CASE j < Len(queue')
      BY <1>5, <2>0, <3>2
    <3> QED
      BY <1>5, <3>1, <3>2
  <2>2. \A j \in 1..Len(queue') : queue'[j] > silenced
    BY <1>2, <2>0 DEF Cat!CatInv, Cat!AbortsBite
  <2>3. ASSUME NEW a \in Aborters, aborter[a].at # "idle"
        PROVE  /\ aborter[a].upTo <= queued'
               /\ \A j \in 1..Len(queue') : queue'[j] > aborter[a].upTo
    <3>1. /\ aborter[a].upTo \in Nat /\ aborter[a].upTo <= queued
          /\ \A j \in 1..Len(queue) : queue[j] > aborter[a].upTo
      BY <2>3 DEF Cat!CatInv, Cat!TypeOK, Cat!AbortsBite
    <3>2. \A j \in 1..Len(queue') : queue'[j] > aborter[a].upTo
      BY <2>0, <3>1
    <3>3. aborter[a].upTo <= queued'
      BY <1>1, <1>2, <3>1
    <3> QED
      BY <3>2, <3>3
  <2>4. silenced <= queued'
    BY <1>1, <1>2 DEF Cat!CatInv, Cat!AbortsBite
  <2> QED
    BY <1>1, <1>3, <2>1, <2>2, <2>3, <2>4 DEF Cat!CatInv, Cat!AbortsBite, Cat!Aborted
<1> QED
  BY <1>6, <1>7, <1>8, <1>9, <1>10 DEF Cat!CatInv
\* The queue and the estimate gone, there is nothing of them to be wrong about,
\* and what is on its way was taken off the queue (AbortSwaps, Close, Fail).
LEMMA QueueGone ==
  ASSUME Cat!CatInv, queue' = <<>>, Cat!DropQueue,
         UNCHANGED <<queued, rig>>,
         loop' \in Loop, loop'.chunk = loop.chunk, loop'.ctx = loop.ctx,
         loop'.at = loop.at \/ loop'.at = "head"
  PROVE  /\ queue' \in Seq(Nat) /\ Len(queue') = 0 /\ stale' \in BOOLEAN
         /\ Cat!ChunksInOrder' /\ Cat!OnTheWay'
<1>1. /\ queue \in Seq(Nat) /\ stale \in BOOLEAN /\ loop \in Loop
  BY CatTypes
<1>2. queue' \in Seq(Nat) /\ Len(queue') = 0
  BY EmptySeq
<1>3. stale' \in BOOLEAN /\ (stale' <=> stale \/ \E j \in 1..Len(queue) : queue[j] = loop.chunk)
  BY <1>1, DroppedQueue
<1>4. Cat!ChunksInOrder'
  BY <1>2 DEF Cat!CatInv, Cat!ChunksInOrder, Cat!Increasing
<1>5. loop.at \in {"send", "writing"} => ~stale'
  <2>1. ASSUME loop.at \in {"send", "writing"}, NEW j \in 1..Len(queue)
        PROVE  queue[j] # loop.chunk
    BY <2>1, CatTypes DEF Cat!CatInv, Cat!OnTheWay
  <2> QED
    BY <1>3, <2>1 DEF Cat!CatInv, Cat!OnTheWay
<1>6. Cat!OnTheWay'
  BY <1>2, <1>5 DEF Cat!CatInv, Cat!OnTheWay
<1> QED
  BY <1>2, <1>3, <1>4, <1>6

\* An Abort empties the queue, forgets the estimate and dooms what is on its way.
LEMMA AbortSwapsInv ==
  ASSUME Cat!CatInv, NEW a \in Aborters, Cat!AbortSwaps(a)
  PROVE  Cat!CatInv'
<1>1. /\ aborter[a].at = "idle" /\ Cat!DropQueue /\ queue' = <<>> /\ inflight' = <<>>
      /\ ctx' = (IF closed THEN ctx ELSE ctx + 1)
      /\ Cat!Broadcast
      /\ unpaced' = (unpaced \/ Cat!Backlog)
      /\ UNCHANGED <<closed, queued, faults, asks, cancelled, cmdMu, rig, silenced>>
  BY DEF Cat!AbortSwaps
<1>2. /\ queue \in Seq(Nat) /\ queued \in Nat /\ ctx \in Nat /\ loop \in Loop
      /\ loop.chunk \in Nat /\ silenced \in Nat
  BY CatTypes
<1>3. /\ loop' \in Loop /\ loop'.chunk = loop.chunk /\ loop'.ctx = loop.ctx
      /\ loop'.at = loop.at \/ (loop.at = "parked" /\ loop'.at = "head")
  BY <1>1, <1>2, WokenLoop
<1>4. /\ aborter' \in [Aborters -> [at : {"idle", "cancel", "stop"}, ctx : Nat, upTo : Nat]]
      /\ aborter'[a] = [at |-> "cancel", ctx |-> ctx, upTo |-> queued]
      /\ \A b \in Aborters : b # a => aborter'[b] = aborter[b]
  <2>1. aborter \in [Aborters -> [at : {"idle", "cancel", "stop"}, ctx : Nat, upTo : Nat]]
    BY DEF Cat!CatInv, Cat!TypeOK
  <2>2. aborter' = [aborter EXCEPT ![a] = [at |-> "cancel", ctx |-> ctx, upTo |-> queued]]
    BY DEF Cat!AbortSwaps
  <2>3. [at |-> "cancel", ctx |-> ctx, upTo |-> queued]
           \in [at : {"idle", "cancel", "stop"}, ctx : Nat, upTo : Nat]
    BY <1>2
  <2> QED
    BY <2>1, <2>2, <2>3
<1>5. /\ queue' \in Seq(Nat) /\ Len(queue') = 0 /\ stale' \in BOOLEAN
      /\ Cat!ChunksInOrder' /\ Cat!OnTheWay'
  BY <1>1, <1>3, QueueGone
<1>6. inflight' \in Seq(Nat) /\ Len(inflight') = 0
  BY <1>1, EmptySeq
<1>7. ctx' \in Nat /\ unpaced' \in BOOLEAN
  BY <1>1, <1>2, CatTypes DEF Cat!Backlog
<1>8. Cat!TypeOK'
  BY <1>1, <1>3, <1>4, <1>5, <1>6, <1>7 DEF Cat!CatInv, Cat!TypeOK, Loop, LoopAt
<1>9. Cat!RoomIsKept'
  BY <1>1, <1>3, <1>6, KeyerAssumption DEF Cat!CatInv, Cat!RoomIsKept
<1>10. Cat!EstimateCovers'
  <2>1. ~unpaced' => rig = <<>>
    BY <1>1 DEF Cat!Backlog
  <2>2. Len(<<>>) = 0
    BY EmptySeq
  <2>3. loop'.at = "sent" => Len(Append(inflight', loop'.chunk)) \in Nat
    BY <1>2, <1>3, <1>6, AppendProperties, LenProperties
  <2>4. ~unpaced' => Len(rig') = 0
    BY <1>1, <2>1, <2>2
  <2> QED
    BY <1>6, <2>3, <2>4 DEF Cat!EstimateCovers
<1>11. Cat!NoOverrun' /\ Cat!AbortSilences'
  BY <1>1 DEF Cat!CatInv, Cat!NoOverrun, Cat!AbortSilences
<1>12. Cat!AbortsBite'
  <2>1. Cat!Doomed => Cat!Doomed'
    BY <1>1, <1>3, <1>4 DEF Cat!Doomed, Cat!Aborted
  <2>2. loop.ctx = ctx => Cat!Doomed'
    BY <1>3, <1>4 DEF Cat!Doomed
  <2>3. Cat!Doomed'
    BY <2>1, <2>2 DEF Cat!CatInv, Cat!AbortsBite
  <2>4. ASSUME NEW b \in Aborters, aborter'[b].at # "idle" PROVE aborter'[b].upTo <= queued
    <3>1. CASE b = a
      BY <1>2, <1>4, <3>1
    <3>2. CASE b # a
      BY <1>4, <2>4, <3>2 DEF Cat!CatInv, Cat!AbortsBite
    <3> QED
      BY <3>1, <3>2
  <2> QED
    BY <1>1, <1>3, <1>5, <2>3, <2>4 DEF Cat!CatInv, Cat!AbortsBite, Cat!Aborted
<1> QED
  BY <1>5, <1>8, <1>9, <1>10, <1>11, <1>12 DEF Cat!CatInv

\* Cancelling makes what was about to be doomed doomed.
LEMMA AbortCancelsInv ==
  ASSUME Cat!CatInv, NEW a \in Aborters, Cat!AbortCancels(a)
  PROVE  Cat!CatInv'
<1>1. /\ aborter[a].at = "cancel" /\ cancelled' = cancelled \cup {aborter[a].ctx}
      /\ aborter' = [aborter EXCEPT ![a].at = "stop"]
      /\ UNCHANGED <<queue, closed, queued, faults, asks, inflight, loop, cmdMu, rig, unpaced>>
      /\ UNCHANGED <<stale, ctx, silenced>>
  BY DEF Cat!AbortCancels, Cat!textVars, Cat!rigVars
<1>2. /\ aborter' \in [Aborters -> [at : {"idle", "cancel", "stop"}, ctx : Nat, upTo : Nat]]
      /\ aborter[a].ctx \in Nat /\ aborter'[a].at = "stop"
      /\ \A b \in Aborters : /\ aborter'[b].ctx = aborter[b].ctx
                             /\ aborter'[b].upTo = aborter[b].upTo
                             /\ b # a => aborter'[b].at = aborter[b].at
  BY <1>1 DEF Cat!CatInv, Cat!TypeOK
<1>3. Cat!TypeOK'
  BY <1>1, <1>2 DEF Cat!CatInv, Cat!TypeOK
<1>4. Cat!ChunksInOrder' /\ Cat!OnTheWay' /\ Cat!RoomIsKept'
  BY <1>1 DEF Cat!CatInv, Cat!ChunksInOrder, Cat!Increasing, Cat!OnTheWay, Cat!RoomIsKept
<1>5. Cat!EstimateCovers' /\ Cat!NoOverrun' /\ Cat!AbortSilences'
  BY <1>1 DEF Cat!CatInv, Cat!EstimateCovers, Cat!NoOverrun, Cat!AbortSilences
<1>6. (Cat!Doomed => Cat!Doomed') /\ (Cat!Aborted => Cat!Aborted')
  BY <1>1, <1>2 DEF Cat!Doomed, Cat!Aborted
<1>7. Cat!AbortsBite'
  BY <1>1, <1>2, <1>6 DEF Cat!CatInv, Cat!AbortsBite
<1> QED
  BY <1>3, <1>4, <1>5, <1>7 DEF Cat!CatInv

\* The radio's buffer is discarded while no chunk is being written.  What is yet
\* to come of before the Abort has a context that was cancelled.
LEMMA AbortStopsInv ==
  ASSUME Cat!CatInv, NEW a \in Aborters, Cat!AbortStops(a)
  PROVE  Cat!CatInv'
<1>1. /\ aborter[a].at = "stop" /\ ~cmdMu
      /\ aborter' = [aborter EXCEPT ![a] = Cat!NoAbort]
      /\ UNCHANGED <<queue, closed, queued, asks, inflight, loop, cmdMu, stale, ctx, cancelled>>
  BY DEF Cat!AbortStops, Cat!textVars
<1>2. \/ /\ rig' = <<>> /\ unpaced' = FALSE /\ faults' = faults
         /\ silenced' = IF /\ \A b \in Aborters : aborter[b].at # "cancel"
                           /\ aborter[a].upTo > silenced
                        THEN aborter[a].upTo ELSE silenced
      \/ UNCHANGED <<rig, unpaced, silenced>> /\ faults' = faults + 1
  BY DEF Cat!AbortStops, Cat!rigVars
<1>3. /\ aborter' \in [Aborters -> [at : {"idle", "cancel", "stop"}, ctx : Nat, upTo : Nat]]
      /\ aborter'[a].at = "idle" /\ aborter[a].upTo \in Nat
      /\ \A b \in Aborters : b # a => aborter'[b] = aborter[b]
  BY <1>1 DEF Cat!CatInv, Cat!TypeOK, Cat!NoAbort
<1>4. /\ rig' \in Seq(Nat) /\ (rig' = rig \/ Len(rig') = 0)
      /\ unpaced' \in BOOLEAN /\ silenced' \in Nat /\ faults' \in Nat
  <2>1. <<>> \in Seq(Nat) /\ Len(<<>>) = 0
    BY EmptySeq
  <2>2. /\ rig \in Seq(Nat) /\ unpaced \in BOOLEAN /\ silenced \in Nat /\ faults \in Nat
    BY CatTypes
  <2>3. silenced' \in Nat /\ faults' \in Nat
    BY <1>2, <1>3, <2>2
  <2>4. rig' \in Seq(Nat) /\ unpaced' \in BOOLEAN /\ (rig' = rig \/ Len(rig') = 0)
    BY <1>2, <2>1, <2>2
  <2> QED
    BY <2>3, <2>4
<1>5. Cat!TypeOK'
  BY <1>1, <1>3, <1>4 DEF Cat!CatInv, Cat!TypeOK
<1>6. Cat!ChunksInOrder' /\ Cat!OnTheWay'
  BY <1>1, <1>4 DEF Cat!CatInv, Cat!ChunksInOrder, Cat!Increasing, Cat!OnTheWay
<1>7. Cat!RoomIsKept'
  BY <1>1, <1>4, KeyerAssumption, CatTypes DEF Cat!CatInv, Cat!RoomIsKept
<1>8. Cat!EstimateCovers'
  <2>1. loop.at = "sent" => Len(Append(inflight, loop.chunk)) \in Nat
    BY CatTypes, AppendProperties, LenProperties
  <2>2. CASE UNCHANGED <<rig, unpaced>>
    BY <1>1, <2>2 DEF Cat!CatInv, Cat!EstimateCovers
  <2>3. CASE rig' = <<>>
    <3>1. Len(rig') = 0 /\ Len(inflight') \in Nat
      BY <1>1, <2>3, EmptySeq, CatTypes
    <3> QED
      BY <1>1, <2>1, <3>1 DEF Cat!EstimateCovers
  <2> QED
    BY <1>2, <2>2, <2>3
<1>9. Cat!NoOverrun'
  BY <1>1, <1>2, <1>4, KeyerAssumption DEF Cat!CatInv, Cat!NoOverrun
<1>10. Cat!AbortSilences'
  BY <1>2, <1>4 DEF Cat!CatInv, Cat!AbortSilences
<1>11. (Cat!Doomed => Cat!Doomed') /\ (Cat!Aborted <=> Cat!Aborted')
  BY <1>1, <1>3 DEF Cat!Doomed, Cat!Aborted
<1>12. /\ silenced' <= queued
       /\ loop.at = "send" /\ loop.chunk <= silenced' => Cat!Aborted
       /\ \A j \in 1..Len(queue) : queue[j] > silenced'
  <2>1. CASE silenced' = silenced
    BY <2>1 DEF Cat!CatInv, Cat!AbortsBite
  <2>2. CASE silenced' # silenced
    <3>1. /\ silenced' = aborter[a].upTo
          /\ \A b \in Aborters : aborter[b].at # "cancel"
      BY <1>2, <2>2
    <3>2. Cat!Doomed => Cat!Aborted
      BY <3>1 DEF Cat!Doomed
    <3> QED
      BY <1>1, <3>1, <3>2 DEF Cat!CatInv, Cat!AbortsBite
  <2> QED
    BY <2>1, <2>2
<1>13. Cat!AbortsBite'
  <2>1. loop.at # "writing"
    BY <1>1 DEF Cat!CatInv, Cat!AbortsBite
  <2>2. \A b \in Aborters : aborter'[b].at # "idle" => b # a /\ aborter'[b] = aborter[b]
    BY <1>3
  <2> QED
    BY <1>1, <1>11, <1>12, <2>1, <2>2 DEF Cat!CatInv, Cat!AbortsBite
<1> QED
  BY <1>5, <1>6, <1>7, <1>8, <1>9, <1>10, <1>13 DEF Cat!CatInv

\* Close drops the queue, as an Abort does, and cancels the context there is.
LEMMA CatCloseInv == Cat!CatInv /\ Cat!Close => Cat!CatInv'
<1> SUFFICES ASSUME Cat!CatInv, Cat!Close PROVE Cat!CatInv'
  OBVIOUS
<1>1. /\ closed' = TRUE /\ Cat!DropQueue /\ queue' = <<>> /\ Cat!Broadcast
      /\ cancelled' = cancelled \cup {ctx}
      /\ UNCHANGED <<queued, faults, asks, inflight, cmdMu, rig, unpaced>>
      /\ UNCHANGED <<ctx, aborter, silenced>>
  BY DEF Cat!Close, Cat!rigVars
<1>2. /\ loop' \in Loop /\ loop'.chunk = loop.chunk /\ loop'.ctx = loop.ctx
      /\ loop'.at = loop.at \/ (loop.at = "parked" /\ loop'.at = "head")
  BY <1>1, WokenLoop, CatTypes
<1>3. /\ queue' \in Seq(Nat) /\ Len(queue') = 0 /\ stale' \in BOOLEAN
      /\ Cat!ChunksInOrder' /\ Cat!OnTheWay'
  BY <1>1, <1>2, QueueGone
<1>4. Cat!TypeOK'
  BY <1>1, <1>2, <1>3, CatTypes DEF Cat!CatInv, Cat!TypeOK, Loop, LoopAt
<1>5. Cat!RoomIsKept' /\ Cat!EstimateCovers' /\ Cat!NoOverrun' /\ Cat!AbortSilences'
  <2>1. Cat!EstimateCovers'
    BY <1>1, <1>2 DEF Cat!CatInv, Cat!EstimateCovers
  <2> QED
    BY <1>1, <1>2, <2>1 DEF Cat!CatInv, Cat!RoomIsKept, Cat!NoOverrun, Cat!AbortSilences
<1>6. (Cat!Doomed => Cat!Doomed') /\ (Cat!Aborted => Cat!Aborted')
  BY <1>1, <1>2 DEF Cat!Doomed, Cat!Aborted
<1>7. Cat!AbortsBite'
  BY <1>1, <1>2, <1>3, <1>6 DEF Cat!CatInv, Cat!AbortsBite
<1> QED
  BY <1>3, <1>4, <1>5, <1>7 DEF Cat!CatInv
\* The loop takes the head of the queue for its chunk.
LEMMA LooksAtHeadInv == Cat!CatInv /\ Cat!LooksAtHead => Cat!CatInv'
<1> SUFFICES ASSUME Cat!CatInv, Cat!LooksAtHead PROVE Cat!CatInv'
  OBVIOUS
<1>1. /\ loop.at = "head" /\ stale' = FALSE
      /\ loop' = IF closed THEN [loop EXCEPT !.at = "done"]
                 ELSE IF queue = <<>> THEN [loop EXCEPT !.at = "parked"]
                 ELSE [at |-> "room", chunk |-> Head(queue), ctx |-> ctx]
      /\ UNCHANGED <<queue, closed, queued, faults, asks, inflight, cmdMu, rig, unpaced>>
      /\ UNCHANGED <<ctx, cancelled, aborter, silenced>>
  BY DEF Cat!LooksAtHead, Cat!textVars, Cat!rigVars, Cat!abortVars
<1>2. /\ loop' \in Loop /\ loop'.at \in {"done", "parked", "room"}
      /\ loop'.chunk <= queued
      /\ loop'.ctx = loop.ctx \/ loop'.ctx = ctx
  <2>1. /\ queue \in Seq(Nat) /\ loop \in Loop /\ ctx \in Nat /\ loop.chunk <= queued
        /\ \A j \in 1..Len(queue) : queue[j] <= queued
    BY CatTypes DEF Cat!CatInv, Cat!OnTheWay, Cat!ChunksInOrder
  <2>2. CASE loop' = [loop EXCEPT !.at = "done"] \/ loop' = [loop EXCEPT !.at = "parked"]
    BY <2>1, <2>2 DEF Loop, LoopAt
  <2>3. CASE /\ queue # <<>>
             /\ loop' = [at |-> "room", chunk |-> Head(queue), ctx |-> ctx]
    <3>1. Head(queue) \in Nat /\ Head(queue) = queue[1] /\ 1 \in 1..Len(queue)
      BY <2>1, <2>3, TailOf
    <3> QED
      BY <2>1, <2>3, <3>1 DEF Loop, LoopAt
  <2> QED
    BY <1>1, <2>2, <2>3
<1>3. Cat!TypeOK'
  BY <1>1, <1>2 DEF Cat!CatInv, Cat!TypeOK, Loop, LoopAt
<1>4. Cat!ChunksInOrder' /\ Cat!OnTheWay' /\ Cat!RoomIsKept'
  BY <1>1, <1>2 DEF Cat!CatInv, Cat!ChunksInOrder, Cat!Increasing, Cat!OnTheWay, Cat!RoomIsKept
<1>5. Cat!EstimateCovers' /\ Cat!NoOverrun' /\ Cat!AbortSilences'
  BY <1>1, <1>2 DEF Cat!CatInv, Cat!EstimateCovers, Cat!NoOverrun, Cat!AbortSilences
<1>6. Cat!AbortsBite'
  <2>1. loop'.ctx # ctx => Cat!Doomed'
    BY <1>1, <1>2 DEF Cat!CatInv, Cat!AbortsBite, Cat!Doomed, Cat!Aborted
  <2> QED
    BY <1>1, <1>2, <2>1 DEF Cat!CatInv, Cat!AbortsBite
<1> QED
  BY <1>3, <1>4, <1>5, <1>6 DEF Cat!CatInv

\* There is room, and nobody but the loop takes it.
LEMMA FindsRoomInv == Cat!CatInv /\ Cat!FindsRoom => Cat!CatInv'
<1> SUFFICES ASSUME Cat!CatInv, Cat!FindsRoom PROVE Cat!CatInv'
  OBVIOUS
<1>1. /\ loop.at = "room" /\ Cat!Room /\ Cat!Goes("recheck")
      /\ UNCHANGED <<queue, closed, queued, faults, asks, inflight, cmdMu, rig, unpaced, stale>>
      /\ UNCHANGED <<ctx, cancelled, aborter, silenced>>
  BY DEF Cat!FindsRoom, Cat!textVars, Cat!rigVars, Cat!abortVars
<1>2. /\ loop' \in Loop /\ loop'.at = "recheck" /\ loop'.chunk = loop.chunk
      /\ loop'.ctx = loop.ctx
  BY <1>1, CatTypes, MovedLoop DEF LoopAt
<1>3. Cat!TypeOK'
  BY <1>1, <1>2 DEF Cat!CatInv, Cat!TypeOK, Loop, LoopAt
<1>4. Cat!ChunksInOrder' /\ Cat!OnTheWay' /\ Cat!RoomIsKept'
  BY <1>1, <1>2 DEF Cat!CatInv, Cat!ChunksInOrder, Cat!Increasing, Cat!OnTheWay,
                    Cat!RoomIsKept, Cat!Room
<1>5. Cat!EstimateCovers' /\ Cat!NoOverrun' /\ Cat!AbortSilences'
  BY <1>1, <1>2 DEF Cat!CatInv, Cat!EstimateCovers, Cat!NoOverrun, Cat!AbortSilences
<1>6. Cat!AbortsBite'
  BY <1>1, <1>2 DEF Cat!CatInv, Cat!AbortsBite, Cat!Doomed, Cat!Aborted
<1> QED
  BY <1>3, <1>4, <1>5, <1>6 DEF Cat!CatInv

\* A wait or a transaction that fails goes back to the head, with the queue gone
\* unless it was an Abort that ended it.
LEMMA FailedInv ==
  ASSUME Cat!CatInv, Cat!RoomFails \/ Cat!GivesUp
  PROVE  Cat!CatInv'
<1>1. /\ loop.at \in {"room", "lost"} /\ Cat!Goes("head") /\ Cat!SeesError
      /\ faults' = faults \/ faults' = faults + 1
      /\ UNCHANGED <<closed, queued, asks, inflight, cmdMu, rig, unpaced>>
      /\ UNCHANGED <<ctx, cancelled, aborter, silenced>>
  BY DEF Cat!RoomFails, Cat!GivesUp, Cat!rigVars, Cat!abortVars
<1>2. /\ loop' \in Loop /\ loop'.at = "head" /\ loop'.chunk = loop.chunk
      /\ loop'.ctx = loop.ctx
  BY <1>1, CatTypes, MovedLoop DEF LoopAt
<1>3. /\ queue' \in Seq(Nat) /\ (queue' = queue \/ Len(queue') = 0) /\ stale' \in BOOLEAN
      /\ Cat!ChunksInOrder' /\ Cat!OnTheWay'
  <2>1. CASE UNCHANGED <<queue, stale>>
    BY <1>1, <1>2, <2>1, CatTypes
       DEF Cat!CatInv, Cat!ChunksInOrder, Cat!Increasing, Cat!OnTheWay
  <2>2. CASE Cat!Fail
    BY <1>1, <1>2, <2>2, QueueGone DEF Cat!Fail
  <2> QED
    BY <1>1, <2>1, <2>2 DEF Cat!SeesError
<1>4. Cat!TypeOK'
  <2>1. faults' \in Nat
    BY <1>1, CatTypes
  <2> QED
    BY <1>1, <1>2, <1>3, <2>1 DEF Cat!CatInv, Cat!TypeOK, Loop, LoopAt
<1>5. Cat!RoomIsKept' /\ Cat!EstimateCovers' /\ Cat!NoOverrun' /\ Cat!AbortSilences'
  BY <1>1, <1>2 DEF Cat!CatInv, Cat!RoomIsKept, Cat!EstimateCovers, Cat!NoOverrun,
                    Cat!AbortSilences
<1>6. Cat!AbortsBite'
  BY <1>1, <1>2, <1>3 DEF Cat!CatInv, Cat!AbortsBite, Cat!Doomed, Cat!Aborted
<1> QED
  BY <1>3, <1>4, <1>5, <1>6 DEF Cat!CatInv

\* A chunk taken off the queue is the first there is, and no Abort dropped it.
LEMMA RechecksInv == Cat!CatInv /\ Cat!Rechecks => Cat!CatInv'
<1> SUFFICES ASSUME Cat!CatInv, Cat!Rechecks PROVE Cat!CatInv'
  OBVIOUS
<1>1. /\ loop.at = "recheck"
      /\ UNCHANGED <<closed, queued, faults, asks, inflight, cmdMu, rig, unpaced, stale>>
      /\ UNCHANGED <<ctx, cancelled, aborter, silenced>>
  BY DEF Cat!Rechecks, Cat!rigVars, Cat!abortVars
<1>2. CASE UNCHANGED queue /\ Cat!Goes("head")
  <2>1. /\ loop' \in Loop /\ loop'.at = "head" /\ loop'.chunk = loop.chunk
        /\ loop'.ctx = loop.ctx
    BY <1>2, CatTypes, MovedLoop DEF LoopAt
  <2>2. Cat!TypeOK'
    BY <1>1, <1>2, <2>1 DEF Cat!CatInv, Cat!TypeOK, Loop, LoopAt
  <2>3. Cat!ChunksInOrder' /\ Cat!OnTheWay' /\ Cat!RoomIsKept'
    BY <1>1, <1>2, <2>1 DEF Cat!CatInv, Cat!ChunksInOrder, Cat!Increasing, Cat!OnTheWay,
                            Cat!RoomIsKept
  <2>4. Cat!EstimateCovers' /\ Cat!NoOverrun' /\ Cat!AbortSilences'
    BY <1>1, <2>1 DEF Cat!CatInv, Cat!EstimateCovers, Cat!NoOverrun, Cat!AbortSilences
  <2>5. Cat!AbortsBite'
    BY <1>1, <1>2, <2>1 DEF Cat!CatInv, Cat!AbortsBite, Cat!Doomed, Cat!Aborted
  <2> QED
    BY <2>2, <2>3, <2>4, <2>5 DEF Cat!CatInv
<1>3. CASE Cat!StillHead /\ queue' = Tail(queue) /\ Cat!Goes("send")
  <2>1. /\ loop' \in Loop /\ loop'.at = "send" /\ loop'.chunk = loop.chunk
        /\ loop'.ctx = loop.ctx
    BY <1>3, CatTypes, MovedLoop DEF LoopAt
  <2>2. /\ loop.chunk = queue[1] /\ 1 \in 1..Len(queue)
        /\ queue' \in Seq(Nat) /\ Len(queue') \in Nat /\ Len(queue') = Len(queue) - 1
        /\ \A j \in 1..Len(queue') : queue'[j] = queue[j + 1] /\ j + 1 \in 1..Len(queue)
    BY <1>3, CatTypes, TailOf DEF Cat!StillHead
  <2>3. Cat!TypeOK'
    BY <1>1, <2>1, <2>2 DEF Cat!CatInv, Cat!TypeOK, Loop, LoopAt
  <2>4. /\ Cat!Increasing(rig) /\ Cat!Increasing(queue)
        /\ \A j \in 1..Len(queue) :
              /\ 0 < queue[j] /\ queue[j] <= queued
              /\ \A i \in 1..Len(rig) : rig[i] < queue[j]
        /\ \A i \in 1..Len(rig) : rig[i] <= queued
    BY DEF Cat!CatInv, Cat!ChunksInOrder
  <2>5. \A i, j \in 1..Len(queue') : i < j => queue'[i] < queue'[j]
    <3> SUFFICES ASSUME NEW i \in 1..Len(queue'), NEW j \in 1..Len(queue'), i < j
                 PROVE  queue'[i] < queue'[j]
      OBVIOUS
    <3>1. /\ i + 1 \in 1..Len(queue) /\ j + 1 \in 1..Len(queue) /\ i + 1 < j + 1
          /\ queue'[i] = queue[i + 1] /\ queue'[j] = queue[j + 1]
      BY <2>2
    <3> QED
      BY <2>4, <3>1 DEF Cat!Increasing
  <2>6. \A j \in 1..Len(queue') : loop.chunk < queue'[j]
    <3> SUFFICES ASSUME NEW j \in 1..Len(queue') PROVE loop.chunk < queue'[j]
      OBVIOUS
    <3>1. j + 1 \in 1..Len(queue) /\ 1 < j + 1 /\ queue'[j] = queue[j + 1]
      BY <2>2
    <3> QED
      BY <2>2, <2>4, <3>1 DEF Cat!Increasing
  <2>7. Cat!ChunksInOrder'
    BY <1>1, <2>2, <2>4, <2>5 DEF Cat!ChunksInOrder, Cat!Increasing
  <2>8. Cat!OnTheWay'
    <3>1. ~stale
      BY <1>1, <2>2 DEF Cat!CatInv, Cat!OnTheWay
    <3>2. \A i \in 1..Len(rig) : rig[i] < loop.chunk
      BY <2>2, <2>4
    <3>3. loop.chunk <= queued
      BY DEF Cat!CatInv, Cat!OnTheWay
    <3> QED
      BY <1>1, <2>1, <2>6, <3>1, <3>2, <3>3 DEF Cat!OnTheWay
  <2>9. Cat!RoomIsKept' /\ Cat!EstimateCovers' /\ Cat!NoOverrun' /\ Cat!AbortSilences'
    BY <1>1, <2>1 DEF Cat!CatInv, Cat!RoomIsKept, Cat!EstimateCovers, Cat!NoOverrun,
                      Cat!AbortSilences
  <2>10. Cat!AbortsBite'
    <3>1. Cat!Doomed' <=> Cat!Doomed
      BY <1>1, <2>1 DEF Cat!Doomed, Cat!Aborted
    <3>2. /\ loop.ctx # ctx => Cat!Doomed
          /\ silenced <= queued
          /\ \A j \in 1..Len(queue) : queue[j] > silenced
          /\ \A a \in Aborters : aborter[a].at # "idle" =>
                /\ aborter[a].upTo <= queued /\ aborter[a].upTo \in Nat
                /\ \A j \in 1..Len(queue) : queue[j] > aborter[a].upTo
      BY DEF Cat!CatInv, Cat!TypeOK, Cat!AbortsBite
    <3>3. /\ ~(loop.chunk <= silenced)
          /\ \A a \in Aborters : aborter[a].at # "idle" => ~(loop.chunk <= aborter[a].upTo)
      BY <2>2, <3>2, CatTypes
    <3>4. /\ \A j \in 1..Len(queue') : queue'[j] > silenced
          /\ \A a \in Aborters : aborter[a].at # "idle" =>
                \A j \in 1..Len(queue') : queue'[j] > aborter[a].upTo
      BY <2>2, <3>2
    <3> QED
      BY <1>1, <2>1, <3>1, <3>2, <3>3, <3>4 DEF Cat!AbortsBite
  <2> QED
    BY <2>3, <2>7, <2>8, <2>9, <2>10 DEF Cat!CatInv
<1> QED
  BY <1>2, <1>3 DEF Cat!Rechecks

\* A chunk whose context is live begins its transaction, and holds up any stop
\* until it is written.
LEMMA SendBeginsInv == Cat!CatInv /\ Cat!SendBegins => Cat!CatInv'
<1> SUFFICES ASSUME Cat!CatInv, Cat!SendBegins PROVE Cat!CatInv'
  OBVIOUS
<1>1. /\ loop.at = "send"
      /\ UNCHANGED <<queue, closed, queued, faults, asks, inflight, rig, unpaced, stale>>
      /\ UNCHANGED <<ctx, cancelled, aborter, silenced>>
      /\ \/ Cat!Aborted /\ Cat!Goes("head") /\ cmdMu' = cmdMu
         \/ ~Cat!Aborted /\ Cat!Goes("writing") /\ cmdMu' = TRUE
  BY DEF Cat!SendBegins, Cat!textVars, Cat!rigVars, Cat!abortVars
<1>2. /\ loop' \in Loop /\ loop'.chunk = loop.chunk /\ loop'.ctx = loop.ctx
      /\ loop'.at = "head" \/ (loop'.at = "writing" /\ cmdMu' = TRUE /\ ~Cat!Aborted)
      /\ cmdMu' \in BOOLEAN
  <2>1. "head" \in LoopAt /\ "writing" \in LoopAt /\ loop \in Loop /\ cmdMu \in BOOLEAN
    BY CatTypes DEF LoopAt, Cat!CatInv, Cat!TypeOK
  <2> QED
    BY <1>1, <2>1, MovedLoop
<1>3. Cat!TypeOK'
  BY <1>1, <1>2 DEF Cat!CatInv, Cat!TypeOK, Loop, LoopAt
<1>4. Cat!ChunksInOrder' /\ Cat!OnTheWay' /\ Cat!RoomIsKept'
  BY <1>1, <1>2 DEF Cat!CatInv, Cat!ChunksInOrder, Cat!Increasing, Cat!OnTheWay, Cat!RoomIsKept
<1>5. Cat!EstimateCovers' /\ Cat!NoOverrun' /\ Cat!AbortSilences'
  BY <1>1, <1>2 DEF Cat!CatInv, Cat!EstimateCovers, Cat!NoOverrun, Cat!AbortSilences
<1>6. Cat!AbortsBite'
  <2>1. Cat!Doomed' <=> Cat!Doomed
    BY <1>1, <1>2 DEF Cat!Doomed, Cat!Aborted
  <2>2. ~Cat!Aborted => loop.chunk > silenced
    BY <1>1, CatTypes DEF Cat!CatInv, Cat!AbortsBite
  <2> QED
    BY <1>1, <1>2, <2>1, <2>2 DEF Cat!CatInv, Cat!AbortsBite
<1> QED
  BY <1>3, <1>4, <1>5, <1>6 DEF Cat!CatInv
\* A chunk written comes after all the radio has, where there was room for it,
\* and the estimate is about to know of it, or is known not to.
LEMMA SendWritesInv == Cat!CatInv /\ Cat!SendWrites => Cat!CatInv'
<1> SUFFICES ASSUME Cat!CatInv, Cat!SendWrites PROVE Cat!CatInv'
  OBVIOUS
<1>1. /\ loop.at = "writing" /\ rig' = Append(rig, loop.chunk) /\ cmdMu' = FALSE
      /\ UNCHANGED <<queue, closed, queued, asks, inflight, stale>>
      /\ UNCHANGED <<ctx, cancelled, aborter, silenced>>
      /\ \/ Cat!Goes("sent") /\ UNCHANGED <<faults, unpaced>>
         \/ /\ Cat!Goes("lost") /\ unpaced' = TRUE
            /\ faults' = faults \/ faults' = faults + 1
  BY DEF Cat!SendWrites, Cat!textVars, Cat!abortVars
<1>2. /\ loop' \in Loop /\ loop'.chunk = loop.chunk /\ loop'.ctx = loop.ctx
      /\ (loop'.at = "sent" /\ unpaced' = unpaced) \/ (loop'.at = "lost" /\ unpaced' = TRUE)
  <2>1. "sent" \in LoopAt /\ "lost" \in LoopAt /\ loop \in Loop
    BY CatTypes DEF LoopAt
  <2> QED
    BY <1>1, <2>1, MovedLoop
<1>3. /\ rig' \in Seq(Nat) /\ Len(rig') = Len(rig) + 1 /\ Len(rig) \in Nat
      /\ \A i \in 1..Len(rig) : rig'[i] = rig[i]
      /\ rig'[Len(rig')] = loop.chunk
      /\ \A i \in 1..Len(rig') : i \in 1..Len(rig) \/ i = Len(rig')
  BY <1>1, CatTypes, AppendProperties
<1>4. /\ loop.chunk <= queued /\ loop.chunk > silenced
      /\ \A i \in 1..Len(rig) : rig[i] < loop.chunk
      /\ \A j \in 1..Len(queue) : loop.chunk < queue[j]
  BY <1>1 DEF Cat!CatInv, Cat!OnTheWay, Cat!AbortsBite
<1>5. Cat!TypeOK'
  <2>1. faults' \in Nat
    BY <1>1, CatTypes
  <2>2. unpaced' \in BOOLEAN
    BY <1>2, CatTypes, Zenon
  <2> QED
    BY <1>1, <1>2, <1>3, <2>1, <2>2 DEF Cat!CatInv, Cat!TypeOK, Loop, LoopAt
<1>6. Cat!ChunksInOrder'
  <2>1. Cat!Increasing(rig)'
    <3> SUFFICES ASSUME NEW i \in 1..Len(rig'), NEW j \in 1..Len(rig'), i < j
                 PROVE  rig'[i] < rig'[j]
      BY DEF Cat!Increasing
    <3>1. i \in 1..Len(rig) /\ rig'[i] = rig[i]
      BY <1>3
    <3>2. CASE j = Len(rig')
      BY <1>3, <1>4, <3>1, <3>2
    <3>3. CASE j \in 1..Len(rig)
      BY <1>3, <3>1, <3>3 DEF Cat!CatInv, Cat!ChunksInOrder, Cat!Increasing
    <3> QED
      BY <1>3, <3>2, <3>3
  <2>2. \A i \in 1..Len(rig') : rig'[i] <= queued /\ \A j \in 1..Len(queue) : rig'[i] < queue[j]
    BY <1>3, <1>4 DEF Cat!CatInv, Cat!ChunksInOrder
  <2> QED
    BY <1>1, <2>1, <2>2 DEF Cat!CatInv, Cat!ChunksInOrder, Cat!Increasing
<1>7. Cat!OnTheWay' /\ Cat!RoomIsKept'
  BY <1>1, <1>2, <1>4 DEF Cat!OnTheWay, Cat!RoomIsKept
<1>8. Cat!EstimateCovers'
  <2> SUFFICES ASSUME ~unpaced' PROVE Cat!EstimateCovers'
    BY DEF Cat!EstimateCovers
  <2>1. loop'.at = "sent" /\ ~unpaced
    BY <1>2
  <2>2. PICK est : est = Append(inflight, loop.chunk)
    OBVIOUS
  <2>3. /\ Len(est) = Len(inflight) + 1 /\ Len(inflight) \in Nat
        /\ \A i \in 1..Len(inflight) : est[i] = inflight[i]
        /\ est[Len(inflight) + 1] = loop.chunk
    BY <2>2, CatTypes, AppendProperties
  <2>4. /\ Len(rig) <= Len(inflight)
        /\ \A i \in 1..Len(rig) : rig[i] = inflight[i + Len(inflight) - Len(rig)]
    BY <1>1, <2>1 DEF Cat!CatInv, Cat!EstimateCovers
  <2>5. ASSUME NEW i \in 1..Len(rig') PROVE rig'[i] = est[i + Len(est) - Len(rig')]
    <3>1. CASE i \in 1..Len(rig)
      <4>1. /\ i + Len(est) - Len(rig') = i + Len(inflight) - Len(rig)
            /\ i + Len(inflight) - Len(rig) \in 1..Len(inflight)
        BY <1>3, <2>3, <2>4, <3>1
      <4> QED
        BY <1>3, <2>3, <2>4, <3>1, <4>1
    <3>2. CASE i = Len(rig')
      <4>1. i + Len(est) - Len(rig') = Len(inflight) + 1
        BY <1>3, <2>3, <3>2
      <4> QED
        BY <1>3, <2>3, <3>2, <4>1
    <3> QED
      BY <1>3, <3>1, <3>2
  <2>6. Len(rig') <= Len(est)
    BY <1>3, <2>3, <2>4
  <2> QED
    BY <1>1, <1>2, <2>1, <2>2, <2>5, <2>6 DEF Cat!EstimateCovers
<1>9. Cat!NoOverrun'
  <2>1. asks => Len(rig) < RigRoom
    BY <1>1 DEF Cat!CatInv, Cat!RoomIsKept
  <2>2. ~asks /\ ~unpaced => Len(rig) <= Len(inflight) /\ Len(inflight) <= ChunksInFlight
    BY <1>1 DEF Cat!CatInv, Cat!RoomIsKept, Cat!EstimateCovers
  <2>3. ~unpaced' => ~unpaced
    BY <1>2
  <2> QED
    BY <1>1, <1>3, <2>1, <2>2, <2>3, CatTypes, KeyerAssumption DEF Cat!NoOverrun
<1>10. Cat!AbortSilences'
  BY <1>1, <1>3, <1>4 DEF Cat!CatInv, Cat!AbortSilences
<1>11. Cat!AbortsBite'
  BY <1>1, <1>2 DEF Cat!CatInv, Cat!AbortsBite, Cat!Doomed, Cat!Aborted
<1> QED
  BY <1>5, <1>6, <1>7, <1>8, <1>9, <1>10, <1>11 DEF Cat!CatInv

\* The radio refuses the chunk, or the link fails (catSender.run).
LEMMA SendFailsInv == Cat!CatInv /\ Cat!SendFails => Cat!CatInv'
<1> SUFFICES ASSUME Cat!CatInv, Cat!SendFails PROVE Cat!CatInv'
  OBVIOUS
<1>1. /\ loop.at = "writing" /\ faults' = faults + 1 /\ cmdMu' = FALSE /\ Cat!Goes("lost")
      /\ UNCHANGED <<queue, closed, queued, asks, inflight, rig, unpaced, stale>>
      /\ UNCHANGED <<ctx, cancelled, aborter, silenced>>
  BY DEF Cat!SendFails, Cat!textVars, Cat!rigVars, Cat!abortVars
<1>2. /\ loop' \in Loop /\ loop'.at = "lost" /\ loop'.chunk = loop.chunk
      /\ loop'.ctx = loop.ctx
  BY <1>1, CatTypes, MovedLoop DEF LoopAt
<1>3. Cat!TypeOK'
  <2>1. faults' \in Nat
    BY <1>1, CatTypes
  <2> QED
    BY <1>1, <1>2, <2>1 DEF Cat!CatInv, Cat!TypeOK, Loop, LoopAt
<1>4. Cat!ChunksInOrder' /\ Cat!OnTheWay' /\ Cat!RoomIsKept'
  BY <1>1, <1>2 DEF Cat!CatInv, Cat!ChunksInOrder, Cat!Increasing, Cat!OnTheWay, Cat!RoomIsKept
<1>5. Cat!EstimateCovers' /\ Cat!NoOverrun' /\ Cat!AbortSilences'
  BY <1>1, <1>2 DEF Cat!CatInv, Cat!EstimateCovers, Cat!NoOverrun, Cat!AbortSilences
<1>6. Cat!AbortsBite'
  BY <1>1, <1>2 DEF Cat!CatInv, Cat!AbortsBite, Cat!Doomed, Cat!Aborted
<1> QED
  BY <1>3, <1>4, <1>5, <1>6 DEF Cat!CatInv

\* The estimate knows of the chunk that was written.
LEMMA RecordsInv == Cat!CatInv /\ Cat!Records => Cat!CatInv'
<1> SUFFICES ASSUME Cat!CatInv, Cat!Records PROVE Cat!CatInv'
  OBVIOUS
<1>1. /\ loop.at = "sent" /\ inflight' = Append(inflight, loop.chunk) /\ Cat!Goes("head")
      /\ UNCHANGED <<queue, closed, queued, faults, asks, cmdMu, rig, unpaced, stale>>
      /\ UNCHANGED <<ctx, cancelled, aborter, silenced>>
  BY DEF Cat!Records, Cat!textVars, Cat!rigVars, Cat!abortVars
<1>2. /\ loop' \in Loop /\ loop'.at = "head" /\ loop'.chunk = loop.chunk
      /\ loop'.ctx = loop.ctx
  BY <1>1, CatTypes, MovedLoop DEF LoopAt
<1>3. inflight' \in Seq(Nat)
  BY <1>1, CatTypes, AppendProperties
<1>4. Cat!TypeOK'
  BY <1>1, <1>2, <1>3 DEF Cat!CatInv, Cat!TypeOK, Loop, LoopAt
<1>5. Cat!ChunksInOrder' /\ Cat!OnTheWay' /\ Cat!RoomIsKept'
  BY <1>1, <1>2 DEF Cat!CatInv, Cat!ChunksInOrder, Cat!Increasing, Cat!OnTheWay, Cat!RoomIsKept
<1>6. Cat!EstimateCovers' /\ Cat!NoOverrun' /\ Cat!AbortSilences'
  BY <1>1, <1>2 DEF Cat!CatInv, Cat!EstimateCovers, Cat!NoOverrun, Cat!AbortSilences
<1>7. Cat!AbortsBite'
  BY <1>1, <1>2 DEF Cat!CatInv, Cat!AbortsBite, Cat!Doomed, Cat!Aborted
<1> QED
  BY <1>4, <1>5, <1>6, <1>7 DEF Cat!CatInv

\* The radio keys the first chunk it has; with none left there is nothing that
\* the estimate does not know of.
LEMMA RigKeysInv == Cat!CatInv /\ Cat!RigKeys => Cat!CatInv'
<1> SUFFICES ASSUME Cat!CatInv, Cat!RigKeys PROVE Cat!CatInv'
  OBVIOUS
<1>1. /\ rig # <<>> /\ rig' = Tail(rig) /\ unpaced' = (unpaced /\ Len(rig) > 1)
      /\ UNCHANGED <<queue, closed, queued, faults, asks, inflight, loop, cmdMu, stale>>
      /\ UNCHANGED <<ctx, cancelled, aborter, silenced>>
  BY DEF Cat!RigKeys, Cat!textVars, Cat!abortVars
<1>2. /\ rig' \in Seq(Nat) /\ Len(rig') \in Nat /\ Len(rig') = Len(rig) - 1
      /\ \A i \in 1..Len(rig') : rig'[i] = rig[i + 1] /\ i + 1 \in 1..Len(rig)
  BY <1>1, CatTypes, TailOf
<1>3. Cat!TypeOK'
  <2>1. unpaced' \in BOOLEAN
    BY <1>1, CatTypes
  <2> QED
    BY <1>1, <1>2, <2>1 DEF Cat!CatInv, Cat!TypeOK
<1>4. Cat!ChunksInOrder'
  <2>1. Cat!Increasing(rig)'
    <3> SUFFICES ASSUME NEW i \in 1..Len(rig'), NEW j \in 1..Len(rig'), i < j
                 PROVE  rig'[i] < rig'[j]
      BY DEF Cat!Increasing
    <3>1. /\ i + 1 \in 1..Len(rig) /\ j + 1 \in 1..Len(rig) /\ i + 1 < j + 1
          /\ rig'[i] = rig[i + 1] /\ rig'[j] = rig[j + 1]
      BY <1>2
    <3> QED
      BY <3>1 DEF Cat!CatInv, Cat!ChunksInOrder, Cat!Increasing
  <2> QED
    BY <1>1, <1>2, <2>1 DEF Cat!CatInv, Cat!ChunksInOrder, Cat!Increasing
<1>5. Cat!OnTheWay'
  BY <1>1, <1>2 DEF Cat!CatInv, Cat!OnTheWay
<1>6. Cat!RoomIsKept' /\ Cat!NoOverrun'
  <2>1. Len(rig') < Len(rig) /\ Len(rig) \in Nat
    BY <1>2, CatTypes
  <2>2. ASSUME ~asks, ~unpaced' PROVE Len(rig') <= ChunksInFlight + 1
    <3>1. CASE unpaced
      <4>1. ~(Len(rig) > 1)
        BY <1>1, <3>1, <2>2
      <4> QED
        BY <1>2, <2>1, <4>1, KeyerAssumption
    <3>2. CASE ~unpaced
      BY <1>2, <2>1, <2>2, <3>2, KeyerAssumption DEF Cat!CatInv, Cat!NoOverrun
    <3> QED
      BY <3>1, <3>2
  <2>3. asks => Len(rig') <= RigRoom
    BY <1>2, <2>1, KeyerAssumption DEF Cat!CatInv, Cat!NoOverrun
  <2>4. Cat!RoomIsKept'
    BY <1>1, <1>2, <2>1, KeyerAssumption DEF Cat!CatInv, Cat!RoomIsKept
  <2> QED
    BY <1>1, <2>2, <2>3, <2>4 DEF Cat!NoOverrun
<1>7. Cat!EstimateCovers'
  <2>1. PICK est : est = IF loop.at = "sent" THEN Append(inflight, loop.chunk) ELSE inflight
    OBVIOUS
  <2>2. Len(est) \in Nat
    BY <2>1, CatTypes, AppendProperties, LenProperties
  <2>3. ASSUME ~unpaced'
        PROVE  /\ Len(rig') <= Len(est)
               /\ \A i \in 1..Len(rig') : rig'[i] = est[i + Len(est) - Len(rig')]
    <3>1. CASE unpaced
      <4>0. ~(Len(rig) > 1)
        BY <1>1, <2>3, <3>1
      <4>1. Len(rig') = 0
        BY <1>2, <4>0, CatTypes
      <4> QED
        BY <2>2, <4>1
    <3>2. CASE ~unpaced
      <4>1. /\ Len(rig) <= Len(est)
            /\ \A i \in 1..Len(rig) : rig[i] = est[i + Len(est) - Len(rig)]
        BY <2>1, <3>2 DEF Cat!CatInv, Cat!EstimateCovers
      <4>2. ASSUME NEW i \in 1..Len(rig') PROVE rig'[i] = est[i + Len(est) - Len(rig')]
        <5>1. i + 1 \in 1..Len(rig) /\ (i + 1) + Len(est) - Len(rig) = i + Len(est) - Len(rig')
          BY <1>2, <2>2, CatTypes
        <5> QED
          BY <1>2, <4>1, <5>1
      <4> QED
        BY <1>2, <2>2, <4>1, <4>2, CatTypes
    <3> QED
      BY <3>1, <3>2
  <2> QED
    BY <1>1, <2>1, <2>3 DEF Cat!EstimateCovers
<1>8. Cat!AbortSilences' /\ Cat!AbortsBite'
  BY <1>1, <1>2 DEF Cat!CatInv, Cat!AbortSilences, Cat!AbortsBite, Cat!Doomed, Cat!Aborted
<1> QED
  BY <1>3, <1>4, <1>5, <1>6, <1>7, <1>8 DEF Cat!CatInv

\* While the estimate knows of all the radio has, it outlives it.
LEMMA ElapsesInv == Cat!CatInv /\ Cat!Elapses => Cat!CatInv'
<1> SUFFICES ASSUME Cat!CatInv, Cat!Elapses PROVE Cat!CatInv'
  OBVIOUS
<1>1. /\ inflight # <<>> /\ inflight' = Tail(inflight)
      /\ unpaced \/ Head(inflight) \notin Cat!ToSet(rig)
      /\ UNCHANGED <<queue, closed, queued, faults, asks, loop, cmdMu, rig, unpaced, stale>>
      /\ UNCHANGED <<ctx, cancelled, aborter, silenced>>
  BY DEF Cat!Elapses, Cat!textVars, Cat!rigVars, Cat!abortVars
<1>2. /\ inflight' \in Seq(Nat) /\ Len(inflight') \in Nat /\ Len(inflight) \in Nat
      /\ Len(inflight') = Len(inflight) - 1 /\ 1 \in 1..Len(inflight)
      /\ Head(inflight) = inflight[1]
      /\ \A i \in 1..Len(inflight') : inflight'[i] = inflight[i + 1] /\ i + 1 \in 1..Len(inflight)
  BY <1>1, CatTypes, TailOf
<1>3. Cat!TypeOK'
  BY <1>1, <1>2 DEF Cat!CatInv, Cat!TypeOK
<1>4. Cat!ChunksInOrder' /\ Cat!OnTheWay' /\ Cat!NoOverrun' /\ Cat!AbortSilences'
  BY <1>1 DEF Cat!CatInv, Cat!ChunksInOrder, Cat!Increasing, Cat!OnTheWay, Cat!NoOverrun,
              Cat!AbortSilences
<1>5. Cat!RoomIsKept'
  BY <1>1, <1>2, KeyerAssumption DEF Cat!CatInv, Cat!RoomIsKept
<1>6. Cat!AbortsBite'
  BY <1>1 DEF Cat!CatInv, Cat!AbortsBite, Cat!Doomed, Cat!Aborted
<1>7. Cat!EstimateCovers'
  <2> SUFFICES ASSUME ~unpaced PROVE Cat!EstimateCovers'
    BY <1>1 DEF Cat!EstimateCovers
  <2>1. PICK est, left :
          /\ est = IF loop.at = "sent" THEN Append(inflight, loop.chunk) ELSE inflight
          /\ left = IF loop.at = "sent" THEN Append(inflight', loop.chunk) ELSE inflight'
    OBVIOUS
  <2>2. /\ Len(est) \in Nat /\ Len(left) = Len(est) - 1 /\ est[1] = inflight[1]
        /\ \A i \in 1..Len(left) : left[i] = est[i + 1]
    <3>1. CASE loop.at # "sent"
      BY <1>2, <2>1, <3>1
    <3>2. CASE loop.at = "sent"
      <4>1. /\ Len(est) = Len(inflight) + 1 /\ Len(left) = Len(inflight') + 1
            /\ \A i \in 1..Len(inflight) : est[i] = inflight[i]
            /\ est[Len(inflight) + 1] = loop.chunk
            /\ \A i \in 1..Len(inflight') : left[i] = inflight'[i]
            /\ left[Len(inflight') + 1] = loop.chunk
        BY <1>2, <2>1, <3>2, CatTypes, AppendProperties
      <4>2. ASSUME NEW i \in 1..Len(left) PROVE left[i] = est[i + 1]
        <5>1. CASE i \in 1..Len(inflight')
          BY <1>2, <4>1, <5>1
        <5>2. CASE i = Len(inflight') + 1
          <6>1. i + 1 = Len(inflight) + 1
            BY <1>2, <5>2
          <6> QED
            BY <4>1, <5>2, <6>1
        <5> QED
          BY <1>2, <4>1, <5>1, <5>2
      <4> QED
        BY <1>2, <4>1, <4>2
    <3> QED
      BY <3>1, <3>2
  <2>3. /\ Len(rig) <= Len(est)
        /\ \A i \in 1..Len(rig) : rig[i] = est[i + Len(est) - Len(rig)]
    BY <2>1 DEF Cat!CatInv, Cat!EstimateCovers
  <2>4. Len(rig) <= Len(left)
    <3> SUFFICES ASSUME Len(rig) = Len(est), Len(est) # 0 PROVE FALSE
      BY <1>2, <2>1, <2>2, <2>3, CatTypes, AppendProperties
    <3>1. 1 \in 1..Len(rig) /\ 1 + Len(est) - Len(rig) = 1
      BY <2>2
    <3>2. rig[1] = Head(inflight)
      BY <1>2, <2>2, <2>3, <3>1
    <3>3. DOMAIN rig = 1..Len(rig)
      BY CatTypes, LenProperties
    <3> QED
      BY <1>1, <3>1, <3>2, <3>3 DEF Cat!ToSet
  <2>5. ASSUME NEW i \in 1..Len(rig) PROVE rig[i] = left[i + Len(left) - Len(rig)]
    <3>1. /\ i + Len(left) - Len(rig) \in 1..Len(left)
          /\ (i + Len(left) - Len(rig)) + 1 = i + Len(est) - Len(rig)
      BY <2>2, <2>4, CatTypes
    <3> QED
      BY <2>2, <2>3, <3>1
  <2> QED
    BY <1>1, <2>1, <2>4, <2>5 DEF Cat!EstimateCovers
<1> QED
  BY <1>3, <1>4, <1>5, <1>6, <1>7 DEF Cat!CatInv

\* CatInv is inductive.
LEMMA CatInvStep == Cat!CatInv /\ Cat!Next => Cat!CatInv'
BY CatEnqueueInv, AbortSwapsInv, AbortCancelsInv, AbortStopsInv, CatCloseInv,
   LooksAtHeadInv, FindsRoomInv, FailedInv, RechecksInv, SendBeginsInv, SendWritesInv,
   SendFailsInv, RecordsInv, RigKeysInv, ElapsesInv
   DEF Cat!Next, Cat!LoopStep, Cat!AbortStep
-----------------------------------------------------------------------------
(* The theorems                                                             *)

\* What each sender's step leaves alone, and what a stutter does.
LEMMA StepOfOne ==
  ASSUME [Next]_vars
  PROVE  \/ method = "cat" /\ Cat!Next /\ UNCHANGED <<method, serialVars>>
         \/ method = "serial_key" /\ Serial!Next /\ UNCHANGED <<method, catVars>>
         \/ UNCHANGED <<method, queue, closed, queued, aborts, faults, catVars, serialVars>>
BY DEF Next, CatStep, SerialStep, vars

\* What is queued for the serial sender is numbered, as for the other.
LEMMA SerialQueueGrows ==
  ASSUME Serial!SerialInv, Cat!Increasing(queue), Serial!Next
  PROVE  Cat!Increasing(queue)'
<1>1. /\ queue \in Seq(Nat) /\ queued \in Nat /\ Len(queue) \in Nat
      /\ \A i \in 1..Len(queue) : queue[i] <= queued /\ queue[i] \in Nat
  BY LenProperties, ElementOfSeq
     DEF Serial!SerialInv, Serial!TypeOK, Serial!QueueIsFresh
<1>2. CASE queue' = queue
  BY <1>2 DEF Cat!Increasing
<1>3. CASE queue' = <<>>
  <2>1. Len(queue') = 0
    BY <1>3, EmptySeq
  <2> QED
    BY <2>1 DEF Cat!Increasing
<1>4. CASE queue # <<>> /\ queue' = Tail(queue)
  <2>1. \A i \in 1..Len(queue') : queue'[i] = queue[i + 1] /\ i + 1 \in 1..Len(queue)
    BY <1>1, <1>4, TailOf
  <2>2. \A i, j \in 1..Len(queue') : i < j => i + 1 < j + 1
    BY <1>1, <1>4, TailOf
  <2> QED
    BY <2>1, <2>2 DEF Cat!Increasing
<1>5. CASE queued' = queued + 1 /\ queue' = <<queued'>>
  <2>1. Len(queue') = 1
    BY <1>5
  <2> QED
    BY <2>1 DEF Cat!Increasing
<1>6. CASE queued' = queued + 1 /\ queue' = Append(queue, queued')
  <2>1. queued' \in Nat /\ queued' > queued
    BY <1>1, <1>6
  <2>2. /\ Len(queue') = Len(queue) + 1 /\ queue'[Len(queue) + 1] = queued'
        /\ \A i \in 1..Len(queue) : queue'[i] = queue[i]
    BY <1>1, <1>6, <2>1, AppendProperties
  <2> SUFFICES ASSUME NEW i \in 1..Len(queue'), NEW j \in 1..Len(queue'), i < j
               PROVE  queue'[i] < queue'[j]
    BY DEF Cat!Increasing
  <2>3. i \in 1..Len(queue) /\ queue'[i] = queue[i]
    BY <1>1, <2>2
  <2>4. CASE j \in 1..Len(queue)
    BY <2>2, <2>3, <2>4 DEF Cat!Increasing
  <2>5. CASE j = Len(queue) + 1
    BY <1>1, <2>1, <2>2, <2>3, <2>5
  <2> QED
    BY <1>1, <2>2, <2>4, <2>5
<1>7. \/ queue' = queue \/ queue' = <<>>
      \/ queue # <<>> /\ queue' = Tail(queue)
      \/ queued' = queued + 1 /\ (queue' = <<queued'>> \/ queue' = Append(queue, queued'))
  BY DEF Serial!Next, Serial!KeyerStep, Serial!Enqueue, Serial!Signals, Serial!Abort,
         Serial!Close, Serial!AbortLocked, Serial!Top, Serial!Unparks, Serial!RaisesPTT,
         Serial!AssertLine, Serial!TakesSymbol, Serial!GapEnds, Serial!RaisesKey,
         Serial!MarkEnds, Serial!DropsKey, Serial!TailLooks, Serial!TailWakes,
         Serial!TailEnds, Serial!DropsPTT, Serial!Leaves, Serial!textVars
<1> QED
  BY <1>2, <1>3, <1>4, <1>5, <1>6, <1>7

\* One sender exists, and its invariant holds.
LEMMA KeyerInvHolds == Spec => []KeyerInv
<1>1. Init => KeyerInv
  <2> SUFFICES ASSUME Init PROVE KeyerInv
    OBVIOUS
  <2>1. Cat!CatInv /\ Serial!SerialInv
    BY InitCatInv, InitInv DEF Init
  <2>2. Cat!Increasing(queue)
    BY <2>1 DEF Cat!CatInv, Cat!ChunksInOrder
  <2>3. method = "cat" => NoSerial
    BY DEF Init, Serial!Init, NoSerial
  <2>4. method = "serial_key" => NoCat
    BY DEF Init, Cat!Init, NoCat
  <2> QED
    BY <2>1, <2>2, <2>3, <2>4 DEF Init, KeyerInv
<1>2. KeyerInv /\ [Next]_vars => KeyerInv'
  <2> SUFFICES ASSUME KeyerInv, [Next]_vars PROVE KeyerInv'
    OBVIOUS
  <2>1. CASE method = "cat" /\ Cat!Next /\ UNCHANGED <<method, serialVars>>
    <3>1. Cat!CatInv'
      BY <2>1, CatInvStep DEF KeyerInv
    <3>2. NoSerial'
      BY <2>1 DEF KeyerInv, NoSerial, serialVars
    <3> QED
      BY <2>1, <3>1, <3>2 DEF KeyerInv
  <2>2. CASE method = "serial_key" /\ Serial!Next /\ UNCHANGED <<method, catVars>>
    <3>1. Serial!SerialInv' /\ Cat!Increasing(queue)'
      BY <2>2, SerialInvStep, SerialQueueGrows DEF KeyerInv
    <3>2. NoCat'
      BY <2>2 DEF KeyerInv, NoCat, catVars
    <3> QED
      BY <2>2, <3>1, <3>2 DEF KeyerInv
  <2>3. CASE UNCHANGED <<method, queue, closed, queued, aborts, faults, catVars, serialVars>>
    <3>1. CASE method = "cat"
      <4>1. Cat!CatInv
        BY <3>1 DEF KeyerInv
      <4>2. UNCHANGED <<queue, closed, queued, aborts, faults, catVars>>
        BY <2>3
      <4>3. Cat!CatInv'
        BY <4>1, <4>2
           DEF Cat!CatInv, Cat!TypeOK, Cat!ChunksInOrder, Cat!Increasing, Cat!OnTheWay,
               Cat!RoomIsKept, Cat!EstimateCovers, Cat!AbortsBite, Cat!Doomed, Cat!Aborted,
               Cat!NoOverrun, Cat!AbortSilences, catVars
      <4> QED
        BY <2>3, <3>1, <4>3 DEF KeyerInv, NoSerial, serialVars
    <3>2. CASE method = "serial_key"
      <4>1. Serial!SerialInv'
        BY <2>3, <3>2, StutterInv DEF KeyerInv, serialVars, Serial!vars, Serial!textVars,
           Serial!genVars, Serial!wakeVars, Serial!lineVars
      <4> QED
        BY <2>3, <3>2, <4>1 DEF KeyerInv, NoCat, catVars, Cat!Increasing
    <3> QED
      BY <3>1, <3>2 DEF KeyerInv
  <2> QED
    BY <2>1, <2>2, <2>3, StepOfOne
<1> QED
  BY <1>1, <1>2, PTL DEF Spec

\* However many texts are queued, Aborts called and writes failed, a raised line
\* belongs to the transmission under way, and what keeps it so (serialSender,
\* under s.mu).
THEOREM KeyerLines == Spec => []SerialInv
<1>1. KeyerInv => SerialInv
  <2> SUFFICES ASSUME method = "cat", Cat!CatInv, NoSerial PROVE Serial!SerialInv
    BY DEF KeyerInv, SerialInv
  <2>1. Serial!TypeOK
    <3>1. keyer \in [at : Serial!Places, gen : Nat, chan : Nat, sym : Nat, left : Int]
      BY DEF NoSerial
    <3> QED
      BY <3>1 DEF NoSerial, Serial!TypeOK, Cat!CatInv, Cat!TypeOK
  <2>2. Serial!QueueIsFresh
    BY DEF NoSerial, Serial!QueueIsFresh, Cat!CatInv, Cat!TypeOK, Cat!ChunksInOrder
  <2>3. Serial!ChannelTellsGen /\ Serial!PTTIsHeld /\ Serial!SymbolIsFresh
    BY DEF NoSerial, Serial!ChannelTellsGen, Serial!PTTIsHeld, Serial!SymbolIsFresh
  <2>4. Serial!LinesAreOwned
    BY DEF NoSerial, Serial!LinesAreOwned
  <2> QED
    BY <2>1, <2>2, <2>3, <2>4 DEF Serial!SerialInv
<1> QED
  BY <1>1, KeyerInvHolds, PTL

\* Once an Abort has returned and the radio took the order, nothing of before it
\* sounds, whichever goroutines abort meanwhile (catSender.Abort).
THEOREM KeyerAborts == Spec => []AbortSilences
<1>1. KeyerInv => AbortSilences
  <2>1. Len(<<>>) = 0
    BY EmptySeq
  <2> QED
    BY <2>1 DEF KeyerInv, NoCat, AbortSilences, Cat!CatInv, Cat!AbortSilences
<1> QED
  BY <1>1, KeyerInvHolds, PTL

\* The chunks of two sequences in order, one after the other.
LEMMA InOrder ==
  ASSUME NEW s \in Seq(Nat), NEW t \in Seq(Nat), Cat!Increasing(s), Cat!Increasing(t),
         \A i \in 1..Len(s), j \in 1..Len(t) : s[i] < t[j]
  PROVE  s \o t \in Seq(Nat) /\ Cat!Increasing(s \o t)
<1>1. /\ s \o t \in Seq(Nat) /\ Len(s \o t) = Len(s) + Len(t)
      /\ \A i \in 1..Len(s) + Len(t) :
            (s \o t)[i] = IF i <= Len(s) THEN s[i] ELSE t[i - Len(s)]
      /\ Len(s) \in Nat /\ Len(t) \in Nat
  BY ConcatProperties, LenProperties
<1> SUFFICES ASSUME NEW i \in 1..Len(s \o t), NEW j \in 1..Len(s \o t), i < j
             PROVE  (s \o t)[i] < (s \o t)[j]
  BY <1>1 DEF Cat!Increasing
<1>2. CASE j <= Len(s)
  BY <1>1, <1>2 DEF Cat!Increasing
<1>3. CASE i <= Len(s) /\ j > Len(s)
  <2>1. i \in 1..Len(s) /\ j - Len(s) \in 1..Len(t)
    BY <1>1, <1>3
  <2> QED
    BY <1>1, <1>3, <2>1
<1>4. CASE i > Len(s)
  <2>1. /\ i - Len(s) \in 1..Len(t) /\ j - Len(s) \in 1..Len(t)
        /\ i - Len(s) < j - Len(s)
    BY <1>1, <1>4
  <2>2. (s \o t)[i] = t[i - Len(s)] /\ (s \o t)[j] = t[j - Len(s)]
    BY <1>1, <1>4
  <2> QED
    BY <2>1, <2>2 DEF Cat!Increasing
<1> QED
  BY <1>1, <1>2, <1>3, <1>4

\* The radio's buffer is never overrun, and what it is handed it is handed once
\* and in order (catSender.waitForRoom, run).
THEOREM KeyerHandsOver == Spec => []HandedOverRight
<1>1. KeyerInv => HandedOverRight
  <2> SUFFICES ASSUME KeyerInv PROVE HandedOverRight
    OBVIOUS
  <2> DEFINE onTheWay == IF loop.at \in {"send", "writing"} THEN <<loop.chunk>> ELSE <<>>
  <2>1. /\ rig \in Seq(Nat) /\ queue \in Seq(Nat) /\ loop.chunk \in Nat
        /\ Cat!Increasing(rig) /\ Cat!Increasing(queue)
        /\ \A i \in 1..Len(rig), j \in 1..Len(queue) : rig[i] < queue[j]
        /\ loop.at \in {"send", "writing"} =>
              /\ ~stale
              /\ \A i \in 1..Len(rig) : rig[i] < loop.chunk
              /\ \A j \in 1..Len(queue) : loop.chunk < queue[j]
        /\ Cat!NoOverrun
    <3>1. CASE Cat!CatInv
      BY <3>1, CatTypes DEF Cat!CatInv, Cat!ChunksInOrder, Cat!OnTheWay
    <3>2. CASE Serial!SerialInv /\ Cat!Increasing(queue) /\ NoCat
      <4>1. rig = <<>> /\ loop.at = "head" /\ loop.chunk = 0 /\ asks = FALSE
        BY <3>2 DEF NoCat
      <4>2. rig \in Seq(Nat) /\ Len(rig) = 0 /\ queue \in Seq(Nat)
        BY <3>2, <4>1, EmptySeq DEF Serial!SerialInv, Serial!TypeOK
      <4> QED
        BY <3>2, <4>1, <4>2, KeyerAssumption DEF Cat!Increasing, Cat!NoOverrun
    <3> QED
      BY <3>1, <3>2 DEF KeyerInv
  <2>2. /\ onTheWay \in Seq(Nat) /\ Cat!Increasing(onTheWay) /\ Len(onTheWay) \in Nat
        /\ onTheWay # <<>> => ~stale
        /\ \A i \in 1..Len(rig), j \in 1..Len(onTheWay) : rig[i] < onTheWay[j]
        /\ \A i \in 1..Len(onTheWay), j \in 1..Len(queue) : onTheWay[i] < queue[j]
    <3>1. CASE loop.at \in {"send", "writing"}
      <4>1. /\ onTheWay = <<loop.chunk>> /\ onTheWay \in Seq(Nat) /\ Len(onTheWay) = 1
            /\ onTheWay[1] = loop.chunk
        BY <2>1, <3>1
      <4> HIDE DEF onTheWay
      <4> QED
        BY <2>1, <3>1, <4>1 DEF Cat!Increasing
    <3>2. CASE loop.at \notin {"send", "writing"}
      <4>1. onTheWay = <<>> /\ onTheWay \in Seq(Nat) /\ Len(onTheWay) = 0
        BY <3>2, EmptySeq
      <4> HIDE DEF onTheWay
      <4> QED
        BY <4>1 DEF Cat!Increasing
    <3> QED
      BY <3>1, <3>2
  <2> HIDE DEF onTheWay
  <2>3. rig \o onTheWay \in Seq(Nat) /\ Cat!Increasing(rig \o onTheWay)
    BY <2>1, <2>2, InOrder
  <2>4. \A i \in 1..Len(rig \o onTheWay), j \in 1..Len(queue) : (rig \o onTheWay)[i] < queue[j]
    <3> SUFFICES ASSUME NEW i \in 1..Len(rig \o onTheWay), NEW j \in 1..Len(queue)
                 PROVE  (rig \o onTheWay)[i] < queue[j]
      OBVIOUS
    <3>1. /\ Len(rig) \in Nat /\ Len(rig \o onTheWay) = Len(rig) + Len(onTheWay)
          /\ \A k \in 1..Len(rig) + Len(onTheWay) :
                (rig \o onTheWay)[k] = IF k <= Len(rig) THEN rig[k] ELSE onTheWay[k - Len(rig)]
      BY <2>1, <2>2, ConcatProperties, LenProperties
    <3>2. CASE i <= Len(rig)
      <4>1. (rig \o onTheWay)[i] = rig[i] /\ i \in 1..Len(rig)
        BY <3>1, <3>2
      <4> QED
        BY <2>1, <4>1
    <3>3. CASE i > Len(rig)
      <4>1. /\ (rig \o onTheWay)[i] = onTheWay[i - Len(rig)]
            /\ i - Len(rig) \in 1..Len(onTheWay)
        BY <2>2, <3>1, <3>3
      <4> QED
        BY <2>2, <4>1
    <3> QED
      BY <3>1, <3>2, <3>3
  <2>5. Cat!Increasing(rig \o onTheWay \o queue)
    BY <2>1, <2>3, <2>4, InOrder
  <2>6. Cat!HandedOverOnce
    BY <2>2, <2>5 DEF Cat!HandedOverOnce, Cat!Increasing, onTheWay
  <2> QED
    BY <2>1, <2>6 DEF HandedOverRight
<1> QED
  BY <1>1, KeyerInvHolds, PTL
=============================================================================
