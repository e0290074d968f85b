----------------------------- MODULE SerialKeyer -----------------------------
(***************************************************************************)
(* The Morse sender that keys a modem control line itself                  *)
(* (internal/cw/serialkey.go, serialSender): a queue of symbols, one keyer *)
(* goroutine that raises and drops the key line element by element under   *)
(* an optional PTT line, and Abort, which drops both lines on the spot and *)
(* leaves the keyer to find out.                                           *)
(*                                                                         *)
(* Time is left out: a wait ends when it ends, or at once when its abort   *)
(* channel is closed.  A channel is the number of channels closed before   *)
(* it, so one captured as n is closed when more than n have been.  The     *)
(* line drivers are external and may fail.                                 *)
(***************************************************************************)
EXTENDS Integers, Sequences

CONSTANTS
    MaxElements,    \* elements of the longest character
    MaxTexts,       \* bound: symbols queued
    MaxAborts,      \* bound: Aborts
    MaxFaults       \* bound: writes to a line that fail

VARIABLES
    queue,      \* s.queue
    closed,     \* s.closed
    queued,     \* symbols queued so far; each is known by its number
    aborts,     \* Aborts so far
    faults,     \* failed writes so far
    hasPTT,     \* s.pttLine is not lineNone
    gen,        \* s.gen
    chans,      \* abort channels closed so far; s.abort is the next
    wake,       \* s.wake holds a token
    signals,    \* Enqueues between unlocking and s.signal
    busy,       \* s.busy
    keyer,      \* the keyer goroutine: where it is and what it carries
    lines,      \* the control lines that are up
    stuck,      \* history: lines whose last dropping failed
    cut         \* history: symbols up to here were aborted

textVars == <<queue, closed, queued>>
lineVars == <<lines, stuck, faults>>
genVars == <<gen, chans, cut>>
wakeVars == <<wake, signals>>
vars == <<textVars, aborts, hasPTT, genVars, wakeVars, busy, keyer, lineVars>>

Init ==
    /\ queue = <<>> /\ closed = FALSE /\ queued = 0
    /\ aborts = 0 /\ faults = 0
    /\ hasPTT \in BOOLEAN
    /\ gen = 0 /\ chans = 0 /\ cut = 0
    /\ wake = FALSE /\ signals = 0
    /\ busy = FALSE
    /\ keyer = [at |-> "top", gen |-> 0, chan |-> 0, sym |-> 0, left |-> 0]
    /\ lines = {} /\ stuck = {}

-----------------------------------------------------------------------------
(* The lines                                                                *)

\* Writes that drop lines; their errors are ignored, and a line whose write
\* failed stays as it was.
DropAllBut(fail, which) ==
    /\ lines' = lines \ (which \ fail)
    /\ stuck' = (stuck \ which) \cup fail

Drop(which) ==
    \E fail \in SUBSET (which \cap lines) :
        /\ fail # {} => faults < MaxFaults
        /\ faults' = IF fail = {} THEN faults ELSE faults + 1
        /\ DropAllBut(fail, which)

Both == IF hasPTT THEN {"key", "ptt"} ELSE {"key"}

\* abortLocked: the generation moves on, everything queued goes and both
\* lines drop, all under the mutex.
AbortLocked ==
    /\ gen' = gen + 1
    /\ chans' = IF closed THEN chans ELSE chans + 1
    /\ cut' = queued
    /\ queue' = <<>> /\ busy' = FALSE

-----------------------------------------------------------------------------
(* The callers                                                              *)

Enqueue(replace) ==
    /\ ~closed /\ queued < MaxTexts
    /\ queued' = queued + 1
    /\ queue' = IF replace THEN <<queued'>> ELSE Append(queue, queued')
    /\ signals' = signals + 1
    /\ UNCHANGED <<closed, aborts, hasPTT, genVars, wake, busy, keyer, lineVars>>

\* The slip of waking the keyer only when it is not sending.
MutantSignals ==
    /\ signals > 0 /\ signals' = signals - 1
    /\ wake' = (wake \/ lines = {})
    /\ UNCHANGED <<textVars, aborts, hasPTT, genVars, busy, keyer, lineVars>>

Signals ==
    /\ signals > 0 /\ signals' = signals - 1
    /\ wake' = TRUE
    /\ UNCHANGED <<textVars, aborts, hasPTT, genVars, busy, keyer, lineVars>>

Abort ==
    /\ aborts < MaxAborts /\ aborts' = aborts + 1
    /\ AbortLocked
    /\ Drop(Both)
    /\ UNCHANGED <<closed, queued, hasPTT, wakeVars, keyer>>

Close ==
    /\ ~closed /\ closed' = TRUE
    /\ gen' = gen + 1 /\ chans' = chans + 1 /\ cut' = queued
    /\ queue' = <<>>
    /\ Drop(Both)
    /\ signals' = signals + 1
    /\ UNCHANGED <<queued, aborts, hasPTT, wake, busy, keyer>>

-----------------------------------------------------------------------------
(* The keyer, run                                                           *)

Goes(where) == keyer' = [keyer EXCEPT !.at = where]

ChannelClosed == keyer.chan < chans

Top ==
    /\ keyer.at = "top"
    /\ keyer' = [at |-> IF closed THEN "done"
                        ELSE IF queue = <<>> THEN "parked"
                        ELSE IF hasPTT THEN "lead" ELSE "symbol",
                 gen |-> gen, chan |-> chans, sym |-> 0, left |-> 0]
    /\ UNCHANGED <<textVars, aborts, hasPTT, genVars, wakeVars, busy, lineVars>>

Unparks ==
    /\ keyer.at = "parked"
    /\ \/ wake /\ wake' = FALSE
       \/ ChannelClosed /\ UNCHANGED wake
    /\ Goes("top")
    /\ UNCHANGED <<textVars, aborts, hasPTT, genVars, signals, busy, lineVars>>

Current == gen = keyer.gen /\ ~closed

\* The slip of raising a line without looking at the generation.
MutantMayRaise == ~closed

\* assert's check of s.gen and s.closed, under the mutex of Abort.
MayRaise == Current

\* assert: refused when the generation has moved on; a failed write aborts
\* everything, this transmission included.
AssertLine(line, next) ==
    \/ /\ ~MayRaise /\ Goes("leave")
       /\ UNCHANGED <<queue, genVars, busy, lineVars>>
    \/ /\ MayRaise /\ Goes(next)
       /\ lines' = lines \cup {line} /\ stuck' = stuck \ {line}
       /\ UNCHANGED <<queue, genVars, busy, faults>>
    \/ /\ MayRaise /\ Goes("leave")
       /\ faults < MaxFaults /\ faults' = faults + 1
       /\ AbortLocked
       /\ \E fail \in SUBSET (Both \cap lines) : DropAllBut(fail, Both)

RaisesPTT ==
    /\ keyer.at = "lead"
    /\ AssertLine("ptt", "symbol")
    /\ UNCHANGED <<closed, queued, aborts, hasPTT, wakeVars>>

\* The head of transmit's loop: a symbol is taken, a space (no elements) is
\* only time, and an empty queue begins the tail.
TakesSymbol ==
    /\ keyer.at = "symbol"
    /\ \/ ~Current /\ Goes("leave") /\ UNCHANGED <<queue, busy>>
       \/ Current /\ queue = <<>> /\ busy' = FALSE /\ Goes("tail") /\ UNCHANGED queue
       \/ /\ Current /\ queue # <<>>
          /\ queue' = Tail(queue) /\ busy' = TRUE
          /\ \E n \in 0..MaxElements :
                keyer' = [keyer EXCEPT !.at = IF n = 0 THEN "symbol" ELSE "gap",
                                       !.sym = Head(queue), !.left = n]
    /\ UNCHANGED <<closed, queued, aborts, hasPTT, genVars, wakeVars, lineVars>>

\* waitUntil before an element.
GapEnds ==
    /\ keyer.at = "gap"
    /\ Goes(IF ChannelClosed THEN "leave" ELSE "raise")
    /\ UNCHANGED <<textVars, aborts, hasPTT, genVars, wakeVars, busy, lineVars>>

RaisesKey ==
    /\ keyer.at = "raise"
    /\ AssertLine("key", "mark")
    /\ UNCHANGED <<closed, queued, aborts, hasPTT, wakeVars>>

\* waitUntil for the length of the mark, then release either way.
MarkEnds ==
    /\ keyer.at = "mark"
    /\ Goes(IF ChannelClosed THEN "cutoff" ELSE "drop")
    /\ UNCHANGED <<textVars, aborts, hasPTT, genVars, wakeVars, busy, lineVars>>

AfterElement ==
    IF keyer.at = "cutoff" THEN Goes("leave")
    ELSE keyer' = [keyer EXCEPT !.at = IF keyer.left > 1 THEN "gap" ELSE "symbol",
                                !.left = @ - 1]

DropsKey ==
    /\ keyer.at \in {"drop", "cutoff"}
    /\ Drop({"key"})
    /\ AfterElement
    /\ UNCHANGED <<textVars, aborts, hasPTT, genVars, wakeVars, busy>>

\* waitForWork, under the mutex and then in its select.  It may see text
\* queued after an Abort and go on; the generation is checked at the top.
TailLooks ==
    /\ keyer.at = "tail"
    /\ Goes(IF closed THEN "unkey" ELSE IF queue # <<>> THEN "symbol" ELSE "linger")
    /\ UNCHANGED <<textVars, aborts, hasPTT, genVars, wakeVars, busy, lineVars>>

TailWakes ==
    /\ keyer.at = "linger"
    /\ wake /\ wake' = FALSE
    /\ Goes("tail")
    /\ UNCHANGED <<textVars, aborts, hasPTT, genVars, signals, busy, lineVars>>

\* The timer, or the abort channel.
TailEnds ==
    /\ keyer.at = "linger"
    /\ Goes("unkey")
    /\ UNCHANGED <<textVars, aborts, hasPTT, genVars, wakeVars, busy, lineVars>>

\* The slip of leaving PTT up when text came in just as the tail ended.
MutantDropsPTT ==
    /\ keyer.at = "unkey"
    /\ IF hasPTT /\ queue = <<>> /\ ~wake THEN Drop({"ptt"}) ELSE UNCHANGED lineVars
    /\ Goes("leave")
    /\ UNCHANGED <<textVars, aborts, hasPTT, genVars, wakeVars, busy>>

DropsPTT ==
    /\ keyer.at = "unkey"
    /\ IF hasPTT THEN Drop({"ptt"}) ELSE UNCHANGED lineVars
    /\ Goes("leave")
    /\ UNCHANGED <<textVars, aborts, hasPTT, genVars, wakeVars, busy>>

\* transmit's deferred clean-up.
Leaves ==
    /\ keyer.at = "leave"
    /\ busy' = (busy /\ gen # keyer.gen)
    /\ Goes("top")
    /\ UNCHANGED <<textVars, aborts, hasPTT, genVars, wakeVars, lineVars>>

-----------------------------------------------------------------------------
KeyerStep ==
    \/ Top \/ Unparks \/ RaisesPTT \/ TakesSymbol \/ GapEnds \/ RaisesKey
    \/ MarkEnds \/ DropsKey \/ TailLooks \/ TailWakes \/ TailEnds \/ DropsPTT
    \/ Leaves

Next ==
    \/ \E replace \in BOOLEAN : Enqueue(replace)
    \/ Signals
    \/ Abort
    \/ Close
    \/ KeyerStep

Spec == Init /\ [][Next]_vars

-----------------------------------------------------------------------------
(* Correctness                                                              *)

Up(line) == line \in lines \ stuck

\* A line is up only for the transmission of the current generation, so
\* never once Abort or Close has returned and nothing was queued since; the
\* key only inside a mark of a symbol that was not aborted, and only under
\* PTT when there is a PTT line (serialSender.assert and abortLocked).  A
\* line that would not drop is excepted.
LinesAreOwned ==
    /\ Up("ptt") => /\ Current
                    /\ keyer.at \in {"symbol", "gap", "raise", "mark", "drop",
                                     "cutoff", "tail", "linger", "unkey"}
    /\ Up("key") => /\ Current
                    /\ keyer.at \in {"mark", "drop", "cutoff"}
                    /\ keyer.sym > cut
                    /\ hasPTT => "ptt" \in lines
    /\ busy => closed \/ keyer.at \in {"symbol", "gap", "raise", "mark", "drop"}

\* What keeps LinesAreOwned through every step: the keyer's copy of the
\* generation and its abort channel go out of date together, nothing in the
\* queue was aborted, and PTT is up from the lead-in to the end of the tail.
Places == {"top", "parked", "lead", "symbol", "gap", "raise", "mark", "drop",
           "cutoff", "tail", "linger", "unkey", "leave", "done"}

TypeOK ==
    /\ queue \in Seq(Nat) /\ queued \in Nat /\ closed \in BOOLEAN
    /\ hasPTT \in BOOLEAN /\ busy \in BOOLEAN
    /\ gen \in Nat /\ chans \in Nat /\ cut \in Nat
    /\ keyer \in [at : Places, gen : Nat, chan : Nat, sym : Nat, left : Int]
    /\ lines \subseteq {"key", "ptt"} /\ stuck \subseteq {"key", "ptt"}

QueueIsFresh ==
    /\ cut <= queued
    /\ \A i \in 1..Len(queue) : cut < queue[i] /\ queue[i] <= queued

ChannelTellsGen ==
    ~closed => gen = chans /\ keyer.gen = keyer.chan /\ keyer.gen <= gen

PTTIsHeld ==
    /\ keyer.at = "lead" => hasPTT
    /\ hasPTT /\ Current /\ keyer.at \notin {"top", "parked", "lead", "leave", "done"}
           => "ptt" \in lines
    /\ Up("ptt") => hasPTT

SymbolIsFresh ==
    /\ Current /\ keyer.at \in {"gap", "raise", "mark", "drop"} => cut < keyer.sym
    /\ keyer.at = "cutoff" => ~Current
    /\ busy => closed \/ Current

SerialInv ==
    /\ TypeOK /\ QueueIsFresh /\ ChannelTellsGen /\ PTTIsHeld /\ SymbolIsFresh
    /\ LinesAreOwned

\* A carrier that was raised comes down, unless the line would not drop.
CarrierDrops == (lines \ stuck # {}) ~> (lines \ stuck = {})
=============================================================================
