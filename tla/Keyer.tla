-------------------------------- MODULE Keyer --------------------------------
(***************************************************************************)
(* The Morse sender of one radio, as the session holds it behind the       *)
(* cw.Sender interface: the configuration chooses at start whether the     *)
(* radio keys from its own buffer (CatKeyer) or a control line is keyed    *)
(* here (SerialKeyer), and the other does not exist.                       *)
(***************************************************************************)
EXTENDS Naturals, Sequences

CONSTANTS
    ChunksInFlight, RigRoom, Aborters, MaxElements,
    MaxTexts, MaxAborts, MaxFaults

ASSUME KeyerAssumption == ChunksInFlight \in Nat /\ RigRoom \in Nat

VARIABLES
    method,                                     \* cw.method
    queue, closed, queued, aborts, faults,      \* either sender's
    asks, inflight, ctx, cancelled, loop, cmdMu, aborter, rig, unpaced,
    stale, silenced,                          \* CatKeyer's
    hasPTT, gen, chans, wake, signals, busy, keyer, lines, stuck, cut
                                                \* SerialKeyer's

Cat == INSTANCE CatKeyer
Serial == INSTANCE SerialKeyer

catVars == <<asks, inflight, ctx, cancelled, loop, cmdMu, aborter, rig,
             unpaced, stale, silenced>>
serialVars == <<hasPTT, gen, chans, wake, signals, busy, keyer, lines, stuck, cut>>
vars == <<method, queue, closed, queued, aborts, faults, catVars, serialVars>>

\* attachCW: the sender that is not built keeps its initial values.
Init ==
    /\ method \in {"cat", "serial_key"}
    /\ Cat!Init /\ Serial!Init
    /\ method = "cat" => hasPTT = FALSE
    /\ method = "serial_key" => asks = FALSE

CatStep == method = "cat" /\ Cat!Next /\ UNCHANGED <<method, serialVars>>

SerialStep == method = "serial_key" /\ Serial!Next /\ UNCHANGED <<method, catVars>>

Next == CatStep \/ SerialStep

Spec == Init /\ [][Next]_vars

\* The goroutines run, the radio keys what it holds and time passes.  Nobody
\* has to queue, abort or close anything.
OnCat(A) == method = "cat" /\ A /\ UNCHANGED <<method, serialVars>>
OnSerial(A) == method = "serial_key" /\ A /\ UNCHANGED <<method, catVars>>

Fairness ==
    /\ WF_vars(OnCat(Cat!LoopStep))
    /\ \A a \in Aborters : WF_vars(OnCat(Cat!AbortStep(a)))
    /\ WF_vars(OnCat(Cat!RigKeys))
    /\ WF_vars(OnCat(Cat!Elapses))
    /\ WF_vars(OnSerial(Serial!KeyerStep))
    /\ WF_vars(OnSerial(Serial!Signals))

FairSpec == Spec /\ Fairness

-----------------------------------------------------------------------------
(* Correctness, for either sender.  What each promises besides is stated in *)
(* its own module.                                                          *)

\* The sender that the configuration did not choose is as attachCW left it.
NoCat ==
    /\ asks = FALSE /\ rig = <<>> /\ unpaced = FALSE /\ stale = FALSE /\ silenced = 0
    /\ loop = [at |-> "head", chunk |-> 0, ctx |-> 0]

NoSerial ==
    /\ hasPTT = FALSE /\ gen = 0 /\ chans = 0 /\ busy = FALSE /\ cut = 0
    /\ keyer = [at |-> "top", gen |-> 0, chan |-> 0, sym |-> 0, left |-> 0]
    /\ lines = {} /\ stuck = {}

\* The inductive invariant of whichever there is.
KeyerInv ==
    \/ method = "cat" /\ Cat!CatInv /\ NoSerial
    \/ method = "serial_key" /\ Serial!SerialInv /\ Cat!Increasing(queue) /\ NoCat

\* All the text that was accepted leaves the queue: keyed, handed to the radio, or
\* dropped by an Abort, a Replace, a Close or a failing radio; no wake-up is
\* lost between Enqueue and the goroutine that sends (s.cond, s.wake).  And Close
\* returns: the goroutine it waits for ends, wherever Close found it (s.done).
SenderFinishes ==
    /\ queue # <<>> ~> queue = <<>>
    /\ closed ~> (loop.at = "done" \/ keyer.at = "done")
=============================================================================
