------------------------------ MODULE SelfTest ------------------------------
(***************************************************************************)
(* `remoses test-run` (internal/selftest, cmd/remoses/testrun.go): a run   *)
(* that moves every control a radio has and then puts the radio back as it *)
(* was found.  The run is a sequence of steps, most of them one PATCH of   *)
(* the session; it may be interrupted, refused, or lose the radio at any   *)
(* of them, and the restore comes after all the same.                      *)
(*                                                                         *)
(* A control is where it was found or it was moved; a loop over a          *)
(* control's values is one step, to a value that is not the one found.     *)
(* The verdicts of the steps are left out, and so are the requests the run *)
(* makes to be refused, but for those that would transmit.                 *)
(***************************************************************************)
EXTENDS Integers, Sequences, Kept

CONSTANTS
    TestRadios,   \* what radios there are, each with the controls it has, those it has in CW only,
                  \* and what else it can do: "ptt", "cw", "tune", "exchange", "off", "both_vfos"
    MaxMishaps    \* requests refused and links lost in a run

\* The controls in the order in which ApplyPatch sets them.
Order == <<"mode", "data_mode", "frequency", "filter_slot", "passband", "power",
           "attenuator", "preamp", "agc", "rf_gain", "ip_plus", "digi_sel",
           "noise_blanker", "noise_reduction", "notch", "auto_notch", "antenna",
           "tx_audio_gain", "proc", "proc_level", "break_in", "split", "dual_watch",
           "vfo_b">>
Controls == In(Order)
Operating == {"mode", "data_mode", "frequency", "filter_slot", "passband", "power", "break_in"}
FrontEnd == <<"preamp", "attenuator", "rf_gain", "agc", "ip_plus", "noise_blanker",
              "noise_reduction", "notch", "auto_notch">>
Restorable == Operating \cup In(FrontEnd)

VARIABLES
    caps,         \* the radio
    allowed,      \* what the operator allowed: {} or some of "tx", "power"
    foundInCW,    \* the mode the radio was found in is CW
    dial,         \* where the radio's controls are
    air,          \* what it transmits: nothing, a carrier, CW, a tuning cycle
    link,         \* "up", "standby" or "down": what the session sees of it
    told,         \* where Session.state says the controls are
    initial,      \* Session.state as the run found it
    was,          \* Session.state when the run last looked
    agenda,         \* the steps still to do
    restoring,    \* they are the restore's
    interrupted,  \* Ctrl-C, which cancels the context of run and session
    errs,         \* the restore met with an error
    mishaps

vars == <<caps, allowed, foundInCW, dial, air, link, told, initial, was, agenda, restoring,
          interrupted, errs, mishaps>>
fixed == <<caps, allowed, foundInCW, initial>>

(***************************************************************************)
(* The steps.                                                              *)
(***************************************************************************)
Step(does, set) == [does |-> does, set |-> set]
To(f, v) == [c \in {f} |-> v]
Moves(f, v) == IF f \in caps.has THEN <<Step("patch", To(f, v))>> ELSE <<>>
\* One control after the other.
Patches(fs, v) == [i \in 1..Len(fs) |-> Step("patch", To(fs[i], v))]
MovesAll(fs) == Patches(Kept(fs, caps.has), "moved")
When(c, steps) == IF c THEN steps ELSE <<>>
Look == <<Step("look", <<>>)>>

\* An on/off control the other way, then as it was.
togglePair(f) == When(f \in caps.has, Look \o Moves(f, "other way") \o Moves(f, "was"))
\* Some controls exist in CW only: go there for them, and come back.
inMode(steps) == Look \o <<Step("into CW", <<>>)>> \o steps \o <<Step("back", <<>>)>>

frequency == Moves("frequency", "moved") \o Moves("frequency", "found")
modes == Moves("mode", "moved") \o <<Step("patch", [f \in {"mode", "data_mode"} |-> "found"])>>
         \o Moves("data_mode", "moved") \o Moves("data_mode", "found")
filters == When("passband" \in caps.has, inMode(Moves("passband", "moved")))
           \o Moves("filter_slot", "moved")
power == Moves("power", "moved")
vfos == When("both_vfos" \in caps.can, Moves("vfo_b", "moved"))
        \o togglePair("split") \o togglePair("dual_watch")
        \o When("exchange" \in caps.can, <<Step("exchange", <<>>), Step("exchange", <<>>)>>)
frontEnd == MovesAll(<<"preamp", "attenuator", "rf_gain", "agc">>)
            \o togglePair("ip_plus") \o togglePair("digi_sel")
noise == MovesAll(<<"noise_blanker", "noise_reduction">>)
         \o togglePair("notch") \o togglePair("auto_notch")
antenna == Moves("antenna", "moved")
txAudio == When("tx_audio_gain" \in caps.has,
                Look \o Moves("tx_audio_gain", "moved") \o Moves("tx_audio_gain", "was"))
           \o togglePair("proc") \o Look \o Moves("proc_level", "was")
breakIn == When("break_in" \in caps.has, inMode(Moves("break_in", "moved")))
\* What the radio has not: the session refuses it.  Where the radio might
\* transmit if its capabilities are wrong, only with leave to transmit.
deniedControls ==
    When("tune" \notin caps.can /\ "tx" \in allowed, <<Step("tune", <<>>)>>)
    \o When("ptt" \notin caps.can /\ "tx" \in allowed, <<Step("key", <<>>)>>)
    \o When("exchange" \notin caps.can, <<Step("exchange", <<>>)>>)
transmit ==
    When("tx" \in allowed /\ "ptt" \in caps.can,
         <<Step("patch", [f \in {"frequency", "mode", "data_mode", "power"} \cap caps.has |->
                              IF f = "frequency" THEN "tx" ELSE "moved"]),
           Step("on tx frequency", <<>>), Step("key", <<>>), Step("look", <<>>),
           Step("unkey", <<>>)>>
         \o When("cw" \in caps.can, <<Step("send", <<>>), Step("abort", <<>>)>>)
         \o When("tune" \in caps.can, <<Step("tune", <<>>)>>))
powerSwitch == When("power" \in allowed /\ "off" \in caps.can,
                    <<Step("off", <<>>), Step("wake", <<>>)>>)

\* Receive first and transmit last; before each group the context is looked at.
Group(steps) == <<Step("next group", <<>>)>> \o steps
sequence ==
    Group(frequency) \o Group(modes) \o Group(filters) \o Group(power) \o Group(vfos)
    \o Group(frontEnd) \o Group(noise) \o Group(antenna) \o Group(txAudio)
    \o Group(breakIn) \o Group(deniedControls) \o Group(transmit) \o Group(powerSwitch)

\* Everything the radio told of when it was found: the operating state in one
\* request, then the receive controls one by one.
Known == {f \in Restorable \cap caps.has : initial[f] = "found"}
restoreFrontEnd == Patches(Kept(FrontEnd, Known), "found")
restore == <<Step("patch", [f \in Operating \cap Known |-> "found"])>> \o restoreFrontEnd

Doing(does) == agenda # <<>> /\ Head(agenda).does \in does
Here == Head(agenda)
Ended == restoring /\ agenda = <<>>
\* What is left once the group under way is given up: there is a next.
NextGroups == {SubSeq(agenda, i, Len(agenda)) :
                   i \in {k \in DOMAIN agenda :
                            /\ agenda[k].does = "next group"
                            /\ \A j \in 1..k - 1 : agenda[j].does # "next group"}}

(***************************************************************************)
(* The session and the radio.                                              *)
(***************************************************************************)
InCW(r) == (r.mode = "found") = foundInCW
Has(f, r) == f \in caps.cwOnly => InCW(r)
\* A control the radio does not tell of in its mode keeps the value last told.
Told(r) == [f \in Controls |-> IF Has(f, r) THEN r[f] ELSE told[f]]
OtherWay(v) == IF v = "found" THEN "moved" ELSE "found"

\* What a step asks for.  What is not known reads as off.
Wanted(set) ==
    {[f \in DOMAIN set |-> CASE set[f] = "was" -> w
                             [] set[f] = "other way" -> OtherWay(w)
                             [] OTHER -> set[f]] :
        w \in UNION {IF was[f] = "unknown" THEN {"found", "moved"} ELSE {was[f]} :
                         f \in DOMAIN set}}

\* ApplyPatch got as far as the first k controls of Order.
Written(r, set, k) ==
    [f \in Controls |-> IF f \in DOMAIN set /\ f \in {Order[i] : i \in 1..k} THEN set[f] ELSE r[f]]
\* It can go no further than a control the radio has not in the mode it is in now.
Refuses(r, set, k) == Order[k + 1] \in DOMAIN set /\ ~Has(Order[k + 1], Written(r, set, k))

Goes == agenda' = Tail(agenda) /\ UNCHANGED restoring
\* Mutant: an error of the restore is not joined to the others.
UnjoinedFails == UNCHANGED errs
Fails == errs' = (errs \/ restoring)
\* The context of the run is cancelled; that of the restore is not.
Cancelled == interrupted /\ ~restoring
Usable == link = "up" /\ ~Cancelled

PatchApplies(set) ==
    /\ Usable /\ \A k \in 0..Len(Order) - 1 : ~Refuses(dial, set, k)
    /\ dial' = Written(dial, set, Len(Order)) /\ told' = Told(dial')
    /\ Goes /\ UNCHANGED <<fixed, air, link, was, interrupted, errs, mishaps>>

\* The session or the radio refuses, or an answer is lost: what comes before in
\* the request has been set.
PatchFails(set) ==
    /\ Usable /\ Fails
    /\ \E k \in 0..Len(Order) :
          /\ dial' = Written(dial, set, k) /\ \A j \in 0..k - 1 : ~Refuses(dial, set, j)
          /\ \/ k < Len(Order) /\ Refuses(dial, set, k) /\ UNCHANGED mishaps
             \/ mishaps < MaxMishaps /\ mishaps' = mishaps + 1
                /\ (k < Len(Order) => Order[k + 1] \in DOMAIN set)
    /\ Goes /\ UNCHANGED <<fixed, air, link, told, was, interrupted>>

\* The context is cancelled between two commands of the request.
PatchIsCut(set) ==
    /\ Usable /\ ~interrupted /\ ~restoring /\ interrupted' = TRUE
    /\ \E k \in 0..Len(Order) - 1 :
          /\ Order[k + 1] \in DOMAIN set /\ dial' = Written(dial, set, k)
          /\ \A j \in 0..k : ~Refuses(dial, set, j)
    /\ Goes /\ UNCHANGED <<fixed, air, link, told, was, errs, mishaps>>

PatchComesToNothing ==
    ~Usable /\ Fails /\ Goes /\ UNCHANGED <<fixed, dial, air, link, told, was, interrupted, mishaps>>

ApplyPatch(set) == \/ PatchApplies(set)
                   \/ PatchFails(set)
                   \/ PatchIsCut(set)
                   \/ PatchComesToNothing

DoPatch == Doing({"patch"}) /\ \E set \in Wanted(Here.set) : ApplyPatch(set)

\* Into CW unless there, and from there to the mode last looked at.
SwitchMode ==
    /\ Doing({"into CW", "back"})
    /\ IF InCW(was) THEN Goes /\ UNCHANGED <<fixed, dial, air, link, told, was, interrupted, errs, mishaps>>
       ELSE LET to == IF Here.does = "back" THEN [mode |-> was.mode, data_mode |-> "found"]
                      ELSE [mode |-> OtherWay(was.mode), data_mode |-> "moved"]
            IN ApplyPatch(to)

LooksOn ==
    /\ Doing({"look"}) /\ was' = told /\ Goes
    /\ UNCHANGED <<fixed, dial, air, link, told, interrupted, errs, mishaps>>

\* The two receivers change places.
Exchange ==
    /\ Doing({"exchange"})
    /\ IF Usable /\ "exchange" \in caps.can
       THEN \/ /\ dial' = [dial EXCEPT !.frequency = dial.vfo_b, !.vfo_b = dial.frequency]
               /\ told' = Told(dial') /\ UNCHANGED mishaps
            \/ mishaps < MaxMishaps /\ mishaps' = mishaps + 1 /\ UNCHANGED <<dial, told>>
       ELSE UNCHANGED <<dial, told, mishaps>>
    /\ Goes /\ UNCHANGED <<fixed, air, link, was, interrupted, errs>>

\* Every transmission of the run, and what ends it.  A refusal leaves it as it
\* is; the CW sender asks no context.
OnAir ==
    /\ Doing({"key", "unkey", "tune", "send", "abort"})
    /\ LET to == CASE Here.does = "key" -> "carrier" [] Here.does = "tune" -> "tuning"
                   [] Here.does = "send" -> "cw" [] OTHER -> "quiet"
           able == CASE Here.does \in {"key", "unkey"} -> Usable /\ "ptt" \in caps.can
                     [] Here.does = "tune" -> Usable /\ "tune" \in caps.can
                     [] OTHER -> link = "up"
       IN IF able
          THEN \/ air' = (IF air = "carrier" /\ Here.does = "abort" THEN air ELSE to)
                  /\ UNCHANGED mishaps
               \/ mishaps < MaxMishaps /\ mishaps' = mishaps + 1 /\ UNCHANGED air
          ELSE UNCHANGED <<air, mishaps>>
    /\ Goes /\ UNCHANGED <<fixed, dial, link, told, was, interrupted, errs>>

OnTXFrequency ==
    /\ Doing({"on tx frequency"})
    /\ agenda' \in IF told.frequency = "tx" THEN {Tail(agenda)} ELSE NextGroups
    /\ UNCHANGED <<restoring, fixed, dial, air, link, told, was, interrupted, errs, mishaps>>

\* Off, and on again; a wake may fail.
SwitchesPower ==
    /\ Doing({"off", "wake"})
    /\ IF Here.does = "off"
       THEN link' = (IF Usable THEN "standby" ELSE link) /\ air' = (IF Usable THEN "quiet" ELSE air)
       ELSE link' \in (IF link = "standby" /\ ~Cancelled THEN {"up", "standby"} ELSE {link})
            /\ UNCHANGED air
    /\ Goes /\ UNCHANGED <<fixed, dial, told, was, interrupted, errs, mishaps>>

\* The sequence ends early when the context is cancelled.
NextGroup ==
    /\ Doing({"next group"})
    /\ agenda' = IF interrupted THEN <<>> ELSE Tail(agenda)
    /\ UNCHANGED <<restoring, fixed, dial, air, link, told, was, interrupted, errs, mishaps>>

\* The restore follows whatever became of the sequence; but nothing can be
\* restored on a radio that is not connected.
BeginRestore ==
    /\ ~restoring /\ agenda = <<>> /\ restoring' = TRUE
    /\ agenda' = (IF link = "down" THEN <<>> ELSE restore) /\ errs' = (link = "down")
    /\ UNCHANGED <<fixed, dial, air, link, told, was, interrupted, mishaps>>

(***************************************************************************)
(* What happens meanwhile.                                                 *)
(***************************************************************************)
Interrupt ==
    /\ ~interrupted /\ interrupted' = TRUE
    /\ UNCHANGED <<fixed, dial, air, link, told, was, agenda, restoring, errs, mishaps>>
\* The session was started with the context of the run, and ends with it.
SessionEnds ==
    /\ interrupted /\ link # "down" /\ link' = "down"
    /\ UNCHANGED <<fixed, dial, air, told, was, agenda, restoring, interrupted, errs, mishaps>>
LinkLost ==
    /\ link = "up" /\ mishaps < MaxMishaps /\ mishaps' = mishaps + 1 /\ link' = "down"
    /\ UNCHANGED <<fixed, dial, air, told, was, agenda, restoring, interrupted, errs>>
Reconnects ==
    /\ link = "down" /\ ~interrupted /\ link' = "up" /\ told' = Told(dial)
    /\ UNCHANGED <<fixed, dial, air, was, agenda, restoring, interrupted, errs, mishaps>>
Polled ==
    /\ link = "up" /\ told # Told(dial) /\ told' = Told(dial)
    /\ UNCHANGED <<fixed, dial, air, link, was, agenda, restoring, interrupted, errs, mishaps>>
\* CW and tuning end by themselves, a carrier by the session's dead-man timer.
AirEnds ==
    /\ air \in {"cw", "tuning"} \cup (IF link = "up" THEN {"carrier"} ELSE {})
    /\ air' = "quiet"
    /\ UNCHANGED <<fixed, dial, link, told, was, agenda, restoring, interrupted, errs, mishaps>>

Init ==
    /\ caps \in TestRadios /\ allowed \in SUBSET {"tx", "power"} /\ foundInCW \in BOOLEAN
    /\ dial = [f \in Controls |-> "found"] /\ air = "quiet" /\ link = "up"
    \* what the first polls could not read is not known
    /\ \E unread \in {{}, caps.cwOnly, {"preamp"}} :
          told = [f \in Controls |-> IF f \in unread THEN "unknown" ELSE "found"]
    /\ initial = told /\ was = told
    /\ agenda = sequence /\ restoring = FALSE /\ interrupted = FALSE /\ errs = FALSE /\ mishaps = 0

Next == \/ DoPatch \/ SwitchMode \/ LooksOn \/ Exchange \/ OnAir \/ OnTXFrequency
        \/ SwitchesPower \/ NextGroup \/ BeginRestore
        \/ Interrupt \/ SessionEnds \/ LinkLost \/ Reconnects \/ Polled \/ AirEnds

Spec == Init /\ [][Next]_vars

(***************************************************************************)
(* Properties.                                                             *)
(***************************************************************************)
TypeOK ==
    /\ caps \in TestRadios /\ allowed \subseteq {"tx", "power"} /\ foundInCW \in BOOLEAN
    /\ \A f \in Controls : /\ dial[f] \in {"found", "moved", "tx"}
                           /\ told[f] \in {"found", "moved", "tx", "unknown"}
    /\ air \in {"quiet", "carrier", "cw", "tuning"} /\ link \in {"up", "standby", "down"}
    /\ restoring \in BOOLEAN /\ interrupted \in BOOLEAN /\ errs \in BOOLEAN
    /\ mishaps \in 0..MaxMishaps

\* Nothing transmits without a frequency to transmit on, and the radio is
\* switched off with leave only (Options; TestNothingTransmitsWithoutATXFrequency,
\* TestPowerSwitchNeedsItsOwnFlag).
NothingUnasked == /\ air # "quiet" => "tx" \in allowed
                  /\ link = "standby" => "power" \in allowed

\* Where the summary says the radio was restored, every control the restore
\* knows of is where it was found, whatever was refused, cut short or lost on
\* the way (Runner.Run, restore).
RestoredIsAsFound == Ended /\ ~errs => \A f \in Known : dial[f] = "found"

\* A run that is interrupted puts the radio back, if the radio refuses nothing
\* and the cable holds ("it puts the radio back as it found it, including when
\* interrupted", testrun.go:19).
InterruptedIsRestored ==
    Ended /\ interrupted /\ mishaps = 0 => \A f \in Known : dial[f] = "found"

(***************************************************************************)
(* What keeps these true through every step.                               *)
(***************************************************************************)
\* What may be on the agenda: nothing that needs a leave the run has not got.
Deeds ==
    {"patch", "look", "into CW", "back", "exchange", "unkey", "abort", "on tx frequency",
     "wake", "next group"}
    \cup (IF "tx" \in allowed THEN {"key", "tune", "send"} ELSE {})
    \cup (IF "power" \in allowed THEN {"off"} ELSE {})
Places == {"found", "moved", "tx", "was", "other way"}
Steps == [does : Deeds, set : UNION {[D -> Places] : D \in SUBSET Controls}]

\* The restore only ever puts something back.
RestoresOnly ==
    restoring => \A i \in 1..Len(agenda) :
        /\ agenda[i].does = "patch"
        /\ \A f \in DOMAIN agenda[i].set : agenda[i].set[f] = "found"

\* Short of an error, what is not where it was found is still to be put back.
RestoresAll ==
    restoring /\ ~errs => \A f \in Known :
        dial[f] = "found" \/ \E i \in 1..Len(agenda) : f \in DOMAIN agenda[i].set

TestInv ==
    /\ agenda \in Seq(Steps) /\ air \in {"quiet", "carrier", "cw", "tuning"}
    /\ NothingUnasked /\ RestoresOnly /\ RestoresAll
=============================================================================
