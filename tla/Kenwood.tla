------------------------------- MODULE Kenwood -------------------------------
(***************************************************************************)
(* The Kenwood CAT backend (internal/rig/backend/kenwood).  Each operation *)
(* is a list of exchanges with the radio: a command that is answered       *)
(* ("ask", do), a set that is not ("tell", send), or a decision on what    *)
(* has been decoded so far ("plan").  A set the radio refuses answers "?"  *)
(* late, so that the next command takes the blame.  The session runs one   *)
(* operation at a time; between two exchanges the operator works the front *)
(* panel, and with Auto Information on the radio may push what changed.    *)
(*                                                                         *)
(* The value of a setting says where it came from: "was", the "panel", or  *)
(* "asked" by a client.  Frames, digits and units are left out; where a    *)
(* number is decoded with the help of a setting, the reading is the pair.  *)
(***************************************************************************)
EXTENDS Naturals, Sequences, TLC

CONSTANTS
    Models,     \* the configured models
    Settings,   \* settings with a command of their own and no conditions
    MaxEvents,  \* bound: moves on the panel and commands of clients
    MaxFaults   \* bound: answers that fail to come, unexplained refusals

VARIABLES
    model,      \* kenwood.model
    bulkPoll,   \* kenwood.bulk_poll
    radio,      \* the radio's settings
    known,      \* Rig's atomics: what was last decoded
    shown,      \* what Decode has published, the session's State
    op,         \* "idle", "init", "fast", "slow" or "command"
    steps,      \* the exchanges left
    late,       \* refusals the radio has yet to answer
    asked,      \* history: the command last run, until anything follows it
    outcome,    \* history: "error" once that command has failed
    before,     \* history: the radio when that command came
    trusted,    \* history: nothing had been unsettled when it came
    failing,    \* history: the tiers whose last poll ended in an error
    rounds,     \* history: 0 while what the last event caught is under way, then 1
                \* and one more for each poll, in turn fast and slow
    events, faults

vars == <<model, bulkPoll, radio, known, shown, op, steps, late, asked, outcome, before,
          trusted, failing, rounds, events, faults>>

-----------------------------------------------------------------------------
(* The models                                                               *)

\* md: the TS-590S generation.
MD == [mode |-> "MD", data |-> "command", bulk |-> TRUE, width |-> TRUE, slot |-> "read",
       breakIn |-> "VX", vfos |-> TRUE, agcOn |-> TRUE]

\* om: mode and DATA in one command, no status command, widths shaped otherwise.
OM == [MD EXCEPT !.mode = "OM", !.data = "in mode", !.bulk = FALSE, !.width = FALSE,
                 !.breakIn = "BI3"]

Profile ==
    [generic |-> [MD EXCEPT !.breakIn = "none"],
     ts480   |-> [MD EXCEPT !.data = "none", !.slot = "none", !.agcOn = FALSE],
     ts590s  |-> MD,
     ts890s  |-> [OM EXCEPT !.slot = "write only", !.breakIn = "BI2"],
     ts990s  |-> [OM EXCEPT !.vfos = FALSE]]

P == Profile[model]

\* supportsDataMode, filterWidths, agcLegal.
DataLegal(m) == m \in {"SSB", "AM", "FM"}
WidthLegal(m) == m = "CW"
AGCLegal(m) == m # "FM"

\* BreakInStyle.binary: on and off alone, the delay tells semi from full.
Binary == P.breakIn \in {"VX", "BI2"}

-----------------------------------------------------------------------------
(* Decode: what the answer to a command publishes, and what it leaves in    *)
(* the Rig for later                                                        *)

Nothing == [x \in {} |-> x]
Shows(s) == [shows |-> s, notes |-> Nothing]
If(c, s) == IF c THEN s ELSE Nothing

OtherVFO(v) == IF v = "B" THEN "A" ELSE "B"

\* storeVFOFrequency
Frequency(v) ==
    Shows(IF ~P.vfos THEN If(v = "A", "frequency" :> radio.freq.A)
          ELSE (IF v = "A" THEN "vfo_a" ELSE "vfo_b") :> radio.freq[v]
               @@ If(known.rx = v \/ (known.rx = "none" /\ v = "A"),
                     "frequency" :> radio.freq[v]))

\* storeSplit: the two selections together, once both are known.
SplitOf(rx, tx) == If("none" \notin {rx, tx}, "split" :> (rx # tx))

VFOAnswer(cmd) ==
    CASE cmd = "FA" -> Frequency("A")
      [] cmd = "FB" -> Frequency("B")
      [] cmd = "FR" -> [shows |-> "vfo" :> radio.rx @@ SplitOf(radio.rx, known.tx),
                        notes |-> "rx" :> radio.rx]
      [] cmd = "FT" -> [shows |-> SplitOf(known.rx, radio.tx), notes |-> "tx" :> radio.tx]

\* decodeIF
StatusAnswer ==
    [shows |-> "frequency" :> radio.freq[radio.rx] @@ "ptt" :> radio.ptt @@ "mode" :> radio.mode
               @@ If(P.vfos, "vfo" :> radio.rx @@ "split" :> (radio.rx # radio.tx)),
     notes |-> "transmitting" :> radio.ptt @@ "mode" :> radio.mode @@ "ifBlocked" :> FALSE
               @@ If(P.vfos, "rx" :> radio.rx @@ "tx" :> radio.tx)]

\* MD, OM (decodeOM) and DA.
ModeAnswer(cmd) ==
    CASE cmd = "MD" -> [shows |-> "mode" :> radio.mode, notes |-> "mode" :> radio.mode]
      [] cmd = "OM" -> [shows |-> "mode" :> radio.mode @@ "data_mode" :> radio.data,
                        notes |-> "mode" :> radio.mode @@ "dataMode" :> radio.data]
      [] cmd = "DA" -> [shows |-> "data_mode" :> radio.data,
                        notes |-> "dataMode" :> radio.data @@ If(~radio.data, "ifBlocked" :> FALSE)]

\* PC is in watts of what the mode allows; SM is the meter the radio has up,
\* filed by the direction last decoded.
LevelAnswer(cmd) ==
    CASE cmd = "PC" -> Shows("power" :> <<radio.power, known.mode = "AM">>)
      [] cmd = "SM" -> Shows((IF known.transmitting THEN "power_meter" ELSE "s_meter") :> radio.ptt)
      [] cmd = "RM" -> Shows("swr" :> radio.ptt)
      [] cmd = "TX" -> [shows |-> "ptt" :> radio.ptt, notes |-> "transmitting" :> radio.ptt]

\* breakInFromWire
BreakIn(param, delay) ==
    CASE param = 0 -> "off"
      [] param = 1 -> IF Binary /\ delay = 0 THEN "full" ELSE "semi"
      [] param = 2 -> "full"

\* Outside CW, VX is about VOX, and BI answers 0.
KeyerAnswer(cmd) ==
    CASE cmd = "SD" -> [shows |-> Nothing, notes |-> "delay" :> radio.delay]
      [] cmd = "BI" -> Shows("break_in" :> BreakIn(IF radio.mode = "CW" THEN radio.keyed ELSE 0,
                                                   known.delay))
      [] cmd = "VX" -> Shows(If(known.mode = "CW",
                                "break_in" :> BreakIn(IF radio.mode = "CW" THEN radio.keyed
                                                      ELSE radio.vox, known.delay)))

\* FW is a width in CW and the modulation degree in FM.
FilterAnswer(cmd) ==
    CASE cmd = "FW" -> Shows("passband" :> IF radio.mode = "FM" THEN "degree" ELSE radio.width)
      [] cmd = "FL" -> Shows("filter_slot" :> radio.slot)

\* decodeNB ... decodeNT: a level is scaled by the reducer last decoded.
NoiseAnswer(cmd) ==
    CASE cmd = "NB" -> [shows |-> If(radio.nb <= 2, "noise_blanker" :> radio.nb),
                        notes |-> "nb" :> radio.nb]
      [] cmd = "NL" -> Shows("nb_level" :> radio.nbLevel)
      [] cmd = "NR" -> [shows |-> "noise_reduction" :> radio.nr, notes |-> "nr" :> radio.nr]
      [] cmd = "RL" -> Shows("nr_level" :> <<radio.nrLevel, known.nr = 2>>)
      [] cmd = "NT" -> [shows |-> "notch" :> (radio.notch = "manual")
                                  @@ "auto_notch" :> (radio.notch = "auto"),
                        notes |-> "notch" :> radio.notch]

\* decodePA, decodeRA, decodeRG, decodeAGC
FrontEndAnswer(cmd) ==
    IF cmd = "GC" THEN [shows |-> "agc" :> radio.agc, notes |-> "agc" :> radio.agc]
    ELSE Shows(cmd :> radio.plain[cmd])
\* PL carries both levels of the processor, and the output level is kept.
TXAudioAnswer(cmd) ==
    IF cmd = "PL"
    THEN [shows |-> "proc_level" :> radio.procIn, notes |-> "procOut" :> radio.procOut]
    ELSE Shows(cmd :> radio.plain[cmd])
TunerAnswer == [shows |-> "tuner" :> radio.tuner, notes |-> "tuner" :> radio.tuner]
NotchAntennaAnswer(cmd) == Shows(cmd :> radio.plain[cmd])

Decode(cmd) ==
    CASE cmd \in {"FA", "FB", "FR", "FT"} -> VFOAnswer(cmd)
      [] cmd = "IF" -> StatusAnswer
      [] cmd \in {"MD", "OM", "DA"} -> ModeAnswer(cmd)
      [] cmd \in {"PC", "SM", "RM", "TX"} -> LevelAnswer(cmd)
      [] cmd \in {"SD", "BI", "VX"} -> KeyerAnswer(cmd)
      [] cmd \in {"FW", "FL"} -> FilterAnswer(cmd)
      [] cmd \in {"NB", "NL", "NR", "RL", "NT"} -> NoiseAnswer(cmd)
      [] cmd \in {"PA", "RA", "RG", "GC"} -> FrontEndAnswer(cmd)
      [] cmd \in {"MG", "PR", "PL"} -> TXAudioAnswer(cmd)
      [] cmd = "AC" -> TunerAnswer
      [] cmd \in {"BP", "AN"} -> NotchAntennaAnswer(cmd)
      [] cmd = "ID" -> Shows(Nothing)

Learn(cmd) ==
    /\ shown' = Decode(cmd).shows @@ shown
    /\ known' = Decode(cmd).notes @@ known

-----------------------------------------------------------------------------
(* The radio                                                                *)

\* A question it does not take as it is now; IF in Data mode it ignores.
Declines(cmd) ==
    \/ cmd = "NL" /\ radio.nb = 0
    \/ cmd = "RL" /\ radio.nr = 0
    \/ cmd = "FW" /\ radio.mode \in {"SSB", "AM"}
    \/ cmd = "GC" /\ radio.mode = "FM"

Ignores(cmd) == cmd = "IF" /\ radio.data

\* A set it refuses as it is now.
Refuses(cmd, v) ==
    \/ Declines(cmd)
    \/ cmd = "FW" /\ radio.mode = "FM"
    \/ cmd = "GC" /\ P.agcOn /\ radio.agc = "off" /\ v \notin {"off", "on"}
    \/ cmd = "DA" /\ ~DataLegal(radio.mode)

\* Data mode goes with the modes that have it.
InMode(r) == [r EXCEPT !.data = r.data /\ DataLegal(r.mode)]

Obeyed(cmd, v) ==
    CASE cmd = "FA" -> [radio EXCEPT !.freq.A = v]
      [] cmd = "FB" -> [radio EXCEPT !.freq.B = v]
      [] cmd = "FR" -> [radio EXCEPT !.rx = v, !.tx = v]
      [] cmd = "FT" -> [radio EXCEPT !.tx = v]
      [] cmd = "MD" -> InMode([radio EXCEPT !.mode = v])
      [] cmd = "OM" -> [radio EXCEPT !.mode = v[1], !.data = v[2]]
      [] cmd = "DA" -> [radio EXCEPT !.data = v]
      [] cmd = "PC" -> [radio EXCEPT !.power = v]
      [] cmd = "TX" -> [radio EXCEPT !.ptt = v]
      [] cmd = "SD" -> [radio EXCEPT !.delay = v]
      [] cmd \in {"BI", "VX"} -> IF radio.mode = "CW" THEN [radio EXCEPT !.keyed = v]
                                 ELSE IF cmd = "VX" THEN [radio EXCEPT !.vox = v] ELSE radio
      [] cmd = "FW" -> [radio EXCEPT !.width = v]
      [] cmd = "FL" -> [radio EXCEPT !.slot = v]
      [] cmd = "NB" -> [radio EXCEPT !.nb = v]
      [] cmd = "NL" -> [radio EXCEPT !.nbLevel = v]
      [] cmd = "NR" -> [radio EXCEPT !.nr = v]
      [] cmd = "RL" -> [radio EXCEPT !.nrLevel = v]
      [] cmd = "NT" -> IF v = "auto" /\ radio.mode = "CW" THEN radio ELSE [radio EXCEPT !.notch = v]
      [] cmd = "GC" -> [radio EXCEPT !.agc = IF v = "on" THEN "slow" ELSE v]
      [] cmd = "PL" -> [radio EXCEPT !.procIn = v[1], !.procOut = v[2]]
      [] cmd = "AC" -> [radio EXCEPT !.tuner = v]
      [] OTHER -> [radio EXCEPT !.plain[cmd] = v]

-----------------------------------------------------------------------------
(* The operations                                                           *)

\* do: what its failure does: "stop" the operation, be passed over ("skip"),
\* or take IF out of use ("block", or "defer" and go on).
AskOr(miss, cmd) == [do |-> "ask", cmd |-> cmd, miss |-> miss]
Ask(cmd) == AskOr("stop", cmd)
Tell(cmd, v) == [do |-> "tell", cmd |-> cmd, to |-> v]
Plan(name, v) == [do |-> "plan", name |-> name, to |-> v]
Fails == <<[do |-> "fail"]>>

Asks(cmds) == [i \in 1..Len(cmds) |-> Ask(cmds[i])]
When(c, list) == IF c THEN list ELSE <<>>

\* A set and its read-back.
Set(cmd, v) == <<Tell(cmd, v), Ask(cmd)>>

\* Init: IF is asked for, whatever bulk_poll says, since nothing else tells
\* whether the radio transmits.
InitSteps ==
    Asks(<<"ID", "FA", P.mode>> \o When(P.vfos, <<"FB", "FR", "FT">>)
         \o When(P.data = "command", <<"DA">>) \o <<"PC">>
         \o When(P.slot = "read", <<"FL">>))
    \o When(P.bulk, <<Plan("status", "none")>>)

\* useBulkPoll
Bulk == P.bulk /\ bulkPoll /\ ~known.dataMode /\ ~known.ifBlocked

\* pollFast; receiveFreqRead follows the VFO being received.
FastSteps ==
    (IF Bulk THEN <<AskOr("block", "IF")>>
     ELSE Asks(<<IF P.vfos /\ known.rx = "B" THEN "FB" ELSE "FA", P.mode>>))
    \o <<Ask("SM"), Plan("extras", "none")>>

\* frontEndReads
FrontEndReads ==
    SelectSeq(<<"PA", "RA", "RG">>, LAMBDA c : c \in Settings)
    \o When(AGCLegal(known.mode), <<"GC">>)

\* A level whose switch is off.
MutantNoiseReads ==
    <<"NB", "NL", "NR">> \o When(known.nr > 0, <<"RL">>) \o <<"NT">>
    \o SelectSeq(<<"BP", "AN">>, LAMBDA c : c \in Settings)

\* noiseReads
NoiseReads ==
    <<"NB">> \o When(known.nb \in 1..2, <<"NL">>)
    \o <<"NR">> \o When(known.nr > 0, <<"RL">>) \o <<"NT">>
    \o SelectSeq(<<"BP", "AN">>, LAMBDA c : c \in Settings)

\* txAudioReads
TXAudioReads == SelectSeq(<<"MG", "PR">>, LAMBDA c : c \in Settings) \o <<"PL">>

\* pollSlow, as far as its list is made in advance.
SlowSteps ==
    Asks(<<"PC", "AC">> \o When(P.vfos, <<"FB", "FR", "FT">>)
         \o When(P.slot = "read", <<"FL">>) \o When(P.data = "command", <<"DA">>)
         \o FrontEndReads \o NoiseReads \o TXAudioReads)
    \o <<Plan("break-in", "none"), Plan("width", "none")>>

BreakInCmd == IF P.breakIn = "VX" THEN "VX" ELSE "BI"

\* pollFastExtras, txMeterReads
ExtraReads == Asks(When(known.transmitting, <<"RM">>) \o When(known.tuner = "tuning", <<"AC">>))

\* breakInRead
BreakInReads ==
    When(P.breakIn # "none" /\ (P.breakIn = "VX" => known.mode = "CW"),
         Asks(When(Binary, <<"SD">>) \o <<BreakInCmd>>))

\* SetSplit, once the receiving VFO is known.
SplitTurn(on) ==
    IF known.rx = "none" THEN Fails
    ELSE <<IF on THEN Tell("FT", OtherVFO(known.rx)) ELSE Tell("FR", known.rx)>>
         \o Asks(<<"FR", "FT">>)

\* SetProcLevel: PL carries both levels.
ProcessorTurn(v) == Set("PL", <<v, known.procOut>>)

\* What an operation goes on to do, decided when it gets there.
Continue(p) ==
    CASE p.name = "status" -> <<AskOr("defer", "IF")>>
      [] p.name = "extras" -> ExtraReads
      [] p.name = "break-in" -> BreakInReads
      [] p.name = "width" -> When(P.width /\ WidthLegal(known.mode), <<Ask("FW")>>)
      [] p.name = "split" -> SplitTurn(p.to)
      [] p.name = "tuner" -> When(known.tuner # p.to, Set("AC", p.to))
      [] p.name = "reducer" -> When(known.nr # p.to, Set("NR", p.to))
      [] p.name = "notch" -> When(known.notch # p.to, Fails)
      [] p.name = "processor" -> ProcessorTurn(p.to)

\* SetFrequency: the VFO a client does not name is the one last seen received.
FrequencySteps(c) ==
    LET v == IF c.vfo = "current" THEN (IF known.rx = "B" THEN "B" ELSE "A") ELSE c.vfo IN
    IF v = "A" \/ P.vfos THEN Set(IF v = "A" THEN "FA" ELSE "FB", c.to) ELSE Fails

\* SetMode
ModeSteps(m, data) ==
    IF data /\ (P.data = "none" \/ ~DataLegal(m)) THEN Fails
    ELSE IF P.mode = "OM" THEN Set("OM", <<m, data>>)
    ELSE Set("MD", m) \o When(P.data = "command" /\ DataLegal(m), Set("DA", data))

\* SetFilterWidth, SetFilterSlot
FilterSteps(c) ==
    IF c.set = "passband" THEN IF P.width /\ WidthLegal(known.mode) THEN Set("FW", c.to) ELSE Fails
    ELSE CASE P.slot = "none" -> Fails
           [] P.slot = "read" -> Set("FL", c.to)
           [] P.slot = "write only" -> <<Tell("FL", c.to)>>

\* SetNotch and SetAutoNotch share one selector: off, where the other is on or
\* neither, there is nothing to send.
NotchSteps(which, on) ==
    LET sel == IF on THEN which ELSE "off" IN
    When(on \/ known.notch = which, Set("NT", sel) \o <<Plan("notch", sel)>>)

\* SetNoiseBlanker ... SetNRLevel; a reducer is read first.
NoiseSteps(c) ==
    CASE c.set = "noise_blanker" -> Set("NB", c.to)
      [] c.set = "nb_level" -> Set("NL", c.to)
      [] c.set = "noise_reduction" -> <<AskOr("skip", "NR"), Plan("reducer", c.to)>>
      [] c.set = "nr_level" -> Set("RL", c.to)
      [] c.set = "notch" -> NotchSteps("manual", c.to)
      [] c.set = "auto_notch" -> NotchSteps("auto", c.to)

\* SetAGC: a TS-590S whose AGC is off takes no speed until it is on.
AGCSteps(v) ==
    When(v # "off" /\ P.agcOn /\ known.agc = "off", <<Tell("GC", "on")>>) \o Set("GC", v)

\* SetBreakIn
BreakInSteps(v) ==
    IF P.breakIn = "none" \/ (P.breakIn = "VX" /\ known.mode # "CW") THEN Fails
    ELSE When(Binary /\ v = "full", Set("SD", 0))
         \o When(Binary /\ v = "semi" /\ known.delay = 0, Set("SD", 300))
         \o Set(BreakInCmd, CASE v = "off" -> 0 [] v = "semi" -> 1
                              [] v = "full" -> IF Binary THEN 1 ELSE 2)

\* SetTuner reads first, StartTune does not.
TunerSteps(c) ==
    IF c.set = "tune" THEN Set("AC", "tuning") ELSE <<Ask("AC"), Plan("tuner", c.to)>>

\* SetPreamp, SetAttenuator, SetRFGain
FrontEndSteps(c) == Set(c.set, c.to)
\* SetNotchFreq, SetAntenna
NotchAntennaSteps(c) == Set(c.set, c.to)
\* SetTXAudioGain, SetProc, SetProcLevel
TXAudioSteps(c) ==
    IF c.set = "proc_level" THEN <<Ask("PL"), Plan("processor", c.to)>> ELSE Set(c.set, c.to)

\* SetPower, SetPTT, SetSplit
OtherSteps(c) ==
    CASE c.set = "split" -> IF ~P.vfos THEN Fails
                            ELSE When(known.rx = "none", <<Ask("FR")>>) \o <<Plan("split", c.to)>>
      [] c.set = "power" -> Set("PC", c.to)
      [] c.set = "ptt" -> <<Tell("TX", c.to)>>

Steps(c) ==
    CASE c.set = "frequency" -> FrequencySteps(c)
      [] c.set = "mode" -> ModeSteps(c.to, c.data)
      [] c.set \in {"passband", "filter_slot"} -> FilterSteps(c)
      [] c.set \in {"noise_blanker", "nb_level", "noise_reduction", "nr_level", "notch",
                    "auto_notch"} -> NoiseSteps(c)
      [] c.set = "agc" -> AGCSteps(c.to)
      [] c.set = "break_in" -> BreakInSteps(c.to)
      [] c.set \in {"tuner", "tune"} -> TunerSteps(c)
      [] c.set \in {"PA", "RA", "RG"} -> FrontEndSteps(c)
      [] c.set \in {"BP", "AN"} -> NotchAntennaSteps(c)
      [] c.set \in {"MG", "PR", "proc_level"} -> TXAudioSteps(c)
      [] OTHER -> OtherSteps(c)

-----------------------------------------------------------------------------
(* Behaviour                                                                *)

NoCommand == [set |-> "none"]

Fresh ==
    [mode |-> "SSB", data |-> FALSE, freq |-> [A |-> "was", B |-> "other"], rx |-> "A",
     tx |-> "A", ptt |-> FALSE, power |-> "was", tuner |-> "off", delay |-> 300,
     keyed |-> 1, vox |-> 1, width |-> "was", slot |-> "was", nb |-> 0, nbLevel |-> "was",
     nr |-> 0, nrLevel |-> "was", notch |-> "off", agc |-> "slow", procIn |-> "was",
     procOut |-> "was", plain |-> [c \in Settings |-> "was"]]

\* The radio as it may be found: in CW on its second VFO with much switched
\* on, or with everything off and in Data mode.
Starts ==
    {[Fresh EXCEPT !.mode = "CW", !.delay = 0, !.nr = 2, !.nb = 1, !.notch = "auto",
                   !.agc = "off", !.rx = IF P.vfos THEN "B" ELSE "A",
                   !.tx = IF P.vfos THEN "B" ELSE "A"],
     [Fresh EXCEPT !.mode = "AM", !.data = (P.data # "none")]}

\* New: the atomics are zero, and a State is empty.
Init ==
    /\ model \in Models /\ bulkPoll \in BOOLEAN /\ (P.bulk \/ ~bulkPoll)
    /\ radio \in Starts
    /\ known = [mode |-> "none", dataMode |-> FALSE, ifBlocked |-> FALSE, delay |-> 0,
               tuner |-> "none", agc |-> "none", nb |-> 0, nr |-> 0, notch |-> "off",
               procOut |-> "none", transmitting |-> FALSE, rx |-> "none", tx |-> "none"]
    /\ shown = Nothing
    /\ op = "init" /\ steps = InitSteps /\ late = 0
    /\ asked = NoCommand /\ outcome = "ok" /\ before = Nothing /\ trusted = FALSE
    /\ failing = {} /\ rounds = 0 /\ events = 0 /\ faults = 0

configVars == <<model, bulkPoll>>
historyVars == <<asked, before, trusted>>
boundVars == <<events, faults>>

\* Each tier twice, and the fast one again.
AllRounds == 6

\* Rig.Poll
Poll(tier) ==
    /\ op = "idle"
    /\ op' = tier
    /\ steps' = IF tier = "fast" THEN FastSteps ELSE SlowSteps
    /\ asked' = NoCommand /\ outcome' = "ok" /\ before' = Nothing /\ trusted' = FALSE
    /\ UNCHANGED <<configVars, radio, known, shown, late, failing, rounds, boundVars>>

Command(c) ==
    /\ op = "idle" /\ events < MaxEvents
    /\ op' = "command" /\ steps' = Steps(c)
    /\ asked' = c /\ outcome' = "ok" /\ before' = radio /\ trusted' = (rounds = AllRounds)
    /\ events' = events + 1 /\ rounds' = 0
    /\ UNCHANGED <<configVars, radio, known, shown, late, failing, faults>>

\* The link was lost; the Rig and what it remembers stay.
Reconnect ==
    /\ op = "idle" /\ faults < MaxFaults
    /\ op' = "init" /\ steps' = InitSteps /\ late' = 0
    /\ faults' = faults + 1 /\ rounds' = 0
    /\ asked' = NoCommand /\ outcome' = "ok" /\ before' = Nothing /\ trusted' = FALSE
    /\ UNCHANGED <<configVars, radio, known, shown, failing, events>>

\* An operation has ended, for the better or the worse.
Counted ==
    rounds' = IF op' # "idle" THEN rounds
              ELSE IF rounds = 0 THEN 1
              ELSE IF rounds < AllRounds /\ op = (IF rounds % 2 = 1 THEN "fast" ELSE "slow")
              THEN rounds + 1 ELSE rounds

Unsettled == rounds' = IF op' = "idle" THEN 1 ELSE 0

\* The operation is over.  An Init that fails is tried again.
Ends(res) ==
    /\ outcome' = IF op = "command" THEN res ELSE outcome
    /\ IF op = "init" /\ res = "error" THEN op' = "init" /\ steps' = InitSteps
       ELSE op' = "idle" /\ steps' = <<>>
    /\ failing' = IF op \notin {"fast", "slow"} THEN failing
                   ELSE IF res = "ok" THEN failing \ {op} ELSE failing \cup {op}

Step == Head(steps)
Doing(what) == steps # <<>> /\ Step.do = what

Finish ==
    /\ op # "idle" /\ steps = <<>>
    /\ Ends("ok") /\ Counted
    /\ UNCHANGED <<configVars, radio, known, shown, late, historyVars, boundVars>>

Decide ==
    /\ Doing("plan")
    /\ steps' = Continue(Step) \o Tail(steps)
    /\ UNCHANGED <<configVars, radio, known, shown, op, late, outcome, failing, rounds,
                   historyVars, boundVars>>

\* Refused here, before anything is sent.
Refuse ==
    /\ Doing("fail") /\ Ends("error") /\ Counted
    /\ UNCHANGED <<configVars, radio, known, shown, late, historyVars, boundVars>>

\* do, answered.
Answered ==
    /\ Doing("ask") /\ late = 0 /\ ~Declines(Step.cmd) /\ ~Ignores(Step.cmd)
    /\ Learn(Step.cmd) /\ steps' = Tail(steps)
    /\ UNCHANGED <<configVars, radio, op, late, outcome, failing, rounds, historyVars, boundVars>>

\* What a failed command leads to.
Missed ==
    CASE Step.miss = "stop" -> Ends("error")
      [] Step.miss = "block" -> Ends("error")
      [] OTHER -> steps' = Tail(steps) /\ UNCHANGED <<op, outcome, failing>>

Blocked(h) == IF Step.miss \in {"block", "defer"} THEN [h EXCEPT !.ifBlocked = TRUE] ELSE h

\* Init does not ask for IF in Data mode; nor is it answered then.
Declined ==
    /\ Doing("ask") /\ late = 0 /\ (Declines(Step.cmd) \/ Ignores(Step.cmd))
    /\ known' = Blocked(known) /\ Missed /\ Counted
    /\ UNCHANGED <<configVars, radio, shown, late, historyVars, boundVars>>

\* The refusal of an earlier set arrives first and is taken for the answer;
\* the answer itself is decoded when it comes.
Blamed ==
    /\ Doing("ask") /\ late > 0
    /\ late' = late - 1
    /\ IF Declines(Step.cmd) \/ Ignores(Step.cmd)
       THEN known' = Blocked(known) /\ UNCHANGED shown
       ELSE /\ shown' = Decode(Step.cmd).shows @@ shown
            /\ known' = Decode(Step.cmd).notes @@ Blocked(known)
    /\ Missed /\ Unsettled
    /\ UNCHANGED <<configVars, radio, historyVars, boundVars>>

\* Nothing comes in time.
Silence ==
    /\ Doing("ask") /\ late = 0 /\ faults < MaxFaults
    /\ faults' = faults + 1
    /\ known' = Blocked(known) /\ Missed /\ Unsettled
    /\ UNCHANGED <<configVars, radio, shown, late, historyVars, events>>

\* A refusal that arrives while no command is outstanding is ignored.
Unheard ==
    /\ late > 0 /\ ~Doing("ask")
    /\ late' = 0
    /\ UNCHANGED <<configVars, radio, known, shown, op, steps, asked, outcome, before, trusted,
                   failing, rounds, boundVars>>

\* send, which knows nothing of what the radio makes of it.
Told ==
    /\ Doing("tell")
    /\ \/ ~Refuses(Step.cmd, Step.to) /\ radio' = Obeyed(Step.cmd, Step.to)
          /\ UNCHANGED <<late, faults>>
       \/ Refuses(Step.cmd, Step.to) /\ late' = late + 1 /\ UNCHANGED <<radio, faults>>
       \/ /\ faults < MaxFaults /\ ~Refuses(Step.cmd, Step.to)
          /\ faults' = faults + 1 /\ late' = late + 1 /\ UNCHANGED radio
    /\ steps' = Tail(steps)
    /\ UNCHANGED <<configVars, known, shown, op, outcome, failing, rounds, historyVars, events>>

\* What the operator can do to the radio, and the frame that would push it.
Moves ==
    {[cmd |-> P.mode, to |-> InMode([radio EXCEPT !.mode = m])] : m \in {"SSB", "CW", "AM", "FM"}}
    \cup {[cmd |-> "DA", to |-> [radio EXCEPT !.data = TRUE]] :
            x \in IF P.data # "none" /\ DataLegal(radio.mode) THEN {1} ELSE {}}
    \cup {[cmd |-> "FA", to |-> [radio EXCEPT !.freq.A = "panel"]]}
    \cup (IF P.vfos THEN {[cmd |-> "FB", to |-> [radio EXCEPT !.freq.B = "panel"]],
                          [cmd |-> "FR", to |-> [radio EXCEPT !.rx = "B", !.tx = "B"]],
                          [cmd |-> "FT", to |-> [radio EXCEPT !.tx = OtherVFO(radio.rx)]]} ELSE {})
    \cup {[cmd |-> "TX", to |-> [radio EXCEPT !.ptt = ~radio.ptt]]}
    \cup {[cmd |-> "none", to |-> r] :
            r \in {[radio EXCEPT !.tuner = "tuning"], [radio EXCEPT !.delay = 0],
                   [radio EXCEPT !.width = "panel"], [radio EXCEPT !.nb = 1],
                   [radio EXCEPT !.nb = 3], [radio EXCEPT !.nr = 1], [radio EXCEPT !.nr = 2],
                   [radio EXCEPT !.notch = "auto"], [radio EXCEPT !.notch = "manual"],
                   [radio EXCEPT !.agc = "off"], [radio EXCEPT !.procOut = "panel"]}}

\* The panel is worked; Auto Information may push what changed.
Panel ==
    /\ events < MaxEvents /\ events' = events + 1
    /\ \E m \in Moves : m.to # radio /\ radio' = m.to
    /\ rounds' = (IF op = "idle" THEN 1 ELSE 0)
    /\ asked' = NoCommand /\ outcome' = "ok" /\ before' = Nothing /\ trusted' = FALSE
    /\ UNCHANGED <<configVars, known, shown, op, steps, late, failing, faults>>

\* Auto Information: a frame nobody asked for, decoded like any answer.
Push(cmd) ==
    /\ ~Ignores(cmd) /\ Decode(cmd).shows @@ shown # shown
    /\ Learn(cmd)
    /\ UNCHANGED <<configVars, radio, op, steps, late, outcome, failing, rounds, historyVars,
                   boundVars>>

\* What clients ask for: a value, a switch, or a number.
Choices ==
    {[set |-> "frequency", vfo |-> v, to |-> "asked"] : v \in {"current", "A", "B"}}
    \cup {[set |-> "mode", to |-> m, data |-> d] : m \in {"SSB", "CW", "AM"}, d \in BOOLEAN}
    \cup {[set |-> s, to |-> "asked"] :
            s \in {"passband", "filter_slot", "nb_level", "nr_level", "proc_level", "power"}
                  \cup Settings}
    \cup {[set |-> "agc", to |-> v] : v \in {"off", "slow"}}
    \cup {[set |-> "break_in", to |-> v] : v \in {"off", "semi", "full"}}
    \cup {[set |-> "tuner", to |-> v] : v \in {"off", "on"}}
    \cup {[set |-> "tune", to |-> "tuning"]}

Switches == {[set |-> s, to |-> b] : s \in {"notch", "auto_notch", "split", "ptt"}, b \in BOOLEAN}

Numbers == {[set |-> s, to |-> n] : s \in {"noise_blanker", "noise_reduction"}, n \in 0..2}

Next ==
    \/ \E tier \in {"fast", "slow"} : Poll(tier)
    \/ \E c \in Choices : Command(c)
    \/ \E c \in Switches : Command(c)
    \/ \E c \in Numbers : Command(c)
    \/ Reconnect \/ Finish \/ Decide \/ Refuse \/ Answered \/ Declined \/ Blamed \/ Silence
    \/ Unheard \/ Told \/ Panel
    \/ \E cmd \in {"TX", "FA", P.mode} : Push(cmd)

Spec == Init /\ [][Next]_vars

-----------------------------------------------------------------------------
(* Correctness                                                              *)

Settled == op = "idle" /\ rounds = AllRounds

\* What the tiers between them read.  Not read are: whether the radio
\* transmits, while IF is out of use; the VFO the radio is not on; and what
\* has no meaning or no command as the radio is now.
Readable ==
    "frequency" :> radio.freq[radio.rx] @@ "mode" :> radio.mode @@ "tuner" :> radio.tuner
    @@ "power" :> <<radio.power, radio.mode = "AM">>
    @@ "noise_reduction" :> radio.nr @@ "notch" :> (radio.notch = "manual")
    @@ "auto_notch" :> (radio.notch = "auto") @@ "proc_level" :> radio.procIn
    @@ [c \in Settings |-> radio.plain[c]]
    @@ If(P.vfos, "vfo_b" :> radio.freq.B @@ "vfo" :> radio.rx @@ "split" :> (radio.rx # radio.tx))
    @@ If(P.data # "none", "data_mode" :> radio.data)
    @@ If(P.slot = "read", "filter_slot" :> radio.slot)
    @@ If(P.width /\ radio.mode = "CW", "passband" :> radio.width)
    @@ If(P.breakIn # "none" /\ radio.mode = "CW", "break_in" :> BreakIn(radio.keyed, radio.delay))
    @@ If(radio.nb <= 2, "noise_blanker" :> radio.nb)
    @@ If(radio.nb \in 1..2, "nb_level" :> radio.nbLevel)
    @@ If(radio.nr > 0, "nr_level" :> <<radio.nrLevel, radio.nr = 2>>)
    @@ If(radio.mode # "FM", "agc" :> radio.agc)
    @@ If(Bulk, "ptt" :> radio.ptt)

\* With the radio left alone the polls find out all they can, whatever was
\* remembered of it before: what is asked depends on what was decoded, and
\* never so that it stays wrong (pollFast, pollSlow).
CatchesUp ==
    Settled => \A f \in DOMAIN Readable : f \in DOMAIN shown /\ shown[f] = Readable[f]

\* And by then the radio declines none of it: a read that is refused costs the
\* rest of its tier once, not for good (noiseReads, breakInRead, filterWidths).
RefusalsDieOut == Settled => failing = {}

\* The setting a command is about.
Field(c) ==
    CASE c.set = "frequency" ->
            IF ~P.vfos \/ c.vfo = "current" \/ c.vfo = radio.rx THEN "frequency"
            ELSE IF c.vfo = "A" THEN "vfo_a" ELSE "vfo_b"
      [] c.set = "tune" -> "tuner"
      [] OTHER -> c.set

\* A command that succeeded on a radio that was known is shown as the radio
\* has it (the read-back of each setter).
ReadBack ==
    (/\ op = "idle" /\ asked # NoCommand /\ trusted /\ outcome = "ok"
     /\ Field(asked) \in DOMAIN Readable \ {"ptt"}) =>
            shown[Field(asked)] = Readable[Field(asked)]

\* The settings a command may move.
Owned(c) ==
    CASE c.set = "frequency" -> {"freq"}
      [] c.set = "mode" -> {"mode", "data"}
      [] c.set = "passband" -> {"width"}
      [] c.set = "filter_slot" -> {"slot"}
      [] c.set = "noise_blanker" -> {"nb"}
      [] c.set = "nb_level" -> {"nbLevel"}
      [] c.set = "noise_reduction" -> {"nr"}
      [] c.set = "nr_level" -> {"nrLevel"}
      [] c.set \in {"notch", "auto_notch"} -> {"notch"}
      [] c.set = "split" -> {"tx"}
      [] c.set = "break_in" -> {"keyed", "delay"}
      [] c.set = "proc_level" -> {"procIn"}
      [] c.set = "tune" -> {"tuner"}
      [] c.set \in Settings -> {"plain"}
      [] OTHER -> {c.set}

\* A command on a radio that was known moves nothing it was not asked to,
\* where several settings share a frame or a selector: split and receive VFO,
\* processor input and output, the two notches (setNotchSel, SetProcLevel).
OnlyAsked ==
    (asked # NoCommand /\ trusted) =>
        /\ \A s \in DOMAIN radio \ Owned(asked) : radio[s] = before[s]
        /\ (asked.set = "notch" /\ ~asked.to /\ before.notch = "auto") => radio.notch = "auto"
        /\ (asked.set = "auto_notch" /\ ~asked.to /\ before.notch = "manual") =>
              radio.notch = "manual"

KenwoodIsTold == CatchesUp /\ RefusalsDieOut /\ ReadBack /\ OnlyAsked
=============================================================================
