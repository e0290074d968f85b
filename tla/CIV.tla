--------------------------------- MODULE CIV ---------------------------------
(***************************************************************************)
(* The Icom CI-V backend (internal/rig/backend/civ).  Each operation is a  *)
(* list of transactions: a read ("ask"), a set ("set"), or a decision on   *)
(* the last answer ("plan").  Every set is acknowledged, and every refusal *)
(* looks the same: FB or FA, with nothing to tell which command it is for. *)
(* An acknowledgement that comes after its command timed out answers the   *)
(* next one.  The connection makes an error of a refusal (conn.Do), and    *)
(* an error ends the operation.                                            *)
(*                                                                         *)
(* The session runs one operation at a time; in between the operator works *)
(* the front panel, and a radio in Transceive mode broadcasts frequency    *)
(* and mode.  The value of a setting says where it came from: "was", the   *)
(* "panel", or "asked" by a client.  BCD, bytes and scales are left out;   *)
(* a filter width is decoded by the mode, so a reading is the pair.        *)
(***************************************************************************)
EXTENDS Naturals, Sequences, TLC

CONSTANTS
    Models,     \* the configured models
    Settings,   \* settings with a read and a set of their own
    MaxEvents,  \* bound: moves on the panel and commands of clients
    MaxFaults   \* bound: answers that are lost or late

VARIABLES
    model,      \* civ.model
    radio,      \* the radio's settings
    known,      \* Rig's atomics: what was last decoded
    got,        \* the patch of the last answer
    shown,      \* what Decode has published, the session's State
    op,         \* "idle", "init", "fast", "slow" or "command"
    steps,      \* the transactions left
    late,       \* acknowledgements still to come, of commands given up
    asked,      \* history: the command last run, until anything follows it
    outcome,    \* history: "error" once that command has failed
    before,     \* history: the radio when that command came
    trusted,    \* history: nothing had been unsettled when it came
    failing,    \* history: the tiers whose last poll ended in an error
    rounds,     \* history: 0 while what the last event caught is under way, then 1
                \* and one more for each poll, in turn fast and slow
    events, faults

vars == <<model, radio, known, got, shown, op, steps, late, asked, outcome, before,
          trusted, failing, rounds, events, faults>>

-----------------------------------------------------------------------------
(* The models                                                               *)

\* modern; 25 and 26 name a band, or the selected VFO and the other.
Modern == [ptt |-> TRUE, power |-> TRUE, width |-> TRUE, data |-> TRUE, slots |-> TRUE,
           tuner |-> TRUE, dual |-> FALSE, byBand |-> FALSE, bands |-> FALSE,
           select |-> {}, watch |-> FALSE, breakIn |-> FALSE, antennas |-> 0,
           rxAntennas |-> 0, digiSel |-> FALSE, levels |-> TRUE]

\* mkiiFamily: neither transmitter nor levels on the bus.
MKII == [Modern EXCEPT !.ptt = FALSE, !.power = FALSE, !.width = FALSE, !.data = FALSE,
                       !.tuner = FALSE, !.levels = FALSE, !.select = {"current", "other"}]

Profile ==
    [ic7610 |-> [Modern EXCEPT !.dual = TRUE, !.byBand = TRUE, !.watch = TRUE,
                               !.breakIn = TRUE, !.antennas = 2, !.rxAntennas = 2,
                               !.digiSel = TRUE, !.select = {"current"}],
     ic9700 |-> [Modern EXCEPT !.dual = TRUE, !.bands = TRUE, !.breakIn = TRUE,
                               !.tuner = FALSE, !.select = {"current", "other"}],
     ic7700 |-> [Modern EXCEPT !.antennas = 4, !.rxAntennas = 3, !.digiSel = TRUE],
     ic706  |-> MKII]

P == Profile[model]

\* The DATA menu's modes.
DataLegal(m) == m \in {"SSB", "AM", "FM"}

\* filterWidthHz, filterWidthIndex: the table an index is looked up in.
Table(m) == CASE m = "AM" -> "AM" [] m \in {"SSB", "CW"} -> "SSB" [] OTHER -> "none"

\* filterWidthLegal: a mode not known yet is asked about.
WidthLegal(m) == m = "none" \/ Table(m) # "none"

-----------------------------------------------------------------------------
(* The radio                                                                *)

\* The receiver the plain commands are about, and the two that 25 and 26 name:
\* of an IC-9700 both belong to its main band.
Operating == IF radio.band = "sub" THEN "sub" ELSE "A"
Here == radio.at[Operating]

\* A read the radio answers NG.
Declines(cmd) ==
    \/ cmd \in {"passband", "notch_width"} /\ Table(Here.mode) = "none"
    \/ cmd \in {"width A", "width B"}
       /\ Table(radio.at[IF cmd = "width A" THEN "A" ELSE "B"].mode) = "none"
    \/ cmd = "sub_s_meter" /\ ~radio.dual_watch

\* A set it answers NG.
Refuses(cmd, v) ==
    \/ cmd = "passband" /\ Table(Here.mode) = "none"
    \/ cmd = "agc" /\ Here.mode = "FM"
    \/ cmd = "data_mode" /\ ~DataLegal(Here.mode)
    \/ cmd = "preamp" /\ v # "off" /\ radio.digi_sel
    \/ cmd = "antenna" /\ v[2] /\ v[1] > P.rxAntennas

\* Command 06 selects the mode's own filter unless it names one, and leaves
\* Data mode; 1A 06 carries the flag and a filter.
InMode(r, m, slot) == [r EXCEPT !.mode = m, !.data = FALSE, !.slot = slot]
InData(r, on, slot) == [r EXCEPT !.data = on, !.slot = IF on THEN slot ELSE r.slot]

\* Selecting the other VFO, and exchanging the bands.
Swapped(x, y) ==
    [radio EXCEPT !.at = [b \in DOMAIN radio.at |->
        IF b = x THEN radio.at[y] ELSE IF b = y THEN radio.at[x] ELSE radio.at[b]]]

Obeyed(cmd, v) ==
    CASE cmd = "frequency" -> [radio EXCEPT !.at[Operating].freq = v]
      [] cmd = "mode" -> [radio EXCEPT !.at[Operating] = InMode(Here, v[1], v[2])]
      [] cmd = "data_mode" -> [radio EXCEPT !.at[Operating] = InData(Here, v[1], v[2])]
      [] cmd = "passband" -> [radio EXCEPT !.at[Operating].width =
                                 IF v[2] = Table(Here.mode) THEN v[1] ELSE "misread"]
      [] cmd \in {"freq A", "freq B"} ->
            [radio EXCEPT !.at[IF cmd = "freq A" THEN "A" ELSE "B"].freq = v]
      [] cmd \in {"mode A", "mode B"} ->
            [radio EXCEPT !.at[IF cmd = "mode A" THEN "A" ELSE "B"] =
                [@ EXCEPT !.mode = v[1], !.data = v[2], !.slot = v[3]]]
      [] cmd = "select" -> IF v = "current" THEN radio ELSE Swapped("A", "B")
      [] cmd = "exchange" -> Swapped("A", "sub")
      [] cmd \in DOMAIN radio.plain -> [radio EXCEPT !.plain[cmd] = v]
      [] OTHER -> [radio EXCEPT ![cmd] = v]

-----------------------------------------------------------------------------
(* Decode                                                                   *)

Nothing == [x \in {} |-> x]
Shows(s) == [shows |-> s, notes |-> Nothing]
If(c, s) == IF c THEN s ELSE Nothing

\* decodeMode: the mode is kept for the widths that follow.
ModeAnswer ==
    [shows |-> "mode" :> Here.mode @@ If(P.slots, "filter_slot" :> Here.slot),
     notes |-> "mode" :> Here.mode]

\* 1A 03, looked up in the table of the mode last decoded.
WidthAnswer ==
    Shows(If(Table(known.mode) # "none", "passband" :> <<Here.width, Table(known.mode)>>))

\* 1A 06
DataAnswer == Shows("data_mode" :> Here.data @@ If(Here.data, "filter_slot" :> Here.slot))

\* storeVFO: what is known of a VFO is published whole.
Stores(v, state) ==
    LET field == IF v = "A" THEN "vfo_a" ELSE "vfo_b" IN
    [shows |-> field :> state, notes |-> field :> state]

Snapshot(v) == IF v = "A" THEN known.vfo_a ELSE known.vfo_b

\* decodeVFOFreq, decodeVFOMode, decodeBandPrefixed
VFOAnswer(what, v) ==
    CASE what = "freq" -> Stores(v, [Snapshot(v) EXCEPT !.freq = radio.at[v].freq])
      [] what = "mode" -> Stores(v, [Snapshot(v) EXCEPT !.mode = radio.at[v].mode,
                                                        !.data = radio.at[v].data,
                                                        !.slot = radio.at[v].slot])
      [] what = "width" ->
            IF Table(Snapshot(v).mode) = "none" THEN Shows(Nothing)
            ELSE Stores(v, [Snapshot(v) EXCEPT !.width =
                               <<radio.at[v].width, Table(Snapshot(v).mode)>>])

\* 1C
TransceiverAnswer(cmd) ==
    IF cmd = "ptt" THEN [shows |-> "ptt" :> radio.ptt, notes |-> "transmitting" :> radio.ptt]
    ELSE [shows |-> "tuner" :> radio.tuner, notes |-> "tuner" :> radio.tuner]

\* 07 and 0F
SelectionAnswer(cmd) ==
    [shows |-> cmd :> radio[cmd],
     notes |-> If(cmd = "dual_watch", "dual_watch" :> radio.dual_watch)]

\* 15; what a meter shows is left out, except that it is a transmit meter.
MeterAnswer(cmd) == Shows(If(cmd = "meters", "swr" :> radio.ptt))

\* 16, 11 and 14: a switch or a level, published under its own name.
SwitchAnswer(cmd) == Shows(cmd :> IF cmd \in Settings THEN radio.plain[cmd] ELSE radio[cmd])
LevelAnswer(cmd) == Shows(cmd :> IF cmd = "power" THEN radio.power ELSE radio.plain[cmd])

Levels == {"power", "rf_gain", "nb_level", "nr_level", "notch_freq", "tx_audio_gain", "proc_level"}

\* decodeAntenna: one answer for the socket and its receive input.
AntennaAnswer == Shows("antenna" :> radio.antenna[1]
                       @@ If(P.rxAntennas > 0, "rx_antenna" :> radio.antenna[2]))

Decode(cmd) ==
    CASE cmd = "frequency" -> Shows("frequency" :> Here.freq)
      [] cmd = "mode" -> ModeAnswer
      [] cmd = "passband" -> WidthAnswer
      [] cmd = "data_mode" -> DataAnswer
      [] cmd \in {"freq A", "freq B"} -> VFOAnswer("freq", IF cmd = "freq A" THEN "A" ELSE "B")
      [] cmd \in {"mode A", "mode B"} -> VFOAnswer("mode", IF cmd = "mode A" THEN "A" ELSE "B")
      [] cmd \in {"width A", "width B"} ->
            VFOAnswer("width", IF cmd = "width A" THEN "A" ELSE "B")
      [] cmd \in {"ptt", "tuner"} -> TransceiverAnswer(cmd)
      [] cmd \in {"dual_watch", "band", "split"} -> SelectionAnswer(cmd)
      [] cmd \in {"meters", "s_meter", "sub_s_meter"} -> MeterAnswer(cmd)
      [] cmd = "id" -> Shows(Nothing)
      [] cmd = "antenna" -> AntennaAnswer
      [] cmd \in Levels -> LevelAnswer(cmd)
      [] OTHER -> SwitchAnswer(cmd)

Learn(cmd) ==
    /\ shown' = Decode(cmd).shows @@ shown
    /\ known' = Decode(cmd).notes @@ known

-----------------------------------------------------------------------------
(* The operations                                                           *)

Ask(cmd) == [do |-> "ask", cmd |-> cmd]
Set(cmd, v) == [do |-> "set", cmd |-> cmd, to |-> v]
Plan(name, v) == [do |-> "plan", name |-> name, to |-> v]
Fails == <<[do |-> "fail"]>>

Asks(cmds) == [i \in 1..Len(cmds) |-> Ask(cmds[i])]
When(c, list) == IF c THEN list ELSE <<>>
Has(list) == When(P.levels, SelectSeq(list, LAMBDA f : f \in Settings \cup {"preamp"}))

\* ReadVFOs
VFOReads ==
    <<"freq A", "freq B", "mode A", "mode B">>
    \o When(P.width /\ P.byBand, <<"width A", "width B">>) \o <<"split">>
    \o When(P.watch, <<"dual_watch">>)

\* Init; checkIdentity takes no for an answer.
InitSteps ==
    <<[do |-> "ask", cmd |-> "id", spared |-> TRUE]>>
    \o Asks(<<"frequency", "mode">> \o When(P.power, <<"power", "s_meter">>)
            \o When(P.ptt, <<"ptt">>))
    \o When(P.dual, Asks(VFOReads) \o <<Plan("sub meter", "none")>>)

\* Poll, the fast tier, by what was decoded before.
FastSteps ==
    Asks(<<"frequency", "mode">> \o When(P.ptt, <<"ptt">>) \o When(P.power, <<"s_meter">>)
         \o When(P.ptt /\ known.transmitting, <<"meters">>)
         \o When(P.tuner /\ known.tuner = "tuning", <<"tuner">>)
         \o When(P.bands, <<"band">>)
         \o When(P.dual /\ known.dual_watch, <<"sub_s_meter">>))

\* noiseReads, txAudioReads
NoiseReads == Has(<<"noise_blanker", "nb_level", "noise_reduction", "nr_level", "notch",
                    "notch_freq", "notch_width", "auto_notch">>)
TXAudioReads == Has(<<"tx_audio_gain", "proc", "proc_level">>)

\* A tier that leaves the VFOs' frequencies to Init.
MutantSlowSteps ==
    Asks(When(P.tuner, <<"tuner">>) \o When(P.power, <<"power">>)
         \o When(P.width /\ WidthLegal(known.mode), <<"passband">>)
         \o When(P.dual, <<"mode A", "mode B", "split">>)
         \o When(P.watch, <<"dual_watch">>) \o When(P.breakIn, <<"break_in">>)
         \o When(P.data, <<"data_mode">>) \o When(P.antennas > 0, <<"antenna">>)
         \o Has(<<"preamp", "attenuator", "rf_gain", "agc", "ip_plus">>)
         \o When(P.digiSel, <<"digi_sel">>) \o NoiseReads \o TXAudioReads)

\* Poll, the slow tier.
SlowSteps ==
    Asks(When(P.tuner, <<"tuner">>) \o When(P.power, <<"power">>)
         \o When(P.width /\ WidthLegal(known.mode), <<"passband">>)
         \o When(P.dual, <<"freq A", "freq B", "mode A", "mode B", "split">>)
         \o When(P.watch, <<"dual_watch">>) \o When(P.breakIn, <<"break_in">>)
         \o When(P.data, <<"data_mode">>) \o When(P.antennas > 0, <<"antenna">>)
         \o Has(<<"preamp", "attenuator", "rf_gain", "agc", "ip_plus">>)
         \o When(P.digiSel, <<"digi_sel">>) \o NoiseReads \o TXAudioReads)

\* SetMode: the mode the radio is in is not sent again, since 06 would move
\* the filter; data mode carries the filter it finds.
ModeSteps(m, data) ==
    IF data /\ (~P.data \/ ~DataLegal(m)) THEN Fails
    ELSE <<Ask("mode"), Plan("mode", [mode |-> m, data |-> data])>>

ModeTurn(p) ==
    LET changed == got.mode # p.mode IN
    When(changed, <<Set("mode", <<p.mode, "default">>)>>)
    \o When(P.data /\ DataLegal(p.mode),
            IF ~p.data THEN <<Set("data_mode", <<FALSE, "none">>)>>
            ELSE When(changed, <<Ask("mode")>>) \o <<Plan("data", "on")>>)

\* SetFilterSlot: by 1A 06 in data mode, by 06 and the same mode otherwise.
SlotTurn(slot) ==
    IF P.data /\ DataLegal(got.mode)
    THEN <<Ask("data_mode"), Plan("slot in data", [mode |-> got.mode, slot |-> slot])>>
    ELSE <<Set("mode", <<got.mode, slot>>)>>

SlotInDataTurn(p) ==
    IF got.data_mode THEN <<Set("data_mode", <<TRUE, p.slot>>)>>
    ELSE <<Set("mode", <<p.mode, p.slot>>)>>

\* SetFilterWidth
WidthTurn(hz) ==
    IF Table(got.mode) = "none" THEN Fails ELSE <<Set("passband", <<hz, Table(got.mode)>>)>>

\* SetVFOMode; a slot the client does not name is the VFO's own.
VFOModeSteps(c) ==
    IF ~P.dual \/ (c.data /\ ~DataLegal(c.to)) THEN Fails
    ELSE LET cmd == IF c.vfo = "A" THEN "mode A" ELSE "mode B" IN
         IF c.slot = "own" THEN <<Ask(cmd), Plan("VFO mode", c)>>
         ELSE <<Set(cmd, <<c.to, c.data, c.slot>>)>>

VFOModeTurn(c) ==
    LET cur == IF c.vfo = "A" THEN got.vfo_a ELSE got.vfo_b IN
    <<Set(IF c.vfo = "A" THEN "mode A" ELSE "mode B", <<c.to, c.data, cur.slot>>)>>

\* SetAntenna keeps the receive input where the socket has one; SetRXAntenna
\* keeps the socket.
AntennaTurn(n) == <<Set("antenna", <<n, got.rx_antenna /\ n <= P.rxAntennas>>)>>
RXAntennaTurn(on) ==
    IF on /\ got.antenna > P.rxAntennas THEN Fails ELSE <<Set("antenna", <<got.antenna, on>>)>>

Continue(p) ==
    CASE p.name = "sub meter" -> When(known.dual_watch, <<Ask("sub_s_meter")>>)
      [] p.name = "mode" -> ModeTurn(p.to)
      [] p.name = "data" -> <<Set("data_mode", <<TRUE, got.filter_slot>>)>>
      [] p.name = "slot" -> SlotTurn(p.to)
      [] p.name = "slot in data" -> SlotInDataTurn(p.to)
      [] p.name = "width" -> WidthTurn(p.to)
      [] p.name = "VFO mode" -> VFOModeTurn(p.to)
      [] p.name = "antenna" -> AntennaTurn(p.to)
      [] p.name = "rx antenna" -> RXAntennaTurn(p.to)

\* SetVFOFrequency, SetSplit, SetDualWatch, SelectVFOMode, ExchangeBands: each
\* where the model has it.
VFOSteps(c) ==
    CASE c.set = "vfo frequency" ->
            IF P.dual THEN <<Set(IF c.vfo = "A" THEN "freq A" ELSE "freq B", c.to)>> ELSE Fails
      [] c.set = "split" -> IF P.dual THEN <<Set("split", c.to)>> ELSE Fails
      [] c.set = "dual_watch" -> IF P.watch THEN <<Set("dual_watch", c.to)>> ELSE Fails
      [] c.set = "select" -> IF c.to \in P.select THEN <<Set("select", c.to)>> ELSE Fails
      [] c.set = "exchange" -> IF P.bands THEN <<Set("exchange", c.to)>> ELSE Fails

\* What takes one command, on a model that has it.
Single(has, c) == IF has THEN <<Set(c.set, c.to)>> ELSE Fails

\* SetTuner, StartTune
TunerSteps(c) == Single(P.tuner, c)
\* SetFrequency: 05 tunes whatever is in hand, whichever VFO the Rig believes that is.
FrequencySteps(c) == <<Set("frequency", c.to)>>
\* SetBreakIn
BreakInSteps(c) == Single(P.breakIn, c)
\* SetPower, SetPTT
TransmitSteps(c) == Single(IF c.set = "power" THEN P.power ELSE P.ptt, c)
\* SetPreamp ... SetDigiSelShift
FrontEnd == {"preamp", "attenuator", "rf_gain", "agc", "ip_plus", "digi_sel", "digi_sel_shift"}
FrontEndSteps(c) == Single(IF c.set = "digi_sel" THEN P.digiSel ELSE P.levels, c)
\* SetNoiseBlanker ... SetAutoNotch
Noise == {"noise_blanker", "nb_level", "noise_reduction", "nr_level", "notch", "notch_freq",
          "notch_width", "auto_notch"}
NoiseSteps(c) == Single(P.levels, c)
\* SetTXAudioGain, SetProc, SetProcLevel
TXAudio == {"tx_audio_gain", "proc", "proc_level"}
TXAudioSteps(c) == Single(P.levels, c)

Steps(c) ==
    CASE c.set = "mode" -> ModeSteps(c.to, c.data)
      [] c.set = "filter_slot" -> IF P.slots THEN <<Ask("mode"), Plan("slot", c.to)>> ELSE Fails
      [] c.set = "passband" -> IF P.width THEN <<Ask("mode"), Plan("width", c.to)>> ELSE Fails
      [] c.set = "vfo mode" -> VFOModeSteps(c)
      [] c.set = "antenna" -> IF c.to > P.antennas THEN Fails
                              ELSE <<Ask("antenna"), Plan("antenna", c.to)>>
      [] c.set = "rx_antenna" -> IF P.rxAntennas = 0 THEN Fails
                                 ELSE <<Ask("antenna"), Plan("rx antenna", c.to)>>
      [] c.set \in {"vfo frequency", "split", "dual_watch", "select", "exchange"} -> VFOSteps(c)
      [] c.set = "frequency" -> FrequencySteps(c)
      [] c.set = "tuner" -> TunerSteps(c)
      [] c.set = "break_in" -> BreakInSteps(c)
      [] c.set \in {"power", "ptt"} -> TransmitSteps(c)
      [] c.set \in FrontEnd -> FrontEndSteps(c)
      [] c.set \in Noise -> NoiseSteps(c)
      [] c.set \in TXAudio -> TXAudioSteps(c)

-----------------------------------------------------------------------------
(* Behaviour                                                                *)

NoCommand == [set |-> "none"]

Receiver == [freq |-> "was", mode |-> "SSB", data |-> FALSE, slot |-> "was", width |-> "was"]
Unread == [freq |-> "none", mode |-> "none", data |-> FALSE, slot |-> "none", width |-> "none"]

Fresh ==
    [at |-> [A |-> Receiver, B |-> [Receiver EXCEPT !.freq = "other"],
             sub |-> [Receiver EXCEPT !.freq = "other"]],
     band |-> "main", split |-> FALSE, dual_watch |-> FALSE, ptt |-> FALSE, power |-> "was",
     tuner |-> "off", break_in |-> "was", preamp |-> "off", digi_sel |-> FALSE,
     antenna |-> <<1, FALSE>>, plain |-> [f \in Settings |-> "was"]]

\* The radio as it may be found: in Data mode with a receive antenna, or in FM
\* without, the sub band in hand.
Starts ==
    {[Fresh EXCEPT !.at.A.data = P.data, !.digi_sel = P.digiSel,
                   !.antenna = <<IF P.rxAntennas > 0 THEN 2 ELSE 1, P.rxAntennas > 0>>],
     [Fresh EXCEPT !.at.A.mode = "FM", !.at.sub.mode = "CW",
                   !.band = IF P.bands THEN "sub" ELSE "main",
                   !.antenna = <<IF P.antennas > 0 THEN P.antennas ELSE 1, FALSE>>]}

\* New
Init ==
    /\ model \in Models
    /\ radio \in Starts
    /\ known = [mode |-> "none", transmitting |-> FALSE, tuner |-> "none", dual_watch |-> FALSE,
                vfo_a |-> Unread, vfo_b |-> Unread]
    /\ got = Nothing /\ shown = Nothing
    /\ op = "init" /\ steps = InitSteps /\ late = <<>>
    /\ asked = NoCommand /\ outcome = "ok" /\ before = Nothing /\ trusted = FALSE
    /\ failing = {} /\ rounds = 0 /\ events = 0 /\ faults = 0

historyVars == <<asked, before, trusted>>
boundVars == <<events, faults>>

\* Each tier once, and the fast one again.
AllRounds == 4

\* Rig.Poll
Poll(tier) ==
    /\ op = "idle"
    /\ op' = tier
    /\ steps' = IF tier = "fast" THEN FastSteps ELSE SlowSteps
    /\ asked' = NoCommand /\ outcome' = "ok" /\ before' = Nothing /\ trusted' = FALSE
    /\ UNCHANGED <<model, radio, known, got, shown, late, failing, rounds, boundVars>>

\* Beyond the bound, one that was given up is tried again.
Command(c) ==
    /\ op = "idle"
    /\ events < MaxEvents \/ (events < MaxEvents + Len(late) /\ c.set = asked.set)
    /\ op' = "command" /\ steps' = Steps(c)
    /\ asked' = c /\ outcome' = "ok" /\ before' = radio /\ trusted' = (rounds = AllRounds)
    /\ events' = events + 1 /\ rounds' = 0
    /\ UNCHANGED <<model, radio, known, got, shown, late, failing, faults>>

\* The link was lost; the Rig and what it remembers stay.
Reconnect ==
    /\ op = "idle" /\ faults < MaxFaults
    /\ op' = "init" /\ steps' = InitSteps /\ late' = <<>>
    /\ faults' = faults + 1 /\ rounds' = 0
    /\ asked' = NoCommand /\ outcome' = "ok" /\ before' = Nothing /\ trusted' = FALSE
    /\ UNCHANGED <<model, radio, known, got, shown, failing, events>>

\* An operation has ended, for the better or the worse.
Counted ==
    rounds' = IF op' # "idle" THEN rounds
              ELSE IF rounds = 0 THEN 1
              ELSE IF rounds < AllRounds /\ op = (IF rounds % 2 = 1 THEN "fast" ELSE "slow")
              THEN rounds + 1 ELSE rounds

Unsettled == rounds' = IF op' = "idle" THEN 1 ELSE 0

\* The operation is over.  An Init that fails is tried again.
Ends(res) ==
    /\ outcome' = IF op = "command" THEN res ELSE outcome
    /\ IF op = "init" /\ res = "error" THEN op' = "init" /\ steps' = InitSteps
       ELSE op' = "idle" /\ steps' = <<>>
    /\ failing' = IF op \notin {"fast", "slow"} THEN failing
                  ELSE IF res = "ok" THEN failing \ {op} ELSE failing \cup {op}

Step == Head(steps)
Doing(what) == steps # <<>> /\ Step.do = what
Goes == steps' = Tail(steps) /\ UNCHANGED <<op, outcome, failing>>

\* readAll and read: an error of the connection, a refusal among them, is the
\* end of the list.
Missed == IF "spared" \in DOMAIN Step THEN Goes ELSE Ends("error")

Finish ==
    /\ op # "idle" /\ steps = <<>>
    /\ Ends("ok") /\ Counted
    /\ UNCHANGED <<model, radio, known, got, shown, late, historyVars, boundVars>>

Decide ==
    /\ Doing("plan")
    /\ steps' = Continue(Step) \o Tail(steps)
    /\ UNCHANGED <<model, radio, known, got, shown, op, late, outcome, failing, rounds,
                   historyVars, boundVars>>

\* Refused here, before anything is sent.
Refuse ==
    /\ Doing("fail") /\ Ends("error") /\ Counted
    /\ UNCHANGED <<model, radio, known, got, shown, late, historyVars, boundVars>>

\* read, answered or refused.
Answered ==
    /\ Doing("ask") /\ late = <<>> /\ ~Declines(Step.cmd)
    /\ Learn(Step.cmd) /\ got' = Decode(Step.cmd).shows /\ Goes
    /\ UNCHANGED <<model, radio, late, rounds, historyVars, boundVars>>

Declined ==
    /\ Doing("ask") /\ late = <<>> /\ Declines(Step.cmd)
    /\ Missed /\ Counted
    /\ UNCHANGED <<model, radio, known, got, shown, late, historyVars, boundVars>>

\* What a set does to the radio, and the acknowledgement it will send.
Takes ==
    radio' = IF Refuses(Step.cmd, Step.to) THEN radio ELSE Obeyed(Step.cmd, Step.to)
Ack == IF Refuses(Step.cmd, Step.to) THEN "ng" ELSE "ok"

\* set, acknowledged.
Acknowledged ==
    /\ Doing("set") /\ late = <<>>
    /\ Takes /\ IF Ack = "ok" THEN Goes ELSE Ends("error")
    /\ Counted
    /\ UNCHANGED <<model, known, got, shown, late, historyVars, boundVars>>

\* A frame is lost on its way there.
Silence ==
    /\ (Doing("ask") \/ Doing("set")) /\ late = <<>> /\ faults < MaxFaults
    /\ faults' = faults + 1
    /\ Missed /\ Unsettled
    /\ UNCHANGED <<model, radio, known, got, shown, late, historyVars, events>>

\* The acknowledgement takes longer than the time-out.
Delayed ==
    /\ Doing("set") /\ late = <<>> /\ faults < MaxFaults
    /\ faults' = faults + 1
    /\ Takes /\ late' = <<Ack>>
    /\ Ends("error") /\ Unsettled
    /\ UNCHANGED <<model, known, got, shown, historyVars, events>>

\* It arrives while another set waits for its own, which comes later still.
MisledSet ==
    /\ Doing("set") /\ late # <<>>
    /\ Takes /\ late' = Append(Tail(late), Ack)
    /\ IF Head(late) = "ok" THEN Goes ELSE Ends("error")
    /\ Unsettled
    /\ UNCHANGED <<model, known, got, shown, historyVars, boundVars>>

\* Or while a read waits: its answer, when it comes, is decoded all the same.
MisledRead ==
    /\ Doing("ask") /\ late # <<>>
    /\ IF Declines(Step.cmd)
       THEN late' = Append(Tail(late), "ng") /\ UNCHANGED <<known, shown>>
       ELSE late' = Tail(late) /\ Learn(Step.cmd)
    /\ Missed /\ Unsettled
    /\ UNCHANGED <<model, radio, got, historyVars, boundVars>>

\* Or while nobody waits.
Unheard ==
    /\ op = "idle" /\ late # <<>>
    /\ late' = Tail(late)
    /\ UNCHANGED <<model, radio, known, got, shown, op, steps, outcome, failing, rounds,
                   historyVars, boundVars>>

\* What the operator can do to the radio.
Moves ==
    {[radio EXCEPT !.at[Operating].mode = m, !.at[Operating].data = FALSE] :
        m \in {"SSB", "CW", "AM", "FM"}}
    \cup (IF P.data /\ DataLegal(Here.mode) THEN {[radio EXCEPT !.at[Operating].data = TRUE]}
          ELSE {})
    \cup {[radio EXCEPT !.at[Operating].freq = "panel"],
          [radio EXCEPT !.at[Operating].slot = "panel"],
          [radio EXCEPT !.at[Operating].width = "panel"]}
    \cup (IF P.dual THEN {[radio EXCEPT !.at.B.freq = "panel"], [radio EXCEPT !.at.B.mode = "CW"],
                          [radio EXCEPT !.split = TRUE]} ELSE {})
    \cup (IF P.bands THEN {[radio EXCEPT !.band = "sub"]} ELSE {})
    \cup (IF P.watch THEN {[radio EXCEPT !.dual_watch = ~radio.dual_watch]} ELSE {})
    \cup (IF P.ptt THEN {[radio EXCEPT !.ptt = ~radio.ptt]} ELSE {})
    \cup (IF P.tuner THEN {[radio EXCEPT !.tuner = "tuning"]} ELSE {})
    \cup (IF P.antennas > 0 THEN {[radio EXCEPT !.antenna = <<2, FALSE>>]} ELSE {})

Panel ==
    /\ events < MaxEvents /\ events' = events + 1
    /\ \E r \in Moves : r # radio /\ radio' = r
    /\ rounds' = (IF op = "idle" THEN 1 ELSE 0)
    /\ asked' = NoCommand /\ outcome' = "ok" /\ before' = Nothing /\ trusted' = FALSE
    /\ UNCHANGED <<model, known, got, shown, op, steps, late, failing, faults>>

\* CI-V Transceive: frequency and mode, decoded like any answer.
Broadcast(cmd) ==
    /\ Decode(cmd).shows @@ shown # shown
    /\ Learn(cmd)
    /\ UNCHANGED <<model, radio, got, op, steps, late, outcome, failing, rounds, historyVars,
                   boundVars>>

\* What clients ask for.
Choices ==
    {[set |-> "mode", to |-> m, data |-> d] : m \in {"SSB", "CW", "FM"}, d \in BOOLEAN}
    \cup {[set |-> "vfo mode", vfo |-> v, to |-> m, data |-> d, slot |-> s] :
            v \in {"A", "B"}, m \in {"SSB", "CW"}, d \in {TRUE}, s \in {"own", "asked"}}
    \cup {[set |-> "vfo frequency", vfo |-> v, to |-> "asked"] : v \in {"A", "B"}}
    \cup {[set |-> s, to |-> "asked"] :
            s \in {"frequency", "filter_slot", "passband", "power", "preamp", "break_in"}
                  \cup Settings}
    \cup {[set |-> "tuner", to |-> v] : v \in {"off", "tuning"}}
    \cup {[set |-> "select", to |-> v] : v \in {"current", "other"}}
    \cup {[set |-> "exchange", to |-> "bands"]}

Switches ==
    {[set |-> s, to |-> b] :
        s \in {"split", "dual_watch", "ptt", "digi_sel", "rx_antenna"}, b \in BOOLEAN}
Sockets == {[set |-> "antenna", to |-> n] : n \in {1, 2, 4}}

Next ==
    \/ \E tier \in {"fast", "slow"} : Poll(tier)
    \/ \E c \in Choices : Command(c)
    \/ \E c \in Switches : Command(c)
    \/ \E c \in Sockets : Command(c)
    \/ Reconnect \/ Finish \/ Decide \/ Refuse \/ Answered \/ Declined \/ Acknowledged
    \/ Silence \/ Delayed \/ MisledSet \/ MisledRead \/ Unheard \/ Panel
    \/ \E cmd \in {"frequency", "mode"} : Broadcast(cmd)

Spec == Init /\ [][Next]_vars

-----------------------------------------------------------------------------
(* Correctness                                                              *)

Settled == op = "idle" /\ rounds = AllRounds

\* What the tiers between them read.  Not read are the widths of the VFOs,
\* and what has no meaning as the radio is now.
Readable ==
    "frequency" :> Here.freq @@ "mode" :> Here.mode @@ "filter_slot" :> Here.slot
    @@ If(P.levels, "preamp" :> radio.preamp
                    @@ [f \in {g \in Settings : ~Declines(g)} |-> radio.plain[f]])
    @@ If(P.ptt, "ptt" :> radio.ptt) @@ If(P.power, "power" :> radio.power)
    @@ If(P.width /\ Table(Here.mode) # "none", "passband" :> <<Here.width, Table(Here.mode)>>)
    @@ If(P.tuner, "tuner" :> radio.tuner) @@ If(P.data, "data_mode" :> Here.data)
    @@ If(P.bands, "band" :> radio.band) @@ If(P.watch, "dual_watch" :> radio.dual_watch)
    @@ If(P.dual, "split" :> radio.split) @@ If(P.breakIn, "break_in" :> radio.break_in)
    @@ If(P.antennas > 0, "antenna" :> radio.antenna[1] @@ "rx_antenna" :> radio.antenna[2])
    @@ If(P.digiSel, "digi_sel" :> radio.digi_sel)

VFOsShown ==
    P.dual => \A v \in {"A", "B"}, f \in {"freq", "mode", "data", "slot"} :
        shown[IF v = "A" THEN "vfo_a" ELSE "vfo_b"][f] = radio.at[v][f]

AllShown ==
    (\A f \in DOMAIN Readable : f \in DOMAIN shown /\ shown[f] = Readable[f]) /\ VFOsShown

\* With the radio left alone the polls find out all they can, whatever was
\* remembered before, unless the radio refuses a read (Poll, Decode).
CatchesUp == Settled /\ failing = {} => AllShown

\* A refused read costs that read and no other (readAll).
RefusalCostsOneRead == Settled => AllShown

\* The radio has what a command set.
HasBeenSet(c) ==
    CASE c.set = "mode" -> /\ Here.mode = c.to
                           /\ P.data /\ DataLegal(c.to) => Here.data = c.data
      [] c.set = "frequency" -> Here.freq = c.to
      [] c.set = "filter_slot" -> Here.slot = c.to
      [] c.set = "passband" -> Here.width = c.to
      [] c.set = "vfo frequency" -> radio.at[c.vfo].freq = c.to
      [] c.set = "vfo mode" -> /\ radio.at[c.vfo].mode = c.to
                               /\ radio.at[c.vfo].data = c.data
      [] c.set = "antenna" -> radio.antenna[1] = c.to
      [] c.set = "rx_antenna" -> radio.antenna[2] = c.to
      [] c.set \in {"select", "exchange"} -> TRUE
      [] c.set \in Settings -> radio.plain[c.set] = c.to
      [] OTHER -> radio[c.set] = c.to

\* A command that succeeded on a radio that was settled has been done.
DoneIsDone ==
    (op = "idle" /\ asked # NoCommand /\ trusted /\ outcome = "ok") => HasBeenSet(asked)

\* What a command may move in a receiver, and elsewhere in the radio.
OwnedAt(c) ==
    LET Of(v, fields) == {<<v, f>> : f \in fields} IN
    CASE c.set = "mode" -> Of(Operating, {"mode", "data"}
                              \cup IF before.at[Operating].mode = c.to THEN {} ELSE {"slot"})
      [] c.set = "frequency" -> Of(Operating, {"freq"})
      [] c.set = "filter_slot" -> Of(Operating, {"slot"})
      [] c.set = "passband" -> Of(Operating, {"width"})
      [] c.set = "vfo frequency" -> Of(c.vfo, {"freq"})
      [] c.set = "vfo mode" ->
            Of(c.vfo, {"mode", "data"} \cup IF c.slot = "own" THEN {} ELSE {"slot"})
      [] c.set = "select" -> Of("A", DOMAIN Receiver) \cup Of("B", DOMAIN Receiver)
      [] c.set = "exchange" -> Of("A", DOMAIN Receiver) \cup Of("sub", DOMAIN Receiver)
      [] OTHER -> {}

Owned(c) == IF c.set \in Settings THEN {"plain"}
            ELSE IF c.set = "rx_antenna" THEN {"antenna"} ELSE {c.set}

\* A command moves nothing it was not asked to, where several settings share a
\* frame: mode, data mode and filter; a socket and its receive input.
OnlyAsked ==
    (asked # NoCommand /\ trusted) =>
        /\ \A s \in DOMAIN radio \ ({"at"} \cup Owned(asked)) : radio[s] = before[s]
        /\ \A v \in DOMAIN radio.at, f \in DOMAIN Receiver :
              <<v, f>> \notin OwnedAt(asked) => radio.at[v][f] = before.at[v][f]
        /\ asked.set = "rx_antenna" => radio.antenna[1] = before.antenna[1]
        /\ (asked.set = "antenna" /\ asked.to <= P.rxAntennas) =>
              radio.antenna[2] = before.antenna[2]

IcomIsTold == CatchesUp /\ DoneIsDone /\ OnlyAsked
=============================================================================
