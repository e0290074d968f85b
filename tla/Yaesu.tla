-------------------------------- MODULE Yaesu --------------------------------
(***************************************************************************)
(* The Yaesu ASCII CAT backend (internal/rig/backend/yaesu), laid out as   *)
(* Kenwood is: an operation is a list of commands that are answered ("ask",*)
(* do), sets that are not ("tell", send) and decisions on what has been    *)
(* decoded so far ("plan").  A radio may refuse with a bare "?", which     *)
(* names no command and is taken for the answer to whatever is waiting; a  *)
(* command it lacks it does not answer at all.                             *)
(*                                                                         *)
(* The value of a setting says where it came from: "was", the "panel", or  *)
(* "asked" by a client.  A filter width is sent and answered as an index   *)
(* into a column of a table, which goes by the mode, DATA and, on some     *)
(* models, the narrow setting: the reading is the index with the column.   *)
(***************************************************************************)
EXTENDS Naturals, Sequences, TLC

CONSTANTS
    Models,     \* the configured models
    Settings,   \* settings with a command of their own and no conditions
    MaxEvents,  \* bound: moves on the panel and commands of clients
    MaxFaults   \* bound: answers that fail to come, unexplained refusals

VARIABLES
    model,      \* yaesu.model
    radio,      \* the radio's settings
    known,      \* Rig's atomics: what was last decoded
    shown,      \* what Decode has published, the session's State
    op,         \* "idle", "init", "fast", "slow" or "command"
    steps,      \* the exchanges left
    late,       \* refusals the radio has yet to answer
    asked,      \* history: the command last run, until anything follows it
    outcome,    \* history: "error" once that command has failed
    before,     \* history: the radio when that command came
    trusted,    \* history: nothing had been unsettled when it came
    unheard,    \* history: a refusal arrived when nobody was waiting
    failing,    \* history: the tiers whose last poll ended in an error
    rounds,     \* history: 0 while what the last event caught is under way, then 1
                \* and one more for each poll, in turn fast and slow
    events, faults

vars == <<model, radio, known, shown, op, steps, late, asked, outcome, before, trusted,
          unheard, failing, rounds, events, faults>>

-----------------------------------------------------------------------------
(* The models                                                               *)

\* modern, older: the two generations.
Modern ==
    [has |-> {"AI", "ID", "NA", "RM", "AC", "GT", "NB", "NL", "NR", "RL", "BP",
              "PR", "SH"} \cup Settings,
     blankers |-> 1, ipo2 |-> FALSE, levelIsSwitch |-> FALSE, notch |-> "select",
     antenna |-> "plain", proc |-> "select", power |-> "watts", columns |-> 1, flag |-> FALSE]

Older == [Modern EXCEPT !.has = @ \cup {"AN"}, !.blankers = 2, !.proc = "single", !.columns = 2]

Profile ==
    [ftdx101  |-> [Modern EXCEPT !.has = @ \cup {"AN"}],
     ft991a   |-> [Modern EXCEPT !.columns = 2],
     ft891    |-> [Modern EXCEPT !.columns = 2, !.flag = TRUE],
     ftx1     |-> [Modern EXCEPT !.has = @ \ {"NB", "NR"}, !.levelIsSwitch = TRUE,
                                 !.power = "head"],
     ft950    |-> Older,
     ftdx5000 |-> [Older EXCEPT !.power = "index", !.ipo2 = TRUE, !.antenna = "RX flag"],
     ftdx9000 |-> [Older EXCEPT !.has = @ \ {"AI", "ID", "NA", "RM", "AC", "RA", "PR", "SH"},
                                !.power = "index", !.notch = "combined", !.antenna = "RX slot"]]

P == Profile[model]
Has(cmd) == cmd \in P.has

\* Codes: DATA is part of the mode's code, where there is one.
DataCode(m) == m \in {"SSB", "FM"}

\* widths.ladder: SSB, CW and the DATA forms of SSB have a column, or a narrow
\* one and a wide one.
HasColumn(h) == Has("SH") /\ h.mode \in {"SSB", "CW"}
Column(h) ==
    <<CASE h.mode = "CW" -> "cw" [] h.mode = "SSB" /\ h.data -> "data" [] OTHER -> "ssb",
      P.columns = 2 /\ h.narrow>>

-----------------------------------------------------------------------------
(* Decode: what an answer publishes, and what it leaves in the Rig          *)

Nothing == [x \in {} |-> x]
Shows(s) == [shows |-> s, notes |-> Nothing]
If(c, s) == IF c THEN s ELSE Nothing

\* decodeMD, decodeIF.  A sub receiver's are passed over.
ModeAnswer(cmd) ==
    [shows |-> "mode" :> radio.mode @@ "data_mode" :> radio.data
               @@ If(cmd = "IF", "frequency" :> radio.freq),
     notes |-> "mode" :> radio.mode @@ "data" :> radio.data]

\* decodePC: against the ceiling of the head the answer names.
PowerAnswer ==
    [shows |-> "power" :> <<radio.power[radio.head], radio.head>>,
     notes |-> If(P.power = "head", "head" :> radio.head)]

\* TX is a question here; keyed by CAT or at the rig is the same to State.
TransmitAnswer ==
    [shows |-> "ptt" :> (radio.ptt # "off"), notes |-> "transmitting" :> (radio.ptt # "off")]

\* decodeSH: the index read against the column for what was last decoded; an
\* FT-891 answers with the narrow setting too.
WidthAnswer ==
    LET h == IF P.flag THEN [known EXCEPT !.narrow = radio.narrow] ELSE known IN
    [shows |-> If(HasColumn(h), "passband" :> <<radio.width, Column(h)>>),
     notes |-> "narrow" :> h.narrow]

Switched(level) == IF level = "off" THEN 0 ELSE 1

\* decodeNB ... decodeRL: without a switch, the level carries it.
NoiseAnswer(cmd) ==
    CASE cmd = "NB" -> Shows("noise_blanker" :> radio.nb)
      [] cmd = "NL" -> Shows("nb_level" :> radio.nbLevel
                             @@ If(P.levelIsSwitch, "noise_blanker" :> Switched(radio.nbLevel)))
      [] cmd = "NR" -> Shows("noise_reduction" :> radio.nr)
      [] cmd = "RL" -> Shows("nr_level" :> radio.nrLevel
                             @@ If(P.levelIsSwitch, "noise_reduction" :> Switched(radio.nrLevel)))

\* decodeBP, decodeBPCombined: the switch and the position apart, or in one.
NotchAnswer(cmd) ==
    CASE cmd = "BP0" -> Shows("notch" :> radio.notch)
      [] cmd = "BP1" -> [shows |-> "notch_freq" :> radio.notchPos,
                         notes |-> "notchPos" :> radio.notchPos]
      [] cmd = "BP" -> [shows |-> "notch" :> radio.notch
                                  @@ If(radio.notch, "notch_freq" :> radio.notchPos),
                        notes |-> If(radio.notch, "notchPos" :> radio.notchPos)]

\* decodeAN: the receive antenna is not reported, or beside the socket, or in
\* its place.
AntennaAnswer ==
    Shows(IF P.antenna = "RX slot" /\ radio.rxAntenna THEN "rx_antenna" :> TRUE
          ELSE "antenna" :> radio.antenna
               @@ If(P.antenna # "plain", "rx_antenna" :> radio.rxAntenna))

\* decodePA: the second bypass path is no preamplifier either.
FrontEndAnswer(cmd) ==
    CASE cmd = "GT" -> Shows("agc" :> radio.agc)
      [] cmd = "PA" -> Shows("PA" :> IF radio.plain.PA = "IPO 2" THEN "IPO" ELSE radio.plain.PA)
      [] OTHER -> Shows(cmd :> radio.plain[cmd])

\* decodePR: with the equalizer in, the processor is out.
TXAudioAnswer(cmd) ==
    IF cmd = "PR" THEN Shows("proc" :> (radio.proc = "on")) ELSE Shows(cmd :> radio.plain[cmd])

TunerAnswer == [shows |-> "tuner" :> radio.tuner, notes |-> "tuner" :> radio.tuner]

Decode(cmd) ==
    CASE cmd \in {"IF", "MD"} -> ModeAnswer(cmd)
      [] cmd = "FA" -> Shows("frequency" :> radio.freq)
      [] cmd = "PC" -> PowerAnswer
      [] cmd = "TX" -> TransmitAnswer
      [] cmd = "SM" -> Shows("s_meter" :> TRUE)
      [] cmd = "RM" -> Shows("swr" :> (radio.ptt # "off"))
      [] cmd = "NA" -> [shows |-> Nothing, notes |-> "narrow" :> radio.narrow]
      [] cmd = "SH" -> WidthAnswer
      [] cmd = "AC" -> TunerAnswer
      [] cmd \in {"NB", "NL", "NR", "RL"} -> NoiseAnswer(cmd)
      [] cmd \in {"BP", "BP0", "BP1"} -> NotchAnswer(cmd)
      [] cmd = "AN" -> AntennaAnswer
      [] cmd \in {"PA", "RA", "RG", "GT"} -> FrontEndAnswer(cmd)
      [] cmd \in {"MG", "PR", "PL"} -> TXAudioAnswer(cmd)
      [] cmd = "BC" -> Shows("BC" :> radio.plain.BC)
      [] cmd \in {"ID", "FB"} -> Shows(Nothing)

Learn(cmd) ==
    /\ shown' = Decode(cmd).shows @@ shown
    /\ known' = Decode(cmd).notes @@ known

-----------------------------------------------------------------------------
(* The radio                                                                *)

Letters(cmd) == CASE cmd \in {"BP0", "BP1"} -> "BP" [] OTHER -> cmd

\* A question it leaves without an answer: a command it lacks, a width where
\* there is none.
Declines(cmd) ==
    \/ Letters(cmd) \notin P.has \cup {"FA", "FB", "MD", "PC", "TX", "IF", "SM"}
    \/ cmd = "SH" /\ radio.mode \notin {"SSB", "CW"}

\* The radio as a set leaves it.
Obeyed(cmd, v) ==
    CASE cmd \in {"AI", "FB"} -> radio
      [] cmd = "FA" -> [radio EXCEPT !.freq = v]
      [] cmd = "MD" -> [radio EXCEPT !.mode = v[1], !.data = v[2]]
      [] cmd = "PC" -> [radio EXCEPT !.power[v[2]] = v]
      [] cmd = "TX" -> [radio EXCEPT !.ptt = IF v /\ @ = "off" THEN "cat"
                                             ELSE IF ~v /\ @ = "cat" THEN "off" ELSE @]
      [] cmd = "SH" -> [radio EXCEPT !.width = v.index,
                                     !.narrow = IF P.flag THEN v.narrow ELSE @]
      [] cmd = "NB" -> [radio EXCEPT !.nb = v]
      [] cmd = "NL" -> [radio EXCEPT !.nbLevel = v]
      [] cmd = "NR" -> [radio EXCEPT !.nr = v]
      [] cmd = "RL" -> [radio EXCEPT !.nrLevel = v]
      [] cmd = "BP0" -> [radio EXCEPT !.notch = v]
      [] cmd = "BP1" -> [radio EXCEPT !.notchPos = v]
      [] cmd = "BP" -> IF v = "off" THEN [radio EXCEPT !.notch = FALSE]
                       ELSE [radio EXCEPT !.notch = TRUE, !.notchPos = v]
      [] cmd = "AN" -> [radio EXCEPT !.antenna = v, !.rxAntenna = @ /\ P.antenna # "RX slot"]
      [] cmd = "GT" -> [radio EXCEPT !.agc = IF v = "auto" THEN "auto-mid" ELSE v]
      [] cmd = "PR" -> [radio EXCEPT !.proc = v]
      [] cmd = "AC" -> [radio EXCEPT !.tuner = v]
      [] OTHER -> [radio EXCEPT !.plain[cmd] = v]

-----------------------------------------------------------------------------
(* The operations                                                           *)

Ask(cmd) == [do |-> "ask", cmd |-> cmd]
Tell(cmd, v) == [do |-> "tell", cmd |-> cmd, to |-> v]
Plan(name, v) == [do |-> "plan", name |-> name, to |-> v]
Fails == <<[do |-> "fail"]>>

Asks(cmds) == [i \in 1..Len(cmds) |-> Ask(cmds[i])]
When(c, list) == IF c THEN list ELSE <<>>
Those(cmds) == SelectSeq(cmds, Has)

\* A set and its read-back.
Set(cmd, v) == <<Tell(cmd, v), Ask(cmd)>>
SetIfAny(cmd, v) == IF Has(cmd) THEN Set(cmd, v) ELSE Fails

InitSteps ==
    When(Has("AI"), <<Tell("AI", "on")>>)
    \o Asks(Those(<<"ID">>) \o <<"FA", "MD", "PC", "TX">> \o Those(<<"NA">>))
    \o <<Plan("read width", "none")>>

\* txMeterReads
MeterReads == When(known.transmitting /\ Has("RM"), <<"RM", "RM", "RM">>)

\* pollFast: the list is made before the first of it is asked.
FastSteps ==
    Asks(<<"IF", "TX", "SM">> \o MeterReads
         \o When(Has("AC") /\ known.tuner = "tuning", <<"AC">>))

\* Its first four asked of every model.
MutantNoiseReads ==
    <<"NB", "NL", "NR", "RL">>
    \o When(Has("BP"), IF P.notch = "combined" THEN <<"BP">> ELSE <<"BP0", "BP1">>)
    \o Those(<<"BC", "AN">>)

\* noiseReads
NoiseReads ==
    Those(<<"NB", "NL", "NR", "RL">>)
    \o When(Has("BP"), IF P.notch = "combined" THEN <<"BP">> ELSE <<"BP0", "BP1">>)
    \o Those(<<"BC", "AN">>)

\* frontEndReads, txAudioReads
FrontEndReads == Those(<<"PA", "RA", "RG", "GT">>)
TXAudioReads == Those(<<"MG", "PR", "PL">>)

\* pollSlow
SlowSteps ==
    Asks(<<"PC">> \o Those(<<"AC", "NA">>) \o FrontEndReads \o NoiseReads \o TXAudioReads)
    \o <<Plan("read width", "none")>>

\* What a plan comes to, once its turn has come: the width is asked for where
\* it has a meaning; a new one goes out with the narrow setting of that moment.
Continue(s) ==
    CASE s.name = "read width" -> When(HasColumn(known), <<Ask("SH")>>)
      [] s.name = "width" -> Set("SH", [index |-> s.to, narrow |-> known.narrow])

\* SetFrequency; a current VFO is VFO A.
FrequencySteps(c) == Set(IF c.vfo = "B" THEN "FB" ELSE "FA", c.to)

\* SetMode
ModeSteps(m, data) == IF data /\ ~DataCode(m) THEN Fails ELSE Set("MD", <<m, data>>)

\* SetPower: clamped to the ceiling of the head last reported, and sent to it.
PowerSteps(unit) ==
    IF unit = "watts" /\ P.power = "index" THEN Fails ELSE Set("PC", <<"asked", known.head>>)

\* SetFilterWidth: the index is looked up in the column of what was decoded.
WidthSteps ==
    IF HasColumn(known) THEN <<Plan("width", <<"asked", Column(known)>>)>> ELSE Fails

\* setNotchCombined, SetNotch, SetNotchFreq
NotchSteps(c) ==
    CASE ~Has("BP") -> Fails
      [] c.set = "notch_freq" -> Set(IF P.notch = "combined" THEN "BP" ELSE "BP1", c.to)
      [] P.notch = "select" -> Set("BP0", c.to)
      [] ~c.to -> Set("BP", "off")
      [] OTHER -> IF known.notchPos = "none" THEN Fails ELSE Set("BP", known.notchPos)

\* SetNoiseBlanker ... SetNRLevel
NoiseSteps(c) ==
    CASE c.set = "noise_blanker" -> IF c.to > P.blankers THEN Fails ELSE SetIfAny("NB", c.to)
      [] c.set = "noise_reduction" -> SetIfAny("NR", c.to)
      [] c.set = "nb_level" -> SetIfAny("NL", c.to)
      [] c.set = "nr_level" -> SetIfAny("RL", c.to)

Steps(c) ==
    CASE c.set = "frequency" -> FrequencySteps(c)
      [] c.set = "mode" -> ModeSteps(c.to, c.data)
      [] c.set = "power" -> PowerSteps(c.to)
      [] c.set = "ptt" -> <<Tell("TX", c.to)>>
      [] c.set = "passband" -> WidthSteps
      [] c.set \in {"notch", "notch_freq"} -> NotchSteps(c)
      [] c.set \in {"noise_blanker", "nb_level", "noise_reduction", "nr_level"} -> NoiseSteps(c)
      [] c.set = "antenna" -> SetIfAny("AN", c.to)
      [] c.set = "agc" -> SetIfAny("GT", c.to)
      [] c.set = "proc" -> SetIfAny("PR", IF c.to THEN "on" ELSE "off")
      [] c.set = "tuner" -> SetIfAny("AC", c.to)
      [] c.set \in Settings -> SetIfAny(c.set, c.to)
      [] c.set \in {"filter_slot", "notch_width", "rx_antenna"} -> Fails

-----------------------------------------------------------------------------
(* Behaviour                                                                *)

NoCommand == [set |-> "none"]
NoColumn == <<"any", FALSE>>

Fresh ==
    [mode |-> "SSB", data |-> FALSE, freq |-> "was", ptt |-> "off", head |-> 1,
     power |-> [h \in 1..2 |-> <<"was", h>>], tuner |-> "off", narrow |-> FALSE,
     width |-> <<"was", NoColumn>>, nb |-> 0, nbLevel |-> "off", nr |-> 0,
     nrLevel |-> "was", notch |-> FALSE, notchPos |-> "was", antenna |-> 1,
     rxAntenna |-> FALSE, agc |-> "slow", proc |-> "off", plain |-> [c \in Settings |-> "was"]]

\* The radio as it may be found: in CW with much switched on, or in AM with
\* everything off.
Starts ==
    {[Fresh EXCEPT !.mode = "CW", !.narrow = TRUE, !.nb = 1, !.nbLevel = "was", !.notch = TRUE,
                   !.head = IF P.power = "head" THEN 2 ELSE 1,
                   !.rxAntenna = P.antenna # "plain"],
     [Fresh EXCEPT !.mode = "AM"]}

\* New: the atomics are zero, which stands for the bare head, and a State is
\* empty.
Init ==
    /\ model \in Models /\ radio \in Starts
    /\ known = [mode |-> "none", data |-> FALSE, narrow |-> FALSE, transmitting |-> FALSE,
               tuner |-> "none", head |-> 1, notchPos |-> "none"]
    /\ shown = Nothing
    /\ op = "init" /\ steps = InitSteps /\ late = 0
    /\ asked = NoCommand /\ outcome = "ok" /\ before = Nothing /\ trusted = FALSE
    /\ unheard = FALSE /\ failing = {} /\ rounds = 0 /\ events = 0 /\ faults = 0

historyVars == <<asked, before, trusted, unheard>>
boundVars == <<events, faults>>

\* Each tier once, and the fast one again.
AllRounds == 4

Forget ==
    /\ asked' = NoCommand /\ outcome' = "ok" /\ before' = Nothing
    /\ trusted' = FALSE /\ unheard' = FALSE

\* Rig.Poll
Poll(tier) ==
    /\ op = "idle"
    /\ op' = tier
    /\ steps' = IF tier = "fast" THEN FastSteps ELSE SlowSteps
    /\ Forget
    /\ UNCHANGED <<model, radio, known, shown, late, failing, rounds, boundVars>>

\* A notch position is remembered before the radio is told of it.
Command(c) ==
    /\ op = "idle" /\ events < MaxEvents
    /\ op' = "command" /\ steps' = Steps(c)
    /\ known' = IF c.set = "notch_freq" /\ Has("BP") THEN [known EXCEPT !.notchPos = c.to]
                ELSE known
    /\ asked' = c /\ outcome' = "ok" /\ before' = radio
    /\ trusted' = (rounds = AllRounds) /\ unheard' = FALSE
    /\ events' = events + 1 /\ rounds' = 0
    /\ UNCHANGED <<model, radio, shown, late, failing, faults>>

\* The link was lost; the Rig and what it remembers stay.
Reconnect ==
    /\ op = "idle" /\ faults < MaxFaults
    /\ op' = "init" /\ steps' = InitSteps /\ late' = 0
    /\ faults' = faults + 1 /\ rounds' = 0
    /\ Forget
    /\ UNCHANGED <<model, radio, known, shown, failing, events>>

\* An operation has ended, for the better or the worse.
Counted ==
    rounds' = IF op' # "idle" THEN rounds
              ELSE IF rounds = 0 THEN 1
              ELSE IF rounds < AllRounds /\ op = (IF rounds % 2 = 1 THEN "fast" ELSE "slow")
              THEN rounds + 1 ELSE rounds

Unsettled == rounds' = IF op' = "idle" THEN 1 ELSE 0

\* The operation is over.  An Init that fails is tried again.
Ends(res) ==
    /\ outcome' = IF op = "command" THEN res ELSE outcome
    /\ IF op = "init" /\ res = "error" THEN op' = "init" /\ steps' = InitSteps
       ELSE op' = "idle" /\ steps' = <<>>
    /\ failing' = IF op \notin {"fast", "slow"} THEN failing
                   ELSE IF res = "ok" THEN failing \ {op} ELSE failing \cup {op}

Step == Head(steps)
Doing(what) == steps # <<>> /\ Step.do = what

Finish ==
    /\ op # "idle" /\ steps = <<>>
    /\ Ends("ok") /\ Counted
    /\ UNCHANGED <<model, radio, known, shown, late, historyVars, boundVars>>

Decide ==
    /\ Doing("plan")
    /\ steps' = Continue(Step) \o Tail(steps)
    /\ UNCHANGED <<model, radio, known, shown, op, late, outcome, failing, rounds, historyVars,
                   boundVars>>

\* Refused here, before anything is sent.
Refuse ==
    /\ Doing("fail") /\ Ends("error") /\ Counted
    /\ UNCHANGED <<model, radio, known, shown, late, historyVars, boundVars>>

\* do, answered.
Answered ==
    /\ Doing("ask") /\ late = 0 /\ ~Declines(Step.cmd)
    /\ Learn(Step.cmd) /\ steps' = Tail(steps)
    /\ UNCHANGED <<model, radio, op, late, outcome, failing, rounds, historyVars, boundVars>>

\* do, of what the radio will not answer: the rest of the list is not asked.
Declined ==
    /\ Doing("ask") /\ late = 0 /\ Declines(Step.cmd)
    /\ Ends("error") /\ Counted
    /\ UNCHANGED <<model, radio, known, shown, late, historyVars, boundVars>>

\* The refusal of an earlier set arrives first and is taken for the answer
\* (ErrBusy); the answer itself is decoded when it comes.
Blamed ==
    /\ Doing("ask") /\ late > 0
    /\ late' = late - 1
    /\ IF Declines(Step.cmd) THEN UNCHANGED <<shown, known>> ELSE Learn(Step.cmd)
    /\ Ends("error") /\ Unsettled
    /\ UNCHANGED <<model, radio, historyVars, boundVars>>

\* Nothing comes in time.
Silence ==
    /\ Doing("ask") /\ late = 0 /\ faults < MaxFaults
    /\ faults' = faults + 1
    /\ Ends("error") /\ Unsettled
    /\ UNCHANGED <<model, radio, known, shown, late, historyVars, events>>

\* A refusal that arrives while no command is outstanding is ignored: after the
\* operation, or before the read-back has been written.
Unheard ==
    /\ late > 0
    /\ late' = 0 /\ unheard' = TRUE
    /\ UNCHANGED <<model, radio, known, shown, op, steps, asked, outcome, before, trusted,
                   failing, rounds, boundVars>>

\* send, which knows nothing of what the radio makes of it.
Told ==
    /\ Doing("tell")
    /\ \/ ~Declines(Step.cmd) /\ radio' = Obeyed(Step.cmd, Step.to) /\ UNCHANGED <<late, faults>>
       \/ Declines(Step.cmd) /\ late' \in {late, late + 1} /\ UNCHANGED <<radio, faults>>
       \/ ~Declines(Step.cmd) /\ faults < MaxFaults
          /\ faults' = faults + 1 /\ late' = late + 1 /\ UNCHANGED radio
    /\ steps' = Tail(steps)
    /\ UNCHANGED <<model, known, shown, op, outcome, failing, rounds, historyVars, events>>

\* What the operator can do to the radio.  A setting that is only read and
\* shown is not moved: the commands move it.
Moves ==
    {[radio EXCEPT !.mode = m, !.data = d /\ DataCode(m)] :
        m \in {"SSB", "CW", "AM", "FM"}, d \in BOOLEAN}
    \cup {[radio EXCEPT !.ptt = IF @ = "off" THEN "rig" ELSE "off"],
          [radio EXCEPT !.narrow = ~@], [radio EXCEPT !.tuner = "tuning"],
          [radio EXCEPT !.nbLevel = "off"], [radio EXCEPT !.notch = ~@],
          [radio EXCEPT !.rxAntenna = ~@ /\ P.antenna # "plain"],
          [radio EXCEPT !.proc = "equalizer"]}
    \cup {[radio EXCEPT !.head = h] : h \in IF P.power = "head" THEN 1..2 ELSE {1}}
    \cup {[radio EXCEPT !.plain.PA = "IPO 2"] : x \in IF P.ipo2 THEN {"PA"} \cap Settings ELSE {}}

Panel ==
    /\ events < MaxEvents /\ events' = events + 1
    /\ radio' \in Moves /\ radio' # radio
    /\ rounds' = (IF op = "idle" THEN 1 ELSE 0)
    /\ Forget
    /\ UNCHANGED <<model, known, shown, op, steps, late, failing, faults>>

\* Auto Information: a frame nobody asked for, decoded like any answer.  Those
\* that later exchanges depend on.
Push(cmd) ==
    /\ Has("AI") /\ ~Declines(cmd)
    /\ Learn(cmd) /\ <<shown', known'>> # <<shown, known>>
    /\ UNCHANGED <<model, radio, op, steps, late, outcome, failing, rounds, historyVars,
                   boundVars>>

\* What clients ask for: a value, a switch, or a number.
Choices ==
    {[set |-> "frequency", vfo |-> v, to |-> "asked"] : v \in {"current", "B"}}
    \cup {[set |-> "mode", to |-> m, data |-> d] : m \in {"SSB", "CW", "FM"}, d \in BOOLEAN}
    \cup {[set |-> "power", to |-> unit] : unit \in {"watts", "percent"}}
    \cup {[set |-> s, to |-> "asked"] :
            s \in {"passband", "notch_freq", "nb_level", "nr_level", "filter_slot"} \cup Settings}
    \cup {[set |-> "nb_level", to |-> "off"], [set |-> "nr_level", to |-> "off"]}
    \cup {[set |-> "agc", to |-> v] : v \in {"off", "auto"}}
    \cup {[set |-> "tuner", to |-> v] : v \in {"off", "on", "tuning"}}

Switches == {[set |-> s, to |-> b] : s \in {"notch", "ptt", "proc"}, b \in BOOLEAN}

Numbers ==
    {[set |-> s, to |-> n] : s \in {"noise_blanker", "noise_reduction", "antenna"}, n \in 1..2}

Next ==
    \/ \E tier \in {"fast", "slow"} : Poll(tier)
    \/ \E c \in Choices : Command(c)
    \/ \E c \in Switches : Command(c)
    \/ \E c \in Numbers : Command(c)
    \/ Reconnect \/ Finish \/ Decide \/ Refuse \/ Answered \/ Declined \/ Blamed \/ Silence
    \/ Unheard \/ Told \/ Panel
    \/ \E cmd \in {"TX", "MD", "NA"} : Push(cmd)

Spec == Init /\ [][Next]_vars

-----------------------------------------------------------------------------
(* Correctness                                                              *)

Settled == op = "idle" /\ rounds = AllRounds

\* What the tiers between them read, as the radio is now.
Readable ==
    "frequency" :> radio.freq @@ "mode" :> radio.mode @@ "data_mode" :> radio.data
    @@ "ptt" :> (radio.ptt # "off") @@ "power" :> <<radio.power[radio.head], radio.head>>
    @@ "agc" :> radio.agc @@ "notch" :> radio.notch
    @@ "nb_level" :> radio.nbLevel @@ "nr_level" :> radio.nrLevel
    @@ "noise_blanker" :> (IF P.levelIsSwitch THEN Switched(radio.nbLevel) ELSE radio.nb)
    @@ "noise_reduction" :> (IF P.levelIsSwitch THEN Switched(radio.nrLevel) ELSE radio.nr)
    @@ If(P.notch = "select" \/ radio.notch, "notch_freq" :> radio.notchPos)
    @@ If(HasColumn(radio), "passband" :> <<radio.width, Column(radio)>>)
    @@ If(Has("AC"), "tuner" :> radio.tuner)
    @@ If(Has("PR"), "proc" :> (radio.proc = "on"))
    @@ If(Has("AN") /\ P.antenna # "plain", "rx_antenna" :> radio.rxAntenna)
    @@ If(Has("AN") /\ (P.antenna = "RX slot" => ~radio.rxAntenna), "antenna" :> radio.antenna)
    @@ [c \in Settings \cap P.has |-> FrontEndAnswer(c).shows[c]]

\* With the radio left alone the polls find out all they can, whatever was
\* remembered of it before; a width is never left read against the column of
\* another mode or narrow setting (pollFast, pollSlow, decodeSH).
CatchesUp ==
    Settled => \A f \in DOMAIN Readable : f \in DOMAIN shown /\ shown[f] = Readable[f]

\* And by then the radio answers all of it: no poll goes on asking for what the
\* model or the mode does not have (noiseReads, filterWidthLegal).
RefusalsDieOut == Settled => failing = {}

Field(c) == CASE c.set = "frequency" -> IF c.vfo = "B" THEN "none" ELSE "frequency"
              [] OTHER -> c.set

\* A command that succeeded on a radio that was known is shown as the radio
\* has it (the read-back of each setter).
Succeeded == op = "idle" /\ asked # NoCommand /\ trusted /\ outcome = "ok"

ReadBack ==
    (Succeeded /\ Field(asked) \in DOMAIN Readable \ {"ptt"}) =>
        shown[Field(asked)] = Readable[Field(asked)]

\* The radio has what the command asked for.
Fulfils(c) ==
    CASE c.set = "passband" -> radio.width = <<"asked", Column(radio)>>
      [] c.set = "power" -> radio.power[radio.head] = <<"asked", radio.head>>
      [] c.set = "mode" -> radio.mode = c.to /\ radio.data = c.data
      [] c.set = "notch_freq" -> radio.notchPos = c.to
      [] c.set = "ptt" -> c.to = (radio.ptt # "off") \/ (~c.to /\ radio.ptt = "rig")
      [] c.set = "agc" /\ c.to = "auto" -> radio.agc = "auto-mid"
      [] c.set = "frequency" -> c.vfo = "B" \/ radio.freq = c.to
      [] OTHER -> c.set \in DOMAIN Readable => Readable[c.set] = c.to

\* And has been done, if no refusal of it went unheard: the index sent for a
\* width is of the column the radio goes by, the power that of the head it uses
\* (SetFilterWidth, SetPower).
Done == (Succeeded /\ late = 0 /\ ~unheard) => Fulfils(asked)

\* The settings a command may move; on one model the notch's switch and its
\* position are one number.
Owned(c) ==
    CASE c.set = "frequency" -> {"freq"}
      [] c.set = "mode" -> {"mode", "data"}
      [] c.set = "passband" -> {"width"}
      [] c.set = "noise_blanker" -> {"nb"}
      [] c.set = "nb_level" -> {"nbLevel"}
      [] c.set = "noise_reduction" -> {"nr"}
      [] c.set = "nr_level" -> {"nrLevel"}
      [] c.set = "notch" -> {"notch"} \cup (IF P.notch = "combined" THEN {"notchPos"} ELSE {})
      [] c.set = "notch_freq" -> {"notchPos"} \cup (IF P.notch = "combined" THEN {"notch"} ELSE {})
      [] c.set = "antenna" -> {"antenna", "rxAntenna"}
      [] c.set \in Settings -> {"plain"}
      [] OTHER -> {c.set}

\* A command on a radio that was known moves nothing it was not asked to: not
\* the narrow setting that goes out with a width, not the power of the other
\* head, not the half of the notch it is not about (filterSet, SetPower,
\* SetNotch).
OnlyAsked ==
    (asked # NoCommand /\ trusted) =>
        /\ \A s \in DOMAIN radio \ Owned(asked) : radio[s] = before[s]
        /\ (asked.set = "power") => radio.power[3 - radio.head] = before.power[3 - radio.head]

YaesuIsTold == CatchesUp /\ RefusalsDieOut /\ ReadBack /\ Done /\ OnlyAsked
=============================================================================
