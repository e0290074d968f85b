---------------------------- MODULE SessionPatch ----------------------------
(***************************************************************************)
(* Session.ApplyPatch (internal/rig/session.go): one PATCH of a radio's    *)
(* state.  Every field is checked before any is written, the writes go to  *)
(* the radio one CAT transaction at a time in a fixed order, and what the  *)
(* radio then holds is read back in tiers.  Meanwhile the poller reads,    *)
(* the operator turns the front panel, and the link may fail.              *)
(*                                                                         *)
(* The value of a setting is where it came from: "was" before the request, *)
(* "asked" for by it, the "default" a mode change selects, what the        *)
(* "other" band or VFO held, or the "panel"; "misread" is in no radio.     *)
(***************************************************************************)
EXTENDS Naturals, Sequences, FiniteSets

CONSTANTS
    Requests,   \* the sets of fields a client may name together
    MaxPolls,   \* bound: polls of settlePTT (six in the code)
    MaxPanel    \* bound: turns of the front panel

VARIABLES
    backend,    \* "civ" or "kenwood": where SetMode leaves the decoder's mode
    outside,    \* frequencies limits.bands does not allow, by origin
    rig,        \* the radio's settings
    changing,   \* the transmit relay has been told and has not moved
    hint,       \* the mode the backend decodes widths with
    cache,      \* Session.state
    req,        \* the request: its fields, VFO and what is wrong with it
    todo,       \* the writes left to make
    tiers,      \* tiers of the read-back left to read
    polls,      \* polls made by settlePTT
    at,         \* "idle", "write", "settle", "read" or "answered"
    result,     \* what the client is told
    wrote,      \* history: a write reached the radio
    tunedOn,    \* history: the frequency a tuning cycle transmitted on
    declined,   \* history: the radio refused a read of the read-back
    lost,       \* history: the link failed
    turned,     \* history: settings the panel moved since the request came
    panels      \* turns of the front panel so far

vars == <<backend, outside, rig, changing, hint, cache, req, todo, tiers, polls,
          at, result, wrote, tunedOn, declined, lost, turned, panels>>

-----------------------------------------------------------------------------
(* The fields                                                               *)

\* applyFrontEnd: the signal path, the pad before the preamplifier.
FrontEnd == <<"attenuator_db", "preamp", "ip_plus", "digi_sel", "digi_sel_shift",
              "agc", "rf_gain">>

\* A level before the switch it depends on.
MutantNoise == <<"nb_level", "noise_blanker", "nr_level", "noise_reduction",
                 "auto_notch", "notch", "notch_width", "notch_freq",
                 "antenna", "rx_antenna">>

\* applyNoise: each switch before its level.
Noise == <<"noise_blanker", "nb_level", "noise_reduction", "nr_level",
           "auto_notch", "notch", "notch_width", "notch_freq",
           "antenna", "rx_antenna">>

TXAudio == <<"tx_audio_gain", "proc", "proc_level">>

\* The order in which ApplyPatch writes.
WriteOrder ==
    <<"exchange_bands", "vfo_mode", "mode", "frequency", "filter_slot",
      "filter_width_hz", "power">> \o FrontEnd \o Noise \o TXAudio \o
    <<"break_in", "split", "dual_watch", "tuner", "ptt", "tuner_tune">>

Elements(s) == {s[i] : i \in 1..Len(s)}

\* Fields that name an action: there is nothing to read back for them.
Actions == {"exchange_bands", "vfo_mode", "tuner_tune"}

\* PatchRequest, beside the VFO it addresses.
Fields == Elements(WriteOrder) \cup {"data_mode"}

\* What VFO B holds, read with State.VFOB.
VFOB == {"vfo_b_mode", "vfo_b_frequency", "vfo_b_filter_slot"}

Settings == (Fields \ Actions) \cup VFOB

\* What an exchange or a return from memory mode replaces.
Tuned == {"mode", "data_mode", "frequency", "filter_slot", "filter_width_hz"}

Origins == {"was", "asked", "default", "other", "panel", "off", "misread"}

\* The level commands a Kenwood refuses while their switch is off.
Switch == [nb_level |-> "noise_blanker", nr_level |-> "noise_reduction"]

None == [fields |-> {}, vfo |-> "current", faulty |-> {}, dataless |-> FALSE,
         direct |-> FALSE]

\* namesAVFO
Named(r) == r.vfo # "current"

\* Mode and data flag go to the radio together.
ModeNamed(r) == r.fields \cap {"mode", "data_mode"} # {}

\* Where the radio keeps what the request asks for.  SetVFOMode carries the
\* filter slot too, but without a mode the slot goes to the operating VFO.
Target(r, f) ==
    IF ~Named(r) THEN f
    ELSE IF f \in {"mode", "data_mode"} THEN "vfo_b_mode"
    ELSE IF f = "frequency" THEN "vfo_b_frequency"
    ELSE IF f = "filter_slot" /\ ModeNamed(r) THEN "vfo_b_filter_slot"
    ELSE f

-----------------------------------------------------------------------------
(* Validation                                                               *)

\* A check of the front end that is left to the radio.
MutantFaultyFrontEnd(r) == r.faulty \cap (Elements(FrontEnd) \ {"agc"}) # {}

\* validateFrontEnd, validateNoise and validateTXAudio reject what the radio
\* has not got, and values out of range or that can only be read.
FaultyFrontEnd(r) == r.faulty \cap Elements(FrontEnd) # {}
FaultyNoise(r) == r.faulty \cap Elements(Noise) # {}
FaultyTXAudio(r) == r.faulty \cap Elements(TXAudio) # {}

\* The remaining checks ApplyPatch makes itself, clampPower's included.
FaultyRest(r) ==
    r.faulty \ (Elements(FrontEnd) \cup Elements(Noise) \cup Elements(TXAudio)) # {}

\* Only the wires and the relay know where the radio is now.
MutantTuneOutOfBand(r) == FALSE

\* A tuning cycle answers to the band limits where the cache says the radio is.
TuneOutOfBand(r) == "tuner_tune" \in r.fields /\ cache["frequency"] \in outside

Invalid(r) ==
    \/ FaultyFrontEnd(r) \/ FaultyNoise(r) \/ FaultyTXAudio(r) \/ FaultyRest(r)
    \/ TuneOutOfBand(r)

-----------------------------------------------------------------------------
(* The read-back                                                            *)

\* Break-in is not among the fields that are re-read.
MutantSlow(r) == Named(r) \/ r.fields \ {"frequency", "ptt", "break_in"} # {}

\* The fields whose values the slow tier reads; a change of mode sets `slow`
\* as well, since it moves the filter.
Slow(r) == Named(r) \/ r.fields \ {"frequency", "ptt"} # {}

\* The read-back of a PATCH, and of the session's methods for one setting:
\* SetMode's runs the other way round.
Tiers(r) ==
    IF r.direct /\ ~Named(r) /\ ModeNamed(r) THEN <<"fast", "slow">>
    ELSE IF Slow(r) THEN <<"slow", "fast">> ELSE <<"fast">>

Fast == {"frequency", "mode", "ptt"}

\* Rig.Poll.  A width is an index whose meaning depends on the mode: with the
\* mode last decoded it is read wrongly, or not asked for at all.
Reads(tier) ==
    IF tier = "fast"
    THEN /\ cache' = [s \in Settings |-> IF s \in Fast THEN rig[s] ELSE cache[s]]
         /\ hint' = rig["mode"]
    ELSE /\ \E width \in IF hint = rig["mode"] THEN {rig["filter_width_hz"]}
                         ELSE {"misread", cache["filter_width_hz"]} :
              cache' = [s \in Settings |-> IF s = "filter_width_hz" THEN width
                                           ELSE IF s \in Fast THEN cache[s]
                                           ELSE rig[s]]
         /\ UNCHANGED hint

-----------------------------------------------------------------------------
(* The writes                                                               *)

\* The pair that applyModePair sends: what is not asked for is carried
\* forward from the cache, the data flag only where the mode has a variant.
ModePair(r) ==
    [mode |-> IF "mode" \in r.fields THEN "asked" ELSE cache["mode"],
     data |-> IF "data_mode" \in r.fields THEN "asked"
              ELSE IF r.dataless THEN "off" ELSE cache["data_mode"]]

\* The radio after it carried out the write of f.
After(r, f) ==
    LET set(S, v) == [s \in Settings |-> IF s \in S THEN v ELSE rig[s]] IN
    CASE f = "exchange_bands" -> set(Tuned \cup VFOB, "other")
      [] f = "vfo_mode" -> set(Tuned, "other")
      [] f = "mode" /\ Named(r) ->
            [s \in Settings |->
               IF s = "vfo_b_mode" THEN "asked"
               ELSE IF s = "vfo_b_filter_slot" /\ "filter_slot" \in r.fields THEN "asked"
               ELSE rig[s]]
      [] f = "mode" /\ ~Named(r) ->
            [s \in Settings |->
               IF s = "mode" THEN ModePair(r).mode
               ELSE IF s = "data_mode" THEN ModePair(r).data
               ELSE IF s \in {"filter_slot", "filter_width_hz"} /\ ModePair(r).mode # rig["mode"]
                    THEN "default"
               ELSE rig[s]]
      [] f \in {"tuner_tune", "ptt"} -> rig
      [] OTHER -> set({Target(r, f)}, "asked")

\* What the radio or its backend refuses only when the write gets there.
RefusedAtRadio(r, f) ==
    \/ f \in r.faulty
    \/ f = "mode" /\ r.dataless /\ "data_mode" \in r.fields
    \/ backend = "kenwood" /\ f \in DOMAIN Switch /\ rig[Switch[f]] = "off"

\* SetMode on CI-V reads the mode before it writes one, and again only when it
\* switches data on; a Kenwood reads back what it set.
HintAfter(r, f) ==
    IF f # "mode" \/ Named(r) THEN hint
    ELSE IF backend = "kenwood" \/ ModePair(r).data # "off" THEN ModePair(r).mode
    ELSE rig["mode"]

\* The data flag goes out with the mode, and so does the slot of a named VFO.
Writes(r) ==
    IF ~ModeNamed(r) THEN r.fields
    ELSE (r.fields \ ({"data_mode"} \cup IF Named(r) THEN {"filter_slot"} ELSE {}))
             \cup {"mode"}

\* Before[f]: the writes that ApplyPatch makes before that of f.
Before ==
    [f \in Fields |->
        {WriteOrder[i] : i \in {k \in 1..Len(WriteOrder) :
                                   \E j \in (k + 1)..Len(WriteOrder) : WriteOrder[j] = f}}]

\* It is the turn of the write of f.
Due(f) == at = "write" /\ f \in todo /\ Before[f] \cap todo = {}

-----------------------------------------------------------------------------

Init ==
    /\ backend \in {"civ", "kenwood"}
    /\ outside \in {{"was"}, {"panel"}}
    /\ rig \in {[s \in Settings |-> IF s \in off THEN "off" ELSE "was"] :
                  off \in {{}, IF backend = "kenwood" THEN {"noise_blanker"} ELSE {}}}
    /\ cache = rig /\ hint = "was" /\ changing = FALSE
    /\ req = None /\ todo = {} /\ tiers = <<>> /\ polls = 0 /\ at = "idle"
    /\ result = "none" /\ wrote = FALSE /\ tunedOn = "none" /\ declined = FALSE
    /\ lost = FALSE /\ turned = {} /\ panels = 0

radioVars == <<backend, outside, rig, changing, hint, cache>>
historyVars == <<wrote, tunedOn, declined, lost, turned, panels>>

\* ApplyPatch up to its first write: an illegal request is refused whether or
\* not the radio can be reached (requireConnected comes after the checks).
Receive(r) ==
    /\ at = "idle"
    /\ req' = r
    /\ \/ Invalid(r) /\ at' = "answered" /\ result' = "refused" /\ UNCHANGED <<todo, lost>>
       \/ ~Invalid(r) /\ at' = "answered" /\ result' = "failed" /\ lost' = TRUE /\ UNCHANGED todo
       \/ ~Invalid(r) /\ at' = "write" /\ todo' = Writes(r) /\ UNCHANGED <<result, lost>>
    /\ turned' = {}
    /\ UNCHANGED <<radioVars, tiers, polls, wrote, tunedOn, declined, panels>>

\* One write transaction, and where it leads.
Write(f) ==
    /\ Due(f) /\ ~RefusedAtRadio(req, f)
    /\ rig' = After(req, f)
    /\ hint' = HintAfter(req, f)
    /\ changing' = (changing \/ f = "ptt")
    /\ tunedOn' = IF f = "tuner_tune" THEN rig["frequency"] ELSE tunedOn
    /\ wrote' = TRUE
    /\ at' = IF f = "ptt" /\ ~req.direct THEN "settle" ELSE "write"
    /\ todo' = todo \ {f}
    /\ UNCHANGED <<backend, outside, cache, req, tiers, polls, result, declined, lost,
                   turned, panels>>

\* The first error ends the request where it stands, with no read-back.
WriteRefused(f) ==
    /\ Due(f) /\ RefusedAtRadio(req, f)
    /\ at' = "answered" /\ result' = "failed"
    /\ UNCHANGED <<radioVars, req, todo, tiers, polls, historyVars>>

\* The link fails, or the client goes away: the command may have been heard.
WriteLost(f) ==
    /\ Due(f)
    /\ \/ UNCHANGED <<rig, changing>>
       \/ /\ ~RefusedAtRadio(req, f)
          /\ rig' = After(req, f)
          /\ changing' = (changing \/ f = "ptt")
    /\ wrote' = TRUE /\ lost' = TRUE
    /\ at' = "answered" /\ result' = "failed"
    /\ UNCHANGED <<backend, outside, hint, cache, req, todo, tiers, polls, tunedOn,
                   declined, turned, panels>>

\* settlePTT: another poll while the radio does not agree yet.
SettlePoll ==
    /\ at = "settle" /\ cache["ptt"] # "asked" /\ polls < MaxPolls
    /\ Reads("fast") /\ polls' = polls + 1
    /\ UNCHANGED <<backend, outside, rig, changing, req, todo, tiers, at, result, historyVars>>

SettleEnds ==
    /\ at = "settle" /\ (cache["ptt"] = "asked" \/ polls = MaxPolls)
    /\ at' = "write"
    /\ UNCHANGED <<radioVars, req, todo, tiers, polls, result, historyVars>>

\* Everything is written: which tiers the read-back covers.
StartReadback ==
    /\ at = "write" /\ todo = {}
    /\ at' = "read" /\ tiers' = Tiers(req)
    /\ UNCHANGED <<radioVars, req, todo, polls, result, historyVars>>

\* The last tier read is followed by the answer.
NextTier ==
    /\ tiers' = Tail(tiers)
    /\ at' = IF Len(tiers) = 1 THEN "answered" ELSE "read"
    /\ result' = IF Len(tiers) = 1 THEN "ok" ELSE result

\* readback, a tier at a time.
Readback ==
    /\ at = "read" /\ Reads(Head(tiers)) /\ NextTier
    /\ UNCHANGED <<backend, outside, rig, changing, req, todo, polls, historyVars>>

\* The radio declines a read of the tier; some of it stays unread and the
\* request succeeds all the same.
ReadDeclined ==
    /\ at = "read" /\ declined' = TRUE /\ NextTier
    /\ UNCHANGED <<radioVars, req, todo, polls, wrote, tunedOn, lost, turned, panels>>

ReadLost ==
    /\ at = "read" /\ lost' = TRUE /\ at' = "answered" /\ result' = "failed"
    /\ UNCHANGED <<radioVars, req, todo, tiers, polls, wrote, tunedOn, declined, turned, panels>>

\* The relay moves.
Changeover ==
    /\ changing
    /\ changing' = FALSE /\ rig' = [rig EXCEPT !["ptt"] = "asked"]
    /\ UNCHANGED <<backend, outside, hint, cache, req, todo, tiers, polls, at, result, historyVars>>

\* The poller's own tick, between any two transactions of the request.
PollerReads ==
    /\ at \notin {"idle", "answered"}
    /\ \E tier \in {"slow", "fast"} : Reads(tier)
    /\ UNCHANGED <<backend, outside, rig, changing, req, todo, tiers, polls, at, result,
                   historyVars>>

\* The operator tunes or selects a mode; the mode brings its filter.
PanelTurns ==
    /\ at # "answered" /\ panels < MaxPanel
    /\ panels' = panels + 1
    /\ \E moved \in {{"frequency"}, {"mode", "filter_slot", "filter_width_hz"}} :
          /\ rig' = [s \in Settings |-> IF s \in moved THEN "panel" ELSE rig[s]]
          /\ turned' = turned \cup moved
    /\ UNCHANGED <<backend, outside, changing, hint, cache, req, todo, tiers, polls, at,
                   result, wrote, tunedOn, declined, lost>>

\* The session's own methods set one thing; a mode comes with its data flag.
Direct(fields) ==
    fields = {"mode", "data_mode"} \/ (Cardinality(fields) = 1 /\ fields # {"data_mode"})

Next ==
    \/ \E fields \in Requests, vfo \in {"current", "B"}, direct \in BOOLEAN :
          /\ direct => Direct(fields)
          /\ vfo = "B" => fields \cap Tuned # {}
          /\ \E faulty \in {{}} \cup {{f} : f \in fields},
                dataless \in {FALSE, fields \cap {"mode", "data_mode"} # {}} :
                Receive([fields |-> fields, vfo |-> vfo, faulty |-> faulty,
                         dataless |-> dataless, direct |-> direct])
    \/ \E f \in Fields : Write(f) \/ WriteRefused(f) \/ WriteLost(f)
    \/ SettlePoll \/ SettleEnds
    \/ StartReadback \/ Readback \/ ReadDeclined \/ ReadLost
    \/ Changeover \/ PollerReads \/ PanelTurns

Spec == Init /\ [][Next]_vars

-----------------------------------------------------------------------------
(* Correctness                                                              *)

\* A request that asks one thing of the radio it cannot do changes nothing
\* (ApplyPatch validates every field before anything is written).
RefusedWritesNothing == req.faulty # {} => ~wrote

\* A level asked for without its switch, or a data flag with a mode that has
\* no data variant, is the client's own contradiction.
Contradictory(r) ==
    \/ r.dataless /\ "data_mode" \in r.fields
    \/ \E f \in r.fields \cap DOMAIN Switch : Switch[f] \notin r.fields

\* A legal request is not refused halfway: every write finds the radio in a
\* state that accepts it (applyNoise's order of switches and levels).
NeverHalfApplied == result = "failed" => lost \/ Contradictory(req)

\* When the client is told ok, no later write of the request has undone an
\* earlier one (ApplyPatch's order: mode before frequency and filter).
AskedIsSet ==
    result = "ok" =>
        \A f \in req.fields \ (Actions \cup {"ptt"}) :
            Target(req, f) \in turned \/ rig[Target(req, f)] = "asked"

WriteIsKept == NeverHalfApplied /\ AskedIsSet

\* What the request may have moved.
Affected(r) ==
    {Target(r, f) : f \in r.fields \ Actions}
        \cup (IF "exchange_bands" \in r.fields THEN Tuned \cup VFOB ELSE {})
        \cup (IF "vfo_mode" \in r.fields \/ (ModeNamed(r) /\ ~Named(r)) THEN Tuned ELSE {})

Told(S) ==
    result = "ok" /\ ~declined =>
        \A s \in S \ turned : cache[s] = rig[s] \/ (s = "ptt" /\ cache[s] # "asked")

\* The answer tells the client what the radio holds of everything the request
\* may have moved, the width of a filter apart (ApplyPatch's `slow`, readback).
AnswerIsTheRadio == Told(Affected(req) \ {"filter_width_hz"})

\* A tuning cycle transmits only where this station may, unless the request
\* itself or the panel moved the radio after the check (ApplyPatch).
TunesInsideBands ==
    tunedOn \in outside =>
        turned # {} \/ panels > 0 \/ req.fields \cap {"exchange_bands", "vfo_mode"} # {}

-----------------------------------------------------------------------------
(* What keeps these true through every step                                 *)

PanelMoves == {"frequency", "mode", "filter_slot", "filter_width_hz"}

Asked == [fields : SUBSET Fields, vfo : {"current", "B"}, faulty : SUBSET Fields,
          dataless : BOOLEAN, direct : BOOLEAN]

TypeOK ==
    /\ outside \in {{"was"}, {"panel"}}
    /\ rig \in [Settings -> Origins] /\ cache \in [Settings -> Origins]
    /\ hint \in Origins /\ changing \in BOOLEAN
    /\ req \in Asked /\ todo \subseteq Fields
    /\ tiers \in {<<>>, <<"slow">>, <<"fast">>, <<"slow", "fast">>, <<"fast", "slow">>}
    /\ at \in {"idle", "write", "settle", "read", "answered"}
    /\ result \in {"none", "refused", "failed", "ok"}
    /\ tunedOn \in Origins \cup {"none"} /\ turned \subseteq PanelMoves /\ panels \in Nat
    /\ wrote \in BOOLEAN /\ declined \in BOOLEAN /\ lost \in BOOLEAN

\* The request has passed the checks and is not answered yet.
UnderWay == at \in {"write", "settle", "read"}

\* Where a request stands.
Stages ==
    /\ at = "idle" => req = None /\ result = "none" /\ ~wrote /\ tunedOn = "none"
    /\ UnderWay => req.faulty = {} /\ result = "none"
    /\ at = "read" => todo = {} /\ tiers # <<>>
    /\ result = "ok" => at = "answered" /\ todo = {} /\ tiers = <<>>

\* What is still to be written is what comes last of the request's writes.
LastWrites ==
    /\ todo \subseteq Writes(req)
    /\ \A f \in todo, g \in Writes(req) : f \in Before[g] => g \in todo

\* The write that carries a field.
Carrier(r, f) ==
    IF f = "data_mode" \/ (f = "filter_slot" /\ Named(r) /\ ModeNamed(r)) THEN "mode" ELSE f

\* A field is set, or its write is to come.
AskedStays ==
    UnderWay \/ result = "ok" =>
        \A f \in req.fields \ (Actions \cup {"ptt"}) :
            \/ Carrier(req, f) \in todo
            \/ Target(req, f) \in turned \/ rig[Target(req, f)] = "asked"

\* With nobody at the panel and no other band called up, the radio is where it
\* was when the limits were checked, or where the request put it.
WhereItTunes ==
    panels = 0 /\ req.fields \cap {"exchange_bands", "vfo_mode"} = {} =>
        /\ rig["frequency"] \in {"was", "asked"}
        /\ at = "idle" => cache["frequency"] = "was"
        /\ UnderWay /\ "tuner_tune" \in req.fields => "was" \notin outside

Tier(s) == IF s \in Fast THEN "fast" ELSE "slow"

\* A setting is read back, or its tier is to come.
ReadSoFar ==
    (at = "read" \/ result = "ok") /\ ~declined =>
        \A s \in Affected(req) \ ({"filter_width_hz"} \cup turned) :
            \/ \E i \in 1..Len(tiers) : tiers[i] = Tier(s)
            \/ cache[s] = rig[s] \/ (s = "ptt" /\ cache[s] # "asked")

PatchInv ==
    /\ TypeOK /\ Stages /\ LastWrites /\ AskedStays /\ WhereItTunes /\ ReadSoFar
    /\ RefusedWritesNothing /\ NeverHalfApplied /\ TunesInsideBands
=============================================================================
