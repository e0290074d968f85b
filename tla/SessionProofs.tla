----------------------------- MODULE SessionProofs -----------------------------
(***************************************************************************)
(* Proofs about Session: what a PATCH of a radio's state promises, for     *)
(* every request a client may make, however often the poller or the        *)
(* operator comes in between (PatchInv); what a test run promises, for any *)
(* radios and mishaps (TestInv); and that the deltas follow the state      *)
(* through all of it.                                                      *)
(***************************************************************************)
EXTENDS MCSession, RadioStateProofs, KeptProofs, SequenceTheorems, TLAPS

-----------------------------------------------------------------------------
(* The order of the writes                                                  *)

\* What is written before what, as far as it matters (ApplyPatch, applyNoise).
LEMMA OrderOfWrites ==
    /\ \A f \in {"mode", "frequency", "filter_slot", "filter_width_hz"} :
          f \in Patching!Fields /\ {"exchange_bands", "vfo_mode"} \subseteq Patching!Before[f]
    /\ \A f \in {"filter_slot", "filter_width_hz"} : "mode" \in Patching!Before[f]
    /\ "noise_blanker" \in Patching!Before["nb_level"]
    /\ "noise_reduction" \in Patching!Before["nr_level"]
<1>1. PICK w : w = Patching!WriteOrder
    OBVIOUS
<1>2. Len(w) = 33
    BY <1>1 DEF Patching!WriteOrder, Patching!FrontEnd, Patching!Noise, Patching!TXAudio
<1>3. /\ w[1] = "exchange_bands" /\ w[2] = "vfo_mode" /\ w[3] = "mode"
      /\ w[4] = "frequency" /\ w[5] = "filter_slot" /\ w[6] = "filter_width_hz"
    BY <1>1 DEF Patching!WriteOrder, Patching!FrontEnd, Patching!Noise, Patching!TXAudio
<1>4. /\ w[15] = "noise_blanker" /\ w[16] = "nb_level"
      /\ w[17] = "noise_reduction" /\ w[18] = "nr_level"
    BY <1>1 DEF Patching!WriteOrder, Patching!FrontEnd, Patching!Noise, Patching!TXAudio
<1>5. ASSUME NEW i \in 1..33, NEW j \in 1..33, i < j
      PROVE  w[j] \in Patching!Fields /\ w[i] \in Patching!Before[w[j]]
    <2>1. w[j] \in Patching!Fields
        BY <1>1, <1>2 DEF Patching!Fields, Patching!Elements
    <2>2. i \in {k \in 1..Len(w) : \E m \in (k + 1)..Len(w) : w[m] = w[j]}
        <3>1. j \in (i + 1)..33
            BY <1>5
        <3> QED BY <1>2, <3>1
    <2> QED BY <1>1, <2>1, <2>2 DEF Patching!Before
<1>6. /\ \A j \in 3..6 : /\ w[j] \in Patching!Fields
                         /\ w[1] \in Patching!Before[w[j]] /\ w[2] \in Patching!Before[w[j]]
      /\ \A j \in 5..6 : w[3] \in Patching!Before[w[j]]
      /\ w[15] \in Patching!Before[w[16]] /\ w[17] \in Patching!Before[w[18]]
    BY <1>5
<1>7. 3 \in 3..6 /\ 4 \in 3..6 /\ 5 \in 3..6 /\ 6 \in 3..6 /\ 5 \in 5..6 /\ 6 \in 5..6
    OBVIOUS
<1> QED BY <1>3, <1>4, <1>6, <1>7

-----------------------------------------------------------------------------
(* What the parts of a request come to                                      *)

\* The fields an invariant names are settings of the radio.
LEMMA SettingsThere ==
    /\ Patching!PanelMoves \subseteq Patching!Settings
    /\ Patching!Tuned \ {"data_mode"} \subseteq Patching!Settings
    /\ {"data_mode", "ptt"} \subseteq Patching!Settings
    /\ Patching!VFOB \subseteq Patching!Settings
<1>1. "ptt" \in Patching!Fields
    <2>1. PICK w : w = Patching!WriteOrder
        OBVIOUS
    <2>2. Len(w) = 33 /\ w[32] = "ptt"
        BY <2>1 DEF Patching!WriteOrder, Patching!FrontEnd, Patching!Noise, Patching!TXAudio
    <2>3. 32 \in 1..33
        OBVIOUS
    <2> QED BY <2>1, <2>2, <2>3 DEF Patching!Fields, Patching!Elements
<1>2. {"mode", "frequency", "filter_slot", "filter_width_hz"} \subseteq Patching!Fields
    BY OrderOfWrites
<1>3. "data_mode" \in Patching!Fields
    BY DEF Patching!Fields
<1> QED BY <1>1, <1>2, <1>3
        DEF Patching!Settings, Patching!Actions, Patching!PanelMoves, Patching!Tuned,
            Patching!VFOB

\* No field is one of VFO B's settings.
LEMMA FieldsApart == Patching!Fields \cap Patching!VFOB = {}
<1>1. PICK w : w = Patching!WriteOrder
    OBVIOUS
<1>2. Len(w) = 33
    BY <1>1 DEF Patching!WriteOrder, Patching!FrontEnd, Patching!Noise, Patching!TXAudio
<1>3. ASSUME NEW i \in 1..33 PROVE w[i] \notin Patching!VFOB
    BY <1>1 DEF Patching!WriteOrder, Patching!FrontEnd, Patching!Noise, Patching!TXAudio,
                Patching!VFOB
<1> QED BY <1>1, <1>2, <1>3 DEF Patching!Fields, Patching!Elements, Patching!VFOB

\* What a request names is a setting of the radio.
LEMMA TargetIsSetting ==
    ASSUME NEW r \in Patching!Asked, NEW f \in r.fields, f \notin Patching!Actions
    PROVE  Patching!Target(r, f) \in Patching!Settings
BY DEF Patching!Asked, Patching!Target, Patching!Settings, Patching!VFOB

\* A write carries out what it is for (SetMode, SetFrequency, SetVFOMode, ...).
LEMMA AfterType ==
    ASSUME rig \in [Patching!Settings -> Patching!Origins],
           cache \in [Patching!Settings -> Patching!Origins],
           NEW r, NEW f
    PROVE  Patching!After(r, f) \in [Patching!Settings -> Patching!Origins]
<1>1. /\ "asked" \in Patching!Origins /\ "other" \in Patching!Origins
      /\ "default" \in Patching!Origins /\ "off" \in Patching!Origins
      /\ cache["mode"] \in Patching!Origins /\ cache["data_mode"] \in Patching!Origins
    BY SettingsThere DEF Patching!Origins, Patching!Tuned
<1>2. Patching!ModePair(r).mode \in Patching!Origins
      /\ Patching!ModePair(r).data \in Patching!Origins
    BY <1>1 DEF Patching!ModePair
<1> QED BY <1>1, <1>2 DEF Patching!After

\* An exchange leaves what is not tuned alone.
LEMMA AfterSwap ==
    ASSUME NEW r, NEW f \in {"exchange_bands", "vfo_mode"}, NEW s \in Patching!Settings,
           s \notin Patching!Tuned \cup Patching!VFOB
    PROVE  Patching!After(r, f)[s] = rig[s]
BY DEF Patching!After

\* What a mode change sets and what it leaves alone (applyModePair).
LEMMA AfterMode ==
    ASSUME NEW r, NEW s \in Patching!Settings
    PROVE  /\ Patching!Named(r) =>
                 /\ Patching!After(r, "mode")[s] \in {rig[s], "asked"}
                 /\ s = "vfo_b_mode" \/ (s = "vfo_b_filter_slot" /\ "filter_slot" \in r.fields)
                       => Patching!After(r, "mode")[s] = "asked"
           /\ ~Patching!Named(r) =>
                 /\ s = "mode" => Patching!After(r, "mode")[s] = Patching!ModePair(r).mode
                 /\ s = "data_mode" => Patching!After(r, "mode")[s] = Patching!ModePair(r).data
                 /\ s \notin {"mode", "data_mode", "filter_slot", "filter_width_hz"} =>
                       Patching!After(r, "mode")[s] = rig[s]
BY DEF Patching!After

\* Any other write sets its own field only.
LEMMA AfterOther ==
    ASSUME NEW r, NEW f, f \notin {"exchange_bands", "vfo_mode", "mode"},
           NEW s \in Patching!Settings
    PROVE  /\ Patching!After(r, f)[s] \in {rig[s], "asked"}
           /\ f \notin {"tuner_tune", "ptt"} /\ s = Patching!Target(r, f) =>
                 Patching!After(r, f)[s] = "asked"
           /\ s # Patching!Target(r, f) => Patching!After(r, f)[s] = rig[s]
BY DEF Patching!After

\* A write leaves the fields that are set as they are: what it would undo comes
\* after it (ApplyPatch's order).
LEMMA WriteKeeps ==
    ASSUME Patching!PatchInv, NEW f \in Patching!Fields, Patching!Due(f),
           NEW g \in req.fields \ (Patching!Actions \cup {"ptt"})
    PROVE  \/ Patching!Carrier(req, g) \in todo \ {f}
           \/ Patching!Target(req, g) \in turned
           \/ Patching!After(req, f)[Patching!Target(req, g)] = "asked"
<1>1. PICK c, t : c = Patching!Carrier(req, g) /\ t = Patching!Target(req, g)
    OBVIOUS
<1>2. /\ req \in Patching!Asked /\ t \in Patching!Settings
      /\ c \in todo \/ t \in turned \/ rig[t] = "asked"
      /\ f \in Patching!Writes(req) /\ c \in Patching!Writes(req)
    <2>1. req \in Patching!Asked /\ f \in todo /\ todo \subseteq Patching!Writes(req)
        BY DEF Patching!PatchInv, Patching!TypeOK, Patching!LastWrites, Patching!Due
    <2>2. c \in todo \/ t \in turned \/ rig[t] = "asked"
        BY <1>1 DEF Patching!PatchInv, Patching!AskedStays, Patching!Due, Patching!UnderWay
    <2>3. c \in Patching!Writes(req)
        BY <1>1 DEF Patching!Carrier, Patching!Writes, Patching!ModeNamed
    <2> QED BY <1>1, <2>1, <2>2, <2>3, TargetIsSetting
<1> SUFFICES ASSUME c \notin todo \/ c = f, t \notin turned
             PROVE  Patching!After(req, f)[t] = "asked"
    BY <1>1
<1>3. ASSUME c # f PROVE rig[t] = "asked" /\ f \notin Patching!Before[c]
    BY <1>2, <1>3 DEF Patching!PatchInv, Patching!LastWrites, Patching!Due
<1>4. t \in Patching!Tuned \cup Patching!VFOB =>
          c \in {"mode", "frequency", "filter_slot", "filter_width_hz"}
    <2>1. g \in Patching!Fields /\ g \notin Patching!VFOB
        BY <1>2, FieldsApart DEF Patching!Asked
    <2> QED BY <1>1, <2>1 DEF Patching!Carrier, Patching!Target, Patching!Tuned, Patching!VFOB
<1>5. CASE f \in {"exchange_bands", "vfo_mode"}
    <2>1. c # f
        BY <1>1, <1>5 DEF Patching!Carrier, Patching!Actions
    <2>2. t \notin Patching!Tuned \cup Patching!VFOB
        BY <1>3, <1>4, <1>5, <2>1, OrderOfWrites
    <2> QED BY <1>2, <1>3, <1>5, <2>1, <2>2, AfterSwap
<1>6. CASE f = "mode" /\ Patching!Named(req)
    <2>1. CASE c # f
        BY <1>2, <1>3, <1>6, <2>1, AfterMode
    <2>2. CASE c = f
        <3>1. t = "vfo_b_mode" \/ (t = "vfo_b_filter_slot" /\ "filter_slot" \in req.fields)
            BY <1>1, <1>6, <2>2 DEF Patching!Carrier, Patching!Target
        <3> QED BY <1>2, <1>6, <3>1, AfterMode
    <2> QED BY <2>1, <2>2
<1>7. CASE f = "mode" /\ ~Patching!Named(req)
    <2>1. CASE c # f
        <3>1. t = g /\ c = g /\ g \notin {"mode", "data_mode"}
            BY <1>1, <1>7, <2>1 DEF Patching!Carrier, Patching!Target
        <3>2. g \notin {"filter_slot", "filter_width_hz"}
            BY <1>3, <1>7, <2>1, <3>1, OrderOfWrites
        <3> QED BY <1>2, <1>3, <1>7, <2>1, <3>1, <3>2, AfterMode
    <2>2. CASE c = f
        <3>1. t = g /\ g \in {"mode", "data_mode"}
            BY <1>1, <1>7, <2>2 DEF Patching!Carrier, Patching!Target
        <3>2. /\ g = "mode" => Patching!ModePair(req).mode = "asked"
              /\ g = "data_mode" => Patching!ModePair(req).data = "asked"
            BY DEF Patching!ModePair
        <3> QED BY <1>2, <1>7, <3>1, <3>2, AfterMode
    <2> QED BY <2>1, <2>2
<1>8. CASE f \notin {"exchange_bands", "vfo_mode", "mode"}
    <2>1. CASE c # f
        BY <1>2, <1>3, <1>8, <2>1, AfterOther
    <2>2. CASE c = f
        <3>1. t = Patching!Target(req, f) /\ f \notin {"tuner_tune", "ptt"}
            BY <1>1, <1>8, <2>2 DEF Patching!Carrier, Patching!Actions
        <3> QED BY <1>2, <1>8, <3>1, AfterOther
    <2> QED BY <2>1, <2>2
<1> QED BY <1>5, <1>6, <1>7, <1>8

-----------------------------------------------------------------------------
(* The invariant of a PATCH                                                 *)

\* A session nobody has asked anything of.
LEMMA InitPatchInv == Patching!Init => Patching!PatchInv
<1> SUFFICES ASSUME Patching!Init PROVE Patching!PatchInv
    OBVIOUS
<1>1. /\ outside \in {{"was"}, {"panel"}} /\ cache = rig /\ hint = "was" /\ changing = FALSE
      /\ req = Patching!None /\ todo = {} /\ tiers = <<>> /\ at = "idle" /\ result = "none"
      /\ wrote = FALSE /\ tunedOn = "none" /\ declined = FALSE /\ lost = FALSE
      /\ turned = {} /\ panels = 0
    BY DEF Patching!Init
<1>2. /\ rig \in [Patching!Settings -> Patching!Origins]
      /\ rig["frequency"] = "was"
    <2>1. PICK off \in {{}, {"noise_blanker"}} :
              rig = [s \in Patching!Settings |-> IF s \in off THEN "off" ELSE "was"]
        BY DEF Patching!Init
    <2> QED BY <2>1, SettingsThere DEF Patching!Origins, Patching!PanelMoves
<1>3. req \in Patching!Asked /\ req.fields = {} /\ req.faulty = {}
    BY <1>1 DEF Patching!None, Patching!Asked
<1>4. Patching!TypeOK
    BY <1>1, <1>2, <1>3 DEF Patching!TypeOK, Patching!Origins
<1>5. Patching!Stages /\ Patching!LastWrites /\ Patching!AskedStays /\ Patching!ReadSoFar
    BY <1>1 DEF Patching!Stages, Patching!LastWrites, Patching!AskedStays,
                Patching!ReadSoFar, Patching!UnderWay
<1>6. Patching!WhereItTunes
    BY <1>1, <1>2 DEF Patching!WhereItTunes, Patching!UnderWay
<1>7. Patching!RefusedWritesNothing /\ Patching!NeverHalfApplied /\ Patching!TunesInsideBands
    BY <1>1, <1>3 DEF Patching!RefusedWritesNothing, Patching!NeverHalfApplied,
                      Patching!TunesInsideBands
<1> QED BY <1>4, <1>5, <1>6, <1>7 DEF Patching!PatchInv

\* ApplyPatch's checks: what passes them has no fault in it, and what it asks
\* for is all to be written.
LEMMA ReceivePatch ==
    ASSUME Patching!PatchInv, NEW r \in Patching!Asked, Patching!Receive(r)
    PROVE  Patching!PatchInv'
<1> USE DEF Patching!PatchInv, Patching!radioVars
<1>1. /\ at = "idle" /\ req' = r /\ turned' = {}
      /\ UNCHANGED <<outside, rig, changing, hint, cache, tiers, wrote, tunedOn, declined, panels>>
      /\ result = "none" /\ ~wrote /\ tunedOn = "none" /\ req = Patching!None
    BY DEF Patching!Receive, Patching!Stages
<1>2. \/ Patching!Invalid(r) /\ at' = "answered" /\ result' = "refused" /\ UNCHANGED <<todo, lost>>
      \/ /\ ~Patching!Invalid(r) /\ at' = "answered" /\ result' = "failed"
         /\ lost' = TRUE /\ UNCHANGED todo
      \/ /\ ~Patching!Invalid(r) /\ at' = "write" /\ todo' = Patching!Writes(r)
         /\ result' = "none" /\ UNCHANGED lost
    BY <1>1 DEF Patching!Receive
<1>3. ~Patching!Invalid(r) => r.faulty = {} /\ ~Patching!TuneOutOfBand(r)
    <2> DEFINE F == Patching!Elements(Patching!FrontEnd)
               N == Patching!Elements(Patching!Noise)
               T == Patching!Elements(Patching!TXAudio)
    <2> HIDE DEF F, N, T
    <2>1. ~Patching!Invalid(r) => /\ r.faulty \cap F = {} /\ r.faulty \cap N = {}
                                  /\ r.faulty \cap T = {} /\ r.faulty \ (F \cup N \cup T) = {}
                                  /\ ~Patching!TuneOutOfBand(r)
        BY DEF Patching!Invalid, Patching!FaultyFrontEnd, Patching!FaultyNoise,
               Patching!FaultyTXAudio, Patching!FaultyRest, F, N, T
    <2> QED BY <2>1
<1>4. todo = {}
    BY <1>1 DEF Patching!LastWrites, Patching!Writes, Patching!None, Patching!ModeNamed
<1>5. Patching!Writes(r) \subseteq Patching!Fields
    BY OrderOfWrites DEF Patching!Writes, Patching!Asked
<1>6. Patching!TypeOK'
    BY <1>1, <1>2, <1>5 DEF Patching!TypeOK
<1>7. Patching!Stages'
    BY <1>1, <1>2, <1>3 DEF Patching!Stages, Patching!UnderWay
<1>8. Patching!LastWrites'
    BY <1>1, <1>2, <1>4 DEF Patching!LastWrites
<1>9. Patching!AskedStays'
    <2>1. ASSUME NEW f \in r.fields \ (Patching!Actions \cup {"ptt"})
          PROVE  Patching!Carrier(r, f) \in Patching!Writes(r)
        BY DEF Patching!Carrier, Patching!Writes, Patching!ModeNamed
    <2> QED BY <1>1, <1>2, <2>1 DEF Patching!AskedStays, Patching!UnderWay
<1>10. Patching!WhereItTunes'
    <2> SUFFICES ASSUME panels = 0, r.fields \cap {"exchange_bands", "vfo_mode"} = {}
                 PROVE  /\ rig["frequency"] \in {"was", "asked"}
                        /\ at' = "idle" => cache["frequency"] = "was"
                        /\ Patching!UnderWay' /\ "tuner_tune" \in r.fields => "was" \notin outside
        BY <1>1 DEF Patching!WhereItTunes
    <2>1. rig["frequency"] \in {"was", "asked"} /\ cache["frequency"] = "was"
        BY <1>1 DEF Patching!WhereItTunes, Patching!None
    <2> QED BY <1>2, <1>3, <2>1 DEF Patching!UnderWay, Patching!TuneOutOfBand
<1>11. Patching!ReadSoFar'
    BY <1>2 DEF Patching!ReadSoFar
<1>12. Patching!RefusedWritesNothing' /\ Patching!NeverHalfApplied'
    BY <1>1, <1>2 DEF Patching!RefusedWritesNothing, Patching!NeverHalfApplied
<1>13. Patching!TunesInsideBands'
    BY <1>1 DEF Patching!TunesInsideBands, Patching!TypeOK
<1> QED BY <1>6, <1>7, <1>8, <1>9, <1>10, <1>11, <1>12, <1>13

\* Nothing the checks let through is refused at the radio, unless the client
\* contradicts itself (applyNoise's switches and levels).
LEMMA RefusalIsContradiction ==
    ASSUME Patching!PatchInv, NEW f \in Patching!Fields, Patching!Due(f),
           Patching!RefusedAtRadio(req, f)
    PROVE  Patching!Contradictory(req)
<1>1. /\ req.faulty = {} /\ f \in Patching!Writes(req) /\ Patching!UnderWay
      /\ req \in Patching!Asked /\ turned \subseteq Patching!PanelMoves
    BY DEF Patching!PatchInv, Patching!Stages, Patching!LastWrites, Patching!UnderWay,
           Patching!Due, Patching!TypeOK
<1>2. CASE req.dataless /\ "data_mode" \in req.fields
    BY <1>2 DEF Patching!Contradictory
<1>3. CASE f \in DOMAIN Patching!Switch /\ rig[Patching!Switch[f]] = "off"
    <2>1. PICK s : s = Patching!Switch[f]
        OBVIOUS
    <2>2. /\ f \in {"nb_level", "nr_level"} /\ rig[s] = "off"
          /\ s = IF f = "nb_level" THEN "noise_blanker" ELSE "noise_reduction"
        BY <1>3, <2>1 DEF Patching!Switch
    <2>3. f \in req.fields
        BY <1>1, <2>2 DEF Patching!Writes
    <2>4. s \notin req.fields
        <3> SUFFICES ASSUME s \in req.fields PROVE FALSE
            OBVIOUS
        <3>1. s \in Patching!Before[f] /\ s \notin todo
            BY <2>2, OrderOfWrites DEF Patching!Due
        <3>2. s \in req.fields \ (Patching!Actions \cup {"ptt"})
            BY <2>2 DEF Patching!Actions
        <3>3. Patching!Carrier(req, s) = s /\ Patching!Target(req, s) = s
            BY <2>2 DEF Patching!Carrier, Patching!Target
        <3>4. s \in turned \/ rig[s] = "asked"
            BY <1>1, <3>1, <3>2, <3>3 DEF Patching!PatchInv, Patching!AskedStays
        <3> QED BY <1>1, <2>2, <3>4 DEF Patching!PanelMoves
    <2> QED BY <1>3, <2>1, <2>3, <2>4 DEF Patching!Contradictory
<1> QED BY <1>1, <1>2, <1>3 DEF Patching!RefusedAtRadio

\* A write that goes through.
LEMMA WritePatch ==
    ASSUME Patching!PatchInv, NEW f \in Patching!Fields, Patching!Write(f)
    PROVE  Patching!PatchInv'
<1> USE DEF Patching!PatchInv
<1>1. /\ at = "write" /\ f \in todo /\ Patching!Due(f)
      /\ rig' = Patching!After(req, f) /\ hint' = Patching!HintAfter(req, f)
      /\ changing' = (changing \/ f = "ptt")
      /\ tunedOn' = IF f = "tuner_tune" THEN rig["frequency"] ELSE tunedOn
      /\ wrote' = TRUE /\ at' \in {"settle", "write"} /\ todo' = todo \ {f}
      /\ UNCHANGED <<outside, cache, req, tiers, result, declined, lost, turned, panels>>
    BY DEF Patching!Write, Patching!Due
<1>2. /\ req \in Patching!Asked /\ req.faulty = {} /\ result = "none" /\ Patching!UnderWay
      /\ Patching!UnderWay' /\ f \in Patching!Writes(req)
    BY <1>1 DEF Patching!TypeOK, Patching!Stages, Patching!UnderWay, Patching!LastWrites
<1>3. rig["mode"] \in Patching!Origins /\ rig["frequency"] \in Patching!Origins
      /\ Patching!ModePair(req).mode \in Patching!Origins
    BY SettingsThere DEF Patching!TypeOK, Patching!PanelMoves, Patching!ModePair,
                         Patching!Origins
<1>4. Patching!TypeOK'
    <2>1. rig' \in [Patching!Settings -> Patching!Origins]
        BY <1>1, AfterType DEF Patching!TypeOK
    <2>2. hint' \in Patching!Origins
        BY <1>1, <1>3 DEF Patching!TypeOK, Patching!HintAfter
    <2>3. changing' \in BOOLEAN
        BY <1>1
    <2> QED BY <1>1, <1>3, <2>1, <2>2, <2>3 DEF Patching!TypeOK
<1>5. Patching!Stages'
    BY <1>1, <1>2 DEF Patching!Stages
<1>6. Patching!LastWrites'
    BY <1>1 DEF Patching!LastWrites, Patching!Due
<1>7. Patching!AskedStays'
    BY <1>1, WriteKeeps DEF Patching!AskedStays
<1>8. ASSUME panels = 0, req.fields \cap {"exchange_bands", "vfo_mode"} = {}
      PROVE  /\ rig["frequency"] \in {"was", "asked"} /\ rig'["frequency"] \in {"was", "asked"}
             /\ "tuner_tune" \in req.fields => "was" \notin outside
    <2>1. /\ rig["frequency"] \in {"was", "asked"}
          /\ "tuner_tune" \in req.fields => "was" \notin outside
        BY <1>2, <1>8 DEF Patching!WhereItTunes
    <2>2. f \notin {"exchange_bands", "vfo_mode"} /\ "frequency" \in Patching!Settings
        BY <1>2, <1>8, SettingsThere DEF Patching!Writes, Patching!PanelMoves
    <2>3. CASE f = "mode"
        BY <1>1, <2>1, <2>2, <2>3, AfterMode
    <2>4. CASE f # "mode"
        BY <1>1, <2>1, <2>2, <2>4, AfterOther
    <2> QED BY <2>1, <2>3, <2>4
<1>9. Patching!WhereItTunes'
    BY <1>1, <1>8 DEF Patching!WhereItTunes
<1>10. Patching!ReadSoFar'
    BY <1>1, <1>2 DEF Patching!ReadSoFar
<1>11. Patching!RefusedWritesNothing' /\ Patching!NeverHalfApplied'
    BY <1>1, <1>2 DEF Patching!RefusedWritesNothing, Patching!NeverHalfApplied
<1>12. Patching!TunesInsideBands'
    <2>1. CASE f = "tuner_tune"
        <3>1. f \in req.fields
            BY <1>2, <2>1 DEF Patching!Writes
        <3>2. panels \in Nat /\ outside \in {{"was"}, {"panel"}}
            BY DEF Patching!TypeOK
        <3> QED BY <1>1, <1>8, <2>1, <3>1, <3>2 DEF Patching!TunesInsideBands
    <2>2. CASE f # "tuner_tune"
        BY <1>1, <2>2 DEF Patching!TunesInsideBands
    <2> QED BY <2>1, <2>2
<1> QED BY <1>4, <1>5, <1>6, <1>7, <1>9, <1>10, <1>11, <1>12

\* A request that ends halfway: the radio refuses a write, the link fails.
LEMMA StopsPatch ==
    ASSUME Patching!PatchInv, NEW f \in Patching!Fields,
           Patching!WriteRefused(f) \/ Patching!WriteLost(f)
    PROVE  Patching!PatchInv'
<1> USE DEF Patching!PatchInv
<1>1. /\ Patching!Due(f) /\ at = "write" /\ at' = "answered" /\ result' = "failed"
      /\ UNCHANGED <<outside, hint, cache, req, todo, tiers, tunedOn, declined, turned, panels>>
    BY DEF Patching!WriteRefused, Patching!WriteLost, Patching!Due, Patching!historyVars,
           Patching!radioVars
<1>2. /\ rig' = rig \/ rig' = Patching!After(req, f)
      /\ changing' \in {changing, changing \/ f = "ptt"}
      /\ wrote' \in {wrote, TRUE} /\ lost' \in {lost, TRUE}
    BY DEF Patching!WriteRefused, Patching!WriteLost, Patching!historyVars,
           Patching!radioVars
<1>3. req.faulty = {} /\ Patching!UnderWay /\ f \in Patching!Writes(req)
    BY <1>1 DEF Patching!Stages, Patching!UnderWay, Patching!LastWrites, Patching!Due
<1>4. Patching!TypeOK'
    <2>1. rig' \in [Patching!Settings -> Patching!Origins]
        BY <1>2, AfterType DEF Patching!TypeOK
    <2>2. changing' \in BOOLEAN
        BY <1>2 DEF Patching!TypeOK
    <2>3. wrote' \in BOOLEAN /\ lost' \in BOOLEAN
        BY <1>2 DEF Patching!TypeOK
    <2> QED BY <1>1, <2>1, <2>2, <2>3 DEF Patching!TypeOK
<1>5. Patching!Stages' /\ Patching!LastWrites' /\ Patching!AskedStays' /\ Patching!ReadSoFar'
    BY <1>1 DEF Patching!Stages, Patching!LastWrites, Patching!AskedStays,
                Patching!ReadSoFar, Patching!UnderWay
<1>6. Patching!WhereItTunes'
    <2> SUFFICES ASSUME panels = 0, req.fields \cap {"exchange_bands", "vfo_mode"} = {}
                 PROVE  rig'["frequency"] \in {"was", "asked"}
        BY <1>1 DEF Patching!WhereItTunes, Patching!UnderWay
    <2>1. rig["frequency"] \in {"was", "asked"}
        BY DEF Patching!WhereItTunes
    <2>2. f \notin {"exchange_bands", "vfo_mode"} /\ "frequency" \in Patching!Settings
        BY <1>3, SettingsThere DEF Patching!Writes, Patching!PanelMoves
    <2>3. CASE f = "mode"
        BY <1>2, <2>1, <2>2, <2>3, AfterMode
    <2>4. CASE f # "mode"
        BY <1>2, <2>1, <2>2, <2>4, AfterOther
    <2> QED BY <2>3, <2>4
<1>7. Patching!RefusedWritesNothing'
    BY <1>1, <1>3 DEF Patching!RefusedWritesNothing
<1>8. Patching!NeverHalfApplied'
    <2>1. CASE Patching!WriteRefused(f)
        <3>1. Patching!Contradictory(req)
            BY <1>1, <2>1, RefusalIsContradiction DEF Patching!WriteRefused
        <3>2. Patching!Contradictory(req)'
            BY <1>1, <3>1 DEF Patching!Contradictory
        <3> QED BY <3>2 DEF Patching!NeverHalfApplied
    <2>2. CASE Patching!WriteLost(f)
        BY <2>2 DEF Patching!NeverHalfApplied, Patching!WriteLost
    <2> QED BY <2>1, <2>2
<1>9. Patching!TunesInsideBands'
    BY <1>1 DEF Patching!TunesInsideBands
<1> QED BY <1>4, <1>5, <1>6, <1>7, <1>8, <1>9

\* What a read of a tier leaves in the cache (Rig.Poll).
LEMMA ReadsTier ==
    ASSUME Patching!TypeOK, NEW tier \in {"slow", "fast"}, Patching!Reads(tier)
    PROVE  /\ cache' \in [Patching!Settings -> Patching!Origins] /\ hint' \in Patching!Origins
           /\ \A s \in Patching!Settings \ {"filter_width_hz"} :
                 /\ cache'[s] \in {cache[s], rig[s]}
                 /\ Patching!Tier(s) = tier => cache'[s] = rig[s]
<1>1. /\ rig \in [Patching!Settings -> Patching!Origins]
      /\ cache \in [Patching!Settings -> Patching!Origins]
      /\ hint \in Patching!Origins /\ "mode" \in Patching!Settings
      /\ "filter_width_hz" \in Patching!Settings /\ "misread" \in Patching!Origins
    BY SettingsThere DEF Patching!TypeOK, Patching!PanelMoves, Patching!Origins
<1>2. CASE tier = "fast"
    <2>1. /\ cache' = [s \in Patching!Settings |->
                          IF s \in Patching!Fast THEN rig[s] ELSE cache[s]]
          /\ hint' = rig["mode"]
        BY <1>2 DEF Patching!Reads
    <2> QED BY <1>1, <1>2, <2>1 DEF Patching!Tier
<1>3. CASE tier = "slow"
    <2>1. PICK width \in {rig["filter_width_hz"], "misread", cache["filter_width_hz"]} :
              cache' = [s \in Patching!Settings |->
                           IF s = "filter_width_hz" THEN width
                           ELSE IF s \in Patching!Fast THEN cache[s] ELSE rig[s]]
        BY <1>3 DEF Patching!Reads
    <2>2. hint' = hint /\ width \in Patching!Origins
        BY <1>1, <1>3 DEF Patching!Reads
    <2> QED BY <1>1, <1>3, <2>1, <2>2 DEF Patching!Tier
<1> QED BY <1>2, <1>3

\* What a request may have moved are settings of the radio.
LEMMA AffectedThere ==
    ASSUME NEW r \in Patching!Asked
    PROVE  Patching!Affected(r) \subseteq Patching!Settings
<1>1. ASSUME NEW f \in r.fields \ Patching!Actions
      PROVE  Patching!Target(r, f) \in Patching!Settings
    BY <1>1, TargetIsSetting
<1>2. Patching!Tuned \cup Patching!VFOB \subseteq Patching!Settings
    BY SettingsThere DEF Patching!Tuned
<1> QED BY <1>1, <1>2 DEF Patching!Affected

\* A read that is not the request's own read-back: settlePTT's poll, the
\* poller's tick.
LEMMA PolledPatch ==
    ASSUME Patching!PatchInv, NEW tier \in {"slow", "fast"}, Patching!Reads(tier),
           at \notin {"idle", "answered"},
           UNCHANGED <<outside, rig, changing, req, todo, tiers, at, result, wrote, tunedOn,
                       declined, lost, turned, panels>>
    PROVE  Patching!PatchInv'
<1> USE DEF Patching!PatchInv
<1>1. /\ cache' \in [Patching!Settings -> Patching!Origins] /\ hint' \in Patching!Origins
      /\ \A s \in Patching!Settings \ {"filter_width_hz"} : cache'[s] \in {cache[s], rig[s]}
    BY ReadsTier
<1>2. Patching!TypeOK'
    BY <1>1 DEF Patching!TypeOK
<1>3. Patching!Stages' /\ Patching!LastWrites' /\ Patching!AskedStays'
    BY DEF Patching!Stages, Patching!LastWrites, Patching!AskedStays, Patching!UnderWay
<1>4. Patching!WhereItTunes'
    BY DEF Patching!WhereItTunes, Patching!UnderWay
<1>5. Patching!ReadSoFar'
    BY <1>1, AffectedThere DEF Patching!ReadSoFar, Patching!TypeOK
<1>6. Patching!RefusedWritesNothing' /\ Patching!TunesInsideBands'
    BY DEF Patching!RefusedWritesNothing, Patching!TunesInsideBands
<1>7. Patching!NeverHalfApplied'
    BY DEF Patching!NeverHalfApplied, Patching!Contradictory
<1> QED BY <1>2, <1>3, <1>4, <1>5, <1>6, <1>7

\* The read-back covers what the request may have moved, and what a tier has
\* read stays read (ApplyPatch's `slow`, readback).
LEMMA ReadbackCovers ==
    ASSUME Patching!PatchInv,
           \/ Patching!SettleEnds \/ Patching!StartReadback \/ Patching!Readback
           \/ Patching!ReadDeclined \/ Patching!ReadLost
    PROVE  Patching!ReadSoFar'
<1> USE DEF Patching!PatchInv, Patching!radioVars, Patching!historyVars
<1>1. UNCHANGED <<rig, req, turned>> /\ req \in Patching!Asked /\ result # "ok"
    BY DEF Patching!SettleEnds, Patching!StartReadback, Patching!Readback, Patching!Stages,
           Patching!ReadDeclined, Patching!ReadLost, Patching!TypeOK
<1>2. CASE Patching!SettleEnds \/ Patching!ReadLost \/ Patching!ReadDeclined
    BY <1>1, <1>2 DEF Patching!SettleEnds, Patching!ReadDeclined, Patching!ReadLost,
                      Patching!ReadSoFar
<1>3. CASE Patching!StartReadback
    <2>1. tiers' = Patching!Tiers(req)
        BY <1>3 DEF Patching!StartReadback
    <2>2. ASSUME NEW s \in Patching!Affected(req) \ {"filter_width_hz"}
          PROVE  \E i \in 1..Len(tiers') : tiers'[i] = Patching!Tier(s)
        <3>1. CASE tiers' \in {<<"slow", "fast">>, <<"fast", "slow">>}
            <4>1. /\ Len(tiers') = 2 /\ 1 \in 1..2 /\ 2 \in 1..2
                  /\ {tiers'[1], tiers'[2]} = {"slow", "fast"}
                BY <3>1
            <4>2. Patching!Tier(s) \in {"slow", "fast"}
                BY DEF Patching!Tier
            <4> QED BY <4>1, <4>2
        <3>2. CASE ~Patching!Slow(req)
            <4>1. ~Patching!Named(req) /\ req.fields \subseteq {"frequency", "ptt"}
                BY <3>2 DEF Patching!Slow
            <4>2. s \in Patching!Fast
                BY <4>1 DEF Patching!Affected, Patching!Target, Patching!ModeNamed,
                            Patching!Fast
            <4>3. tiers' = <<"fast">>
                BY <2>1, <3>2, <4>1 DEF Patching!Tiers, Patching!ModeNamed
            <4>4. Len(tiers') = 1 /\ 1 \in 1..1 /\ tiers'[1] = "fast"
                BY <4>3
            <4> QED BY <4>2, <4>4 DEF Patching!Tier
        <3> QED BY <2>1, <3>1, <3>2 DEF Patching!Tiers
    <2> QED BY <1>1, <2>2 DEF Patching!ReadSoFar
<1>4. CASE Patching!Readback
    <2>1. /\ at = "read" /\ Patching!Reads(Head(tiers)) /\ tiers' = Tail(tiers)
          /\ declined' = declined
          /\ tiers \in {<<"slow">>, <<"fast">>, <<"slow", "fast">>, <<"fast", "slow">>}
        BY <1>4 DEF Patching!Readback, Patching!NextTier, Patching!Stages, Patching!TypeOK
    <2> SUFFICES ASSUME ~declined,
                        NEW s \in Patching!Affected(req) \ ({"filter_width_hz"} \cup turned)
                 PROVE  \/ \E i \in 1..Len(tiers') : tiers'[i] = Patching!Tier(s)
                        \/ cache'[s] = rig'[s] \/ (s = "ptt" /\ cache'[s] # "asked")
        BY <1>1, <2>1 DEF Patching!ReadSoFar
    <2>2. \/ \E i \in 1..Len(tiers) : tiers[i] = Patching!Tier(s)
          \/ cache[s] = rig[s] \/ (s = "ptt" /\ cache[s] # "asked")
        BY <2>1 DEF Patching!ReadSoFar
    <2>3. Head(tiers) \in {"slow", "fast"} /\ s \in Patching!Settings
        BY <1>1, <2>1, AffectedThere
    <2>4. /\ cache'[s] \in {cache[s], rig[s]}
          /\ Patching!Tier(s) = Head(tiers) => cache'[s] = rig[s]
        BY <2>1, <2>3, ReadsTier
    <2>5. ASSUME NEW i \in 1..Len(tiers), tiers[i] = Patching!Tier(s), tiers[i] # Head(tiers)
          PROVE  \E j \in 1..Len(tiers') : tiers'[j] = Patching!Tier(s)
        <3>1. Len(tiers) = 2 /\ i = 2 /\ Len(tiers') = 1 /\ tiers'[1] = tiers[2] /\ 1 \in 1..1
            BY <2>1, <2>5
        <3> QED BY <2>5, <3>1
    <2> QED BY <1>1, <2>2, <2>4, <2>5
<1> QED BY <1>2, <1>3, <1>4

\* The request goes on from its last write to the answer (settlePTT, readback).
LEMMA ReadbackPatch ==
    ASSUME Patching!PatchInv,
           \/ Patching!SettleEnds \/ Patching!StartReadback \/ Patching!Readback
           \/ Patching!ReadDeclined \/ Patching!ReadLost
    PROVE  Patching!PatchInv'
<1> USE DEF Patching!PatchInv, Patching!radioVars, Patching!historyVars
<1>1. /\ UNCHANGED <<outside, rig, changing, req, todo, wrote, tunedOn, turned, panels>>
      /\ declined' \in {declined, TRUE} /\ lost' \in {lost, TRUE}
    BY DEF Patching!SettleEnds, Patching!StartReadback, Patching!Readback,
           Patching!ReadDeclined, Patching!ReadLost
<1>2. Patching!UnderWay /\ req.faulty = {} /\ result = "none" /\ req \in Patching!Asked
    BY DEF Patching!SettleEnds, Patching!StartReadback, Patching!Readback, Patching!Stages,
           Patching!ReadDeclined, Patching!ReadLost, Patching!UnderWay, Patching!TypeOK
<1>3. /\ cache' \in [Patching!Settings -> Patching!Origins] /\ hint' \in Patching!Origins
    <2>1. CASE Patching!Readback
        <3>1. Head(tiers) \in {"slow", "fast"}
            BY <2>1 DEF Patching!Readback, Patching!Stages, Patching!TypeOK
        <3> QED BY <2>1, <3>1, ReadsTier DEF Patching!Readback
    <2>2. CASE ~Patching!Readback
        BY <2>2 DEF Patching!SettleEnds, Patching!StartReadback, Patching!ReadDeclined,
                    Patching!ReadLost, Patching!TypeOK
    <2> QED BY <2>1, <2>2
<1>4. /\ tiers' \in {<<>>, <<"slow">>, <<"fast">>, <<"slow", "fast">>, <<"fast", "slow">>}
      /\ \/ at' \in {"write", "read"} /\ result' = "none"
         \/ at' = "answered" /\ result' \in {"ok", "failed"}
      /\ at' = "read" => todo = {} /\ tiers' # <<>>
      /\ result' = "ok" => todo = {} /\ tiers' = <<>> /\ at = "read"
      /\ result' = "failed" => lost'
    <2>1. CASE Patching!SettleEnds
        BY <1>2, <2>1 DEF Patching!SettleEnds, Patching!TypeOK
    <2>2. CASE Patching!StartReadback
        <3>1. tiers' \in {<<"fast">>, <<"slow", "fast">>, <<"fast", "slow">>}
            BY <2>2 DEF Patching!StartReadback, Patching!Tiers
        <3> QED BY <1>2, <2>2, <3>1 DEF Patching!StartReadback
    <2>3. CASE Patching!Readback \/ Patching!ReadDeclined
        <3>1. /\ at = "read" /\ todo = {} /\ tiers' = Tail(tiers)
              /\ at' = IF Len(tiers) = 1 THEN "answered" ELSE "read"
              /\ result' = IF Len(tiers) = 1 THEN "ok" ELSE result
              /\ tiers \in {<<"slow">>, <<"fast">>, <<"slow", "fast">>, <<"fast", "slow">>}
            BY <2>3 DEF Patching!Readback, Patching!ReadDeclined, Patching!NextTier,
                        Patching!Stages, Patching!TypeOK
        <3>2. CASE tiers \in {<<"slow">>, <<"fast">>}
            <4>1. Len(tiers) = 1 /\ Tail(tiers) = <<>>
                <5>1. Len(<<"slow">>) = 1 /\ Len(<<"fast">>) = 1
                    OBVIOUS
                <5>2. Tail(<<"slow">>) = <<>> /\ Tail(<<"fast">>) = <<>>
                    OBVIOUS
                <5> QED BY <3>2, <5>1, <5>2
            <4> QED BY <3>1, <4>1
        <3>3. CASE tiers \in {<<"slow", "fast">>, <<"fast", "slow">>}
            <4>1. Len(tiers) = 2 /\ Tail(tiers) \in {<<"slow">>, <<"fast">>}
                <5>1. Len(<<"slow", "fast">>) = 2 /\ Len(<<"fast", "slow">>) = 2
                    OBVIOUS
                <5>2. Tail(<<"slow", "fast">>) = <<"fast">> /\ Tail(<<"fast", "slow">>) = <<"slow">>
                    OBVIOUS
                <5> QED BY <3>3, <5>1, <5>2
            <4>2. Tail(tiers) # <<>>
                BY <4>1
            <4> QED BY <1>2, <3>1, <4>1, <4>2
        <3> QED BY <3>1, <3>2, <3>3
    <2>4. CASE Patching!ReadLost
        BY <1>2, <2>4 DEF Patching!ReadLost, Patching!TypeOK
    <2> QED BY <2>1, <2>2, <2>3, <2>4
<1>5. Patching!TypeOK'
    BY <1>1, <1>3, <1>4 DEF Patching!TypeOK
<1>6. Patching!Stages'
    BY <1>1, <1>2, <1>4 DEF Patching!Stages, Patching!UnderWay
<1>7. Patching!LastWrites' /\ Patching!AskedStays'
    BY <1>1, <1>2 DEF Patching!LastWrites, Patching!AskedStays
<1>8. Patching!WhereItTunes'
    BY <1>1, <1>2, <1>4 DEF Patching!WhereItTunes
<1>9. Patching!RefusedWritesNothing' /\ Patching!TunesInsideBands'
    BY <1>1 DEF Patching!RefusedWritesNothing, Patching!TunesInsideBands
<1>10. Patching!NeverHalfApplied'
    BY <1>4 DEF Patching!NeverHalfApplied
<1>11. Patching!ReadSoFar'
    BY ReadbackCovers, <1>1, <1>2
<1> QED BY <1>5, <1>6, <1>7, <1>8, <1>9, <1>10, <1>11

\* The radio moves by itself: its transmit relay, the operator at the panel.
LEMMA RadioMovesPatch ==
    ASSUME Patching!PatchInv, Patching!Changeover \/ Patching!PanelTurns
    PROVE  Patching!PatchInv'
<1> USE DEF Patching!PatchInv, Patching!historyVars
<1>1. /\ UNCHANGED <<outside, hint, cache, req, todo, tiers, at, result, wrote, tunedOn,
                     declined, lost>>
      /\ rig \in [Patching!Settings -> Patching!Origins] /\ req \in Patching!Asked
      /\ "ptt" \in Patching!Settings /\ "asked" \in Patching!Origins
      /\ "panel" \in Patching!Origins
    BY SettingsThere
    DEF Patching!Changeover, Patching!PanelTurns, Patching!TypeOK, Patching!Origins
<1>2. PICK moved \in SUBSET Patching!Settings :
          /\ rig' \in [Patching!Settings -> Patching!Origins]
          /\ \A s \in Patching!Settings : rig'[s] = rig[s] \/ s \in moved \cup {"ptt"}
          /\ rig'["ptt"] \in {rig["ptt"], "asked"}
          /\ moved \subseteq Patching!PanelMoves /\ turned' = turned \cup moved
          /\ moved # {} => panels \in Nat /\ panels' = panels + 1 /\ at # "answered"
          /\ moved = {} => panels' = panels
          /\ changing' \in BOOLEAN
    <2>1. CASE Patching!Changeover
        <3>1. /\ rig' = [rig EXCEPT !["ptt"] = "asked"] /\ changing' = FALSE
              /\ turned' = turned /\ panels' = panels
            BY <2>1 DEF Patching!Changeover, Patching!historyVars
        <3>2. /\ rig' \in [Patching!Settings -> Patching!Origins] /\ rig'["ptt"] = "asked"
              /\ \A s \in Patching!Settings : rig'[s] = rig[s] \/ s \in {} \cup {"ptt"}
            BY <1>1, <3>1
        <3>3. changing' \in BOOLEAN /\ turned' = turned \cup {}
            BY <3>1
        <3> WITNESS {} \in SUBSET Patching!Settings
        <3>4. /\ {} \subseteq Patching!PanelMoves
              /\ {} # {} => panels \in Nat /\ panels' = panels + 1 /\ at # "answered"
            OBVIOUS
        <3> QED BY <3>1, <3>2, <3>3, <3>4
    <2>2. CASE Patching!PanelTurns
        <3>1. PICK m \in {{"frequency"}, {"mode", "filter_slot", "filter_width_hz"}} :
                  /\ rig' = [s \in Patching!Settings |-> IF s \in m THEN "panel" ELSE rig[s]]
                  /\ turned' = turned \cup m
            BY <2>2 DEF Patching!PanelTurns
        <3>2. /\ m \subseteq Patching!PanelMoves /\ m \subseteq Patching!Settings /\ m # {}
              /\ "ptt" \notin m
            BY SettingsThere DEF Patching!PanelMoves
        <3>3. panels \in Nat /\ panels' = panels + 1 /\ at # "answered" /\ changing' \in BOOLEAN
            BY <2>2 DEF Patching!PanelTurns, Patching!TypeOK
        <3> QED BY <1>1, <3>1, <3>2, <3>3
    <2> QED BY <2>1, <2>2
<1>3. Patching!TypeOK'
    <2>1. panels' \in Nat
        BY <1>2 DEF Patching!TypeOK
    <2> QED BY <1>1, <1>2, <2>1 DEF Patching!TypeOK
<1>4. Patching!Stages' /\ Patching!LastWrites'
    BY <1>1 DEF Patching!Stages, Patching!LastWrites, Patching!UnderWay
<1>5. Patching!AskedStays'
    <2> SUFFICES ASSUME Patching!UnderWay \/ result = "ok",
                        NEW f \in req.fields \ (Patching!Actions \cup {"ptt"})
                 PROVE  \/ Patching!Carrier(req, f) \in todo
                        \/ Patching!Target(req, f) \in turned'
                        \/ rig'[Patching!Target(req, f)] = "asked"
        BY <1>1 DEF Patching!AskedStays, Patching!UnderWay
    <2>1. PICK t : t = Patching!Target(req, f)
        OBVIOUS
    <2>2. t \in Patching!Settings /\ t # "ptt"
        <3>1. t = f \/ t \in Patching!VFOB
            BY <2>1 DEF Patching!Target, Patching!VFOB
        <3> QED BY <1>1, <2>1, <3>1, TargetIsSetting DEF Patching!VFOB
    <2>3. Patching!Carrier(req, f) \in todo \/ t \in turned \/ rig[t] = "asked"
        BY <2>1 DEF Patching!AskedStays
    <2> QED BY <1>2, <2>1, <2>2, <2>3
<1>6. Patching!WhereItTunes'
    <2> SUFFICES ASSUME panels' = 0 PROVE Patching!WhereItTunes'
        BY DEF Patching!WhereItTunes
    <2>1. moved = {} /\ panels' = panels
        BY <1>2
    <2>2. "frequency" \in Patching!Settings
        BY SettingsThere DEF Patching!PanelMoves
    <2>3. rig'["frequency"] = rig["frequency"]
        BY <1>2, <2>1, <2>2
    <2> QED BY <1>1, <2>1, <2>3 DEF Patching!WhereItTunes, Patching!UnderWay
<1>7. Patching!ReadSoFar'
    <2> SUFFICES ASSUME at = "read" \/ result = "ok", ~declined,
                        NEW s \in Patching!Affected(req) \ ({"filter_width_hz"} \cup turned')
                 PROVE  \/ \E i \in 1..Len(tiers) : tiers[i] = Patching!Tier(s)
                        \/ cache[s] = rig'[s] \/ (s = "ptt" /\ cache[s] # "asked")
        BY <1>1 DEF Patching!ReadSoFar
    <2>1. s \in Patching!Settings /\ s \notin moved /\ s \notin turned
        BY <1>1, <1>2, AffectedThere
    <2>2. \/ \E i \in 1..Len(tiers) : tiers[i] = Patching!Tier(s)
          \/ cache[s] = rig[s] \/ (s = "ptt" /\ cache[s] # "asked")
        BY <2>1 DEF Patching!ReadSoFar
    <2>3. rig'[s] = rig[s] \/ (s = "ptt" /\ rig'[s] = "asked")
        BY <1>2, <2>1
    <2> QED BY <2>2, <2>3
<1>8. Patching!RefusedWritesNothing'
    BY <1>1 DEF Patching!RefusedWritesNothing
<1>9. Patching!NeverHalfApplied'
    BY <1>1 DEF Patching!NeverHalfApplied, Patching!Contradictory
<1>10. Patching!TunesInsideBands'
    <2>1. panels' > 0 \/ (turned' = turned /\ panels' = panels)
        BY <1>2
    <2>2. tunedOn \in outside =>
              turned # {} \/ panels > 0 \/ req.fields \cap {"exchange_bands", "vfo_mode"} # {}
        BY DEF Patching!TunesInsideBands
    <2> QED BY <1>1, <2>1, <2>2 DEF Patching!TunesInsideBands
<1> QED BY <1>3, <1>4, <1>5, <1>6, <1>7, <1>8, <1>9, <1>10

\* Every step of a PATCH keeps PatchInv.
LEMMA PatchStep ==
    ASSUME SessionAssumption, Patching!PatchInv, [Patching!Next]_(Patching!vars)
    PROVE  Patching!PatchInv'
<1>1. ASSUME NEW fields \in Requests, NEW vfo \in {"current", "B"}, NEW direct \in BOOLEAN,
             NEW faulty \in {{}} \cup {{f} : f \in fields},
             NEW dataless \in {FALSE, fields \cap {"mode", "data_mode"} # {}},
             Patching!Receive([fields |-> fields, vfo |-> vfo, faulty |-> faulty,
                               dataless |-> dataless, direct |-> direct])
      PROVE  Patching!PatchInv'
    <2>1. fields \subseteq Patching!Fields /\ faulty \subseteq Patching!Fields
        BY DEF SessionAssumption
    <2>2. dataless \in BOOLEAN
        OBVIOUS
    <2>3. [fields |-> fields, vfo |-> vfo, faulty |-> faulty, dataless |-> dataless,
           direct |-> direct] \in Patching!Asked
        BY <2>1, <2>2 DEF Patching!Asked
    <2> QED BY <1>1, <2>3, ReceivePatch
<1>2. ASSUME NEW f \in Patching!Fields,
             Patching!Write(f) \/ Patching!WriteRefused(f) \/ Patching!WriteLost(f)
      PROVE  Patching!PatchInv'
    BY <1>2, WritePatch, StopsPatch
<1>3. CASE Patching!SettlePoll
    BY <1>3, PolledPatch DEF Patching!SettlePoll, Patching!historyVars
<1>4. CASE \/ Patching!SettleEnds \/ Patching!StartReadback \/ Patching!Readback
           \/ Patching!ReadDeclined \/ Patching!ReadLost
    BY <1>4, ReadbackPatch
<1>5. CASE Patching!Changeover \/ Patching!PanelTurns
    BY <1>5, RadioMovesPatch
<1>6. CASE Patching!PollerReads
    BY <1>6, PolledPatch DEF Patching!PollerReads, Patching!historyVars
<1>7. CASE UNCHANGED Patching!vars
    <2> USE <1>7 DEF Patching!PatchInv, Patching!vars
    <2>1. Patching!TypeOK' /\ Patching!Stages' /\ Patching!LastWrites'
        BY DEF Patching!TypeOK, Patching!Stages, Patching!LastWrites, Patching!UnderWay
    <2>2. Patching!AskedStays' /\ Patching!WhereItTunes' /\ Patching!ReadSoFar'
        BY DEF Patching!AskedStays, Patching!WhereItTunes, Patching!ReadSoFar,
               Patching!UnderWay
    <2>3. Patching!RefusedWritesNothing' /\ Patching!NeverHalfApplied'
          /\ Patching!TunesInsideBands'
        BY DEF Patching!RefusedWritesNothing, Patching!NeverHalfApplied,
               Patching!Contradictory, Patching!TunesInsideBands
    <2> QED BY <2>1, <2>2, <2>3
<1> QED BY <1>1, <1>2, <1>3, <1>4, <1>5, <1>6, <1>7 DEF Patching!Next

\* Of the session's parts, a PATCH is one; the others leave it alone.
LEMMA PatchHolds == SessionSpec => [](part = "patch" => Patching!PatchInv)
<1>1. SessionInit => (part = "patch" => Patching!PatchInv)
    BY InitPatchInv DEF SessionInit
<1>2. (part = "patch" => Patching!PatchInv) /\ [SessionNext]_sessionVars
          => (part = "patch" => Patching!PatchInv)'
    <2> SUFFICES ASSUME part = "patch" => Patching!PatchInv, [SessionNext]_sessionVars,
                        part' = "patch"
                 PROVE  Patching!PatchInv'
        OBVIOUS
    <2>1. part' = part
        BY DEF SessionNext, OnDeltas, OnPatch, OnKenwood, OnIcom, OnYaesu, OnTest, sessionVars
    <2>2. UNCHANGED patchVars => UNCHANGED Patching!vars
        BY DEF patchVars, Patching!vars
    <2>3. [Patching!Next]_(Patching!vars)
        BY <2>1, <2>2
        DEF SessionNext, OnDeltas, OnPatch, OnKenwood, OnIcom, OnYaesu, OnTest, sessionVars
    <2> QED BY <2>1, <2>3, PatchStep, SessionAssumption
<1> QED BY <1>1, <1>2, PTL DEF SessionSpec

\* A request with a fault in it writes nothing, and a request without is not
\* refused halfway, nor does one of its writes undo another: for every request
\* of the fields there are (ApplyPatch's validation and order).
THEOREM PatchIsWholeOrNothing == SessionSpec => []WholeOrNothing
<1>1. (part = "patch" => Patching!PatchInv) => WholeOrNothing
    <2> SUFFICES ASSUME Patching!PatchInv
                 PROVE  Patching!RefusedWritesNothing /\ Patching!WriteIsKept
        BY DEF WholeOrNothing
    <2>1. Patching!AskedIsSet
        BY DEF Patching!PatchInv, Patching!AskedStays, Patching!Stages, Patching!AskedIsSet
    <2> QED BY <2>1 DEF Patching!PatchInv, Patching!WriteIsKept
<1> QED BY <1>1, PatchHolds, PTL

\* What the client is told the radio holds, it holds, of everything the request
\* may have moved (ApplyPatch's read-back).
THEOREM PatchAnswersTheRadio == SessionSpec => []AnswerIsTheRadio
<1>1. (part = "patch" => Patching!PatchInv) => AnswerIsTheRadio
    <2> SUFFICES ASSUME Patching!PatchInv, result = "ok", ~declined,
                        NEW s \in (Patching!Affected(req) \ {"filter_width_hz"}) \ turned
                 PROVE  cache[s] = rig[s] \/ (s = "ptt" /\ cache[s] # "asked")
        BY DEF AnswerIsTheRadio, Patching!AnswerIsTheRadio, Patching!Told
    <2>1. Len(tiers) = 0
        BY DEF Patching!PatchInv, Patching!Stages
    <2>2. ~(\E i \in 1..Len(tiers) : tiers[i] = Patching!Tier(s))
        BY <2>1
    <2> QED BY <2>2 DEF Patching!PatchInv, Patching!ReadSoFar
<1> QED BY <1>1, PatchHolds, PTL

\* A tuning cycle transmits inside the band limits, whatever else the request
\* asks for (ApplyPatch, StartTune).
THEOREM TuningStaysInBand == SessionSpec => []TunesInsideBands
<1>1. (part = "patch" => Patching!PatchInv) => TunesInsideBands
    BY DEF TunesInsideBands, Patching!PatchInv
<1> QED BY <1>1, PatchHolds, PTL

-----------------------------------------------------------------------------
(* What a test run does                                                     *)

\* The controls a step names are controls.
LEMMA ControlsThere ==
    /\ Testing!Operating \cup {"vfo_b", "split", "dual_watch", "ip_plus", "digi_sel",
           "notch", "auto_notch", "antenna", "tx_audio_gain", "proc", "proc_level"}
           \subseteq Testing!Controls
    /\ Testing!FrontEnd \in Seq(Testing!Controls)
    /\ <<"preamp", "attenuator", "rf_gain", "agc">> \in Seq(Testing!Controls)
    /\ <<"noise_blanker", "noise_reduction">> \in Seq(Testing!Controls)
    /\ Testing!Restorable \subseteq Testing!Controls
<1>1. PICK o : o = Testing!Order
    OBVIOUS
<1>2. Len(o) = 24 /\ \A i \in 1..24 : o[i] \in Testing!Controls
    BY <1>1 DEF Testing!Order, Testing!Controls, Testing!In
<1>3. /\ o[1] = "mode" /\ o[2] = "data_mode" /\ o[3] = "frequency" /\ o[4] = "filter_slot"
      /\ o[5] = "passband" /\ o[6] = "power" /\ o[7] = "attenuator" /\ o[8] = "preamp"
      /\ o[9] = "agc" /\ o[10] = "rf_gain" /\ o[11] = "ip_plus" /\ o[12] = "digi_sel"
    BY <1>1 DEF Testing!Order
<1>4. /\ o[13] = "noise_blanker" /\ o[14] = "noise_reduction" /\ o[15] = "notch"
      /\ o[16] = "auto_notch" /\ o[17] = "antenna" /\ o[18] = "tx_audio_gain"
      /\ o[19] = "proc" /\ o[20] = "proc_level" /\ o[21] = "break_in" /\ o[22] = "split"
      /\ o[23] = "dual_watch" /\ o[24] = "vfo_b"
    BY <1>1 DEF Testing!Order
<1>5. {"mode", "data_mode", "frequency", "filter_slot", "passband", "power", "attenuator",
       "preamp", "agc", "rf_gain", "ip_plus", "digi_sel"} \subseteq Testing!Controls
    BY <1>2, <1>3
<1>6. {"noise_blanker", "noise_reduction", "notch", "auto_notch", "antenna", "tx_audio_gain",
       "proc", "proc_level", "break_in", "split", "dual_watch", "vfo_b"}
          \subseteq Testing!Controls
    BY <1>2, <1>4
<1>7. Testing!FrontEnd \in Seq(Testing!Controls)
    BY <1>5, <1>6 DEF Testing!FrontEnd
<1>8. Testing!In(Testing!FrontEnd) \subseteq Testing!Controls
    BY <1>7 DEF Testing!In
<1> QED BY <1>5, <1>6, <1>7, <1>8 DEF Testing!Operating, Testing!Restorable

\* A step of the run, by itself.
LEMMA OneStep ==
    ASSUME NEW D \in SUBSET Testing!Controls, NEW g \in [D -> Testing!Places],
           NEW d \in Testing!Deeds
    PROVE  /\ Testing!Step(d, g) \in Testing!Steps
           /\ <<Testing!Step(d, g)>> \in Seq(Testing!Steps)
<1>1. Testing!Step(d, g) \in Testing!Steps
    BY DEF Testing!Step, Testing!Steps
<1> QED BY <1>1

\* The forms a step comes in.
LEMMA StepTypes ==
    /\ \A d \in Testing!Deeds : <<Testing!Step(d, <<>>)>> \in Seq(Testing!Steps)
    /\ \A f \in Testing!Controls, v \in Testing!Places :
          /\ Testing!Step("patch", Testing!To(f, v)) \in Testing!Steps
          /\ Testing!Moves(f, v) \in Seq(Testing!Steps)
    /\ \A s \in Seq(Testing!Controls), v \in Testing!Places :
          Testing!Patches(s, v) \in Seq(Testing!Steps)
<1>1. ASSUME NEW D \in SUBSET Testing!Controls, NEW set \in [D -> Testing!Places],
             NEW d \in Testing!Deeds
      PROVE  Testing!Step(d, set) \in Testing!Steps
    BY DEF Testing!Step, Testing!Steps
<1>2. ASSUME NEW d \in Testing!Deeds PROVE <<Testing!Step(d, <<>>)>> \in Seq(Testing!Steps)
    <2>1. <<>> \in [{} -> Testing!Places]
        OBVIOUS
    <2>2. Testing!Step(d, <<>>) \in Testing!Steps
        BY <1>1, <2>1
    <2> QED BY <2>2
<1>3. ASSUME NEW f \in Testing!Controls, NEW v \in Testing!Places
      PROVE  /\ Testing!Step("patch", Testing!To(f, v)) \in Testing!Steps
             /\ Testing!Moves(f, v) \in Seq(Testing!Steps)
    <2>1. "patch" \in Testing!Deeds /\ {f} \in SUBSET Testing!Controls
        BY DEF Testing!Deeds
    <2>2. Testing!To(f, v) \in [{f} -> Testing!Places]
        BY DEF Testing!To
    <2>3. Testing!Step("patch", Testing!To(f, v)) \in Testing!Steps
        BY <1>1, <2>1, <2>2
    <2>4. <<Testing!Step("patch", Testing!To(f, v))>> \in Seq(Testing!Steps)
          /\ <<>> \in Seq(Testing!Steps)
        BY <2>3
    <2> QED BY <2>3, <2>4 DEF Testing!Moves
<1>4. ASSUME NEW s \in Seq(Testing!Controls), NEW v \in Testing!Places
      PROVE  Testing!Patches(s, v) \in Seq(Testing!Steps)
    <2>1. Len(s) \in Nat /\ \A i \in 1..Len(s) : s[i] \in Testing!Controls
        OBVIOUS
    <2>2. \A i \in 1..Len(s) : Testing!Step("patch", Testing!To(s[i], v)) \in Testing!Steps
        BY <1>3, <2>1
    <2>3. Testing!Patches(s, v) \in [1..Len(s) -> Testing!Steps]
        BY <2>2 DEF Testing!Patches
    <2> QED BY <2>1, <2>3, SeqDef
<1> QED BY <1>2, <1>3, <1>4

\* What a filtered sequence keeps (MovesAll, restoreFrontEnd).
LEMMA KeptHere ==
    ASSUME NEW A, NEW s \in Seq(A), NEW S
    PROVE  /\ Testing!Kept(s, S) \in Seq(A)
           /\ Testing!In(Testing!Kept(s, S)) = Testing!In(s) \cap S
<1>1. Testing!Kept(s, S) = Kept(s, S)
    BY DEF Kept, Testing!Kept
<1>2. Kept(s, S) \in Seq(A \cap S) /\ In(Kept(s, S)) = In(s) \cap S
    BY KeptType
<1>3. Kept(s, S) \in Seq(A)
    BY <1>2
<1> QED BY <1>1, <1>2, <1>3 DEF In, Testing!In

\* Steps after steps are steps.
LEMMA StepsJoin ==
    /\ \A s, t \in Seq(Testing!Steps) : s \o t \in Seq(Testing!Steps)
    /\ \A c \in BOOLEAN : \A s \in Seq(Testing!Steps) : Testing!When(c, s) \in Seq(Testing!Steps)
    /\ <<>> \in Seq(Testing!Steps)
    /\ Testing!Look \in Seq(Testing!Steps)
    /\ \A s \in Seq(Testing!Steps) :
          Testing!inMode(s) \in Seq(Testing!Steps) /\ Testing!Group(s) \in Seq(Testing!Steps)
    /\ \A f \in Testing!Controls : Testing!togglePair(f) \in Seq(Testing!Steps)
<1>1. ASSUME NEW s \in Seq(Testing!Steps), NEW t \in Seq(Testing!Steps)
      PROVE  s \o t \in Seq(Testing!Steps)
    OBVIOUS
<1>2. <<>> \in Seq(Testing!Steps)
    OBVIOUS
<1>3. ASSUME NEW c \in BOOLEAN, NEW s \in Seq(Testing!Steps)
      PROVE  Testing!When(c, s) \in Seq(Testing!Steps)
    BY <1>2 DEF Testing!When
<1>4. Testing!Look \in Seq(Testing!Steps)
    BY StepTypes DEF Testing!Look, Testing!Deeds
<1>5. ASSUME NEW s \in Seq(Testing!Steps)
      PROVE  Testing!inMode(s) \in Seq(Testing!Steps) /\ Testing!Group(s) \in Seq(Testing!Steps)
    <2>1. /\ <<Testing!Step("into CW", <<>>)>> \in Seq(Testing!Steps)
          /\ <<Testing!Step("back", <<>>)>> \in Seq(Testing!Steps)
          /\ <<Testing!Step("next group", <<>>)>> \in Seq(Testing!Steps)
        BY StepTypes DEF Testing!Deeds
    <2> QED BY <1>1, <1>4, <2>1 DEF Testing!inMode, Testing!Group
<1>6. ASSUME NEW f \in Testing!Controls PROVE Testing!togglePair(f) \in Seq(Testing!Steps)
    <2>1. /\ Testing!Moves(f, "other way") \in Seq(Testing!Steps)
          /\ Testing!Moves(f, "was") \in Seq(Testing!Steps)
        BY StepTypes DEF Testing!Places
    <2>2. (f \in caps.has) \in BOOLEAN
        OBVIOUS
    <2>3. Testing!Look \o Testing!Moves(f, "other way") \o Testing!Moves(f, "was")
              \in Seq(Testing!Steps)
        BY <1>1, <1>4, <2>1
    <2> QED BY <1>3, <2>2, <2>3 DEF Testing!togglePair
<1> QED BY <1>1, <1>2, <1>3, <1>4, <1>5, <1>6

\* The groups of the sequence that never transmit.
LEMMA QuietGroups ==
    /\ Testing!frequency \in Seq(Testing!Steps) /\ Testing!modes \in Seq(Testing!Steps)
    /\ Testing!filters \in Seq(Testing!Steps) /\ Testing!power \in Seq(Testing!Steps)
    /\ Testing!vfos \in Seq(Testing!Steps) /\ Testing!frontEnd \in Seq(Testing!Steps)
    /\ Testing!noise \in Seq(Testing!Steps) /\ Testing!antenna \in Seq(Testing!Steps)
    /\ Testing!txAudio \in Seq(Testing!Steps) /\ Testing!breakIn \in Seq(Testing!Steps)
<1>1. \A c \in Testing!Controls :
          /\ Testing!Moves(c, "moved") \in Seq(Testing!Steps)
          /\ Testing!Moves(c, "found") \in Seq(Testing!Steps)
          /\ Testing!Moves(c, "was") \in Seq(Testing!Steps)
    BY StepTypes DEF Testing!Places
<1>2. {"mode", "data_mode", "frequency", "filter_slot", "passband", "power", "break_in",
       "vfo_b", "split", "dual_watch", "ip_plus", "digi_sel", "notch", "auto_notch",
       "antenna", "tx_audio_gain", "proc", "proc_level"} \subseteq Testing!Controls
    BY ControlsThere DEF Testing!Operating
<1>3. Testing!frequency \in Seq(Testing!Steps) /\ Testing!power \in Seq(Testing!Steps)
      /\ Testing!antenna \in Seq(Testing!Steps)
    BY <1>1, <1>2, StepsJoin DEF Testing!frequency, Testing!power, Testing!antenna
<1>4. Testing!modes \in Seq(Testing!Steps)
    <2>1. <<Testing!Step("patch", [f \in {"mode", "data_mode"} |-> "found"])>>
              \in Seq(Testing!Steps)
        <3>1. PICK g : g = [f \in {"mode", "data_mode"} |-> "found"]
            OBVIOUS
        <3>2. /\ g \in [{"mode", "data_mode"} -> Testing!Places]
              /\ {"mode", "data_mode"} \in SUBSET Testing!Controls
            BY <1>2, <3>1 DEF Testing!Places
        <3>3. "patch" \in Testing!Deeds
            BY DEF Testing!Deeds
        <3>4. <<Testing!Step("patch", g)>> \in Seq(Testing!Steps)
            BY <3>2, <3>3, OneStep
        <3> QED BY <3>1, <3>4
    <2> QED BY <1>1, <1>2, <2>1, StepsJoin DEF Testing!modes
<1>5. Testing!filters \in Seq(Testing!Steps) /\ Testing!breakIn \in Seq(Testing!Steps)
    <2>1. /\ Testing!inMode(Testing!Moves("passband", "moved")) \in Seq(Testing!Steps)
          /\ Testing!inMode(Testing!Moves("break_in", "moved")) \in Seq(Testing!Steps)
        BY <1>1, <1>2, StepsJoin
    <2>2. ("passband" \in caps.has) \in BOOLEAN /\ ("break_in" \in caps.has) \in BOOLEAN
        OBVIOUS
    <2> QED BY <1>1, <1>2, <2>1, <2>2, StepsJoin DEF Testing!filters, Testing!breakIn
<1>6. Testing!vfos \in Seq(Testing!Steps)
    <2>1. <<Testing!Step("exchange", <<>>), Testing!Step("exchange", <<>>)>>
              \in Seq(Testing!Steps)
        <3>1. PICK e : e = Testing!Step("exchange", <<>>)
            OBVIOUS
        <3>2. <<e>> \in Seq(Testing!Steps)
            BY <3>1, StepTypes DEF Testing!Deeds
        <3>3. Len(<<e>>) = 1 /\ <<e>>[1] = e /\ 1 \in 1..1
            OBVIOUS
        <3>4. e \in Testing!Steps
            BY <3>2, <3>3, ElementOfSeq
        <3>5. <<e, e>> \in Seq(Testing!Steps)
            BY <3>4
        <3> QED BY <3>1, <3>5
    <2>2. ("both_vfos" \in caps.can) \in BOOLEAN /\ ("exchange" \in caps.can) \in BOOLEAN
        OBVIOUS
    <2>3. /\ Testing!When("both_vfos" \in caps.can, Testing!Moves("vfo_b", "moved"))
                 \in Seq(Testing!Steps)
          /\ Testing!When("exchange" \in caps.can,
                          <<Testing!Step("exchange", <<>>), Testing!Step("exchange", <<>>)>>)
                 \in Seq(Testing!Steps)
          /\ Testing!togglePair("split") \in Seq(Testing!Steps)
          /\ Testing!togglePair("dual_watch") \in Seq(Testing!Steps)
        BY <1>1, <1>2, <2>1, <2>2, StepsJoin
    <2> QED BY <2>3, StepsJoin DEF Testing!vfos
<1>7. ASSUME NEW s \in Seq(Testing!Controls) PROVE Testing!MovesAll(s) \in Seq(Testing!Steps)
    BY KeptHere, StepTypes DEF Testing!MovesAll, Testing!Places
<1>8. Testing!frontEnd \in Seq(Testing!Steps)
    BY <1>2, <1>7, ControlsThere, StepsJoin DEF Testing!frontEnd
<1>9. Testing!noise \in Seq(Testing!Steps)
    BY <1>2, <1>7, ControlsThere, StepsJoin DEF Testing!noise
<1>10. Testing!txAudio \in Seq(Testing!Steps)
    <2>1. ("tx_audio_gain" \in caps.has) \in BOOLEAN
        OBVIOUS
    <2>2. Testing!Look \o Testing!Moves("tx_audio_gain", "moved")
              \o Testing!Moves("tx_audio_gain", "was") \in Seq(Testing!Steps)
        BY <1>1, <1>2, StepsJoin
    <2> QED BY <1>1, <1>2, <2>1, <2>2, StepsJoin DEF Testing!txAudio
<1> QED BY <1>3, <1>4, <1>5, <1>6, <1>8, <1>9, <1>10

\* The groups that may transmit or switch the radio off have leave to.
LEMMA LoudGroups ==
    /\ Testing!deniedControls \in Seq(Testing!Steps)
    /\ Testing!transmit \in Seq(Testing!Steps)
    /\ Testing!powerSwitch \in Seq(Testing!Steps)
<1>1. /\ <<Testing!Step("exchange", <<>>)>> \in Seq(Testing!Steps)
      /\ <<Testing!Step("abort", <<>>)>> \in Seq(Testing!Steps)
      /\ <<Testing!Step("unkey", <<>>)>> \in Seq(Testing!Steps)
      /\ <<Testing!Step("look", <<>>)>> \in Seq(Testing!Steps)
      /\ <<Testing!Step("wake", <<>>)>> \in Seq(Testing!Steps)
      /\ <<Testing!Step("on tx frequency", <<>>)>> \in Seq(Testing!Steps)
    BY StepTypes DEF Testing!Deeds
<1>2. "tx" \in allowed => /\ <<Testing!Step("key", <<>>)>> \in Seq(Testing!Steps)
                          /\ <<Testing!Step("tune", <<>>)>> \in Seq(Testing!Steps)
                          /\ <<Testing!Step("send", <<>>)>> \in Seq(Testing!Steps)
    BY StepTypes DEF Testing!Deeds
<1>3. "power" \in allowed => <<Testing!Step("off", <<>>)>> \in Seq(Testing!Steps)
    BY StepTypes DEF Testing!Deeds
<1>4. ASSUME NEW c, NEW s, c => s \in Seq(Testing!Steps)
      PROVE  Testing!When(c, s) \in Seq(Testing!Steps)
    BY <1>4, StepsJoin DEF Testing!When
<1>5. ASSUME NEW a, NEW b, <<a>> \in Seq(Testing!Steps), <<b>> \in Seq(Testing!Steps)
      PROVE  <<a, b>> \in Seq(Testing!Steps)
    <2>1. <<a>> \o <<b>> \in Seq(Testing!Steps)
        BY <1>5, StepsJoin
    <2> QED BY <2>1
<1>6. Testing!deniedControls \in Seq(Testing!Steps)
    <2>1. /\ Testing!When("tune" \notin caps.can /\ "tx" \in allowed,
                          <<Testing!Step("tune", <<>>)>>) \in Seq(Testing!Steps)
          /\ Testing!When("ptt" \notin caps.can /\ "tx" \in allowed,
                          <<Testing!Step("key", <<>>)>>) \in Seq(Testing!Steps)
          /\ Testing!When("exchange" \notin caps.can, <<Testing!Step("exchange", <<>>)>>)
                 \in Seq(Testing!Steps)
        BY <1>1, <1>2, StepsJoin DEF Testing!When
    <2> QED BY <2>1, StepsJoin DEF Testing!deniedControls
<1>7. Testing!powerSwitch \in Seq(Testing!Steps)
    <2>1. "power" \in allowed =>
              <<Testing!Step("off", <<>>), Testing!Step("wake", <<>>)>> \in Seq(Testing!Steps)
        BY <1>1, <1>3, <1>5
    <2> QED BY <2>1, StepsJoin DEF Testing!powerSwitch, Testing!When
<1>8. ASSUME "tx" \in allowed
      PROVE  LET there == {"frequency", "mode", "data_mode", "power"} \cap caps.has
             IN <<Testing!Step("patch", [f \in there |-> IF f = "frequency" THEN "tx"
                                                         ELSE "moved"]),
                  Testing!Step("on tx frequency", <<>>), Testing!Step("key", <<>>),
                  Testing!Step("look", <<>>), Testing!Step("unkey", <<>>)>>
                    \in Seq(Testing!Steps)
    <2>1. PICK D : D = {"frequency", "mode", "data_mode", "power"} \cap caps.has
        OBVIOUS
    <2>2. PICK g : g = [f \in D |-> IF f = "frequency" THEN "tx" ELSE "moved"]
        OBVIOUS
    <2>3. D \in SUBSET Testing!Controls /\ g \in [D -> Testing!Places]
        BY <2>1, <2>2, ControlsThere DEF Testing!Operating, Testing!Places
    <2>4. "patch" \in Testing!Deeds
        BY DEF Testing!Deeds
    <2>5. PICK a : a = Testing!Step("patch", g)
        OBVIOUS
    <2>6. PICK b : b = Testing!Step("on tx frequency", <<>>)
        OBVIOUS
    <2>7. PICK c : c = Testing!Step("key", <<>>)
        OBVIOUS
    <2>8. PICK d : d = Testing!Step("look", <<>>)
        OBVIOUS
    <2>9. PICK e : e = Testing!Step("unkey", <<>>)
        OBVIOUS
    <2>10. <<a>> \in Seq(Testing!Steps)
        BY <2>3, <2>4, <2>5, OneStep
    <2>11. /\ <<b>> \in Seq(Testing!Steps) /\ <<c>> \in Seq(Testing!Steps)
           /\ <<d>> \in Seq(Testing!Steps) /\ <<e>> \in Seq(Testing!Steps)
        BY <1>1, <1>2, <1>8, <2>6, <2>7, <2>8, <2>9
    <2>12. ASSUME NEW x, <<x>> \in Seq(Testing!Steps) PROVE x \in Testing!Steps
        <3>1. Len(<<x>>) = 1 /\ <<x>>[1] = x /\ 1 \in 1..1
            OBVIOUS
        <3> QED BY <2>12, <3>1, ElementOfSeq
    <2>13. /\ a \in Testing!Steps /\ b \in Testing!Steps /\ c \in Testing!Steps
           /\ d \in Testing!Steps /\ e \in Testing!Steps
        BY <2>10, <2>11, <2>12
    <2>14. <<a, b, c, d, e>> \in Seq(Testing!Steps)
        BY <2>13
    <2> QED BY <2>1, <2>2, <2>5, <2>6, <2>7, <2>8, <2>9, <2>14
<1>9. Testing!transmit \in Seq(Testing!Steps)
    <2>1. "tx" \in allowed =>
              <<Testing!Step("send", <<>>), Testing!Step("abort", <<>>)>> \in Seq(Testing!Steps)
        BY <1>1, <1>2, <1>5
    <2>2. "tx" \in allowed =>
              /\ Testing!When("cw" \in caps.can,
                     <<Testing!Step("send", <<>>), Testing!Step("abort", <<>>)>>)
                     \in Seq(Testing!Steps)
              /\ Testing!When("tune" \in caps.can, <<Testing!Step("tune", <<>>)>>)
                     \in Seq(Testing!Steps)
        BY <1>2, <2>1, StepsJoin DEF Testing!When
    <2> QED BY <1>8, <2>2, StepsJoin DEF Testing!transmit, Testing!When
<1> QED BY <1>6, <1>7, <1>9

\* The whole sequence asks for nothing without leave (Runner.sequence).
LEMMA SequenceType == Testing!sequence \in Seq(Testing!Steps)
<1>1. /\ Testing!Group(Testing!frequency) \in Seq(Testing!Steps)
      /\ Testing!Group(Testing!modes) \in Seq(Testing!Steps)
      /\ Testing!Group(Testing!filters) \in Seq(Testing!Steps)
      /\ Testing!Group(Testing!power) \in Seq(Testing!Steps)
      /\ Testing!Group(Testing!vfos) \in Seq(Testing!Steps)
      /\ Testing!Group(Testing!frontEnd) \in Seq(Testing!Steps)
      /\ Testing!Group(Testing!noise) \in Seq(Testing!Steps)
      /\ Testing!Group(Testing!antenna) \in Seq(Testing!Steps)
      /\ Testing!Group(Testing!txAudio) \in Seq(Testing!Steps)
      /\ Testing!Group(Testing!breakIn) \in Seq(Testing!Steps)
    BY QuietGroups, StepsJoin
<1>2. /\ Testing!Group(Testing!deniedControls) \in Seq(Testing!Steps)
      /\ Testing!Group(Testing!transmit) \in Seq(Testing!Steps)
      /\ Testing!Group(Testing!powerSwitch) \in Seq(Testing!Steps)
    BY LoudGroups, StepsJoin
<1> QED BY <1>1, <1>2, StepsJoin DEF Testing!sequence

\* The restore asks for everything that is known, where it was found, and for
\* nothing else (Runner.restore).
LEMMA WhatIsRestored ==
    /\ Testing!restore \in Seq(Testing!Steps)
    /\ \A i \in 1..Len(Testing!restore) :
          /\ Testing!restore[i].does = "patch"
          /\ \A f \in DOMAIN Testing!restore[i].set : Testing!restore[i].set[f] = "found"
    /\ \A f \in Testing!Known :
          \E i \in 1..Len(Testing!restore) : f \in DOMAIN Testing!restore[i].set
<1>1. PICK k : k = Testing!Kept(Testing!FrontEnd, Testing!Known)
    OBVIOUS
<1>2. k \in Seq(Testing!Controls)
      /\ Testing!In(k) = Testing!In(Testing!FrontEnd) \cap Testing!Known
    BY <1>1, KeptHere, ControlsThere
<1>3. Len(k) \in Nat /\ \A i \in 1..Len(k) : k[i] \in Testing!Controls
    BY <1>2
<1>4. PICK D : D = Testing!Operating \cap Testing!Known
    OBVIOUS
<1>5. PICK g : g = [f \in D |-> "found"]
    OBVIOUS
<1>6. PICK p : p = Testing!Step("patch", g)
    OBVIOUS
<1>7. p \in Testing!Steps /\ p.does = "patch" /\ p.set = g
    <2>1. D \in SUBSET Testing!Controls /\ g \in [D -> Testing!Places]
        BY <1>4, <1>5, ControlsThere DEF Testing!Places
    <2>2. "patch" \in Testing!Deeds
        BY DEF Testing!Deeds
    <2>3. p \in Testing!Steps
        BY <1>6, <2>1, <2>2, OneStep
    <2> QED BY <1>6, <2>3 DEF Testing!Step
<1>8. PICK t : t = Testing!Patches(k, "found")
    OBVIOUS
<1>9. t \in Seq(Testing!Steps) /\ Len(t) = Len(k)
    <2>1. t \in Seq(Testing!Steps)
        BY <1>2, <1>8, StepTypes DEF Testing!Places
    <2>2. DOMAIN t = 1..Len(k) /\ DOMAIN t = 1..Len(t) /\ Len(t) \in Nat
        BY <1>8, <2>1 DEF Testing!Patches
    <2> QED BY <1>3, <2>1, <2>2
<1>10. \A i \in 1..Len(k) :
          /\ t[i].does = "patch" /\ DOMAIN t[i].set = {k[i]} /\ t[i].set[k[i]] = "found"
    BY <1>8 DEF Testing!Patches, Testing!Step, Testing!To
<1>11. /\ <<p>> \o t \in Seq(Testing!Steps) /\ Len(<<p>> \o t) = 1 + Len(k)
       /\ (<<p>> \o t)[1] = p
       /\ \A i \in 1..Len(k) : (<<p>> \o t)[i + 1] = t[i]
    BY <1>3, <1>7, <1>9
<1>12. PICK r : r = <<p>> \o t
    OBVIOUS
<1>13. r = Testing!restore
    BY <1>1, <1>4, <1>5, <1>6, <1>8, <1>12 DEF Testing!restore, Testing!restoreFrontEnd
<1>14. \A i \in 1..Len(r) : i = 1 \/ (i - 1 \in 1..Len(k) /\ r[i] = t[i - 1])
    <2> SUFFICES ASSUME NEW i \in 1..Len(r), i # 1
                 PROVE  i - 1 \in 1..Len(k) /\ r[i] = t[i - 1]
        OBVIOUS
    <2>1. i - 1 \in 1..Len(k) /\ i = (i - 1) + 1
        BY <1>3, <1>11, <1>12
    <2> QED BY <1>11, <1>12, <2>1
<1>15. r[1] = p /\ 1 \in 1..Len(r)
    BY <1>3, <1>11, <1>12
<1>16. \A i \in 1..Len(r) :
          r[i].does = "patch" /\ \A f \in DOMAIN r[i].set : r[i].set[f] = "found"
    BY <1>5, <1>7, <1>10, <1>14, <1>15
<1>17. \A f \in Testing!Known : \E i \in 1..Len(r) : f \in DOMAIN r[i].set
    <2> SUFFICES ASSUME NEW f \in Testing!Known
                 PROVE  \E i \in 1..Len(r) : f \in DOMAIN r[i].set
        OBVIOUS
    <2>1. CASE f \in Testing!Operating
        <3>1. f \in DOMAIN r[1].set
            BY <1>4, <1>5, <1>7, <1>15, <2>1
        <3> QED BY <1>15, <3>1
    <2>2. CASE f \notin Testing!Operating
        <3>1. f \in Testing!In(k)
            BY <1>2, <2>2 DEF Testing!Known, Testing!Restorable
        <3>2. PICK i \in 1..Len(k) : k[i] = f
            BY <3>1 DEF Testing!In
        <3>3. f \in DOMAIN r[i + 1].set
            BY <1>10, <1>11, <1>12, <3>2
        <3>4. i + 1 \in 1..Len(r)
            BY <1>3, <1>11, <1>12
        <3> QED BY <3>3, <3>4
    <2> QED BY <2>1, <2>2
<1> QED BY <1>11, <1>12, <1>13, <1>16, <1>17

\* A run that begins (Run).
LEMMA InitTestInv == Testing!Init => Testing!TestInv
<1> SUFFICES ASSUME Testing!Init PROVE Testing!TestInv
    OBVIOUS
<1>1. agenda \in Seq(Testing!Steps)
    BY SequenceType DEF Testing!Init
<1>2. air = "quiet" /\ link = "up" /\ restoring = FALSE
    BY DEF Testing!Init
<1> QED BY <1>1, <1>2
        DEF Testing!TestInv, Testing!NothingUnasked, Testing!RestoresOnly, Testing!RestoresAll

\* What a run never changes of itself.
LEMMA SameRun ==
    ASSUME UNCHANGED Testing!fixed
    PROVE  /\ allowed' = allowed /\ Testing!Steps' = Testing!Steps
           /\ Testing!Known' = Testing!Known
BY DEF Testing!fixed, Testing!Steps, Testing!Deeds, Testing!Known

\* The step that is done, and those that are left.
LEMMA StepHere ==
    ASSUME Testing!TestInv, agenda # <<>>
    PROVE  /\ Head(agenda) \in Testing!Steps /\ Tail(agenda) \in Seq(Testing!Steps)
           /\ Len(agenda) \in Nat \ {0} /\ Head(agenda) = agenda[1]
           /\ Len(Tail(agenda)) = Len(agenda) - 1
           /\ \A i \in 1..Len(Tail(agenda)) : Tail(agenda)[i] = agenda[i + 1]
           /\ restoring => /\ Testing!Here.does = "patch"
                           /\ \A f \in DOMAIN Testing!Here.set : Testing!Here.set[f] = "found"
<1>1. agenda \in Seq(Testing!Steps)
    BY DEF Testing!TestInv
<1>2. /\ Len(agenda) \in Nat \ {0} /\ Head(agenda) = agenda[1]
      /\ Head(agenda) \in Testing!Steps /\ Tail(agenda) \in Seq(Testing!Steps)
      /\ Len(Tail(agenda)) = Len(agenda) - 1
    BY <1>1
<1>3. \A i \in 1..Len(Tail(agenda)) : Tail(agenda)[i] = agenda[i + 1]
    BY <1>1, <1>2
<1>4. 1 \in 1..Len(agenda)
    BY <1>2
<1> QED BY <1>2, <1>3, <1>4 DEF Testing!TestInv, Testing!RestoresOnly, Testing!Here

\* A step is done with: what holds of the steps that are left.
LEMMA StepDone ==
    ASSUME Testing!TestInv, agenda # <<>>, Testing!Goes, UNCHANGED Testing!fixed
    PROVE  /\ agenda' \in Seq(Testing!Steps') /\ Testing!RestoresOnly'
           /\ (\/ ~restoring \/ errs'
               \/ ~errs /\ \A f \in Testing!Known :
                     dial'[f] = "found" \/ (f \notin DOMAIN Testing!Here.set /\ dial'[f] = dial[f]))
                 => Testing!RestoresAll'
<1> DEFINE H == Head(agenda)
           T == Tail(agenda)
<1>1. /\ H \in Testing!Steps /\ T \in Seq(Testing!Steps)
      /\ Len(agenda) \in Nat \ {0} /\ H = agenda[1] /\ Len(T) = Len(agenda) - 1
      /\ \A i \in 1..Len(T) : T[i] = agenda[i + 1]
    BY StepHere
<1>2. agenda' = T /\ restoring' = restoring
    BY DEF Testing!Goes
<1>3. Testing!Steps' = Testing!Steps /\ Testing!Known' = Testing!Known
    BY SameRun
<1> HIDE DEF H, T
<1>4. \A i \in 1..Len(T) : i + 1 \in 1..Len(agenda)
    BY <1>1
<1>5. Testing!RestoresOnly'
    BY <1>1, <1>2, <1>4 DEF Testing!RestoresOnly, Testing!TestInv
<1>6. ASSUME ~errs, restoring,
             \A f \in Testing!Known :
                 dial'[f] = "found" \/ (f \notin DOMAIN Testing!Here.set /\ dial'[f] = dial[f])
      PROVE  Testing!RestoresAll'
    <2> SUFFICES ASSUME NEW f \in Testing!Known, dial'[f] # "found"
                 PROVE  \E i \in 1..Len(T) : f \in DOMAIN T[i].set
        BY <1>2, <1>3 DEF Testing!RestoresAll
    <2>1. f \notin DOMAIN agenda[1].set /\ dial[f] # "found"
        BY <1>1, <1>6 DEF Testing!Here, H
    <2>2. PICK i \in 1..Len(agenda) : f \in DOMAIN agenda[i].set
        BY <1>6, <2>1 DEF Testing!TestInv, Testing!RestoresAll
    <2>3. i # 1
        BY <2>1, <2>2
    <2>4. i - 1 \in 1..Len(T) /\ (i - 1) + 1 = i
        BY <1>1, <2>2, <2>3
    <2>5. T[i - 1] = agenda[i]
        BY <1>1, <2>4
    <2> QED BY <2>2, <2>4, <2>5
<1>7. (~restoring \/ errs') => Testing!RestoresAll'
    BY <1>2 DEF Testing!RestoresAll
<1> QED BY <1>1, <1>2, <1>3, <1>5, <1>6, <1>7

\* A request that reached its end has set all it asks for.
LEMMA AllIsWritten ==
    ASSUME NEW set, NEW f \in Testing!Controls
    PROVE  Testing!Written(dial, set, Len(Testing!Order))[f]
               = IF f \in DOMAIN set THEN set[f] ELSE dial[f]
<1>1. f \in {Testing!Order[i] : i \in 1..Len(Testing!Order)}
    BY DEF Testing!Controls, Testing!In
<1> QED BY <1>1 DEF Testing!Written

\* A PATCH of the run, or of the restore, however far it gets (ApplyPatch).
LEMMA PatchInTest ==
    ASSUME Testing!TestInv, agenda # <<>>, NEW set, Testing!ApplyPatch(set),
           restoring => /\ DOMAIN set = DOMAIN Testing!Here.set
                        /\ \A f \in DOMAIN set : set[f] = "found"
    PROVE  Testing!TestInv'
<1>1. /\ Testing!Goes /\ UNCHANGED Testing!fixed /\ UNCHANGED <<air, link>>
    BY DEF Testing!ApplyPatch, Testing!PatchApplies, Testing!PatchFails, Testing!PatchIsCut,
           Testing!PatchComesToNothing
<1>2. Testing!PatchApplies(set) \/ ~restoring \/ errs'
    BY DEF Testing!ApplyPatch, Testing!PatchFails, Testing!PatchIsCut,
           Testing!PatchComesToNothing, Testing!Fails
<1>3. ASSUME Testing!PatchApplies(set), restoring, ~errs', NEW f \in Testing!Known
      PROVE  ~errs /\ (dial'[f] = "found"
                          \/ (f \notin DOMAIN Testing!Here.set /\ dial'[f] = dial[f]))
    <2>1. f \in Testing!Controls
        BY ControlsThere DEF Testing!Known
    <2>2. dial'[f] = IF f \in DOMAIN set THEN set[f] ELSE dial[f]
        BY <1>3, <2>1, AllIsWritten DEF Testing!PatchApplies
    <2>3. errs' = errs
        BY <1>3 DEF Testing!PatchApplies
    <2> QED BY <1>3, <2>2, <2>3
<1>4. Testing!PatchApplies(set) => errs' = errs
    BY DEF Testing!PatchApplies
<1>5. Testing!RestoresAll'
    BY <1>1, <1>2, <1>3, <1>4, StepDone
<1>6. Testing!NothingUnasked'
    BY <1>1, SameRun DEF Testing!TestInv, Testing!NothingUnasked
<1> QED BY <1>1, <1>5, <1>6, StepDone DEF Testing!TestInv

\* Every step of a request that is one of the run's own.
LEMMA RequestsInTest ==
    ASSUME Testing!TestInv, Testing!DoPatch \/ Testing!SwitchMode
    PROVE  Testing!TestInv'
<1>1. agenda # <<>>
    BY DEF Testing!DoPatch, Testing!SwitchMode, Testing!Doing
<1>2. CASE Testing!DoPatch
    <2>1. PICK set \in Testing!Wanted(Testing!Here.set) : Testing!ApplyPatch(set)
        BY <1>2 DEF Testing!DoPatch
    <2>2. ASSUME restoring PROVE /\ DOMAIN set = DOMAIN Testing!Here.set
                                 /\ \A f \in DOMAIN set : set[f] = "found"
        <3>1. \A f \in DOMAIN Testing!Here.set : Testing!Here.set[f] = "found"
            BY <1>1, <2>2, StepHere
        <3> QED BY <3>1 DEF Testing!Wanted
    <2> QED BY <1>1, <2>1, <2>2, PatchInTest
<1>3. CASE Testing!SwitchMode
    <2>1. ~restoring
        BY <1>1, <1>3, StepHere DEF Testing!SwitchMode, Testing!Doing, Testing!Here
    <2>2. CASE Testing!InCW(was)
        <3>1. Testing!Goes /\ UNCHANGED Testing!fixed /\ UNCHANGED <<air, link>>
            BY <1>3, <2>2 DEF Testing!SwitchMode
        <3> QED BY <1>1, <2>1, <3>1, SameRun, StepDone
                DEF Testing!TestInv, Testing!NothingUnasked
    <2>3. CASE ~Testing!InCW(was)
        <3>1. PICK to : Testing!ApplyPatch(to)
            BY <1>3, <2>3 DEF Testing!SwitchMode
        <3> QED BY <1>1, <2>1, <3>1, PatchInTest
    <2> QED BY <2>2, <2>3
<1> QED BY <1>2, <1>3

\* The steps that are no request to set something: none is the restore's.
LEMMA DeedsInTest ==
    ASSUME Testing!TestInv,
           \/ Testing!LooksOn \/ Testing!Exchange \/ Testing!OnAir \/ Testing!OnTXFrequency
           \/ Testing!SwitchesPower \/ Testing!NextGroup
    PROVE  Testing!TestInv'
<1>1. agenda # <<>> /\ Head(agenda).does # "patch"
    BY DEF Testing!LooksOn, Testing!Exchange, Testing!OnAir, Testing!OnTXFrequency,
           Testing!SwitchesPower, Testing!NextGroup, Testing!Doing
<1>2. ~restoring
    BY <1>1, StepHere DEF Testing!Here
<1>3. UNCHANGED Testing!fixed /\ restoring' = restoring
    BY DEF Testing!LooksOn, Testing!Exchange, Testing!OnAir, Testing!OnTXFrequency,
           Testing!SwitchesPower, Testing!NextGroup, Testing!Goes
<1>4. Testing!RestoresOnly' /\ Testing!RestoresAll'
    BY <1>2, <1>3 DEF Testing!RestoresOnly, Testing!RestoresAll
<1>5. agenda' \in Seq(Testing!Steps)
    <2>1. agenda \in Seq(Testing!Steps)
        BY DEF Testing!TestInv
    <2>2. Tail(agenda) \in Seq(Testing!Steps) /\ Len(agenda) \in Nat /\ <<>> \in Seq(Testing!Steps)
        BY <1>1, StepHere
    <2>3. Testing!NextGroups \subseteq Seq(Testing!Steps)
        <3>1. DOMAIN agenda = 1..Len(agenda)
            BY <2>1
        <3>2. ASSUME NEW i \in 1..Len(agenda)
              PROVE  SubSeq(agenda, i, Len(agenda)) \in Seq(Testing!Steps)
            BY <2>1, <2>2, SubSeqProperties
        <3>3. ASSUME NEW n \in Testing!NextGroups
              PROVE  \E i \in 1..Len(agenda) : n = SubSeq(agenda, i, Len(agenda))
            BY <3>1 DEF Testing!NextGroups
        <3> QED BY <3>2, <3>3
    <2> QED BY <2>2, <2>3
            DEF Testing!LooksOn, Testing!Exchange, Testing!OnAir, Testing!OnTXFrequency,
                Testing!SwitchesPower, Testing!NextGroup, Testing!Goes
<1>6. Head(agenda).does \in Testing!Deeds
    BY <1>1, StepHere DEF Testing!Steps
<1>7. Testing!NothingUnasked' /\ air' \in {"quiet", "carrier", "cw", "tuning"}
    <2>1. CASE Testing!OnAir
        <3>1. /\ air' \in {air, "quiet", "carrier", "cw", "tuning"} /\ link' = link
              /\ air' \notin {air, "quiet"} => Head(agenda).does \in {"key", "tune", "send"}
            BY <2>1 DEF Testing!OnAir, Testing!Doing, Testing!Here
        <3>2. Head(agenda).does \in {"key", "tune", "send"} => "tx" \in allowed
            BY <1>6 DEF Testing!Deeds
        <3> QED BY <1>3, <3>1, <3>2, SameRun DEF Testing!TestInv, Testing!NothingUnasked
    <2>2. CASE Testing!SwitchesPower
        <3>1. air' \in {air, "quiet"}
            BY <2>2 DEF Testing!SwitchesPower
        <3>2. link' = "standby" => link = "standby" \/ Head(agenda).does = "off"
            BY <2>2 DEF Testing!SwitchesPower, Testing!Doing, Testing!Here
        <3>3. Head(agenda).does = "off" => "power" \in allowed
            BY <1>6 DEF Testing!Deeds
        <3> QED BY <1>3, <3>1, <3>2, <3>3, SameRun DEF Testing!TestInv, Testing!NothingUnasked
    <2>3. CASE \/ Testing!LooksOn \/ Testing!Exchange \/ Testing!OnTXFrequency
               \/ Testing!NextGroup
        <3>1. UNCHANGED <<air, link>>
            BY <2>3 DEF Testing!LooksOn, Testing!Exchange, Testing!OnTXFrequency,
                        Testing!NextGroup
        <3> QED BY <1>3, <3>1, SameRun DEF Testing!TestInv, Testing!NothingUnasked
    <2> QED BY <2>1, <2>2, <2>3
<1> QED BY <1>3, <1>4, <1>5, <1>7, SameRun DEF Testing!TestInv

\* The sequence ends and the restore begins (Run).
LEMMA RestoreInTest ==
    ASSUME Testing!TestInv, Testing!BeginRestore
    PROVE  Testing!TestInv'
<1>1. UNCHANGED Testing!fixed /\ UNCHANGED <<air, link>>
    BY DEF Testing!BeginRestore
<1>2. /\ agenda' = (IF link = "down" THEN <<>> ELSE Testing!restore)
      /\ errs' = (link = "down")
    BY DEF Testing!BeginRestore
<1>3. agenda' \in Seq(Testing!Steps)
    BY <1>2, WhatIsRestored
<1>4. Testing!RestoresOnly'
    BY <1>2, WhatIsRestored DEF Testing!RestoresOnly
<1>5. Testing!RestoresAll'
    BY <1>1, <1>2, WhatIsRestored, SameRun DEF Testing!RestoresAll
<1> QED BY <1>1, <1>3, <1>4, <1>5, SameRun DEF Testing!TestInv, Testing!NothingUnasked

\* What happens meanwhile touches neither the agenda nor a control.
LEMMA MeanwhileInTest ==
    ASSUME Testing!TestInv,
           \/ Testing!Interrupt \/ Testing!SessionEnds \/ Testing!LinkLost
           \/ Testing!Reconnects \/ Testing!Polled \/ Testing!AirEnds
           \/ UNCHANGED Testing!vars
    PROVE  Testing!TestInv'
<1>1. UNCHANGED Testing!fixed /\ UNCHANGED <<agenda, restoring, errs, dial>>
    BY DEF Testing!Interrupt, Testing!SessionEnds, Testing!LinkLost, Testing!Reconnects,
           Testing!Polled, Testing!AirEnds, Testing!vars, Testing!fixed
<1>2. air' \in {air, "quiet"} /\ link' \in {link, "up", "down"}
    BY DEF Testing!Interrupt, Testing!SessionEnds, Testing!LinkLost, Testing!Reconnects,
           Testing!Polled, Testing!AirEnds, Testing!vars
<1>3. Testing!RestoresOnly' /\ Testing!RestoresAll'
    BY <1>1, SameRun DEF Testing!TestInv, Testing!RestoresOnly, Testing!RestoresAll
<1> QED BY <1>1, <1>2, <1>3, SameRun DEF Testing!TestInv, Testing!NothingUnasked

\* Every step of a test run keeps TestInv.
LEMMA TestStep ==
    ASSUME Testing!TestInv, [Testing!Next]_(Testing!vars)
    PROVE  Testing!TestInv'
BY RequestsInTest, DeedsInTest, RestoreInTest, MeanwhileInTest DEF Testing!Next

\* Of the session's parts, a test run is one; the others leave it alone.
LEMMA TestHolds == SessionSpec => [](part = "selftest" => Testing!TestInv)
<1>1. SessionInit => (part = "selftest" => Testing!TestInv)
    BY InitTestInv DEF SessionInit
<1>2. (part = "selftest" => Testing!TestInv) /\ [SessionNext]_sessionVars
          => (part = "selftest" => Testing!TestInv)'
    <2> SUFFICES ASSUME part = "selftest" => Testing!TestInv, [SessionNext]_sessionVars,
                        part' = "selftest"
                 PROVE  Testing!TestInv'
        OBVIOUS
    <2>1. part' = part
        BY DEF SessionNext, OnDeltas, OnPatch, OnKenwood, OnIcom, OnYaesu, OnTest, sessionVars
    <2>2. UNCHANGED testVars => UNCHANGED Testing!vars
        BY DEF testVars, Testing!vars
    <2>3. [Testing!Next]_(Testing!vars)
        BY <2>1, <2>2
        DEF SessionNext, OnDeltas, OnPatch, OnKenwood, OnIcom, OnYaesu, OnTest, sessionVars
    <2> QED BY <2>1, <2>3, TestStep
<1> QED BY <1>1, <1>2, PTL DEF SessionSpec

\* A test run transmits and switches the radio off with leave only, and a run
\* that says the radio was restored has put back every control it knew: for any
\* radios, whatever is refused, lost or interrupted (selftest.Run, Runner.restore).
THEOREM TestRunPutsItBack == SessionSpec => []TestRunKeepsItsWord
<1>1. (part = "selftest" => Testing!TestInv) => TestRunKeepsItsWord
    <2> SUFFICES ASSUME Testing!TestInv
                 PROVE  Testing!NothingUnasked /\ Testing!RestoredIsAsFound
        BY DEF TestRunKeepsItsWord
    <2>1. agenda = <<>> => Len(agenda) = 0
        OBVIOUS
    <2>2. Testing!RestoredIsAsFound
        BY <2>1 DEF Testing!TestInv, Testing!RestoresAll, Testing!RestoredIsAsFound,
                    Testing!Ended
    <2> QED BY <2>2 DEF Testing!TestInv
<1> QED BY <1>1, TestHolds, PTL

-----------------------------------------------------------------------------
(* The deltas within the whole                                              *)

\* A session's state is followed by its deltas whatever else the session does: a
\* client that merges them holds what the session holds (State.Diff, ApplyDelta).
THEOREM DeltasInSession == SessionSpec => []DeltasRebuildState
<1>1. SessionInit => Init
    BY DEF SessionInit
<1>2. [SessionNext]_sessionVars => [Next]_vars
    BY DEF SessionNext, OnDeltas, OnPatch, OnKenwood, OnIcom, OnYaesu, OnTest, sessionVars
<1>3. SessionSpec => Spec
    BY <1>1, <1>2, PTL DEF SessionSpec, Spec
<1> QED BY <1>3, ClientHoldsTheState, PTL
=============================================================================
