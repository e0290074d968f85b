----------------------------- MODULE RadioState -----------------------------
(***************************************************************************)
(* What a radio is believed to hold (internal/radio/types.go), and how a   *)
(* change of it reaches a client: the session applies a backend's patch,   *)
(* the patch of what really changed is rendered as the JSON of a delta     *)
(* (changedFields, ws/message.go), and the client decodes that JSON onto   *)
(* its own copy (Event.ApplyDelta, client/stream.go).  Deltas that are     *)
(* lost, merged or late are StateStream's subject: here each one arrives.  *)
(*                                                                         *)
(* A field holds a value or Nil, which is both a pointer to nothing and a  *)
(* JSON null; a patch or a delta is a function on the fields it names.     *)
(***************************************************************************)
EXTENDS Naturals

CONSTANTS
    Values,     \* the values of a field
    Touched,    \* the fields the radio reports on
    MaxSeq      \* bound: changes

Nil == "nil"

ASSUME StateAssumption == Values # {} /\ Nil \notin Values

VARIABLES
    state,      \* Session.state
    seq,        \* State.Seq
    copy,       \* the client's copy
    copySeq     \* the sequence number the client has for it

vars == <<state, seq, copy, copySeq>>

-----------------------------------------------------------------------------

\* Present in a transmission only.
TXMeters == {"power_meter", "swr", "alc", "swr_ratio"}

\* The transmit audio chain.
TXAudioFields == {"tx_audio_gain", "proc", "proc_level"}

\* Pointers: a radio that has not got the control does not report it.
Optional ==
    TXMeters \cup TXAudioFields \cup
    {"preamp", "attenuator_db", "rf_gain", "ip_plus", "digi_sel", "digi_sel_shift",
     "noise_blanker", "nb_level", "noise_reduction", "nr_level", "notch",
     "notch_freq", "auto_notch", "antenna", "rx_antenna"}

Plain ==
    {"frequency", "mode", "data_mode", "passband_hz", "filter_slot", "power", "ptt",
     "s_meter", "cw", "standby", "agc", "notch_width", "tuner", "vfo", "vfo_a",
     "vfo_b", "split", "dual_watch", "sub_s_meter", "selected_band", "break_in",
     "connected"}

\* The fields of State, its sequence number and time apart.
StateFields == Plain \cup Optional

Domain(f) == IF f = "ptt" THEN {"on", "off"}
             ELSE IF f \in Optional THEN Values \cup {Nil} ELSE Values

States == {s \in [StateFields -> Values \cup {"on", "off", Nil}] :
              \A f \in StateFields : s[f] \in Domain(f)}

\* A patch: nothing it names is nil, since nil says "not mentioned".
IsPatch(p) ==
    /\ DOMAIN p \subseteq StateFields
    /\ \A f \in DOMAIN p : p[f] \in Domain(f) \ {Nil}

-----------------------------------------------------------------------------

\* The values a patch carries, over the ones there were.
Overlay(s, p) == [f \in StateFields |-> IF f \in DOMAIN p THEN p[f] ELSE s[f]]

\* The last transmission's meters are kept.
MutantReceiveHasNoTXMeters(s) == s

ReceiveHasNoTXMeters(s) ==
    [f \in StateFields |-> IF s["ptt"] = "off" /\ f \in TXMeters THEN Nil ELSE s[f]]

\* State.Apply
Apply(s, p) == ReceiveHasNoTXMeters(Overlay(s, p))

\* The fields State.Diff compares.
Compared == StateFields \ TXAudioFields

\* State.Diff: what changed and is still there.
Diff(old, new) ==
    [f \in {g \in Compared : old[g] # new[g] /\ new[g] # Nil} |-> new[f]]

\* The meters are sent when the patch names one, and not when PTT drops.
MutantNamesMeters(p) == DOMAIN p \cap TXMeters # {}

\* A patch cannot say that a meter went away: PTT dropping says it.
NamesMeters(p) ==
    \/ DOMAIN p \cap TXMeters # {}
    \/ "ptt" \in DOMAIN p /\ p["ptt"] = "off"

\* changedFields: the meters go out as a group, from the state.
Rendered(p, st) ==
    [f \in DOMAIN p \cup (IF NamesMeters(p) THEN TXMeters ELSE {}) |->
        IF f \in TXMeters THEN st[f] ELSE p[f]]

\* ApplyDelta: the fields named are replaced, a null clears.
Merged(st, delta) == [f \in StateFields |-> IF f \in DOMAIN delta THEN delta[f] ELSE st[f]]

-----------------------------------------------------------------------------

Default(f) == IF f = "ptt" THEN "off"
              ELSE IF f \in Optional THEN Nil ELSE CHOOSE v \in Values : TRUE

Init ==
    /\ state = [f \in StateFields |-> Default(f)]
    /\ seq = 0
    /\ copy = state /\ copySeq = 0

\* Session.apply, and the client's merge of what it publishes: Seq advances
\* only on a real change.
Reports(p) ==
    /\ IsPatch(p)
    /\ state' = Apply(state, p)
    /\ LET changed == Diff(state, state') IN
       IF DOMAIN changed = {}
       THEN UNCHANGED <<seq, copy, copySeq>>
       ELSE /\ seq < MaxSeq
            /\ seq' = seq + 1
            /\ copy' = Merged(copy, Rendered(changed, state'))
            /\ copySeq' = seq'

\* A client that subscribes or resynchronises is sent the whole state.
Snapshot == copy' = state /\ copySeq' = seq /\ UNCHANGED <<state, seq>>

Patches == UNION {{p \in [S -> Values \cup {"on", "off"}] : IsPatch(p)} :
                     S \in {T \in SUBSET Touched : \E f, g \in Touched : T = {f, g}}}

Next == (\E p \in Patches : Reports(p)) \/ Snapshot

Spec == Init /\ [][Next]_vars

-----------------------------------------------------------------------------
(* Correctness                                                              *)

TypeOK ==
    /\ state \in States /\ seq \in Nat
    /\ copy \in States /\ copySeq \in Nat

\* What is left of a transmission's meters goes away with it, on the server
\* (State.Apply).
MetersNeedTransmission == \A f \in TXMeters : state[f] # Nil => state["ptt"] = "on"

\* A client that merges every delta holds what the session holds, a meter
\* that went away with a transmission and the sequence number included
\* (State.Diff, changedFields, ApplyDelta).
DeltasRebuildState ==
    /\ MetersNeedTransmission
    /\ copySeq = seq
    /\ \A f \in Compared : copy[f] = state[f]

\* "Diff returns a patch describing every field in which next differs from s":
\* no change of the state stays unpublished.
EveryChangeIsPublished == [][state' # state => seq' # seq]_vars
=============================================================================
