-------------------------- MODULE RadioStateProofs --------------------------
(***************************************************************************)
(* A client that merges every delta holds the session's state, whatever    *)
(* the radio reports and however many values a field has.                  *)
(***************************************************************************)
EXTENDS RadioState, TLAPS

\* What is true of a client is inductive once the meters of the server are
\* known to be gone in receive: a delta cannot name what it cannot see change.
StateInv == TypeOK /\ DeltasRebuildState

\* Applying a patch to a state gives a state (State.Apply).
LEMMA ApplyType ==
    ASSUME NEW s \in States, NEW p, IsPatch(p)
    PROVE  Apply(s, p) \in States
  <1> DEFINE o == Overlay(s, p)
             a == Apply(s, p)
  <1>1. o \in States
    BY DEF Overlay, States, IsPatch, Domain
  <1>2. a = [f \in StateFields |-> IF o["ptt"] = "off" /\ f \in TXMeters THEN Nil ELSE o[f]]
    BY DEF Apply, ReceiveHasNoTXMeters
  <1>3. ASSUME NEW f \in StateFields
        PROVE  /\ a[f] \in Values \cup {"on", "off", Nil}
               /\ a[f] \in Domain(f)
    <2>1. o[f] \in Values \cup {"on", "off", Nil} /\ o[f] \in Domain(f)
      BY <1>1 DEF States
    <2>2. f \in TXMeters => f # "ptt" /\ f \in Optional
      BY DEF TXMeters, Optional
    <2> QED  BY <1>2, <2>1, <2>2 DEF Domain
  <1>4. DOMAIN a = StateFields /\ a = [f \in StateFields |-> a[f]]
    BY <1>2
  <1> QED  BY <1>3, <1>4 DEF States

\* No transmit meter survives an Apply that leaves the radio in receive.
LEMMA ApplyClears ==
    ASSUME NEW s \in States, NEW p, IsPatch(p), NEW f \in TXMeters,
           Apply(s, p)[f] # Nil
    PROVE  Apply(s, p)["ptt"] = "on"
  <1> DEFINE o == Overlay(s, p)
  <1>1. f \in StateFields /\ "ptt" \in StateFields /\ "ptt" \notin TXMeters
    BY DEF TXMeters, StateFields, Plain, Optional
  <1>2. o["ptt"] \in {"on", "off"}
    BY <1>1 DEF Overlay, States, IsPatch, Domain
  <1>3. Apply(s, p)["ptt"] = o["ptt"] /\ o["ptt"] # "off"
    BY <1>1 DEF Apply, ReceiveHasNoTXMeters
  <1> QED  BY <1>2, <1>3

\* Only a transmit meter, and only in receive, goes away (State.Apply).
LEMMA ApplyKeeps ==
    ASSUME NEW s \in States, NEW p, IsPatch(p), NEW f \in StateFields,
           s[f] # Nil, Apply(s, p)[f] = Nil
    PROVE  f \in TXMeters /\ Apply(s, p)["ptt"] = "off"
  <1> DEFINE o == Overlay(s, p)
  <1>1. "ptt" \in StateFields /\ "ptt" \notin TXMeters
    BY DEF TXMeters, StateFields, Plain, Optional
  <1>2. o[f] # Nil
    BY DEF Overlay, IsPatch
  <1> QED  BY <1>1, <1>2 DEF Apply, ReceiveHasNoTXMeters

\* What the client makes of a delta: the compared fields of the new state
\* (Diff, changedFields and ApplyDelta together).
LEMMA MergedAgrees ==
    ASSUME NEW old \in States, NEW new \in States, NEW c \in States,
           \A f \in TXMeters : old[f] # Nil => old["ptt"] = "on",
           \A f \in StateFields :
              old[f] # Nil /\ new[f] = Nil => f \in TXMeters /\ new["ptt"] = "off",
           \A f \in Compared : c[f] = old[f],
           NEW f \in Compared
    PROVE  Merged(c, Rendered(Diff(old, new), new))[f] = new[f]
  <1> DEFINE p == Diff(old, new)
             d == Rendered(p, new)
  <1>1. f \in StateFields /\ "ptt" \in StateFields /\ "ptt" \in Compared
    BY DEF Compared, StateFields, Plain, TXAudioFields, TXMeters, Optional
  <1>2. DOMAIN p = {g \in Compared : old[g] # new[g] /\ new[g] # Nil}
        /\ \A g \in DOMAIN p : p[g] = new[g]
    BY DEF Diff
  <1>3. /\ DOMAIN d = DOMAIN p \cup (IF NamesMeters(p) THEN TXMeters ELSE {})
        /\ \A g \in DOMAIN d : d[g] = IF g \in TXMeters THEN new[g] ELSE p[g]
    BY DEF Rendered
  <1>4. Merged(c, d)[f] = IF f \in DOMAIN d THEN d[f] ELSE c[f]
    BY <1>1 DEF Merged
  <1>5. CASE f \in DOMAIN d
    BY <1>2, <1>3, <1>4, <1>5
  <1>6. CASE f \notin DOMAIN d
    <2>1. c[f] = old[f]
      OBVIOUS
    <2>2. old[f] = new[f] \/ new[f] = Nil
      BY <1>2, <1>3, <1>6
    <2>3. CASE f \notin TXMeters
      BY <1>1, <1>4, <1>6, <2>1, <2>2, <2>3
    <2>4. CASE f \in TXMeters
      <3>1. ~NamesMeters(p)
        BY <1>3, <1>6, <2>4
      <3>2. SUFFICES ASSUME old[f] # new[f]  PROVE FALSE
        BY <1>4, <1>6, <2>1
      <3>3. new[f] = Nil /\ old[f] # Nil
        BY <2>2, <3>2
      <3>4. old["ptt"] = "on"
        BY <2>4, <3>3
      <3>5. new["ptt"] = "off"
        BY <1>1, <3>3
      <3>6. "ptt" \in DOMAIN p /\ p["ptt"] = "off"
        BY <1>1, <1>2, <3>4, <3>5 DEF Nil
      <3> QED  BY <3>1, <3>6 DEF NamesMeters
    <2> QED  BY <2>3, <2>4
  <1> QED  BY <1>5, <1>6

\* The copy agrees with a state: what DeltasRebuildState asks of it.
Agrees(c, s) == \A f \in Compared : c[f] = s[f]

\* A delta names fields of a state and gives them values they may have.
LEMMA MergedType ==
    ASSUME NEW new \in States, NEW c \in States, NEW p,
           DOMAIN p \subseteq StateFields,
           \A f \in DOMAIN p : p[f] = new[f]
    PROVE  Merged(c, Rendered(p, new)) \in States
  <1> DEFINE d == Rendered(p, new)
             m == Merged(c, d)
  <1>1. \A f \in DOMAIN d : f \in StateFields => d[f] = new[f]
    BY DEF Rendered
  <1>2. m = [f \in StateFields |-> IF f \in DOMAIN d THEN new[f] ELSE c[f]]
    BY <1>1 DEF Merged
  <1>3. ASSUME NEW f \in StateFields
        PROVE  /\ m[f] \in Values \cup {"on", "off", Nil}
               /\ m[f] \in Domain(f)
    BY <1>2, <1>3 DEF States
  <1>4. m = [f \in StateFields |-> m[f]]
    BY <1>2
  <1>5. m \in States
    <2> HIDE DEF m
    <2> QED  BY <1>3, <1>4 DEF States
  <1> QED  BY <1>5

\* Every report of the radio, and every snapshot, leaves the client with what
\* the session holds (Session.apply).
LEMMA StateStep == StateInv /\ [Next]_vars => StateInv'
  <1> SUFFICES ASSUME StateInv, [Next]_vars  PROVE StateInv'
    OBVIOUS
  <1> USE DEF StateInv
  <1>1. ASSUME NEW p \in Patches, Reports(p)  PROVE StateInv'
    <2> DEFINE changed == Diff(state, state')
    <2>1. IsPatch(p) /\ state' = Apply(state, p)
      BY <1>1 DEF Reports
    <2>2. state \in States /\ copy \in States /\ seq \in Nat /\ copySeq \in Nat
      BY DEF TypeOK
    <2>3. state' \in States
      BY <2>1, <2>2, ApplyType
    <2>4. MetersNeedTransmission'
      BY <2>1, <2>2, ApplyClears DEF MetersNeedTransmission
    <2>5. \A f \in StateFields :
             state[f] # Nil /\ state'[f] = Nil => f \in TXMeters /\ state'["ptt"] = "off"
      BY <2>1, <2>2, ApplyKeeps
    <2>6. \A f \in Compared : Merged(copy, Rendered(changed, state'))[f] = state'[f]
      <3>1. \A f \in TXMeters : state[f] # Nil => state["ptt"] = "on"
        BY DEF DeltasRebuildState, MetersNeedTransmission
      <3>2. \A f \in Compared : copy[f] = state[f]
        BY DEF DeltasRebuildState
      <3> QED  BY <2>2, <2>3, <2>5, <3>1, <3>2, MergedAgrees
    <2>7. DOMAIN changed \subseteq StateFields /\ \A f \in DOMAIN changed : changed[f] = state'[f]
      BY DEF Diff, Compared
    <2>8. CASE DOMAIN changed # {}
      <3>1. seq' = seq + 1 /\ copySeq' = seq' /\ copy' = Merged(copy, Rendered(changed, state'))
        BY <1>1, <2>8 DEF Reports
      <3>2. copy' \in States
        BY <2>2, <2>3, <2>7, <3>1, MergedType
      <3> QED  BY <2>2, <2>3, <2>4, <2>6, <3>1, <3>2 DEF TypeOK, DeltasRebuildState
    <2>9. CASE DOMAIN changed = {}
      <3>1. UNCHANGED <<seq, copy, copySeq>>
        BY <1>1, <2>9 DEF Reports
      <3>2. Agrees(copy, state')
        <4>1. SUFFICES ASSUME NEW f \in Compared  PROVE copy[f] = state'[f]
          BY DEF Agrees
        <4>2. copy[f] = state[f]
          BY DEF DeltasRebuildState
        <4>3. f \notin DOMAIN changed
          BY <2>9
        <4>4. DOMAIN Rendered(changed, state') = {}
          BY <2>9 DEF Rendered, NamesMeters
        <4>5. Merged(copy, Rendered(changed, state'))[f] = copy[f]
          BY <4>4 DEF Merged, Compared
        <4> QED  BY <2>6, <4>5
      <3> QED  BY <2>2, <2>3, <2>4, <3>1, <3>2 DEF TypeOK, DeltasRebuildState, Agrees
    <2> QED  BY <2>8, <2>9
  <1>2. CASE Snapshot
    BY <1>2 DEF Snapshot, TypeOK, DeltasRebuildState, MetersNeedTransmission
  <1>3. CASE UNCHANGED vars
    BY <1>3 DEF vars, TypeOK, DeltasRebuildState, MetersNeedTransmission
  <1> QED  BY <1>1, <1>2, <1>3 DEF Next

\* The first state is the cache of a session that has heard nothing yet.
LEMMA StateStart == Init => StateInv
  <1> SUFFICES ASSUME Init  PROVE StateInv
    OBVIOUS
  <1>1. (CHOOSE v \in Values : TRUE) \in Values
    BY StateAssumption
  <1>2. state = [f \in StateFields |-> Default(f)]
    BY DEF Init
  <1>3. \A f \in StateFields : /\ Default(f) \in Values \cup {"on", "off", Nil}
                              /\ Default(f) \in Domain(f)
    BY <1>1 DEF Default, Domain
  <1>4. state \in States
    BY <1>2, <1>3 DEF States
  <1>5. \A f \in TXMeters : state[f] = Nil
    BY <1>2 DEF Default, TXMeters, Optional, StateFields
  <1> QED  BY <1>4, <1>5 DEF Init, StateInv, TypeOK, DeltasRebuildState,
              MetersNeedTransmission

\* The cache and every copy of it built from deltas agree in all that Diff
\* compares, and both lose the transmit meters with the transmission
\* (State.Apply, State.Diff, changedFields).
THEOREM ClientHoldsTheState == Spec => []DeltasRebuildState
  <1>1. StateInv => DeltasRebuildState
    BY DEF StateInv
  <1> QED  BY <1>1, StateStart, StateStep, PTL DEF Spec
=============================================================================
