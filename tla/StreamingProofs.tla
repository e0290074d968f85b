--------------------------- MODULE StreamingProofs ---------------------------
(***************************************************************************)
(* Proofs about Streaming, for any number of radios, fields, callers and   *)
(* queue sizes: the lanes and the writer of a client (LaneInv, of the      *)
(* shared lane), the client's copy of the state (CopyInv), and the program *)
(* that follows a stream (Monitor).                                        *)
(***************************************************************************)
EXTENDS MCStreaming, KeptProofs, TLAPS

-----------------------------------------------------------------------------
(* The shared lane                                                          *)

\* A filter that lost no radio it keeps: what is left is of the radios kept.
LEMMA SharedKept ==
    ASSUME NEW A, NEW s \in Seq(A), NEW S
    PROVE  Shared!Kept(s, S) \in Seq(S)
<1>1. Kept(s, S) \in Seq(A \cap S)
    BY KeptType
<1>2. Seq(A \cap S) \subseteq Seq(S)
    BY SeqMonotonic
<1> QED BY <1>1, <1>2 DEF Kept, Shared!Kept

\* LaneInv holds of a new client.
LEMMA InitLaneInv == Shared!Init => Shared!LaneInv
BY EmptySeq DEF Shared!Init, Shared!LaneInv, Shared!HolesAreFlagged, Shared!Open

\* The event lane takes an event of a subscribed radio, or overflows and owes
\* every radio with an event in it a resync.
LEMMA PushKeeps ==
    ASSUME Shared!LaneInv, Shared!Open, NEW ev, ev.radio \in subs,
           Shared!PushDiscrete(ev)
    PROVE  /\ discrete' \in Seq(subs)
           /\ resync' \subseteq subs
           /\ holes' \subseteq resync'
<1>1. /\ discrete \in Seq(subs) /\ resync \subseteq subs /\ holes \subseteq resync
    BY DEF Shared!LaneInv, Shared!HolesAreFlagged
<1>2. \A i \in 1..Len(discrete) : discrete[i] \in subs
    BY <1>1, ElementOfSeq
<1>3. discrete' \in Seq(subs)
    <2>1. Append(discrete, ev.radio) \in Seq(subs) /\ <<>> \in Seq(subs)
        BY <1>1, AppendProperties, EmptySeq
    <2> QED BY <1>1, <2>1 DEF Shared!PushDiscrete
<1> QED BY <1>1, <1>2, <1>3 DEF Shared!PushDiscrete

\* LaneInv is inductive.
LEMMA LaneStep == Shared!LaneInv /\ [Shared!Next]_vars => Shared!LaneInv'
<1> SUFFICES ASSUME Shared!LaneInv, [Shared!Next]_vars PROVE Shared!LaneInv'
    OBVIOUS
<1> USE DEF Shared!LaneInv, Shared!HolesAreFlagged, Shared!Open, Shared!WorkLeft
<1>1. ASSUME UNCHANGED <<subs, pending, discrete, resync, snapshot, holes>>,
             writer' = writer, wake' = wake, timer' = timer
      PROVE  Shared!LaneInv'
    BY <1>1
<1>2. CASE Shared!Enqueue
    <2> DEFINE ev == Head(feed)
    <2>1. writer' = writer /\ timer' = timer
        BY <1>2 DEF Shared!Enqueue
    <2>2. CASE ~Shared!Open
        <3>1. UNCHANGED <<subs, pending, discrete, resync, snapshot, wake, holes>>
            BY <1>2, <2>2 DEF Shared!Enqueue, Shared!laneVars
        <3> QED BY <2>1, <3>1
    <2>3. CASE Shared!Open /\ ev.radio \notin subs
        <3>1. /\ resync' = IF ev.dropped THEN subs ELSE resync
              /\ wake' = (wake \/ ev.dropped)
              /\ UNCHANGED <<subs, pending, discrete, snapshot, holes>>
            BY <1>2, <2>3 DEF Shared!Enqueue
        <3> QED BY <2>1, <2>3, <3>1
    <2>4. CASE Shared!Open /\ ev.radio \in subs
        <3>1. Shared!PushDiscrete(ev) /\ subs' = subs /\ wake'
            BY <1>2, <2>4 DEF Shared!Enqueue
        <3> HIDE DEF ev
        <3>2. discrete' \in Seq(subs) /\ resync' \subseteq subs /\ holes' \subseteq resync'
            BY <2>4, <3>1, PushKeeps
        <3> QED BY <2>1, <3>1, <3>2
    <2> QED BY <2>2, <2>3, <2>4
<1>3. ASSUME NEW S \in SUBSET SharedRadios, Shared!SetRadios(S) PROVE Shared!LaneInv'
    <2>1. Shared!Kept(discrete, S) \in Seq(S)
        BY SharedKept
    <2>2. /\ Shared!Open /\ subs' = S /\ discrete' = Shared!Kept(discrete, S)
          /\ resync' = resync \cap S /\ holes' = holes \cap S /\ wake'
          /\ writer' = writer
        BY <1>3 DEF Shared!SetRadios
    <2> QED BY <2>1, <2>2
<1>4. CASE Shared!Drain
    <2>1. /\ writer = "drain" /\ writer' = "wait" /\ subs' = subs
          /\ discrete' = <<>> /\ snapshot' = {}
          /\ resync' = resync \ Shared!ResyncDue /\ holes' = holes \ Shared!ResyncDue
          /\ DOMAIN pending' = DOMAIN pending \ Shared!DeltaDue
          /\ timer' = (Shared!HeldBack # {})
        BY <1>4 DEF Shared!Drain
    <2>2. resync' # {} \/ DOMAIN pending' # {} => timer'
        BY <2>1 DEF Shared!ResyncDue, Shared!DeltaDue, Shared!HeldBack
    <2> QED BY <2>1, <2>2, EmptySeq
<1>5. CASE Shared!WakeUp
    BY <1>5 DEF Shared!WakeUp, Shared!laneVars
<1>6. CASE Shared!TimerFires
    BY <1>6 DEF Shared!TimerFires, Shared!laneVars
<1>7. CASE Shared!Stop
    BY <1>7 DEF Shared!Stop, Shared!laneVars
<1>8. ASSUME NEW r \in SharedRadios,
             \/ Shared!ApplyUpdate(r) \/ Shared!ApplyConn(r)
             \/ \E c \in Callers : Shared!RefreshCW(r, c)
      PROVE  Shared!LaneInv'
    BY <1>1, <1>8 DEF Shared!ApplyUpdate, Shared!ApplyConn, Shared!RefreshCW, Shared!Store,
                      Shared!laneVars, Shared!writerVars
<1>9. ASSUME NEW g \in Shared!Publishers, Shared!Publish(g) PROVE Shared!LaneInv'
    BY <1>1, <1>9 DEF Shared!Publish, Shared!laneVars, Shared!writerVars
<1>10. ASSUME NEW r \in SharedRadios,
              Shared!StateIntervalEnds(r) \/ Shared!ResyncIntervalEnds(r)
       PROVE  Shared!LaneInv'
    BY <1>1, <1>10 DEF Shared!StateIntervalEnds, Shared!ResyncIntervalEnds,
                       Shared!laneVars, Shared!writerVars
<1>11. CASE UNCHANGED vars
    BY <1>1, <1>11 DEF vars, laneVars, writerVars
<1> QED BY <1>2, <1>3, <1>4, <1>5, <1>6, <1>7, <1>8, <1>9, <1>10, <1>11 DEF Shared!Next

\* On a lane that several radios share, whatever is thrown away is owed a resync,
\* and a writer that waits with work to do is going to be woken
\* (client.pushDiscreteLocked, setRadios, signal, writeLoop).
THEOREM SharedLane == StreamingSpec => []SharedLaneHolds
<1> DEFINE Inv == machine = "shared" => Shared!LaneInv
<1>1. StreamingInit => Inv
    BY InitLaneInv DEF StreamingInit
<1>2. Inv /\ [StreamingNext]_streamingVars => Inv'
    <2> SUFFICES ASSUME Inv, [StreamingNext]_streamingVars, machine' = "shared"
                 PROVE  Shared!LaneInv'
        OBVIOUS
    <2>1. machine = "shared" /\ [Shared!Next]_vars
        BY DEF StreamingNext, OnLane, OnShared, OnMonitor, streamingVars
    <2> QED BY <2>1, LaneStep
<1>3. Inv => SharedLaneHolds
    <2>1. Shared!LaneInv => Shared!NoLostWakeup
        BY DEF Shared!LaneInv, Shared!NoLostWakeup, Shared!WorkLeft, Shared!ResyncDue,
               Shared!DeltaDue
    <2> QED BY <2>1 DEF Shared!LaneInv, SharedLaneHolds
<1> QED BY <1>1, <1>2, <1>3, PTL DEF StreamingSpec

-----------------------------------------------------------------------------
(* The client's copy: what a change puts in the cache                       *)

\* A client just connected (newClient).
LEMMA InitCopyInv == Init => CopyInv
<1> SUFFICES ASSUME Init PROVE CopyInv
    OBVIOUS
<1>1. <<>> \in Seq(Event) /\ <<>> \in Seq(subs) /\ Len(<<>>) = 0
    BY EmptySeq
<1>2. TypeOK
    <2>1. 0 \in 0..MaxSeq /\ FeedSize \in Nat /\ QueueCap \in Nat
        BY StreamAssumption
    <2>2. NoCopy \in [Fields -> 0..MaxSeq]
        BY <2>1 DEF NoCopy
    <2>3. /\ seq \in [Radios -> 0..MaxSeq] /\ lastSeq \in [Radios -> 0..MaxSeq]
          /\ changed \in [Radios -> [Fields -> 0..MaxSeq]]
          /\ view \in [Radios -> [Fields -> 0..MaxSeq]]
          /\ publishing \in [Publishers -> Event \cup {None}]
          /\ superseded \in [Radios -> SUBSET Fields]
        BY <2>1, <2>2 DEF Init
    <2>4. DOMAIN pending = {}
        BY DEF Init
    <2> HIDE DEF Init
    <2>5. /\ feed = <<>> /\ feedLost = FALSE /\ subs = Radios /\ discrete = <<>>
          /\ resync = {} /\ snapshot = Radios /\ stateLimited = {} /\ resyncLimited = {}
          /\ writer = "drain" /\ wake = FALSE /\ timer = FALSE /\ told = {} /\ holes = {}
        BY DEF Init
    <2>6. feedLost \in BOOLEAN /\ wake \in BOOLEAN /\ timer \in BOOLEAN
        BY <2>5
    <2>7. feed \in Seq(Event) /\ Len(feed) <= FeedSize
        BY <1>1, <2>1, <2>5
    <2>8. discrete \in Seq(subs) /\ Len(discrete) <= QueueCap
        BY <1>1, <2>1, <2>5
    <2> QED BY <2>3, <2>4, <2>5, <2>6, <2>7, <2>8 DEF TypeOK
<1>3. EventsAreTrue
    BY DEF Init, EventsAreTrue
<1>4. CopyIsBehind
    BY DEF Init, CopyIsBehind, NoCopy
<1>5. StaleIsExplained
    BY DEF Init, StaleIsExplained
<1> QED BY <1>2, <1>3, <1>4, <1>5 DEF CopyInv

\* A change in the cache is of the fields its event names, and newer than any
\* event there is (Session.apply, refreshCW under stateMu).
LEMMA StoreKeeps ==
    ASSUME CopyInv, NEW r \in Radios, NEW who, <<r, who>> \in Publishers,
           NEW kind \in Kinds, NEW patch \in SUBSET Fields, Store(r, who, kind, patch)
    PROVE  CopyInv'
<1> DEFINE g == <<r, who>>
<1>0. PICK ev : ev = [radio |-> r, seq |-> seq[r] + 1, kind |-> kind, patch |-> patch,
                      dropped |-> FALSE]
    OBVIOUS
<1>1. /\ publishing[g] = None /\ seq[r] \in Nat /\ seq[r] + 1 \in 1..MaxSeq
      /\ seq' = [seq EXCEPT ![r] = @ + 1]
      /\ changed' = [changed EXCEPT ![r] =
            [f \in Fields |-> IF f \in patch THEN seq[r] + 1 ELSE @[f]]]
      /\ publishing' = [publishing EXCEPT ![g] = ev]
      /\ UNCHANGED <<feed, feedLost, subs, pending, discrete, resync, snapshot>>
      /\ UNCHANGED <<stateLimited, resyncLimited, writer, wake, timer>>
      /\ UNCHANGED <<lastSeq, view, superseded, told, holes>>
    BY <1>0, StreamAssumption DEF Store, CopyInv, TypeOK, feedVars, laneVars, limitVars,
                            writerVars, clientVars
<1>2. ev \in Event /\ ev # None
    BY <1>0, <1>1 DEF Event, None
<1>3. TypeOK'
    <2>1. seq' \in [Radios -> 0..MaxSeq]
        BY <1>1, StreamAssumption DEF CopyInv, TypeOK
    <2>2. changed' \in [Radios -> [Fields -> 0..MaxSeq]]
        BY <1>1, StreamAssumption DEF CopyInv, TypeOK
    <2>3. publishing' \in [Publishers -> Event \cup {None}]
        BY <1>1, <1>2 DEF CopyInv, TypeOK
    <2> QED BY <1>1, <2>1, <2>2, <2>3 DEF CopyInv, TypeOK
<1>4. /\ seq'[r] = seq[r] + 1
      /\ \A f \in Fields : changed'[r][f] = IF f \in patch THEN seq[r] + 1 ELSE changed[r][f]
      /\ \A q \in Radios : q # r => changed'[q] = changed[q] /\ seq'[q] = seq[q]
    BY <1>1 DEF CopyInv, TypeOK
<1>5. \A e \in Event : TrueEvent(e) => TrueEvent(e)'
    <2> SUFFICES ASSUME NEW e \in Event, TrueEvent(e) PROVE TrueEvent(e)'
        OBVIOUS
    <2>1. /\ e.radio \in Radios /\ e.seq \in Nat
          /\ e.seq <= seq[e.radio]
          /\ \A f \in Fields :
                /\ changed[e.radio][f] \in Nat
                /\ f \in e.patch => changed[e.radio][f] >= e.seq
                /\ changed[e.radio][f] = e.seq => f \in e.patch
        BY StreamAssumption DEF Event, TrueEvent, CopyInv, TypeOK
    <2>2. CASE e.radio = r
        BY <1>1, <1>4, <2>1, <2>2 DEF TrueEvent
    <2>3. CASE e.radio # r
        BY <1>4, <2>1, <2>3 DEF TrueEvent
    <2> QED BY <2>2, <2>3
<1>6. TrueEvent(ev)'
    <2>1. \A f \in Fields : changed[r][f] \in Nat /\ changed[r][f] <= seq[r]
        BY StreamAssumption DEF CopyInv, TypeOK, CopyIsBehind
    <2> QED BY <1>0, <1>1, <1>4, <2>1 DEF TrueEvent
<1>7. EventsAreTrue'
    <2>1. ASSUME NEW h \in Publishers, publishing'[h] # None PROVE TrueEvent(publishing[h])'
        <3>1. CASE h = g
            <4>1. publishing'[h] = ev
                BY <1>1, <3>1 DEF CopyInv, TypeOK
            <4> QED BY <1>6, <4>1 DEF TrueEvent
        <3>2. CASE h # g
            <4>1. publishing'[h] = publishing[h] /\ publishing[h] \in Event
                BY <1>1, <2>1, <3>2 DEF CopyInv, TypeOK
            <4>2. TrueEvent(publishing[h])
                BY <2>1, <4>1 DEF CopyInv, EventsAreTrue
            <4> QED BY <1>5, <2>1, <4>1, <4>2 DEF TrueEvent
        <3> QED BY <3>1, <3>2
    <2>2. ASSUME NEW i \in 1..Len(feed) PROVE TrueEvent(feed[i])'
        <3>1. feed[i] \in Event
            BY ElementOfSeq DEF CopyInv, TypeOK
        <3>2. TrueEvent(feed[i]) /\ feed' = feed
            BY <1>1 DEF CopyInv, EventsAreTrue
        <3> QED BY <1>5, <3>1, <3>2 DEF TrueEvent
    <2>3. ASSUME NEW q \in DOMAIN pending PROVE TrueEvent(pending[q])'
        <3>1. pending[q] \in Event /\ TrueEvent(pending[q]) /\ pending' = pending
            BY <1>1 DEF CopyInv, TypeOK, EventsAreTrue
        <3> QED BY <1>5, <3>1 DEF TrueEvent
    <2> QED BY <1>1, <2>1, <2>2, <2>3 DEF EventsAreTrue
<1>8. CopyIsBehind'
    <2> SUFFICES ASSUME NEW q \in Radios
                 PROVE  /\ lastSeq[q] <= seq'[q]
                        /\ \A f \in Fields :
                              /\ changed'[q][f] <= seq'[q]
                              /\ view[q][f] <= changed'[q][f] /\ view[q][f] <= lastSeq[q]
        BY <1>1 DEF CopyIsBehind
    <2>1. /\ lastSeq[q] \in Nat /\ seq[q] \in Nat /\ lastSeq[q] <= seq[q]
          /\ \A f \in Fields :
                /\ changed[q][f] \in Nat /\ view[q][f] \in Nat
                /\ changed[q][f] <= seq[q]
                /\ view[q][f] <= changed[q][f] /\ view[q][f] <= lastSeq[q]
        BY StreamAssumption DEF CopyInv, TypeOK, CopyIsBehind
    <2> QED BY <1>4, <2>1
<1>9. StaleIsExplained'
    <2> SUFFICES ASSUME Open, NEW q \in subs \ snapshot, NEW f \in Fields,
                        view[q][f] # changed'[q][f]
                 PROVE  OnItsWay(q, f)' \/ LossAdmitted(q)' \/ f \in superseded'[q]
        BY <1>1 DEF StaleIsExplained, Open
    <2>1. q \in Radios
        BY DEF CopyInv, TypeOK
    <2>2. CASE q = r /\ f \in patch
        <3>1. publishing'[g] = ev /\ ev.radio = q /\ ev.seq = changed'[q][f]
            BY <1>0, <1>1, <1>4, <2>2 DEF CopyInv, TypeOK
        <3> HIDE DEF g
        <3>2. g \in Publishers
            BY DEF g
        <3> QED BY <1>2, <3>1, <3>2 DEF OnItsWay
    <2>3. CASE ~(q = r /\ f \in patch)
        <3>1. changed'[q][f] = changed[q][f]
            BY <1>4, <2>1, <2>3
        <3>2. OnItsWay(q, f) \/ LossAdmitted(q) \/ f \in superseded[q]
            BY <3>1 DEF CopyInv, StaleIsExplained
        <3>3. \A h \in Publishers : publishing[h] # None => publishing'[h] = publishing[h]
            BY <1>1 DEF CopyInv, TypeOK
        <3>4. OnItsWay(q, f) => OnItsWay(q, f)'
            BY <1>1, <3>1, <3>3 DEF OnItsWay
        <3>5. LossAdmitted(q) => LossAdmitted(q)'
            BY <1>1 DEF LossAdmitted
        <3> QED BY <1>1, <3>2, <3>4, <3>5
    <2> QED BY <2>2, <2>3
<1> QED BY <1>3, <1>7, <1>8, <1>9 DEF CopyInv

\* A published event is in the hub's subscription, or its loss will be admitted
\* (subscribers.publish).
LEMMA PublishKeeps ==
    ASSUME CopyInv, NEW g \in Publishers, Publish(g)
    PROVE  CopyInv'
<1> DEFINE ev == [publishing[g] EXCEPT !.dropped = feedLost]
<1>1. /\ publishing[g] \in Event /\ publishing[g] # None
      /\ publishing' = [publishing EXCEPT ![g] = None]
      /\ UNCHANGED <<seq, changed, subs, pending, discrete, resync, snapshot>>
      /\ UNCHANGED <<stateLimited, resyncLimited, writer, wake, timer>>
      /\ UNCHANGED <<lastSeq, view, superseded, told, holes>>
    BY DEF Publish, CopyInv, TypeOK, laneVars, limitVars, writerVars, clientVars
<1>2. /\ ev \in Event /\ ev # None /\ ev.radio = publishing[g].radio
      /\ ev.seq = publishing[g].seq /\ ev.patch = publishing[g].patch
      /\ ev.dropped = feedLost
    <2>1. feedLost \in BOOLEAN
        BY DEF CopyInv, TypeOK
    <2> QED BY <1>1, <2>1 DEF Event, None
<1>3. \/ /\ feed' = Append(feed, ev) /\ feedLost' = FALSE
         /\ feed' \in Seq(Event) /\ Len(feed') = Len(feed) + 1 /\ Len(feed') <= FeedSize
         /\ \A i \in 1..Len(feed) : feed'[i] = feed[i]
         /\ feed'[Len(feed) + 1] = ev
      \/ feed' = feed /\ feedLost' = TRUE
    <2> HIDE DEF ev
    <2>1. feed \in Seq(Event) /\ Len(feed) \in Nat
        BY LenProperties DEF CopyInv, TypeOK
    <2>2. \/ Len(feed) < FeedSize /\ feed' = Append(feed, ev) /\ feedLost' = FALSE
          \/ feed' = feed /\ feedLost' = TRUE
        BY DEF Publish, ev
    <2> QED BY <1>2, <2>1, <2>2, AppendProperties, StreamAssumption
<1> HIDE DEF ev
<1>4. \A h \in Publishers : publishing'[h] = IF h = g THEN None ELSE publishing[h]
    BY <1>1 DEF CopyInv, TypeOK
<1>5. Len(feed) \in Nat
    BY LenProperties DEF CopyInv, TypeOK
<1>6. TypeOK'
    <2>1. publishing' \in [Publishers -> Event \cup {None}]
        BY <1>1 DEF CopyInv, TypeOK
    <2> QED BY <1>1, <1>3, <2>1 DEF CopyInv, TypeOK
<1>7. EventsAreTrue'
    <2>1. TrueEvent(ev)
        BY <1>1, <1>2 DEF CopyInv, EventsAreTrue, TrueEvent
    <2>2. \A i \in 1..Len(feed') : TrueEvent(feed'[i])
        BY <1>3, <1>5, <2>1 DEF CopyInv, EventsAreTrue
    <2>3. \A h \in Publishers : publishing'[h] # None => TrueEvent(publishing'[h])
        BY <1>4 DEF CopyInv, EventsAreTrue
    <2> QED BY <1>1, <2>2, <2>3 DEF CopyInv, EventsAreTrue, TrueEvent
<1>8. CopyIsBehind'
    BY <1>1 DEF CopyInv, CopyIsBehind
<1>9. StaleIsExplained'
    <2> SUFFICES ASSUME Open, NEW q \in subs \ snapshot, NEW f \in Fields,
                        view[q][f] # changed[q][f]
                 PROVE  OnItsWay(q, f)' \/ LossAdmitted(q)' \/ f \in superseded'[q]
        BY <1>1 DEF StaleIsExplained, Open
    <2>1. OnItsWay(q, f) \/ LossAdmitted(q) \/ f \in superseded[q]
        BY DEF CopyInv, StaleIsExplained
    <2>2. CASE feedLost'
        BY <2>2 DEF LossAdmitted
    <2>3. CASE ~feedLost'
        <3>1. /\ Len(feed') = Len(feed) + 1 /\ feed'[Len(feed')] = ev
              /\ Len(feed') \in 1..Len(feed')
              /\ \A i \in 1..Len(feed) : i \in 1..Len(feed') /\ feed'[i] = feed[i]
            BY <1>3, <1>5, <2>3
        <3>2. OnItsWay(q, f) => OnItsWay(q, f)'
            <4>1. CASE \E h \in Publishers :
                          /\ publishing[h] # None /\ publishing[h].radio = q
                          /\ publishing[h].seq = changed[q][f]
                <5>1. PICK h \in Publishers :
                          /\ publishing[h] # None /\ publishing[h].radio = q
                          /\ publishing[h].seq = changed[q][f]
                    BY <4>1
                <5>2. CASE h = g
                    BY <1>1, <1>2, <3>1, <5>1, <5>2 DEF OnItsWay
                <5>3. CASE h # g
                    BY <1>1, <1>4, <5>1, <5>3 DEF OnItsWay
                <5> QED BY <5>2, <5>3
            <4>2. CASE \E i \in 1..Len(feed) :
                          /\ feed[i] # None /\ feed[i].radio = q
                          /\ feed[i].seq = changed[q][f]
                BY <1>1, <3>1, <4>2 DEF OnItsWay
            <4>3. CASE /\ q \in DOMAIN pending /\ pending[q] # None
                       /\ pending[q].radio = q /\ pending[q].seq = changed[q][f]
                BY <1>1, <4>3 DEF OnItsWay
            <4> QED BY <4>1, <4>2, <4>3 DEF OnItsWay
        <3>3. LossAdmitted(q) => LossAdmitted(q)'
            BY <1>1, <1>2, <3>1 DEF LossAdmitted
        <3> QED BY <1>1, <2>1, <3>2, <3>3
    <2> QED BY <2>2, <2>3
<1> QED BY <1>6, <1>7, <1>8, <1>9 DEF CopyInv
\* The next event is what the lanes now hold, or stands for what they let go
\* (client.enqueue): one that does not carry a field of the event it replaces
\* onward leaves that field among the superseded.
LEMMA EnqueueKeeps == CopyInv /\ Enqueue => CopyInv'
<1> SUFFICES ASSUME CopyInv, Enqueue PROVE CopyInv'
    OBVIOUS
<1>0. PICK ev : ev = Head(feed)
    OBVIOUS
<1>1. /\ feed # <<>> /\ feed' = Tail(feed)
      /\ UNCHANGED <<seq, changed, publishing, feedLost, stateLimited, resyncLimited>>
      /\ UNCHANGED <<writer, timer, lastSeq, view, told>>
    BY DEF Enqueue, cacheVars, limitVars
<1>2. /\ feed \in Seq(Event) /\ Len(feed) \in Nat /\ Len(feed) <= FeedSize
      /\ feed' \in Seq(Event) /\ Len(feed') = Len(feed) - 1 /\ 1 \in 1..Len(feed)
      /\ \A i \in 1..Len(feed') : i + 1 \in 1..Len(feed) /\ feed'[i] = feed[i + 1]
      /\ \A i \in 1..Len(feed) : i = 1 \/ (i - 1 \in 1..Len(feed') /\ feed'[i - 1] = feed[i])
      /\ ev = feed[1] /\ ev \in Event
    <2>1. feed \in Seq(Event) /\ Len(feed) \in Nat /\ Len(feed) <= FeedSize
        BY LenProperties DEF CopyInv, TypeOK
    <2>2. /\ Head(feed) = feed[1] /\ Tail(feed) \in Seq(Event)
          /\ Len(Tail(feed)) = Len(feed) - 1
          /\ \A i \in 1..Len(Tail(feed)) : Tail(feed)[i] = feed[i + 1]
        BY <1>1, <2>1, HeadTailProperties
    <2>3. Len(feed) # 0
        BY <1>1, <2>1, EmptySeq
    <2>4. feed[1] \in Event
        BY <2>1, <2>3, ElementOfSeq
    <2> QED BY <1>0, <1>1, <2>1, <2>2, <2>3, <2>4
<1>3. TrueEvent(ev) /\ ev # None
    <2>1. None \notin Event
        BY DEF Event, None, Kinds
    <2> QED BY <1>2, <2>1 DEF CopyInv, EventsAreTrue
<1>types. ASSUME subs' = subs, DOMAIN pending' \subseteq subs, wake' \in BOOLEAN,
             \A r \in DOMAIN pending' : pending'[r] \in Event /\ pending'[r].radio = r,
             discrete' \in Seq(subs), Len(discrete') <= QueueCap,
             resync' \subseteq subs, snapshot' = snapshot,
             superseded' \in [Radios -> SUBSET Fields], holes' \subseteq Radios
      PROVE  TypeOK'
    <2>1. feed' \in Seq(Event) /\ Len(feed') <= FeedSize
        BY <1>2, StreamAssumption
    <2>2. /\ seq' \in [Radios -> 0..MaxSeq]
          /\ changed' \in [Radios -> [Fields -> 0..MaxSeq]]
          /\ publishing' \in [Publishers -> Event \cup {None}]
          /\ feedLost' \in BOOLEAN /\ timer' \in BOOLEAN
          /\ lastSeq' \in [Radios -> 0..MaxSeq]
          /\ view' \in [Radios -> [Fields -> 0..MaxSeq]]
        BY <1>1 DEF CopyInv, TypeOK
    <2>3. /\ stateLimited' \subseteq Radios /\ resyncLimited' \subseteq Radios
          /\ writer' \in {"drain", "wait", "stopped"} /\ told' \subseteq Radios
          /\ subs' \subseteq Radios /\ snapshot' \subseteq subs'
        BY <1>1, <1>types DEF CopyInv, TypeOK
    <2> QED BY <1>types, <2>1, <2>2, <2>3 DEF TypeOK
<1>4. CopyIsBehind'
    BY <1>1 DEF CopyInv, CopyIsBehind
<1>5. \A i \in 1..Len(feed') : TrueEvent(feed'[i])
    BY <1>2 DEF CopyInv, EventsAreTrue
\* What the feed held is in the feed still, or is the event taken.
<1>6. ASSUME NEW q \in Radios, NEW f \in Fields, OnItsWay(q, f), ~OnItsWay(q, f)',
             \A r \in DOMAIN pending :
                r # ev.radio => r \in DOMAIN pending' /\ pending'[r] = pending[r]
      PROVE  /\ q = ev.radio
             /\ \/ ev.seq = changed[q][f]
                \/ q \in DOMAIN pending /\ pending[q].seq = changed[q][f]
    <2> DEFINE Carries(e) == e # None /\ e.radio = q /\ e.seq = changed[q][f]
    <2>1. CASE \E h \in Publishers : Carries(publishing[h])
        BY <1>1, <1>6, <2>1 DEF OnItsWay
    <2>2. CASE \E i \in 1..Len(feed) : Carries(feed[i])
        <3>1. PICK i \in 1..Len(feed) : Carries(feed[i])
            BY <2>2
        <3>2. CASE i = 1
            BY <1>2, <3>1, <3>2
        <3>3. CASE i # 1
            BY <1>1, <1>2, <1>6, <3>1, <3>3 DEF OnItsWay
        <3> QED BY <3>2, <3>3
    <2>3. CASE q \in DOMAIN pending /\ Carries(pending[q])
        BY <1>1, <1>6, <2>3 DEF OnItsWay
    <2> QED BY <1>6, <2>1, <2>2, <2>3 DEF OnItsWay
<1>7. CASE ~Open
    <2>1. UNCHANGED <<subs, pending, discrete, resync, snapshot, wake, superseded, holes>>
        BY <1>7 DEF Enqueue, laneVars
    <2>2. StaleIsExplained'
        BY <1>1, <1>7 DEF StaleIsExplained, Open
    <2>3. TypeOK'
        BY <1>types, <2>1 DEF CopyInv, TypeOK
    <2>4. EventsAreTrue'
        BY <1>1, <1>5, <2>1 DEF CopyInv, EventsAreTrue, TrueEvent
    <2> QED BY <1>4, <2>2, <2>3, <2>4 DEF CopyInv
<1>8. CASE Open /\ ev.radio \notin subs
    <2>1. /\ resync' = IF ev.dropped THEN subs ELSE resync
          /\ wake' = (wake \/ ev.dropped)
          /\ UNCHANGED <<subs, pending, discrete, snapshot, superseded, holes>>
        BY <1>0, <1>8 DEF Enqueue
    <2>2. wake' \in BOOLEAN
        BY <1>2, <2>1 DEF CopyInv, TypeOK, Event
    <2>3. TypeOK'
        BY <1>types, <2>1, <2>2 DEF CopyInv, TypeOK
    <2>4. EventsAreTrue'
        BY <1>1, <1>5, <2>1 DEF CopyInv, EventsAreTrue, TrueEvent
    <2>5. StaleIsExplained'
        <3> SUFFICES ASSUME NEW q \in subs \ snapshot, NEW f \in Fields,
                            view[q][f] # changed[q][f]
                     PROVE  OnItsWay(q, f)' \/ LossAdmitted(q)' \/ f \in superseded[q]
            BY <1>1, <2>1 DEF StaleIsExplained
        <3>1. OnItsWay(q, f) \/ LossAdmitted(q) \/ f \in superseded[q]
            BY <1>8 DEF CopyInv, StaleIsExplained
        <3>2. q \in Radios /\ q # ev.radio
            BY <1>8 DEF CopyInv, TypeOK
        <3>3. OnItsWay(q, f) => OnItsWay(q, f)'
            BY <1>6, <2>1, <3>2
        <3>4. LossAdmitted(q) => LossAdmitted(q)'
            BY <1>1, <1>2, <2>1 DEF LossAdmitted
        <3> QED BY <3>1, <3>3, <3>4
    <2> QED BY <1>4, <2>3, <2>4, <2>5 DEF CopyInv
<1>9. CASE Open /\ ev.radio \in subs
    <2>1. /\ PushDiscrete(ev)
          /\ pending' = [r \in DOMAIN pending \cup {ev.radio} |->
                            IF r = ev.radio THEN ev ELSE pending[r]]
          /\ superseded' = IF ev.radio \in DOMAIN pending
                           THEN [superseded EXCEPT ![ev.radio] =
                                   @ \cup ReplacedBy(pending[ev.radio], ev)]
                           ELSE superseded
          /\ wake' = TRUE
          /\ UNCHANGED <<subs, snapshot>>
        BY <1>0, <1>9 DEF Enqueue
    <2>2. discrete' \in Seq(subs) /\ Len(discrete') <= QueueCap
        <3>1. /\ discrete \in Seq(subs) /\ Len(discrete) <= QueueCap
              /\ Append(discrete, ev.radio) \in Seq(subs)
              /\ Len(Append(discrete, ev.radio)) = Len(discrete) + 1
              /\ <<>> \in Seq(subs) /\ Len(<<>>) = 0 /\ Len(discrete) \in Nat
            BY <1>9, AppendProperties, LenProperties, EmptySeq DEF CopyInv, TypeOK
        <3>2. \/ discrete' = discrete \/ discrete' = <<>>
              \/ discrete' = Append(discrete, ev.radio) /\ Len(discrete) < QueueCap
            BY <2>1, <3>1, StreamAssumption DEF PushDiscrete, Overflows
        <3>3. Len(discrete') <= QueueCap
            BY <3>1, <3>2, StreamAssumption
        <3>4. discrete' \in Seq(subs)
            BY <3>1, <3>2
        <3> QED BY <3>3, <3>4
    <2>3. resync \subseteq resync' /\ resync' \subseteq subs
          /\ (ev.dropped => resync' = subs)
        BY <2>1 DEF PushDiscrete, CopyInv, TypeOK
    <2>4. holes' \subseteq Radios
        <3>1. \A i \in 1..Len(discrete) : discrete[i] \in subs
            BY ElementOfSeq DEF CopyInv, TypeOK
        <3> QED BY <1>9, <2>1, <3>1 DEF PushDiscrete, CopyInv, TypeOK
    <2>5. superseded' \in [Radios -> SUBSET Fields]
        BY <1>9, <2>1 DEF CopyInv, TypeOK, ReplacedBy, Event
    <2>6. /\ DOMAIN pending' = DOMAIN pending \cup {ev.radio}
          /\ pending'[ev.radio] = ev
          /\ \A r \in DOMAIN pending : r # ev.radio => pending'[r] = pending[r]
        BY <2>1
    <2>7. TypeOK'
        <3>1. \A r \in DOMAIN pending' : pending'[r] \in Event /\ pending'[r].radio = r
            BY <1>2, <2>6 DEF CopyInv, TypeOK
        <3>2. DOMAIN pending' \subseteq subs
            BY <1>9, <2>6 DEF CopyInv, TypeOK
        <3> QED BY <1>types, <2>1, <2>2, <2>3, <2>4, <2>5, <3>1, <3>2
    <2>8. EventsAreTrue'
        BY <1>1, <1>3, <1>5, <2>6 DEF CopyInv, EventsAreTrue, TrueEvent
    <2>9. StaleIsExplained'
        <3> SUFFICES ASSUME NEW q \in subs \ snapshot, NEW f \in Fields,
                            view[q][f] # changed[q][f]
                     PROVE  OnItsWay(q, f)' \/ LossAdmitted(q)' \/ f \in superseded'[q]
            BY <1>1, <2>1 DEF StaleIsExplained
        <3>1. OnItsWay(q, f) \/ LossAdmitted(q) \/ f \in superseded[q]
            BY <1>9 DEF CopyInv, StaleIsExplained
        <3>2. q \in Radios
            BY DEF CopyInv, TypeOK
        <3>3. f \in superseded[q] => f \in superseded'[q]
            BY <2>1, <3>2 DEF CopyInv, TypeOK
        <3>4. LossAdmitted(q) => LossAdmitted(q)'
            BY <1>1, <1>2, <2>3 DEF LossAdmitted
        <3>5. ASSUME OnItsWay(q, f), ~OnItsWay(q, f)' PROVE f \in superseded'[q]
            <4>1. /\ q = ev.radio
                  /\ \/ ev.seq = changed[q][f]
                     \/ q \in DOMAIN pending /\ pending[q].seq = changed[q][f]
                BY <1>6, <2>6, <3>2, <3>5
            <4>2. ev.seq # changed[q][f]
                BY <1>1, <1>3, <2>6, <3>5, <4>1 DEF OnItsWay
            <4>3. /\ q \in DOMAIN pending /\ pending[q] \in Event /\ pending[q].radio = q
                  /\ pending[q].seq = changed[q][f] /\ TrueEvent(pending[q])
                BY <4>1, <4>2 DEF CopyInv, TypeOK, EventsAreTrue
            <4>4. f \in pending[q].patch
                BY <4>3 DEF TrueEvent
            <4>5. f \in ev.patch => changed[q][f] >= ev.seq
                BY <1>3, <4>1 DEF TrueEvent
            <4>6. ev.seq \in Nat /\ pending[q].seq \in Nat
                BY <1>2, <4>3 DEF Event
            <4>7. f \in ReplacedBy(pending[q], ev)
                BY <4>2, <4>3, <4>4, <4>5, <4>6 DEF ReplacedBy
            <4> QED BY <2>1, <3>2, <4>1, <4>3, <4>7 DEF CopyInv, TypeOK
        <3> QED BY <3>1, <3>3, <3>4, <3>5
    <2> QED BY <1>4, <2>7, <2>8, <2>9 DEF CopyInv
<1> QED BY <1>7, <1>8, <1>9
\* A new subscription owes a snapshot to the radios it adds, and forgets the
\* others (client.setRadios).
LEMMA SetRadiosKeeps ==
    ASSUME CopyInv, NEW S \in SUBSET Radios, SetRadios(S)
    PROVE  CopyInv'
<1>1. /\ Open /\ subs' = S
      /\ pending' = [r \in DOMAIN pending \cap S |-> pending[r]]
      /\ discrete' = Kept(discrete, S)
      /\ resync' = resync \cap S
      /\ snapshot' = (snapshot \cup (S \ subs)) \cap S
      /\ holes' = holes \cap S /\ wake' = TRUE
      /\ UNCHANGED <<seq, changed, publishing, feed, feedLost>>
      /\ UNCHANGED <<stateLimited, resyncLimited, writer, timer>>
      /\ UNCHANGED <<lastSeq, view, superseded, told>>
    BY DEF SetRadios, cacheVars, feedVars, limitVars, clientVars
<1>2. /\ DOMAIN pending' = DOMAIN pending \cap S
      /\ \A r \in DOMAIN pending \cap S : pending'[r] = pending[r]
    BY <1>1
<1>3. discrete' \in Seq(S) /\ Len(discrete') <= QueueCap
    <2>1. discrete \in Seq(subs) /\ Len(discrete) <= QueueCap /\ Len(discrete) \in Nat
        BY LenProperties DEF CopyInv, TypeOK
    <2>2. Kept(discrete, S) \in Seq(subs \cap S) /\ Len(Kept(discrete, S)) <= Len(discrete)
        BY <2>1, KeptType
    <2>3. Len(Kept(discrete, S)) \in Nat
        BY <2>2, LenProperties
    <2>4. Seq(subs \cap S) \subseteq Seq(S)
        BY SeqMonotonic
    <2> QED BY <1>1, <2>1, <2>2, <2>3, <2>4, StreamAssumption
<1>4. TypeOK'
    BY <1>1, <1>2, <1>3 DEF CopyInv, TypeOK
<1>5. EventsAreTrue'
    BY <1>1, <1>2 DEF CopyInv, EventsAreTrue, TrueEvent
<1>6. CopyIsBehind'
    BY <1>1 DEF CopyInv, CopyIsBehind
<1>7. StaleIsExplained'
    <2> SUFFICES ASSUME NEW q \in subs' \ snapshot', NEW f \in Fields,
                        view[q][f] # changed[q][f]
                 PROVE  OnItsWay(q, f)' \/ LossAdmitted(q)' \/ f \in superseded[q]
        BY <1>1 DEF StaleIsExplained
    <2>1. q \in S /\ q \in subs \ snapshot
        BY <1>1
    <2>2. OnItsWay(q, f) \/ LossAdmitted(q) \/ f \in superseded[q]
        BY <1>1, <2>1 DEF CopyInv, StaleIsExplained
    <2>3. OnItsWay(q, f) => OnItsWay(q, f)'
        BY <1>1, <1>2, <2>1 DEF OnItsWay
    <2>4. LossAdmitted(q) => LossAdmitted(q)'
        BY <1>1, <2>1 DEF LossAdmitted
    <2> QED BY <2>2, <2>3, <2>4
<1> QED BY <1>4, <1>5, <1>6, <1>7 DEF CopyInv

\* A snapshot makes the copy right.  A delta makes right the fields it set last,
\* and what it names of the others is stale for the reason it was before.  A
\* delta that is not written is superseded, and its fields are let go
\* (client.drain, stateMessageLocked).
LEMMA DrainKeeps == CopyInv /\ Drain => CopyInv'
<1> SUFFICES ASSUME CopyInv, Drain PROVE CopyInv'
    OBVIOUS
<1>1. /\ writer' = "wait" /\ Open /\ discrete' = <<>> /\ snapshot' = {}
      /\ resync' = resync \ ResyncDue /\ resyncLimited' = resyncLimited \cup ResyncDue
      /\ told' = (told \cup ResyncDue) \ snapshot /\ holes' = holes \ ResyncDue
      /\ pending' = [r \in DOMAIN pending \ DeltaDue |-> pending[r]]
      /\ lastSeq' = [r \in Radios |->
            IF r \in snapshot THEN seq[r]
            ELSE IF r \in DeltaDue /\ Fresh(r) THEN pending[r].seq ELSE lastSeq[r]]
      /\ view' = [r \in Radios |-> Merge(r)]
      /\ superseded' = [r \in Radios |->
            IF r \in snapshot THEN {} ELSE superseded[r] \cup LetGo(r)]
      /\ stateLimited' = stateLimited \cup snapshot \cup {r \in DeltaDue : Fresh(r)}
      /\ timer' = (HeldBack # {})
      /\ UNCHANGED <<seq, changed, publishing, feed, feedLost, subs, wake>>
    BY DEF Drain, Open, cacheVars, feedVars
<1>2. /\ DOMAIN pending' = DOMAIN pending \ DeltaDue
      /\ \A r \in DOMAIN pending \ DeltaDue : pending'[r] = pending[r]
    BY <1>1
<1>3. /\ DeltaDue \subseteq DOMAIN pending /\ DOMAIN pending \subseteq Radios
      /\ ResyncDue \subseteq Radios /\ snapshot \subseteq Radios
      /\ DeltaDue \cap snapshot = {}
    BY DEF DeltaDue, ResyncDue, CopyInv, TypeOK
<1>4. \A r \in DOMAIN pending :
          /\ pending[r].radio = r /\ pending[r].seq \in 1..MaxSeq
          /\ pending[r].patch \subseteq Fields
          /\ TrueEvent(pending[r])
    BY DEF CopyInv, TypeOK, EventsAreTrue, Event
<1>5. \A r \in Radios :
          /\ seq[r] \in 0..MaxSeq /\ lastSeq[r] \in 0..MaxSeq
          /\ \A f \in Fields : changed[r][f] \in 0..MaxSeq /\ view[r][f] \in 0..MaxSeq
    BY DEF CopyInv, TypeOK
<1>6. ASSUME NEW r \in Radios
      PROVE  /\ lastSeq'[r] = IF r \in snapshot THEN seq[r]
                              ELSE IF r \in DeltaDue /\ Fresh(r) THEN pending[r].seq
                              ELSE lastSeq[r]
             /\ \A f \in Fields :
                    view'[r][f] = IF r \in snapshot THEN changed[r][f]
                                  ELSE IF r \in DeltaDue /\ Fresh(r) /\ f \in pending[r].patch
                                  THEN pending[r].seq ELSE view[r][f]
    BY <1>1 DEF Merge
<1>7. TypeOK'
    <2>1. lastSeq' \in [Radios -> 0..MaxSeq]
        BY <1>1, <1>3, <1>4, <1>5
    <2>2. view' \in [Radios -> [Fields -> 0..MaxSeq]]
        <3>1. ASSUME NEW r \in Radios PROVE Merge(r) \in [Fields -> 0..MaxSeq]
            <4>1. changed[r] \in [Fields -> 0..MaxSeq] /\ view[r] \in [Fields -> 0..MaxSeq]
                BY DEF CopyInv, TypeOK
            <4>2. ASSUME r \in DeltaDue
                  PROVE  [f \in Fields |-> IF f \in pending[r].patch THEN pending[r].seq
                                           ELSE view[r][f]] \in [Fields -> 0..MaxSeq]
                BY <1>3, <1>4, <1>5, <4>2
            <4> QED BY <4>1, <4>2 DEF Merge
        <3> QED BY <1>1, <3>1
    <2>3. superseded' \in [Radios -> SUBSET Fields]
        BY <1>1, <1>3, <1>4 DEF LetGo, CopyInv, TypeOK
    <2>4. timer' \in BOOLEAN
        BY <1>1
    <2>5. <<>> \in Seq(subs) /\ Len(<<>>) <= QueueCap
        BY EmptySeq, StreamAssumption
    <2>6. \A r \in DOMAIN pending' : pending'[r] \in Event /\ pending'[r].radio = r
        BY <1>2 DEF CopyInv, TypeOK
    <2> QED BY <1>1, <1>2, <1>3, <2>1, <2>2, <2>3, <2>4, <2>5, <2>6 DEF CopyInv, TypeOK
<1>8. EventsAreTrue'
    BY <1>1, <1>2 DEF CopyInv, EventsAreTrue, TrueEvent
<1>9. CopyIsBehind'
    <2> SUFFICES ASSUME NEW r \in Radios
                 PROVE  /\ lastSeq'[r] <= seq[r]
                        /\ \A f \in Fields :
                              /\ changed[r][f] <= seq[r]
                              /\ view'[r][f] <= changed[r][f] /\ view'[r][f] <= lastSeq'[r]
        BY <1>1 DEF CopyIsBehind
    <2>1. /\ lastSeq[r] <= seq[r]
          /\ \A f \in Fields : /\ changed[r][f] <= seq[r] /\ view[r][f] <= changed[r][f]
                               /\ view[r][f] <= lastSeq[r]
        BY DEF CopyInv, CopyIsBehind
    <2>2. CASE r \in snapshot
        BY <1>5, <1>6, <2>1, <2>2
    <2>3. CASE r \notin snapshot /\ r \in DeltaDue /\ Fresh(r)
        <3>1. /\ pending[r].seq > lastSeq[r] /\ pending[r].seq <= seq[r]
              /\ pending[r].seq \in Nat
              /\ \A f \in Fields : f \in pending[r].patch => pending[r].seq <= changed[r][f]
            BY <1>3, <1>4, <2>3 DEF Fresh, TrueEvent
        <3> QED BY <1>5, <1>6, <2>1, <2>3, <3>1
    <2>4. CASE r \notin snapshot /\ ~(r \in DeltaDue /\ Fresh(r))
        BY <1>6, <2>1, <2>4
    <2> QED BY <2>2, <2>3, <2>4
<1>10. StaleIsExplained'
    <2> SUFFICES ASSUME NEW q \in subs, NEW f \in Fields, view'[q][f] # changed[q][f]
                 PROVE  OnItsWay(q, f)' \/ LossAdmitted(q)' \/ f \in superseded'[q]
        BY <1>1 DEF StaleIsExplained
    <2>1. q \in Radios
        BY DEF CopyInv, TypeOK
    <2>2. q \notin snapshot
        BY <1>6, <2>1
    <2>3. superseded'[q] = superseded[q] \cup LetGo(q)
        BY <1>1, <2>1, <2>2
    <2>4. LossAdmitted(q) => LossAdmitted(q)'
        BY <1>1, <2>2 DEF LossAdmitted
    <2>5. ASSUME OnItsWay(q, f), ~OnItsWay(q, f)'
          PROVE  q \in DeltaDue /\ pending[q].seq = changed[q][f]
        BY <1>1, <1>2, <2>5 DEF OnItsWay
    <2>6. q \in DeltaDue =>
              /\ pending[q].seq \in Nat
              /\ pending[q].seq = changed[q][f] => f \in pending[q].patch
              /\ f \in pending[q].patch => pending[q].seq <= changed[q][f]
        BY <1>3, <1>4 DEF TrueEvent
    <2>7. view[q][f] <= lastSeq[q] /\ view[q][f] <= changed[q][f] /\ lastSeq[q] \in Nat
          /\ view[q][f] \in Nat /\ changed[q][f] \in Nat
        BY <1>5, <2>1 DEF CopyInv, CopyIsBehind
    <2>8. CASE q \in DeltaDue /\ Fresh(q)
        <3>1. pending[q].seq > lastSeq[q]
            BY <2>8 DEF Fresh
        <3>2. /\ f \in pending[q].patch => view'[q][f] = pending[q].seq
              /\ f \notin pending[q].patch => view'[q][f] = view[q][f]
            BY <1>6, <2>1, <2>2, <2>8
        <3>3. view[q][f] # changed[q][f] /\ pending[q].seq # changed[q][f]
            BY <2>6, <2>7, <2>8, <3>1, <3>2
        <3>4. OnItsWay(q, f) \/ LossAdmitted(q) \/ f \in superseded[q]
            BY <1>1, <2>2, <3>3 DEF CopyInv, StaleIsExplained
        <3> QED BY <2>3, <2>4, <2>5, <3>3, <3>4
    <2>9. CASE ~(q \in DeltaDue /\ Fresh(q))
        <3>1. view'[q][f] = view[q][f]
            BY <1>6, <2>1, <2>2, <2>9
        <3>2. OnItsWay(q, f) \/ LossAdmitted(q) \/ f \in superseded[q]
            BY <1>1, <2>2, <3>1 DEF CopyInv, StaleIsExplained
        <3>3. ASSUME OnItsWay(q, f), ~OnItsWay(q, f)' PROVE f \in LetGo(q)
            BY <2>5, <2>6, <2>7, <2>9, <3>1, <3>3 DEF LetGo
        <3> QED BY <2>3, <2>4, <3>2, <3>3
    <2> QED BY <2>8, <2>9
<1> QED BY <1>7, <1>8, <1>9, <1>10 DEF CopyInv
\* The writer's select, the ends of intervals and the end of the client touch
\* neither the copy nor what there is to be told.
LEMMA WriterKeeps ==
    ASSUME CopyInv,
           \/ WakeUp \/ TimerFires \/ Stop
           \/ \E r \in Radios : StateIntervalEnds(r) \/ ResyncIntervalEnds(r)
    PROVE  CopyInv'
<1>1. /\ UNCHANGED <<seq, changed, publishing, feed, feedLost>>
      /\ UNCHANGED <<subs, pending, discrete, resync, snapshot>>
      /\ UNCHANGED <<lastSeq, view, superseded, told, holes>>
    BY DEF WakeUp, TimerFires, Stop, StateIntervalEnds, ResyncIntervalEnds,
           cacheVars, feedVars, laneVars, clientVars
<1>2. /\ stateLimited' \subseteq Radios /\ resyncLimited' \subseteq Radios
      /\ writer' \in {"drain", "wait", "stopped"} /\ (Open' => Open)
      /\ wake' \in BOOLEAN /\ timer' \in BOOLEAN
    BY DEF WakeUp, TimerFires, Stop, StateIntervalEnds, ResyncIntervalEnds, Open,
           limitVars, writerVars, CopyInv, TypeOK
<1>3. TypeOK'
    BY <1>1, <1>2 DEF CopyInv, TypeOK
<1>4. EventsAreTrue'
    BY <1>1 DEF CopyInv, EventsAreTrue, TrueEvent
<1>5. CopyIsBehind'
    BY <1>1 DEF CopyInv, CopyIsBehind
<1>6. StaleIsExplained'
    BY <1>1, <1>2 DEF CopyInv, StaleIsExplained, OnItsWay, LossAdmitted
<1> QED BY <1>3, <1>4, <1>5, <1>6 DEF CopyInv

\* CopyInv is inductive.
LEMMA CopyStep == CopyInv /\ [Next]_vars => CopyInv'
<1> SUFFICES ASSUME CopyInv, [Next]_vars PROVE CopyInv'
    OBVIOUS
<1>1. ASSUME NEW r \in Radios, ApplyUpdate(r) \/ ApplyConn(r) PROVE CopyInv'
    <2>1. <<r, "reader">> \in Publishers /\ <<r, "supervisor">> \in Publishers
        BY DEF Publishers
    <2>2. {"connected"} \in SUBSET Fields /\ "state" \in Kinds /\ "conn" \in Kinds
        BY StreamAssumption DEF Kinds
    <2> QED BY <1>1, <2>1, <2>2, StoreKeeps DEF ApplyUpdate, ApplyConn
<1>2. ASSUME NEW r \in Radios, NEW c \in Callers, RefreshCW(r, c) PROVE CopyInv'
    <2>1. <<r, c>> \in Publishers /\ {"cw"} \in SUBSET Fields /\ "cw" \in Kinds
        BY StreamAssumption DEF Publishers, Kinds
    <2> QED BY <1>2, <2>1, StoreKeeps DEF RefreshCW
<1>3. CASE UNCHANGED vars
    <2>1. /\ UNCHANGED <<seq, changed, publishing, feed, feedLost, subs, pending, discrete>>
          /\ UNCHANGED <<resync, snapshot, lastSeq, stateLimited, resyncLimited, writer>>
          /\ UNCHANGED <<wake, timer, view, superseded, told, holes>>
        BY <1>3 DEF vars, cacheVars, feedVars, laneVars, limitVars, writerVars, clientVars
    <2>2. TypeOK'
        BY <2>1 DEF CopyInv, TypeOK
    <2>3. EventsAreTrue' /\ CopyIsBehind'
        BY <2>1 DEF CopyInv, EventsAreTrue, TrueEvent, CopyIsBehind
    <2>4. StaleIsExplained'
        BY <2>1 DEF CopyInv, StaleIsExplained, OnItsWay, LossAdmitted, Open
    <2> QED BY <2>2, <2>3, <2>4 DEF CopyInv
<1> QED BY <1>1, <1>2, <1>3, PublishKeeps, EnqueueKeeps, SetRadiosKeeps, DrainKeeps,
           WriterKeeps DEF Next

\* A number is never written twice, but by a snapshot, nor a smaller after a greater.
LEMMA WrittenStep ==
    ASSUME CopyInv, [Next]_vars
    PROVE  \A r \in Radios :
              /\ lastSeq'[r] >= lastSeq[r]
              /\ view'[r] # view[r] /\ r \notin snapshot => lastSeq'[r] > lastSeq[r]
<1>1. \A r \in Radios : lastSeq[r] \in Nat /\ seq[r] \in Nat /\ lastSeq[r] <= seq[r]
    BY StreamAssumption DEF CopyInv, TypeOK, CopyIsBehind
<1>2. CASE UNCHANGED <<lastSeq, view>>
    BY <1>1, <1>2
<1>3. CASE Drain
    <2> SUFFICES ASSUME NEW r \in Radios
                 PROVE  /\ lastSeq'[r] >= lastSeq[r]
                        /\ view'[r] # view[r] /\ r \notin snapshot => lastSeq'[r] > lastSeq[r]
        OBVIOUS
    <2>1. /\ lastSeq'[r] = IF r \in snapshot THEN seq[r]
                           ELSE IF r \in DeltaDue /\ Fresh(r) THEN pending[r].seq
                           ELSE lastSeq[r]
          /\ view'[r] = Merge(r)
        BY <1>3 DEF Drain
    <2>2. r \in DeltaDue => pending[r].seq \in Nat
        BY DEF DeltaDue, CopyInv, TypeOK, Event
    <2> QED BY <1>1, <2>1, <2>2 DEF Merge, Fresh
<1> QED BY <1>2, <1>3 DEF Next, ApplyUpdate, ApplyConn, RefreshCW, Store, Publish, Enqueue,
           SetRadios, WakeUp, TimerFires, StateIntervalEnds, ResyncIntervalEnds, Stop,
           clientVars, vars

\* What a client that goes on reading has of a radio is stale only for a reason
\* that a message on its way or the protocol accounts for (client.enqueue,
\* client.drain, subscribers.publish).
THEOREM CopyExplained == StreamingSpec => []CopyIsExplained
<1> DEFINE Inv == machine = "lane" => CopyInv
<1>1. StreamingInit => Inv
    BY InitCopyInv DEF StreamingInit
<1>2. Inv /\ [StreamingNext]_streamingVars => Inv'
    <2> SUFFICES ASSUME Inv, [StreamingNext]_streamingVars, machine' = "lane"
                 PROVE  CopyInv'
        OBVIOUS
    <2>1. machine = "lane" /\ [Next]_vars
        BY DEF StreamingNext, OnLane, OnShared, OnMonitor, streamingVars
    <2> QED BY <2>1, CopyStep
<1>3. Inv => CopyIsExplained
    BY DEF CopyInv, CopyIsExplained
<1> QED BY <1>1, <1>2, <1>3, PTL DEF StreamingSpec

\* DESIGN.md section 9: the stream a client is written is strictly increasing per
\* radio (client.drain, stateMessageLocked).
THEOREM WrittenOnce == Spec => WrittenSeqIncreases
<1> DEFINE Increases == \A r \in Radios :
              /\ lastSeq'[r] >= lastSeq[r]
              /\ view'[r] # view[r] /\ r \notin snapshot => lastSeq'[r] > lastSeq[r]
<1>1. Init => CopyInv
    BY InitCopyInv
<1>2. CopyInv /\ [Next]_vars => CopyInv'
    BY CopyStep
<1>3. CopyInv /\ [Next]_vars => [Increases]_vars
    BY WrittenStep
<1>4. WrittenSeqIncreases <=> [][Increases]_vars
    BY DEF WrittenSeqIncreases
<1> QED BY <1>1, <1>2, <1>3, <1>4, PTL DEF Spec
-----------------------------------------------------------------------------
(* The program that follows a stream                                        *)

\* What appending does to a sequence.
LEMMA Appended ==
    ASSUME NEW M, NEW s \in Seq(M), NEW m \in M, NEW t, t = Append(s, m)
    PROVE  /\ t \in Seq(M) /\ Len(s) \in Nat /\ Len(t) = Len(s) + 1
           /\ t[Len(t)] = m /\ Len(t) \in 1..Len(t) /\ Len(t) > Len(s)
           /\ \A i \in 1..Len(s) : i \in 1..Len(t) /\ t[i] = s[i]
           /\ \A i \in 1..Len(t) : i \in 1..Len(s) \/ i = Len(t)
BY AppendProperties, LenProperties

\* A message and the values it brings.
LEMMA MessageType ==
    ASSUME NEW kind \in {"state", "delta", "resync"}, NEW F \in SUBSET Shown,
           NEW changes \in [F -> 0..MaxChanges]
    PROVE  [kind |-> kind, changed |-> changes] \in Follow!Message
BY DEF Follow!Message

\* What a message brings is of the fields shown.
LEMMA MessageValues ==
    ASSUME NEW m \in Follow!Message
    PROVE  /\ DOMAIN m.changed \subseteq Shown
           /\ \A f \in DOMAIN m.changed : m.changed[f] \in 0..MaxChanges
BY DEF Follow!Message

\* A resync brings no change.
LEMMA EmptyChange == <<>> \in [{} -> 0..MaxChanges]
<1>1. <<>> \in Seq(0..MaxChanges) /\ Len(<<>>) = 0
    BY EmptySeq
<1>2. <<>> \in [1..0 -> 0..MaxChanges]
    BY <1>1, LenProperties
<1>3. 1..0 = {}
    OBVIOUS
<1> QED BY <1>2, <1>3

\* A monitor just started (monitor.run).
LEMMA InitMonitorInv == Follow!Init => Follow!MonitorInv
<1> SUFFICES ASSUME Follow!Init PROVE Follow!MonitorInv
    OBVIOUS
<1>1. <<>> \in Seq(Follow!Message) /\ 0 \in 0..MaxChanges
    BY EmptySeq, StreamingAssumption
<1> QED BY <1>1 DEF Follow!Init, Follow!MonitorInv, Follow!TypeOK

\* What the server and the network do to a stream that is followed.
LEMMA ChangeKeeps ==
    ASSUME Follow!MonitorInv, NEW f \in Shown, Follow!Change(f)
    PROVE  Follow!MonitorInv'
<1>1. /\ count' = count + 1 /\ count' \in 0..MaxChanges
      /\ server' = [server EXCEPT ![f] = count']
      /\ UNCHANGED <<link, monitor, display, unhealed, faults>>
    BY StreamingAssumption DEF Follow!Change, Follow!MonitorInv, Follow!TypeOK
<1>2. /\ server' \in [Shown -> 0..MaxChanges] /\ server'[f] = count'
      /\ \A g \in Shown : g # f => server'[g] = server[g]
    BY <1>1 DEF Follow!MonitorInv, Follow!TypeOK
<1>3. \A m \in Follow!Message : DOMAIN m.changed \subseteq Shown
    BY MessageValues
<1>4. wire \in Seq(Follow!Message) /\ \A i \in 1..Len(wire) : wire[i] \in Follow!Message
    BY ElementOfSeq DEF Follow!MonitorInv, Follow!TypeOK
<1>5. CASE UNCHANGED <<wire, owed, missed>> /\ link # "open"
    BY <1>1, <1>2, <1>5 DEF Follow!MonitorInv, Follow!TypeOK
<1>6. CASE link = "open" /\ owed' = TRUE /\ missed' = missed \cup {f} /\ UNCHANGED wire
    <2>1. Follow!TypeOK'
        BY <1>1, <1>2, <1>6 DEF Follow!MonitorInv, Follow!TypeOK
    <2>2. \A n \in Nat, g \in Shown : /\ g # f /\ Follow!Brings(n, g) => Follow!Brings(n, g)'
                                      /\ Follow!Admits(n, g) => Follow!Admits(n, g)'
        BY <1>2, <1>6 DEF Follow!Brings, Follow!Admits
    <2>3. \A n \in Nat : Follow!Admits(n, f)'
        BY <1>6 DEF Follow!Admits
    <2>4. Follow!WireIsCorrected'
        <3> SUFFICES ASSUME NEW i \in 1..Len(wire), NEW g \in DOMAIN wire[i].changed
                     PROVE  \/ wire[i].changed[g] = server'[g]
                            \/ Follow!Brings(i, g)' \/ Follow!Admits(i, g)'
            BY <1>6 DEF Follow!WireIsCorrected
        <3>1. g \in Shown
            BY <1>3, <1>4
        <3> QED BY <1>2, <1>6, <2>2, <2>3, <3>1 DEF Follow!MonitorInv, Follow!WireIsCorrected
    <2>5. Follow!DisplayIsCorrected'
        <3> SUFFICES ASSUME NEW g \in Shown
                     PROVE  \/ display[g] = server'[g] \/ g \in unhealed
                            \/ Follow!Brings(0, g)' \/ Follow!Admits(0, g)'
                            \/ g \in missed' /\ monitor = "refetch"
            BY <1>1 DEF Follow!DisplayIsCorrected
        <3> QED BY <1>2, <1>6, <2>2, <2>3 DEF Follow!MonitorInv, Follow!DisplayIsCorrected
    <2> QED BY <2>1, <2>4, <2>5 DEF Follow!MonitorInv
<1>7. CASE /\ link = "open" /\ UNCHANGED <<owed, missed>>
           /\ wire' = Append(wire, [kind |-> "delta", changed |-> [g \in {f} |-> count']])
    <2>1. PICK m : m = [kind |-> "delta", changed |-> [g \in {f} |-> count']]
        OBVIOUS
    <2>2. /\ m \in Follow!Message /\ m.kind = "delta" /\ DOMAIN m.changed = {f}
          /\ m.changed[f] = count'
        <3>1. [g \in {f} |-> count'] \in [{f} -> 0..MaxChanges]
            BY <1>1
        <3> QED BY <2>1, <3>1, MessageType
    <2>3. /\ wire' \in Seq(Follow!Message) /\ Len(wire) \in Nat /\ Len(wire') = Len(wire) + 1
          /\ wire'[Len(wire')] = m /\ Len(wire') \in 1..Len(wire') /\ Len(wire') > Len(wire)
          /\ \A i \in 1..Len(wire) : i \in 1..Len(wire') /\ wire'[i] = wire[i]
          /\ \A i \in 1..Len(wire') : i \in 1..Len(wire) \/ i = Len(wire')
        BY <1>4, <1>7, <2>1, <2>2, Appended
    <2>4. Follow!TypeOK'
        BY <1>1, <1>2, <1>7, <2>3 DEF Follow!MonitorInv, Follow!TypeOK
    <2>5. \A n \in Nat, g \in Shown : /\ g # f /\ Follow!Brings(n, g) => Follow!Brings(n, g)'
                                      /\ Follow!Admits(n, g) => Follow!Admits(n, g)'
        BY <1>2, <1>7, <2>3 DEF Follow!Brings, Follow!Admits
    <2>6. \A n \in 0..Len(wire) : Follow!Brings(n, f)'
        BY <1>2, <2>2, <2>3 DEF Follow!Brings
    <2>7. Follow!WireIsCorrected'
        <3> SUFFICES ASSUME NEW i \in 1..Len(wire'), NEW g \in DOMAIN wire'[i].changed
                     PROVE  \/ wire'[i].changed[g] = server'[g]
                            \/ Follow!Brings(i, g)' \/ Follow!Admits(i, g)'
            BY DEF Follow!WireIsCorrected
        <3>1. CASE i = Len(wire')
            BY <1>2, <2>2, <2>3, <3>1
        <3>2. CASE i \in 1..Len(wire)
            <4>1. g \in Shown /\ g \in DOMAIN wire[i].changed
                BY <1>3, <1>4, <2>3, <3>2
            <4>2. i \in 0..Len(wire) /\ i \in Nat
                BY <3>2
            <4> QED BY <1>2, <1>7, <2>3, <2>5, <2>6, <3>2, <4>1, <4>2
                    DEF Follow!MonitorInv, Follow!WireIsCorrected
        <3> QED BY <2>3, <3>1, <3>2
    <2>8. Follow!DisplayIsCorrected'
        <3> SUFFICES ASSUME NEW g \in Shown
                     PROVE  \/ display[g] = server'[g] \/ g \in unhealed
                            \/ Follow!Brings(0, g)' \/ Follow!Admits(0, g)'
                            \/ g \in missed' /\ monitor = "refetch"
            BY <1>1 DEF Follow!DisplayIsCorrected
        <3>1. 0 \in Nat /\ 0 \in 0..Len(wire)
            BY <2>3
        <3>2. CASE g = f
            BY <2>6, <3>1, <3>2
        <3>3. CASE g # f
            BY <1>2, <1>7, <2>5, <3>1, <3>3 DEF Follow!MonitorInv, Follow!DisplayIsCorrected
        <3> QED BY <3>2, <3>3
    <2> QED BY <2>4, <2>7, <2>8 DEF Follow!MonitorInv
<1> QED BY <1>5, <1>6, <1>7 DEF Follow!Change

\* The resync is on its way for what was owed one.
LEMMA WriteResyncKeeps == Follow!MonitorInv /\ Follow!WriteResync => Follow!MonitorInv'
<1> SUFFICES ASSUME Follow!MonitorInv, Follow!WriteResync PROVE Follow!MonitorInv'
    OBVIOUS
<1>1. PICK m : m = [kind |-> "resync", changed |-> <<>>]
    OBVIOUS
<1>2. m \in Follow!Message /\ m.kind = "resync" /\ DOMAIN m.changed = {}
    BY <1>1, EmptyChange, MessageType
<1>3. /\ link = "open" /\ owed' = FALSE /\ wire' = Append(wire, m)
      /\ UNCHANGED <<server, count, link, monitor, display, unhealed, missed, faults>>
    BY <1>1 DEF Follow!WriteResync, Follow!historyVars
<1>4. /\ wire' \in Seq(Follow!Message) /\ Len(wire) \in Nat /\ Len(wire') = Len(wire) + 1
      /\ wire'[Len(wire')] = m /\ Len(wire') \in 1..Len(wire') /\ Len(wire') > Len(wire)
      /\ \A i \in 1..Len(wire) : i \in 1..Len(wire') /\ wire'[i] = wire[i]
      /\ \A i \in 1..Len(wire') : i \in 1..Len(wire) \/ i = Len(wire')
    BY <1>2, <1>3, Appended DEF Follow!MonitorInv, Follow!TypeOK
<1>5. Follow!TypeOK'
    BY <1>3, <1>4 DEF Follow!MonitorInv, Follow!TypeOK
<1>6. \A n \in 0..Len(wire), g \in Shown :
          /\ Follow!Brings(n, g) => Follow!Brings(n, g)'
          /\ Follow!Admits(n, g) => Follow!Admits(n, g)'
    BY <1>2, <1>3, <1>4 DEF Follow!Brings, Follow!Admits
<1>7. Follow!WireIsCorrected'
    <2> SUFFICES ASSUME NEW i \in 1..Len(wire'), NEW g \in DOMAIN wire'[i].changed
                 PROVE  \/ wire'[i].changed[g] = server[g]
                        \/ Follow!Brings(i, g)' \/ Follow!Admits(i, g)'
        BY <1>3 DEF Follow!WireIsCorrected
    <2>1. i \in 1..Len(wire) /\ i \in 0..Len(wire) /\ wire'[i] = wire[i]
        BY <1>2, <1>4
    <2>2. g \in Shown
        BY <2>1, ElementOfSeq, MessageValues DEF Follow!MonitorInv, Follow!TypeOK
    <2> QED BY <1>3, <1>6, <2>1, <2>2 DEF Follow!MonitorInv, Follow!WireIsCorrected
<1>8. Follow!DisplayIsCorrected'
    BY <1>3, <1>4, <1>6 DEF Follow!MonitorInv, Follow!DisplayIsCorrected
<1> QED BY <1>5, <1>7, <1>8 DEF Follow!MonitorInv

\* A message handled is on the display, and what it was wrong about is corrected
\* by what is behind it.
LEMMA HandlesKeeps == Follow!MonitorInv /\ Follow!Handles => Follow!MonitorInv'
<1> SUFFICES ASSUME Follow!MonitorInv, Follow!Handles PROVE Follow!MonitorInv'
    OBVIOUS
<1>1. /\ monitor = "live" /\ wire # <<>> /\ wire' = Tail(wire)
      /\ display' = [f \in Shown |-> Follow!Merge(f)]
      /\ monitor' = (IF Head(wire).kind = "resync" THEN "refetch" ELSE "live")
      /\ UNCHANGED <<server, count, owed, link, unhealed, missed, faults>>
    BY DEF Follow!Handles, Follow!serverVars, Follow!historyVars
<1>2. /\ wire \in Seq(Follow!Message) /\ Len(wire) \in Nat \ {0} /\ Head(wire) = wire[1]
      /\ wire[1] \in Follow!Message
      /\ wire' \in Seq(Follow!Message) /\ Len(wire') = Len(wire) - 1
      /\ \A i \in 1..Len(wire') : i + 1 \in 1..Len(wire) /\ wire'[i] = wire[i + 1]
      /\ \A i \in 1..Len(wire) : i > 1 => i - 1 \in 1..Len(wire') /\ wire'[i - 1] = wire[i]
    <2>1. wire \in Seq(Follow!Message) /\ Len(wire) \in Nat \ {0}
        BY <1>1, EmptySeq DEF Follow!MonitorInv, Follow!TypeOK
    <2> QED BY <1>1, <2>1, HeadTailProperties
<1>3. /\ DOMAIN wire[1].changed \subseteq Shown
      /\ \A f \in DOMAIN wire[1].changed : wire[1].changed[f] \in 0..MaxChanges
    BY <1>2, MessageValues
<1>4. \A f \in Shown : display'[f] = IF f \in DOMAIN wire[1].changed
                                     THEN wire[1].changed[f] ELSE display[f]
    BY <1>1, <1>2 DEF Follow!Merge
<1>5. Follow!TypeOK'
    <2>1. display' \in [Shown -> 0..MaxChanges]
        BY <1>1, <1>3, <1>4 DEF Follow!MonitorInv, Follow!TypeOK
    <2>2. monitor' \in {"live", "refetch"}
        BY <1>1
    <2> QED BY <1>1, <1>2, <2>1, <2>2 DEF Follow!MonitorInv, Follow!TypeOK
<1>6. ASSUME NEW n \in Nat, NEW g \in Shown
      PROVE  /\ Follow!Brings(n + 1, g) => Follow!Brings(n, g)'
             /\ Follow!Admits(n + 1, g) => Follow!Admits(n, g)'
    <2>1. ASSUME NEW i \in 1..Len(wire), i > n + 1
          PROVE  i - 1 \in 1..Len(wire') /\ i - 1 > n /\ wire'[i - 1] = wire[i]
        BY <1>2, <2>1
    <2> QED BY <1>1, <2>1 DEF Follow!Brings, Follow!Admits
<1>7. ASSUME link = "open" PROVE Follow!WireIsCorrected'
    <2> SUFFICES ASSUME NEW i \in 1..Len(wire'), NEW g \in DOMAIN wire'[i].changed
                 PROVE  \/ wire'[i].changed[g] = server[g]
                        \/ Follow!Brings(i, g)' \/ Follow!Admits(i, g)'
        BY <1>1 DEF Follow!WireIsCorrected
    <2>1. i \in Nat /\ i + 1 \in 1..Len(wire) /\ wire'[i] = wire[i + 1]
        BY <1>2
    <2>2. g \in Shown
        BY <2>1, ElementOfSeq, MessageValues DEF Follow!MonitorInv, Follow!TypeOK
    <2> QED BY <1>6, <1>7, <2>1, <2>2 DEF Follow!MonitorInv, Follow!WireIsCorrected
<1>8. ASSUME link = "open" PROVE Follow!DisplayIsCorrected'
    <2> SUFFICES ASSUME NEW g \in Shown
                 PROVE  \/ display'[g] = server[g] \/ g \in unhealed
                        \/ Follow!Brings(0, g)' \/ Follow!Admits(0, g)'
                        \/ g \in missed /\ monitor' = "refetch"
        BY <1>1 DEF Follow!DisplayIsCorrected
    <2>1. CASE g \in DOMAIN wire[1].changed
        <3>1. wire[1].changed[g] = server[g] \/ Follow!Brings(1, g) \/ Follow!Admits(1, g)
            BY <1>2, <1>8, <2>1 DEF Follow!MonitorInv, Follow!WireIsCorrected
        <3> QED BY <1>4, <1>6, <2>1, <3>1
    <2>2. CASE g \notin DOMAIN wire[1].changed
        <3>1. \/ display[g] = server[g] \/ g \in unhealed
              \/ Follow!Brings(0, g) \/ Follow!Admits(0, g)
            BY <1>1, <1>8 DEF Follow!MonitorInv, Follow!DisplayIsCorrected
        <3>2. Follow!Brings(0, g) => Follow!Brings(1, g)
            BY <1>2, <2>2 DEF Follow!Brings
        <3>3. Follow!Admits(0, g) => Follow!Admits(1, g) \/ (g \in missed /\ monitor' = "refetch")
            BY <1>1, <1>2 DEF Follow!Admits
        <3> QED BY <1>4, <1>6, <2>2, <3>1, <3>2, <3>3
    <2> QED BY <2>1, <2>2
<1> QED BY <1>1, <1>5, <1>7, <1>8 DEF Follow!MonitorInv
\* A refetch puts everything right that nobody is going to announce; a failed
\* one is remembered.
LEMMA RefetchesKeeps == Follow!MonitorInv /\ Follow!Refetches => Follow!MonitorInv'
<1> SUFFICES ASSUME Follow!MonitorInv, Follow!Refetches PROVE Follow!MonitorInv'
    OBVIOUS
<1>1. monitor = "refetch" /\ UNCHANGED <<server, count>>
    BY DEF Follow!Refetches
<1>2. CASE /\ monitor' = "live" /\ display' = server /\ unhealed' = {}
           /\ missed' = (IF owed \/ Follow!Announced THEN missed ELSE {})
           /\ UNCHANGED <<wire, link, owed>>
    <2>1. Follow!TypeOK'
        BY <1>1, <1>2 DEF Follow!MonitorInv, Follow!TypeOK
    <2>2. \A i \in 1..Len(wire) : wire[i].kind = "resync" => Follow!Announced
        BY LenProperties DEF Follow!Announced, Follow!ToSet, Follow!MonitorInv, Follow!TypeOK
    <2>3. \A n \in Nat, g \in Shown : /\ Follow!Brings(n, g) => Follow!Brings(n, g)'
                                      /\ Follow!Admits(n, g) => Follow!Admits(n, g)'
        BY <1>1, <1>2, <2>2 DEF Follow!Brings, Follow!Admits
    <2>4. ASSUME link = "open" PROVE Follow!WireIsCorrected'
        <3> SUFFICES ASSUME NEW i \in 1..Len(wire), NEW g \in DOMAIN wire[i].changed
                     PROVE  \/ wire[i].changed[g] = server[g]
                            \/ Follow!Brings(i, g)' \/ Follow!Admits(i, g)'
            BY <1>1, <1>2 DEF Follow!WireIsCorrected
        <3>1. g \in Shown /\ i \in Nat
            BY ElementOfSeq, MessageValues DEF Follow!MonitorInv, Follow!TypeOK
        <3> QED BY <2>3, <2>4, <3>1 DEF Follow!MonitorInv, Follow!WireIsCorrected
    <2>5. Follow!DisplayIsCorrected'
        BY <1>1, <1>2 DEF Follow!DisplayIsCorrected
    <2> QED BY <1>2, <2>1, <2>4, <2>5 DEF Follow!MonitorInv
<1>3. CASE /\ monitor' = "live" /\ unhealed' = unhealed \cup missed
           /\ UNCHANGED <<display, missed, wire, link, owed>>
    <2>1. Follow!TypeOK'
        BY <1>1, <1>3 DEF Follow!MonitorInv, Follow!TypeOK
    <2>2. link = "open" => Follow!WireIsCorrected'
        BY <1>1, <1>3 DEF Follow!MonitorInv, Follow!WireIsCorrected, Follow!Brings, Follow!Admits
    <2>3. link = "open" => Follow!DisplayIsCorrected'
        BY <1>1, <1>3 DEF Follow!MonitorInv, Follow!DisplayIsCorrected, Follow!Brings,
                          Follow!Admits
    <2> QED BY <1>3, <2>1, <2>2, <2>3 DEF Follow!MonitorInv
<1>4. CASE Follow!Ends /\ UNCHANGED <<display, unhealed, missed>>
    BY <1>1, <1>4, EmptySeq DEF Follow!Ends, Follow!MonitorInv, Follow!TypeOK
<1> QED BY <1>2, <1>3, <1>4 DEF Follow!Refetches, Follow!historyVars

\* A stream begins with a snapshot.
LEMMA DialsKeeps == Follow!MonitorInv /\ Follow!Dials => Follow!MonitorInv'
<1> SUFFICES ASSUME Follow!MonitorInv, Follow!Dials PROVE Follow!MonitorInv'
    OBVIOUS
<1>1. monitor = "dial" /\ UNCHANGED <<server, count, display>>
    BY DEF Follow!Dials
<1>2. CASE /\ monitor' = "live" /\ link' = "open"
           /\ wire' = <<[kind |-> "state", changed |-> server]>>
           /\ unhealed' = {} /\ missed' = {} /\ UNCHANGED owed
    <2>1. PICK m : m = [kind |-> "state", changed |-> server]
        OBVIOUS
    <2>2. m \in Follow!Message /\ m.changed = server /\ DOMAIN m.changed = Shown
        BY <2>1, MessageType DEF Follow!MonitorInv, Follow!TypeOK
    <2>3. /\ wire' \in Seq(Follow!Message) /\ Len(wire') = 1 /\ wire'[1] = m
        BY <1>2, <2>1, <2>2
    <2>4. Follow!TypeOK'
        BY <1>1, <1>2, <2>3 DEF Follow!MonitorInv, Follow!TypeOK
    <2>5. Follow!WireIsCorrected'
        BY <1>1, <2>2, <2>3 DEF Follow!WireIsCorrected
    <2>6. Follow!DisplayIsCorrected'
        BY <1>1, <2>2, <2>3 DEF Follow!DisplayIsCorrected, Follow!Brings
    <2> QED BY <2>4, <2>5, <2>6 DEF Follow!MonitorInv
<1>3. CASE monitor' = "sleep" /\ UNCHANGED <<link, wire, owed, unhealed, missed>>
    <2>1. Follow!TypeOK'
        BY <1>1, <1>3 DEF Follow!MonitorInv, Follow!TypeOK
    <2>2. link = "open" => Follow!WireIsCorrected' /\ Follow!DisplayIsCorrected'
        BY <1>1, <1>3 DEF Follow!MonitorInv, Follow!WireIsCorrected, Follow!DisplayIsCorrected,
                          Follow!Brings, Follow!Admits
    <2> QED BY <1>3, <2>1, <2>2 DEF Follow!MonitorInv
<1>4. CASE Follow!Ends /\ UNCHANGED <<unhealed, missed>>
    BY <1>1, <1>4, EmptySeq DEF Follow!Ends, Follow!MonitorInv, Follow!TypeOK
<1> QED BY <1>2, <1>3, <1>4 DEF Follow!Dials, Follow!historyVars

\* MonitorInv is inductive.
LEMMA MonitorStep == Follow!MonitorInv /\ [Follow!Next]_monitorVars => Follow!MonitorInv'
<1> SUFFICES ASSUME Follow!MonitorInv, [Follow!Next]_monitorVars PROVE Follow!MonitorInv'
    OBVIOUS
<1>1. CASE Follow!LinkFails
    <2>1. /\ link' \in {"dead", "closed"}
          /\ \/ UNCHANGED wire
             \/ \E n \in 0..Len(wire) : wire' = SubSeq(wire, 1, n)
          /\ UNCHANGED <<server, count, owed, monitor, display, unhealed, missed>>
        BY <1>1 DEF Follow!LinkFails, Follow!serverVars, Follow!historyVars
    <2>2. wire' \in Seq(Follow!Message)
        <3>1. wire \in Seq(Follow!Message) /\ Len(wire) \in Nat
            BY LenProperties DEF Follow!MonitorInv, Follow!TypeOK
        <3>2. ASSUME NEW n \in 0..Len(wire), wire' = SubSeq(wire, 1, n)
              PROVE  wire' \in Seq(Follow!Message)
            <4>1. \A i \in 1..n : wire[i] \in Follow!Message
                BY <3>1, ElementOfSeq
            <4> QED BY <3>1, <3>2, <4>1, SubSeqProperties
        <3> QED BY <2>1, <3>1, <3>2
    <2> QED BY <2>1, <2>2 DEF Follow!MonitorInv, Follow!TypeOK
<1>2. CASE Follow!FirstFetch \/ Follow!Wakes
    <2>1. /\ monitor # "refetch" /\ monitor' \in {"dial", "ended"}
          /\ display' \in {display, server}
          /\ UNCHANGED <<server, count, owed, wire, link, unhealed, missed>>
        BY <1>2 DEF Follow!FirstFetch, Follow!Wakes, Follow!serverVars, Follow!historyVars
    <2>2. Follow!TypeOK'
        BY <2>1 DEF Follow!MonitorInv, Follow!TypeOK
    <2>3. \A n \in Nat, g \in Shown : /\ Follow!Brings(n, g) <=> Follow!Brings(n, g)'
                                      /\ Follow!Admits(n, g) <=> Follow!Admits(n, g)'
        BY <2>1 DEF Follow!Brings, Follow!Admits
    <2>4. link = "open" => Follow!WireIsCorrected'
        BY <2>1 DEF Follow!MonitorInv, Follow!WireIsCorrected, Follow!Brings, Follow!Admits
    <2>5. link = "open" => Follow!DisplayIsCorrected'
        BY <2>1, <2>3 DEF Follow!MonitorInv, Follow!DisplayIsCorrected
    <2> QED BY <2>1, <2>2, <2>4, <2>5 DEF Follow!MonitorInv
<1>3. CASE Follow!StreamEnds \/ Follow!Keepalive \/ Follow!Interrupted
    <2>1. /\ link' \in {"none", "closed"} /\ wire' \in {wire, <<>>}
          /\ owed' \in BOOLEAN
          /\ monitor' \in {"start", "dial", "live", "refetch", "sleep", "ended"}
          /\ UNCHANGED <<server, count, display, unhealed, missed>>
        BY <1>3 DEF Follow!StreamEnds, Follow!Keepalive, Follow!Interrupted, Follow!Ends,
                    Follow!serverVars, Follow!historyVars, Follow!MonitorInv, Follow!TypeOK
    <2> QED BY <2>1, EmptySeq DEF Follow!MonitorInv, Follow!TypeOK
<1>4. CASE UNCHANGED monitorVars
    <2>1. UNCHANGED <<server, count, owed, wire, link, monitor, display, unhealed, missed>>
        BY <1>4 DEF monitorVars
    <2> QED BY <2>1 DEF Follow!MonitorInv, Follow!TypeOK, Follow!WireIsCorrected,
                        Follow!DisplayIsCorrected, Follow!Brings, Follow!Admits
<1> QED BY <1>1, <1>2, <1>3, <1>4, ChangeKeeps, WriteResyncKeeps, HandlesKeeps,
           RefetchesKeeps, DialsKeeps DEF Follow!Next, Follow!Works

\* A field that the monitor displays wrongly while its stream is live will be put
\* right by what is on its way, or a refetch failed (monitor.handle, monitor.run).
THEOREM DisplayExplained == StreamingSpec => []ShownIsExplained
<1>1. StreamingInit => Follow!MonitorInv
    BY InitMonitorInv DEF StreamingInit
<1>2. Follow!MonitorInv /\ [StreamingNext]_streamingVars => Follow!MonitorInv'
    <2> SUFFICES ASSUME Follow!MonitorInv, [StreamingNext]_streamingVars
                 PROVE  Follow!MonitorInv'
        OBVIOUS
    <2>1. [Follow!Next]_monitorVars
        BY DEF StreamingNext, OnLane, OnShared, OnMonitor, streamingVars
    <2> QED BY <2>1, MonitorStep
<1>3. Follow!MonitorInv => ShownIsExplained
    <2> SUFFICES ASSUME Follow!MonitorInv, monitor = "live", link = "open", NEW f \in Shown
                 PROVE  \/ display[f] = server[f]
                        \/ f \in unhealed \cup (IF owed THEN missed ELSE {})
                        \/ Follow!Announced
                        \/ \E m \in Follow!ToSet(wire) :
                               f \in DOMAIN m.changed /\ m.changed[f] = server[f]
        BY DEF ShownIsExplained, Follow!ShownIsExplained
    <2>1. \A i \in 1..Len(wire) : wire[i] \in Follow!ToSet(wire)
        BY LenProperties DEF Follow!ToSet, Follow!MonitorInv, Follow!TypeOK
    <2>2. \/ display[f] = server[f] \/ f \in unhealed
          \/ Follow!Brings(0, f) \/ Follow!Admits(0, f)
        BY DEF Follow!MonitorInv, Follow!DisplayIsCorrected
    <2> QED BY <2>1, <2>2 DEF Follow!Brings, Follow!Admits, Follow!Announced
<1> QED BY <1>1, <1>2, <1>3, PTL DEF StreamingSpec
=============================================================================
