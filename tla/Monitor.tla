------------------------------- MODULE Monitor -------------------------------
(***************************************************************************)
(* remoses-cli following one radio: cmd/remoses-cli/monitor.go over the    *)
(* client library (internal/client/stream.go).  It reads the state once    *)
(* over REST, then merges what the stream brings, refetches when the       *)
(* server admits a hole, notices a path that died silently by its own      *)
(* pings, and dials again until it is told to stop.                        *)
(*                                                                         *)
(* The server is what StateStream shows of it: a client is sent changes in *)
(* order, or some are lost and a resync is written sooner or later.        *)
(***************************************************************************)
EXTENDS Naturals, Sequences, SequencesExt

CONSTANTS
    Shown,      \* fields of the display
    Buffer,     \* messages the socket and the events channel hold
    MaxChanges, \* bound: changes of the radio
    MaxFaults   \* bound: failed requests, broken or closed connections

VARIABLES
    server,     \* server[f]: the change that gave f its value
    count,      \* changes so far
    owed,       \* the server has dropped something and not written the resync
    wire,       \* messages on their way to handle
    link,       \* "none", "open", "dead" when nothing passes any more, "closed"
    monitor,    \* where run stands
    display,    \* display[f]: the change displayed
    unhealed,   \* history: holes whose refetch failed
    missed,     \* history: fields whose change was dropped since the last refetch
    faults      \* faults so far

vars == <<server, count, owed, wire, link, monitor, display, unhealed, missed, faults>>
serverVars == <<server, count, owed>>
historyVars == <<unhealed, missed>>

Init ==
    /\ server = [f \in Shown |-> 0] /\ count = 0 /\ owed = FALSE
    /\ wire = <<>> /\ link = "none" /\ monitor = "start"
    /\ display = server /\ unhealed = {} /\ missed = {} /\ faults = 0

MayFail == faults < MaxFaults /\ faults' = faults + 1

-----------------------------------------------------------------------------
(* The server and the network                                               *)

\* The radio changes: written as a delta, or dropped when there is no room.
Change(f) ==
    /\ count < MaxChanges /\ count' = count + 1
    /\ server' = [server EXCEPT ![f] = count']
    /\ IF link # "open" THEN UNCHANGED <<wire, owed, missed>>
       ELSE \/ /\ Len(wire) < Buffer /\ ~owed
               /\ wire' = Append(wire, [kind |-> "delta", changed |-> [g \in {f} |-> count']])
               /\ UNCHANGED <<owed, missed>>
            \/ /\ owed' = TRUE /\ missed' = missed \cup {f}
               /\ UNCHANGED wire
    /\ UNCHANGED <<link, monitor, display, unhealed, faults>>

WriteResync ==
    /\ link = "open" /\ owed /\ Len(wire) < Buffer
    /\ wire' = Append(wire, [kind |-> "resync", changed |-> <<>>])
    /\ owed' = FALSE
    /\ UNCHANGED <<server, count, link, monitor, display, historyVars, faults>>

\* The path goes silent, or the server hangs up: what is buffered is read or not.
LinkFails ==
    /\ link = "open" /\ MayFail
    /\ \/ link' = "dead" /\ UNCHANGED wire
       \/ link' = "closed" /\ \E n \in 0..Len(wire) : wire' = SubSeq(wire, 1, n)
    /\ UNCHANGED <<serverVars, monitor, display, historyVars>>

-----------------------------------------------------------------------------
(* The monitor                                                              *)

Ends == monitor' = "ended" /\ link' = "none" /\ wire' = <<>> /\ owed' = FALSE

\* run: the first fetch, whose failure is fatal.
FirstFetch ==
    /\ monitor = "start"
    /\ \/ monitor' = "dial" /\ display' = server /\ UNCHANGED faults
       \/ monitor' = "ended" /\ MayFail /\ UNCHANGED display
    /\ UNCHANGED <<serverVars, wire, link, historyVars>>

\* session: a dial that succeeds is answered with a snapshot.
Dials ==
    /\ monitor = "dial"
    /\ \/ /\ monitor' = "live" /\ link' = "open"
          /\ wire' = <<[kind |-> "state", changed |-> server]>>
          /\ unhealed' = {} /\ missed' = {} /\ UNCHANGED <<owed, faults>>
       \/ /\ MayFail /\ monitor' = "sleep"
          /\ UNCHANGED <<link, wire, owed, historyVars>>
       \/ MayFail /\ Ends /\ UNCHANGED historyVars   \* 401 or 404: client.Fatal
    /\ UNCHANGED <<server, count, display>>

\* The backoff's wait is over.
Wakes ==
    /\ monitor = "sleep" /\ monitor' = "dial"
    /\ UNCHANGED <<serverVars, wire, link, display, historyVars, faults>>

Merge(f) == IF f \in DOMAIN Head(wire).changed THEN Head(wire).changed[f] ELSE display[f]

\* A resync that is only displayed.
MutantHandles ==
    /\ monitor = "live" /\ wire # <<>>
    /\ wire' = Tail(wire)
    /\ display' = [f \in Shown |-> Merge(f)]
    /\ UNCHANGED <<serverVars, link, monitor, historyVars, faults>>

\* handle: a snapshot replaces the view, a delta is folded in, a resync makes
\* it refetch, and the stream waits meanwhile.
Handles ==
    /\ monitor = "live" /\ wire # <<>>
    /\ wire' = Tail(wire)
    /\ display' = [f \in Shown |-> Merge(f)]
    /\ monitor' = IF Head(wire).kind = "resync" THEN "refetch" ELSE "live"
    /\ UNCHANGED <<serverVars, link, historyVars, faults>>

Announced == \E m \in ToSet(wire) : m.kind = "resync"

\* The refetch; one that fails is noted and the stream goes on, unless the
\* failure is fatal.
Refetches ==
    /\ monitor = "refetch"
    /\ \/ /\ monitor' = "live" /\ display' = server
          /\ missed' = (IF owed \/ Announced THEN missed ELSE {}) /\ unhealed' = {}
          /\ UNCHANGED <<wire, link, owed, faults>>
       \/ /\ MayFail /\ monitor' = "live" /\ unhealed' = unhealed \cup missed
          /\ UNCHANGED <<display, missed, wire, link, owed>>
       \/ MayFail /\ Ends /\ UNCHANGED <<display, historyVars>>
    /\ UNCHANGED <<server, count>>

\* Next returned an error: run waits before it dials again.
StreamEnds ==
    /\ monitor = "live" /\ link = "closed" /\ wire = <<>>
    /\ monitor' = "sleep" /\ link' = "none" /\ owed' = FALSE
    /\ UNCHANGED <<server, count, wire, display, historyVars, faults>>

\* A keepalive that takes a ping without an answer for one that is on its way.
MutantKeepalive ==
    /\ link = "open" /\ monitor = "refetch" /\ Len(wire) = Buffer
    /\ link' = "closed"
    /\ UNCHANGED <<serverVars, wire, monitor, display, historyVars, faults>>

\* keepalive: a ping is not answered on a dead path, nor while nobody reads
\* because a refetch takes long and the buffer is full.
Keepalive ==
    /\ link = "dead" \/ (link = "open" /\ monitor = "refetch" /\ Len(wire) = Buffer)
    /\ link' = "closed"
    /\ UNCHANGED <<serverVars, wire, monitor, display, historyVars, faults>>

\* Ctrl-C, wherever run stands.
Interrupted ==
    /\ monitor # "ended"
    /\ Ends /\ UNCHANGED <<server, count, display, historyVars, faults>>

-----------------------------------------------------------------------------

Works == FirstFetch \/ Dials \/ Wakes \/ Handles \/ Refetches \/ StreamEnds

Next ==
    \/ \E f \in Shown : Change(f)
    \/ WriteResync \/ LinkFails \/ Keepalive
    \/ Works \/ Interrupted

\* The process runs on and the server answers; nothing has to change or fail.
Fairness ==
    /\ WF_vars(Works) /\ WF_vars(Keepalive) /\ WF_vars(WriteResync)

Spec == Init /\ [][Next]_vars /\ Fairness

-----------------------------------------------------------------------------
(* Correctness                                                              *)

\* While the stream is live, a field that is not the radio's is on its way, in a hole
\* about to be announced or refetched, or in one whose refetch failed
\* (monitor.handle, view.applyDelta).
ShownIsExplained ==
    (monitor = "live" /\ link = "open") =>
        \A f \in Shown :
            \/ display[f] = server[f]
            \/ f \in unhealed \cup (IF owed THEN missed ELSE {})
            \/ Announced
            \/ \E m \in ToSet(wire) : f \in DOMAIN m.changed /\ m.changed[f] = server[f]

Message == [kind : {"state", "delta", "resync"},
            changed : UNION {[F -> 0..MaxChanges] : F \in SUBSET Shown}]

TypeOK ==
    /\ server \in [Shown -> 0..MaxChanges] /\ count \in 0..MaxChanges /\ owed \in BOOLEAN
    /\ wire \in Seq(Message)
    /\ link \in {"none", "open", "dead", "closed"}
    /\ monitor \in {"start", "dial", "live", "refetch", "sleep", "ended"}
    /\ display \in [Shown -> 0..MaxChanges] /\ unhealed \subseteq Shown /\ missed \subseteq Shown

\* A message after the first n on their way has the radio's value of f.
Brings(n, f) ==
    \E i \in 1..Len(wire) :
        i > n /\ f \in DOMAIN wire[i].changed /\ wire[i].changed[f] = server[f]

\* After the first n messages the server admits that it lost a change of f.
Admits(n, f) ==
    f \in missed /\ (owed \/ \E i \in 1..Len(wire) : i > n /\ wire[i].kind = "resync")

\* No message on its way has the last word on a field it is wrong about.
WireIsCorrected ==
    \A i \in 1..Len(wire) : \A f \in DOMAIN wire[i].changed :
        wire[i].changed[f] = server[f] \/ Brings(i, f) \/ Admits(i, f)

\* What is wrong on the display will be put right, or a refetch has failed.
DisplayIsCorrected ==
    \A f \in Shown :
        \/ display[f] = server[f] \/ f \in unhealed
        \/ Brings(0, f) \/ Admits(0, f)
        \/ f \in missed /\ monitor = "refetch"

\* The inductive invariant of a stream that is followed.
MonitorInv == TypeOK /\ (link = "open" => WireIsCorrected /\ DisplayIsCorrected)

\* However the stream is lost, the monitor is live again or was told to stop
\* (monitor.run, Stream.keepalive).
StreamComesBack == []<>(monitor = "ended" \/ (monitor = "live" /\ link = "open"))
=============================================================================
