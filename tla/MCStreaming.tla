----------------------------- MODULE MCStreaming -----------------------------
(* A small instance of Streaming for TLC, and each part's properties under  *)
(* names a configuration can give.                                          *)
EXTENDS Streaming

\* A client's copy is stale for a named reason only, by radio and field
\* (client.enqueue, client.drain).
CopyIsExplained == machine = "lane" => TypeOK /\ StaleIsExplained

\* What is owed is written, whatever the rate limits hold back (client.drain).
OwedGetsWritten ==
    \A r \in Radios :
        /\ (machine = "lane" /\ r \in resync) ~> (r \notin resync \/ ~Open)
        /\ (machine = "lane" /\ r \in DOMAIN pending) ~> (r \notin DOMAIN pending \/ ~Open)

\* A hole in a lane that two radios share is flagged for its radio, and a
\* writer that waits with work to do will be woken (client.pushDiscreteLocked,
\* setRadios, signal).
SharedLaneHolds == machine = "shared" => Shared!HolesAreFlagged /\ Shared!NoLostWakeup

\* A displayed value that is not the radio's is explained (monitor.handle).
ShownIsExplained == Follow!ShownIsExplained

\* A lost stream comes back (monitor.run, Stream.keepalive).
StreamComesBack ==
    []<>(machine = "monitor" => monitor = "ended" \/ (monitor = "live" /\ link = "open"))
=============================================================================
