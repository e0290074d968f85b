------------------------------- MODULE MCKeyer -------------------------------
(* A small instance of Keyer for TLC, and the properties of the two senders *)
(* under names a configuration can give.                                    *)
EXTENDS Keyer

\* The radio's CW buffer is never overrun, and no chunk is handed over twice,
\* out of order or once dropped (catSender.waitForRoom, run).
HandedOverRight == Cat!NoOverrun /\ Cat!HandedOverOnce

\* Text of before an Abort that returned does not sound (catSender.Abort).
AbortSilences == Cat!AbortSilences

\* A raised line belongs to the transmission under way, and what keeps it so
\* (serialSender.assert, abortLocked).
SerialInv == Serial!SerialInv

\* A raised line comes down (serialSender.transmit, release).
CarrierDrops == Serial!CarrierDrops
=============================================================================
