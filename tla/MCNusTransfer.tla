--------------------------- MODULE MCNusTransfer ---------------------------
(* Instances of NusTransfer for TLC.  Two packets of one entry each, of two   *)
(* domains, go out one after the other: the acknowledgement or the callback   *)
(* of the first may be taken for the second's.                                *)
EXTENDS NusTransfer

OneEach == [contacts |-> 1, reports |-> 0, eco |-> 1]
=============================================================================
