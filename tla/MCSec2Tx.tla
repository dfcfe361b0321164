------------------------------ MODULE MCSec2Tx ------------------------------
(* Sec2Tx on a small instance: two client ids, a queue of three packets.     *)
EXTENDS Sec2Tx

CONSTANTS i1, i2

MCId == {i1, i2}
=============================================================================
