------------------------- MODULE MCProcessTransport -------------------------
(* Tasks that use one transport: its reader, a caller and one that closes.   *)
EXTENDS ProcessTransport

CONSTANTS t1, t2, t3
=============================================================================
