--------------------------- MODULE MCSdkMcpServer ---------------------------
(* Users of one handle: two sessions with the same server, for instance.     *)
EXTENDS SdkMcpServer

CONSTANTS c1, c2
=============================================================================
