------------------------- MODULE MCSessionLifecycle -------------------------
(* Two tasks that use a session.                                             *)
EXTENDS SessionLifecycle

CONSTANTS c1, c2
=============================================================================
