---------------------------- MODULE MCDroidClient ----------------------------
(* Tasks that share one client.                                              *)
EXTENDS DroidClient

CONSTANTS t1, t2

SomeOps == {"initialize_session", "close_session", "add_user_message", "list_models"}
=============================================================================
