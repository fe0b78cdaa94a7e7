------------------------------ MODULE OneShot ------------------------------
(***************************************************************************)
(* Programs that own a client for one call: query(), which awaits the close *)
(* of its client in a `finally'; list_models(), through                     *)
(* managed_droid_client(), which has a task of its own do it; and run(),    *)
(* whose session has another one.  Each is cancelled at any await.          *)
(***************************************************************************)
EXTENDS Naturals

CONSTANT MaxCancels    \* bound on the cancellations of the owner

ASSUME OneShotAssumption == MaxCancels \in Nat

VARIABLES
  owner,     \* which of the three it is
  at,        \* the await the owner stands at
  closer,    \* the await of client.close()
  engaged,   \* handlers of server requests are running
  alive,     \* the process runs
  cancels    \* cancellations so far that came during the clean-up (history)

oneShotVars == <<owner, at, closer, engaged, alive, cancels>>

Closes == {"engine", "transport"}

OneShotTypeOK ==
  /\ owner \in {"query", "managed", "run"}
  /\ at \in {"connect", "body", "close", "close_after_all", "over"}
  /\ closer \in {"none", "done", "cut"} \cup Closes
  /\ engaged \in BOOLEAN /\ alive \in BOOLEAN /\ cancels \in 0..MaxCancels

OneShotInit ==
  /\ owner \in {"query", "managed", "run"}
  /\ at = "connect" /\ closer = "none" /\ cancels = 0
  /\ engaged = FALSE /\ alive = FALSE

-----------------------------------------------------------------------------
Connected ==
  /\ at = "connect"
  /\ at' = "body" /\ alive' = TRUE
  /\ UNCHANGED <<owner, closer, engaged, cancels>>

\* A request of the process keeps a handler busy, or its handler ends.
Engage ==
  /\ alive /\ closer = "none"
  /\ engaged' = ~engaged
  /\ UNCHANGED <<owner, at, closer, alive, cancels>>

\* The connection fails, the body ends, raises or is left, or the owner is cancelled:
\* client.close() begins.  One that never had an engine has none to close.
CleanUp ==
  /\ at \in {"connect", "body"}
  /\ at' = "close"
  /\ closer' = IF at = "body" THEN "engine" ELSE "transport"
  /\ UNCHANGED <<owner, engaged, alive, cancels>>

-----------------------------------------------------------------------------
(* client.close() *)

EngineClosed ==
  /\ closer = "engine"
  /\ closer' = "transport" /\ engaged' = FALSE
  /\ UNCHANGED <<owner, at, alive, cancels>>

TransportClosed ==
  /\ closer = "transport"
  /\ closer' = "done" /\ alive' = FALSE
  /\ UNCHANGED <<owner, at, engaged, cancels>>

\* Cancelled while it waits for the reader it goes on, for handlers it ends there;
\* the transport kills its process first.
CloserCancelled ==
  \/ closer = "engine" /\ engaged /\ closer' = "cut" /\ UNCHANGED alive
  \/ closer = "engine" /\ UNCHANGED <<closer, alive>>
  \/ closer = "transport" /\ closer' = "done" /\ alive' = FALSE
  \/ closer \in {"done", "cut"} /\ UNCHANGED <<closer, alive>>

-----------------------------------------------------------------------------
(* The owner waits for it *)

\* Fault: a cancelled owner does not wait for the rest.
FaultCancel ==
  /\ at = "close" /\ cancels < MaxCancels
  /\ cancels' = cancels + 1
  /\ at' = "over"
  /\ CloserCancelled
  /\ UNCHANGED <<owner, engaged>>

\* query() is in client.close() itself.  The others have it in a task: cancelled once
\* they go on waiting (run_to_completion); a second time managed_droid_client()
\* cancels that task, and run() one that only waits for the session's.
Cancel ==
  /\ at \in {"close", "close_after_all"} /\ cancels < MaxCancels
  /\ cancels' = cancels + 1
  /\ IF owner = "query" \/ (owner = "managed" /\ at = "close_after_all")
       THEN CloserCancelled ELSE UNCHANGED <<closer, alive>>
  /\ at' = IF owner = "query" THEN at
           ELSE IF at = "close" THEN "close_after_all"
           ELSE IF owner = "run" THEN "over" ELSE at
  /\ UNCHANGED <<owner, engaged>>

Over ==
  /\ at \in {"close", "close_after_all"} /\ closer \in {"done", "cut"}
  /\ at' = "over"
  /\ UNCHANGED <<owner, closer, engaged, alive, cancels>>

Died ==
  /\ alive /\ alive' = FALSE
  /\ UNCHANGED <<owner, at, closer, engaged, cancels>>

OneShotNext ==
  \/ Connected \/ Engage \/ CleanUp
  \/ EngineClosed \/ TransportClosed \/ Cancel \/ Over \/ Died

OneShotSpec == OneShotInit /\ [][OneShotNext]_oneShotVars

-----------------------------------------------------------------------------
\* When the owner is over no process is left that nobody will end, whenever it was
\* cancelled: run() never leaves one, managed_droid_client() not unless it is
\* cancelled a second time during the clean-up, query() not unless it is once.
NothingLeft ==
  at = "over" /\ alive =>
    \/ closer \in Closes /\ owner = "run"
    \/ closer = "cut" /\ cancels >= (IF owner = "query" THEN 1 ELSE 2) /\ owner # "run"
=============================================================================
