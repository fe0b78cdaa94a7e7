-------------------------- MODULE SessionLifecycle --------------------------
(***************************************************************************)
(* droid_sdk._high_level.session.Session: open(), close() and the          *)
(* operations that replace a session by a successor (fork, compact,        *)
(* rewind).  The work is done by tasks that the session shares between its *)
(* callers: _open_task, _open_cleanup_task, _close_task and                *)
(* _replacement_task.  A caller may be cancelled at any await.             *)
(*                                                                         *)
(* The connection is the droid process with its client, and the in-process *)
(* tool servers that the session started for it.  _lifecycle_lock is never *)
(* held across an await, so what it guards is one step.  BUSY is OPEN      *)
(* here: see RunStream.  A successor is not replaced in its turn.          *)
(***************************************************************************)
EXTENDS Naturals, FiniteSets

CONSTANTS Callers,    \* tasks that use the sessions
          MaxCalls    \* bound on the calls of each

ASSUME SessionAssumption == IsFiniteSet(Callers) /\ MaxCalls \in Nat

\* The session the program makes and the one a replacement creates.  A
\* successor that was detached is unreachable, and the next takes its place.
Source    == 1
Successor == 2
Sessions  == {Source, Successor}

\* The close task of each session, and the one that a close() starts for a
\* source that was restored while its first close task was under way.
Again   == 3
Closers == Sessions \cup {Again}
Of(t)   == IF t = Again THEN Source ELSE t

VARIABLES
  state,        \* _state
  client,       \* _client is set and _sdk_servers lists the servers: always both
  closeRequested,  \* _close_requested
  closing,      \* how far each close task is
  opening,      \* _open_task of the source
  generation,   \* how many _open_task there have been
  waiters,      \* _open_waiters
  cleanup,      \* _open_cleanup_task
  replacement,  \* _replacement_task
  cancelling,   \* it has been cancelled and has not noticed yet
  closeReplaced,   \* _replacement_close_requested
  process,      \* the droid process and its client
  servers,      \* the tool servers
  pc,           \* what each caller is doing
  awaits,       \* the generation its open() waits for, or the close task
  calls,        \* calls it has made
  returned,     \* the successor has been returned to a caller
  closed,       \* sessions for which a close() returned (history)
  lapses        \* what a cancellation hit that the code does not protect (history)

sessionVars == <<state, client, closeRequested, closing>>
connection  == <<process, servers>>
openVars    == <<opening, generation, waiters, cleanup>>
replaceVars == <<replacement, cancelling, closeReplaced>>
callerVars  == <<pc, awaits, calls, returned, closed>>
vars == <<sessionVars, openVars, replaceVars, connection, callerVars, lapses>>

-----------------------------------------------------------------------------
States   == {"LAZY", "OPENING", "OPEN", "REPLACING", "CLOSING", "CLOSED", "RETIRED"}
Opening  == {"starting", "serving", "connected", "unwinding", "unserving"}
Closing  == {"after_open", "after_replacement", "asking", "ending", "tools", "bare", "successor"}
Replacing == {"operation", "loading", "rollback", "checkpoint", "restoring", "giving_up"}
Points   == {"idle", "opening", "opened", "open_failed", "retrying", "abandoning_open",
             "closing", "replacing", "replaced", "replace_failed", "abandoning",
             "restoring"}

\* A replacement that was made is undone by its caller; _close_impl() is cut
\* short; a session is detached whose tool servers were about to be closed.
Lapses == {"undone", "cut", "dropped"}

SessionsOK ==
  /\ state \in [Sessions -> States]
  /\ client \in [Sessions -> BOOLEAN]
  /\ closeRequested \in [Sessions -> BOOLEAN]
  /\ closing \in [Closers -> Closing \cup {"none", "done"}]

TasksOK ==
  /\ opening \in Opening \cup {"none", "opened", "failed"}
  /\ generation \in Nat /\ waiters \in Nat
  /\ cleanup \in {"none", "cancelling", "draining", "closing", "closing_again"}
  /\ replacement \in Replacing \cup {"none", "replaced", "failed"}
  /\ process \in {"down", "up", "ending"} /\ servers \in {"down", "up"}

CallersOK ==
  /\ pc \in [Callers -> Points]
  /\ awaits \in [Callers -> Nat]
  /\ calls \in [Callers -> 0..MaxCalls]
  /\ closed \subseteq Sessions

FlagsOK ==
  /\ cancelling \in BOOLEAN /\ closeReplaced \in BOOLEAN
  /\ returned \in BOOLEAN /\ lapses \subseteq Lapses

TypeOK == SessionsOK /\ TasksOK /\ CallersOK /\ FlagsOK

Init ==
  /\ state = [s \in Sessions |-> IF s = Source THEN "LAZY" ELSE "RETIRED"]
  /\ client = [s \in Sessions |-> FALSE]
  /\ closeRequested = [s \in Sessions |-> FALSE]
  /\ closing = [t \in Closers |-> "none"]
  /\ opening = "none"
  /\ generation = 0
  /\ waiters = 0
  /\ cleanup = "none"
  /\ replacement = "none"
  /\ cancelling = FALSE
  /\ closeReplaced = FALSE
  /\ process = "down" /\ servers = "down"
  /\ pc = [c \in Callers |-> "idle"]
  /\ awaits = [c \in Callers |-> 0]
  /\ calls = [c \in Callers |-> 0]
  /\ returned = FALSE
  /\ closed = {}
  /\ lapses = {}

-----------------------------------------------------------------------------
Goes(c, p) == pc' = [pc EXCEPT ![c] = p]

Calls(c) ==
  /\ pc[c] = "idle"
  /\ calls[c] < MaxCalls
  /\ calls' = [calls EXCEPT ![c] = @ + 1]

\* The futures of a task that ends: its waiters are resumed one by one later.
Resolved(from, to) == [c \in Callers |-> IF pc[c] = from THEN to ELSE pc[c]]

(* open() *)

OpenDecided == state[Source] \notin {"LAZY", "OPENING"} \/ closeRequested[Source]

\* A call that finds the session open, or that raises at once.
OpenReturnsAtOnce(c) ==
  /\ \/ Calls(c) /\ UNCHANGED pc
     \/ pc[c] = "retrying" /\ Goes(c, "idle") /\ UNCHANGED calls
  /\ cleanup = "none"
  /\ OpenDecided
  /\ UNCHANGED <<sessionVars, openVars, replaceVars, connection, awaits, returned, closed, lapses>>

\* It joins the opening under way, or starts one.
OpenWaits(c) ==
  /\ \/ Calls(c)
     \/ pc[c] = "retrying" /\ UNCHANGED calls
  /\ cleanup = "none"
  /\ ~OpenDecided
  /\ \/ /\ state[Source] = "OPENING"
        /\ UNCHANGED <<state, opening, generation>>
     \/ /\ state[Source] = "LAZY"
        /\ state' = [state EXCEPT ![Source] = "OPENING"]
        /\ opening' = "starting"
        /\ generation' = generation + 1
  /\ waiters' = waiters + 1
  /\ awaits' = [awaits EXCEPT ![c] = generation']
  /\ \* The task may be over: its outcome is then given at once.
     Goes(c, CASE opening' = "opened" -> "opened"
               [] opening' = "failed" -> "open_failed"
               [] OTHER -> "opening")
  /\ UNCHANGED <<client, closeRequested, closing, cleanup, replaceVars, connection,
                 returned, closed, lapses>>

\* A cancelled opening is being cleaned up: wait for that, then look again.
OpenBehindCleanup(c) ==
  /\ Calls(c)
  /\ cleanup # "none"
  /\ Goes(c, "retrying")
  /\ UNCHANGED <<sessionVars, openVars, replaceVars, connection, awaits, returned, closed, lapses>>

OpenReturns(c) ==
  /\ pc[c] \in {"opened", "open_failed"}
  /\ Goes(c, "idle")
  /\ waiters' = waiters - 1
  /\ UNCHANGED <<sessionVars, opening, generation, cleanup, replaceVars, connection,
                 awaits, calls, returned, closed, lapses>>

\* Fault: the count goes down only for the opening under way.
CancelOpenLate(c) ==
  /\ pc[c] \in {"opening", "opened", "open_failed"}
  /\ IF awaits[c] # generation
       THEN Goes(c, "idle") /\ UNCHANGED <<waiters, cleanup>>
       ELSE /\ waiters' = waiters - 1
            /\ IF waiters' # 0
                 THEN Goes(c, "idle") /\ UNCHANGED cleanup
                 ELSE Goes(c, "abandoning_open") /\ cleanup' = "cancelling"
  /\ UNCHANGED <<sessionVars, opening, generation, replaceVars, connection, awaits,
                 calls, returned, closed, lapses>>

\* _cancel_open_waiter(): the last waiter has the opening undone.  It may be
\* cancelled after the opening has ended and before it is resumed.
CancelOpen(c) ==
  /\ pc[c] \in {"opening", "opened", "open_failed"}
  /\ waiters' = waiters - 1
  /\ IF waiters' # 0 \/ awaits[c] # generation
       THEN Goes(c, "idle") /\ UNCHANGED cleanup
       ELSE Goes(c, "abandoning_open") /\ cleanup' = "cancelling"
  /\ UNCHANGED <<sessionVars, opening, generation, replaceVars, connection, awaits,
                 calls, returned, closed, lapses>>

\* The cancelled waiter leaves when the cleanup is over or, cancelled once
\* more, at once.  So does a waiter behind the cleanup.
LeaveCleanup(c) ==
  /\ pc[c] \in {"abandoning_open", "retrying"}
  /\ Goes(c, "idle")
  /\ UNCHANGED <<sessionVars, openVars, replaceVars, connection, awaits, calls, returned,
                 closed, lapses>>

-----------------------------------------------------------------------------
(* _open_impl() and what a cancelled opening leaves *)

\* The tool servers are up, some or all of them, before the process is.
OpenServes ==
  /\ opening = "starting"
  /\ opening' = "serving"
  /\ servers' = "up"
  /\ UNCHANGED <<sessionVars, generation, waiters, cleanup, replaceVars, process, callerVars,
                 lapses>>

OpenConnects ==
  /\ opening = "serving"
  /\ opening' = "connected"
  /\ process' = "up"
  /\ UNCHANGED <<sessionVars, generation, waiters, cleanup, replaceVars, servers, callerVars,
                 lapses>>

\* A close() that came meanwhile keeps its CLOSING.
OpenSucceeds ==
  /\ opening = "connected"
  /\ opening' = "opened"
  /\ client' = [client EXCEPT ![Source] = TRUE]
  /\ state' = [state EXCEPT ![Source] = IF @ = "OPENING" THEN "OPEN" ELSE @]
  /\ pc' = Resolved("opening", "opened")
  /\ UNCHANGED <<closeRequested, closing, generation, waiters, cleanup, replaceVars,
                 connection, awaits, calls, returned, closed, lapses>>

\* Where the except branch begins: a client there is is closed first.
Unwinding(step) == IF step = "connected" THEN "unwinding" ELSE "unserving"

\* Any step of it raises.
OpenFails ==
  /\ opening \in {"starting", "serving", "connected"}
  /\ opening' = Unwinding(opening)
  /\ UNCHANGED <<sessionVars, generation, waiters, cleanup, replaceVars, connection,
                 callerVars, lapses>>

\* The client's two steps run to completion.
OpenDisconnects ==
  /\ opening = "unwinding"
  /\ opening' = "unserving"
  /\ process' = "down"
  /\ UNCHANGED <<sessionVars, generation, waiters, cleanup, replaceVars, servers, callerVars,
                 lapses>>

\* Fault: a failed opening leaves its tool servers.
OpenUnwindsNothing ==
  /\ opening = "unserving"
  /\ opening' = "failed"
  /\ state' = [state EXCEPT ![Source] = IF @ = "OPENING" THEN "LAZY" ELSE @]
  /\ pc' = Resolved("opening", "open_failed")
  /\ UNCHANGED <<client, closeRequested, closing, generation, waiters, cleanup,
                 replaceVars, connection, awaits, calls, returned, closed, lapses>>

OpenUnwinds ==
  /\ opening = "unserving"
  /\ opening' = "failed"
  /\ servers' = "down"
  /\ state' = [state EXCEPT ![Source] = IF @ = "OPENING" THEN "LAZY" ELSE @]
  /\ pc' = Resolved("opening", "open_failed")
  /\ UNCHANGED <<client, closeRequested, closing, generation, waiters, cleanup,
                 replaceVars, process, awaits, calls, returned, closed, lapses>>

\* _finish_cancelled_open() cancels the opening.  One that is closing the tool
\* servers, its last await, is cut short; the closes it has begun go on.
CleanupCancels ==
  /\ cleanup = "cancelling"
  /\ cleanup' = "draining"
  /\ \/ /\ opening \in {"starting", "serving", "connected"}
        /\ opening' = Unwinding(opening)
        /\ UNCHANGED <<servers, pc>>
     \/ /\ opening = "unserving"
        /\ opening' = "failed"
        /\ servers' = "down"
        /\ pc' = Resolved("opening", "open_failed")
     \/ /\ opening \in {"unwinding", "opened", "failed"}
        /\ UNCHANGED <<opening, servers, pc>>
  /\ UNCHANGED <<sessionVars, generation, waiters, replaceVars, process, awaits, calls,
                 returned, closed, lapses>>

\* _close_impl() when it begins and once the client is closed: it takes what the
\* session has then.
Gathers(s)   == IF client[s] THEN "tools" ELSE "bare"
CloseImpl(s) == IF client[s] THEN "asking" ELSE Gathers(s)

\* A new close task.  The one under way goes on, though no longer as _close_task.
NewCloser(s) == IF s = Source /\ closing[s] \in Closing THEN Again ELSE s
StartsClose(s) ==
  /\ state' = [state EXCEPT ![s] = "CLOSING"]
  /\ closing' = [closing EXCEPT ![NewCloser(s)] = CloseImpl(s)]

\* _close_task, and the cleanup that waits for a close task.
Closer(s)   == IF s = Source /\ closing[Again] # "none" THEN Again ELSE s
Awaiting(t) == IF t = Again THEN "closing_again" ELSE "closing"

\* It waits for it, and closes the session if it opened all the same ...
CleanupDrains ==
  /\ cleanup = "draining"
  /\ opening \in {"opened", "failed"}
  /\ CASE state[Source] = "OPEN" ->
            StartsClose(Source) /\ cleanup' = Awaiting(NewCloser(Source))
       [] state[Source] = "CLOSING" /\ closing[Source] # "none" ->
            cleanup' = Awaiting(Closer(Source)) /\ UNCHANGED <<state, closing>>
       [] OTHER ->
            cleanup' = "none" /\ UNCHANGED <<state, closing>>
  /\ UNCHANGED <<client, closeRequested, opening, generation, waiters, replaceVars,
                 connection, callerVars, lapses>>

CleanupMayEnd ==
  \E t \in {Source, Again} : cleanup = Awaiting(t) /\ closing[t] = "done"

\* Fault: the session is made lazy whoever closes it.
CleanupResets ==
  /\ CleanupMayEnd
  /\ cleanup' = "none"
  /\ state' = [state EXCEPT ![Source] = "LAZY"]
  /\ closing' = [closing EXCEPT ![Source] = "none"]
  /\ opening' = "none"
  /\ closeRequested' = [closeRequested EXCEPT ![Source] = FALSE]
  /\ UNCHANGED <<client, generation, waiters, replaceVars, connection, callerVars,
                 lapses>>

\* Fault: the cleanup is taken back only with the reset.
CleanupLingers ==
  /\ CleanupMayEnd
  /\ state[Source] = "CLOSED" /\ ~closeRequested[Source]
  /\ cleanup' = "none"
  /\ state' = [state EXCEPT ![Source] = "LAZY"]
  /\ closing' = [closing EXCEPT ![Source] = "none"]
  /\ opening' = "none"
  /\ UNCHANGED <<client, closeRequested, generation, waiters, replaceVars, connection,
                 callerVars, lapses>>

\* ... and makes it lazy again, unless somebody has asked for it to be closed.
CleanupEnds ==
  /\ CleanupMayEnd
  /\ cleanup' = "none"
  /\ IF state[Source] = "CLOSED" /\ cleanup = Awaiting(Closer(Source)) /\ ~closeRequested[Source]
       THEN /\ state' = [state EXCEPT ![Source] = "LAZY"]
            /\ closing' = [closing EXCEPT ![Source] = "none"]
            /\ opening' = "none"
       ELSE UNCHANGED <<state, closing, opening>>
  /\ UNCHANGED <<client, closeRequested, generation, waiters, replaceVars, connection,
                 callerVars, lapses>>

-----------------------------------------------------------------------------
(* close() *)

\* _replacement_task has not ended.
BeingReplaced(s) == s = Source /\ replacement \in Replacing

Reachable(s) == s = Source \/ returned

\* Closing a session that was replaced does nothing.
CloseIsNoOp(c, s) ==
  /\ Calls(c)
  /\ state[s] = "RETIRED" /\ ~BeingReplaced(s)
  /\ UNCHANGED <<sessionVars, openVars, replaceVars, connection, pc, awaits, returned,
                 closed, lapses>>

\* Nor is there anything to wait for in a session that was never opened, or
\* that was closed without a task.
CloseAtOnce(c, s) ==
  /\ Calls(c)
  /\ ~BeingReplaced(s)
  /\ state[s] \in {"LAZY", "CLOSED", "CLOSING"} /\ closing[s] = "none"
  /\ closeRequested' = [closeRequested EXCEPT ![s] = TRUE]
  /\ state' = [state EXCEPT ![s] = IF @ = "LAZY" THEN "CLOSED" ELSE @]
  /\ closed' = closed \cup {s}
  /\ UNCHANGED <<client, closing, openVars, replaceVars, connection, pc, awaits,
                 returned, lapses>>

\* It joins the closing under way, or starts the one the state calls for.  A
\* source that was restored while it was to be closed is OPEN with that closing
\* under way, and gets a second _close_impl().
CloseWaits(c, s) ==
  /\ Calls(c)
  /\ \/ /\ closing[s] # "none"
        /\ BeingReplaced(s) \/ state[s] \in {"CLOSING", "CLOSED"}
        /\ UNCHANGED <<state, closing>>
        /\ awaits' = [awaits EXCEPT ![c] = Closer(s)]
     \/ /\ BeingReplaced(s) /\ closing[s] = "none"
        /\ state' = [state EXCEPT ![s] = "CLOSING"]
        /\ closing' = [closing EXCEPT ![s] = "after_replacement"]
        /\ awaits' = [awaits EXCEPT ![c] = s]
     \/ /\ ~BeingReplaced(s) /\ state[s] = "OPENING"
        /\ state' = [state EXCEPT ![s] = "CLOSING"]
        /\ closing' = [closing EXCEPT ![s] = "after_open"]
        /\ awaits' = [awaits EXCEPT ![c] = s]
     \/ /\ ~BeingReplaced(s) /\ state[s] = "OPEN"
        /\ StartsClose(s)
        /\ awaits' = [awaits EXCEPT ![c] = NewCloser(s)]
  /\ closeRequested' = [closeRequested EXCEPT ![s] = TRUE]
  /\ closeReplaced' = (closeReplaced \/ BeingReplaced(s))
  /\ Goes(c, "closing")
  /\ UNCHANGED <<client, openVars, replacement, cancelling, connection, returned,
                 closed, lapses>>

Close(c) == \E s \in Sessions : Reachable(s) /\ (CloseIsNoOp(c, s) \/ CloseAtOnce(c, s) \/ CloseWaits(c, s))

CloseReturns(c) ==
  /\ pc[c] = "closing"
  /\ closing[awaits[c]] = "done"
  /\ Goes(c, "idle")
  /\ closed' = closed \cup {Of(awaits[c])}
  /\ UNCHANGED <<sessionVars, openVars, replaceVars, connection, awaits, calls, returned, lapses>>

\* The closing goes on without its caller.
CancelClose(c) ==
  /\ pc[c] = "closing"
  /\ Goes(c, "idle")
  /\ UNCHANGED <<sessionVars, openVars, replaceVars, connection, awaits, calls, returned,
                 closed, lapses>>

Closes(s, to, next) ==
  /\ state' = [state EXCEPT ![s] = to]
  /\ closing' = [closing EXCEPT ![s] = next]

\* Fault: the opening under way is not waited for.
CloseAfterOpenAtOnce ==
  /\ closing[Source] = "after_open"
  /\ \/ opening = "opened" /\ Closes(Source, state[Source], CloseImpl(Source))
     \/ opening # "opened" /\ Closes(Source, "CLOSED", "done")
  /\ UNCHANGED <<client, closeRequested, openVars, replaceVars, connection, callerVars, lapses>>

CloseAfterOpen ==
  /\ closing[Source] = "after_open"
  /\ \/ opening = "opened" /\ Closes(Source, state[Source], CloseImpl(Source))
     \/ opening = "failed" /\ Closes(Source, "CLOSED", "done")
  /\ UNCHANGED <<client, closeRequested, openVars, replaceVars, connection,
                 callerVars, lapses>>

\* Fault: a failed replacement leaves nothing to close.
CloseAfterReplacementForgets ==
  /\ closing[Source] = "after_replacement"
  /\ replacement = "failed"
  /\ Closes(Source, "CLOSED", "done")
  /\ UNCHANGED <<client, closeRequested, openVars, replaceVars, connection,
                 callerVars, lapses>>

\* The replacement failed: what is left is the source.
CloseAfterFailure ==
  /\ closing[Source] = "after_replacement"
  /\ replacement = "failed"
  /\ IF client[Source] THEN Closes(Source, state[Source], "asking")
                       ELSE Closes(Source, "CLOSED", "done")
  /\ UNCHANGED <<client, closeRequested, openVars, replaceVars, connection,
                 callerVars, lapses>>

\* It was made: the successor, which nobody has been given yet, is closed.
CloseAfterReplacement ==
  /\ closing[Source] = "after_replacement"
  /\ replacement = "replaced"
  /\ state' = [state EXCEPT ![Successor] = "CLOSING"]
  /\ closing' = [closing EXCEPT ![Source] = "successor", ![Successor] = CloseImpl(Successor)]
  /\ closeRequested' = [closeRequested EXCEPT ![Successor] = TRUE]
  /\ UNCHANGED <<client, openVars, replaceVars, connection, callerVars, lapses>>

CloseSuccessorEnds ==
  /\ closing[Source] = "successor"
  /\ closing[Successor] = "done"
  /\ Closes(Source, "RETIRED", "done")
  /\ UNCHANGED <<client, closeRequested, openVars, replaceVars, connection,
                 callerVars, lapses>>

\* _close_impl().  Each step is taken even if an earlier one raises.  A client is
\* closed once: client.close() returns at once while another task is at it.
ClientCloses(t) ==
  /\ closing[t] = "asking"
  /\ process' = IF process = "up" THEN "ending" ELSE process
  /\ closing' = [closing EXCEPT ![t] = IF process = "up" THEN "ending" ELSE Gathers(Of(t))]
  /\ UNCHANGED <<state, client, closeRequested, openVars, replaceVars, servers,
                 callerVars, lapses>>

ClientClosed(t) ==
  /\ closing[t] = "ending"
  /\ process' = "down"
  /\ closing' = [closing EXCEPT ![t] = Gathers(Of(t))]
  /\ UNCHANGED <<state, client, closeRequested, openVars, replaceVars, servers,
                 callerVars, lapses>>

CloseImplEnds(t) ==
  /\ closing[t] \in {"tools", "bare"}
  /\ servers' = IF closing[t] = "tools" THEN "down" ELSE servers
  /\ client' = [client EXCEPT ![Of(t)] = FALSE]
  /\ state' = [state EXCEPT ![Of(t)] = "CLOSED"]
  /\ closing' = [closing EXCEPT ![t] = "done"]
  /\ UNCHANGED <<closeRequested, openVars, replaceVars, process, callerVars, lapses>>

-----------------------------------------------------------------------------
(* fork(), compact(), rewind() *)

\* _replacement_operation(); one that is refused changes nothing.
ReplaceStarts(c) ==
  /\ Calls(c)
  /\ ~closeRequested[Source]
  /\ state[Source] = "OPEN"
  /\ state' = [state EXCEPT ![Source] = "REPLACING"]
  /\ replacement' = "operation"
  /\ cancelling' = FALSE
  /\ closeReplaced' = FALSE
  /\ Goes(c, "replacing")
  /\ UNCHANGED <<client, closeRequested, closing, openVars, connection, awaits,
                 returned, closed, lapses>>

\* How the replacement ends, and for whom.
ReplacementEnds(outcome) ==
  /\ replacement' = outcome
  /\ pc' = [c \in Callers |->
              IF pc[c] = "replacing" THEN (IF outcome = "replaced" THEN "replaced" ELSE "replace_failed")
              ELSE IF pc[c] = "abandoning" THEN "idle" ELSE pc[c]]

Unchanged == UNCHANGED <<closeRequested, closing, openVars, closeReplaced, awaits, calls,
                         returned, closed>>

\* The answer takes longer than the loop needs to resume those who opened.
OperationSucceeds ==
  /\ replacement = "operation" /\ ~cancelling
  /\ client[Source]
  /\ \A c \in Callers : pc[c] \notin {"opened", "open_failed"}
  /\ replacement' = "loading"
  /\ UNCHANGED <<state, client, cancelling, connection, pc, lapses>> /\ Unchanged

OperationFails ==
  /\ replacement = "operation"
  /\ ReplacementEnds("failed")
  /\ state' = [state EXCEPT ![Source] = IF @ = "REPLACING" THEN "OPEN" ELSE @]
  /\ UNCHANGED <<client, cancelling, connection, lapses>> /\ Unchanged

\* _attach_replacement(): the process loads the new session ...
LoadSucceeds ==
  /\ replacement = "loading" /\ ~cancelling
  /\ replacement' = "checkpoint"
  /\ state' = [state EXCEPT ![Successor] = "OPEN"]
  /\ client' = [client EXCEPT ![Successor] = client[Source]]
  /\ UNCHANGED <<cancelling, connection, pc, lapses>> /\ Unchanged

\* ... or is made to load the old one again.  A cancellation ends here too.
LoadFails ==
  /\ replacement = "loading"
  /\ replacement' = "rollback"
  /\ cancelling' = FALSE
  /\ UNCHANGED <<state, client, connection, pc, lapses>> /\ Unchanged

RollbackSucceeds ==
  /\ replacement = "rollback" /\ ~cancelling
  /\ ReplacementEnds("failed")
  /\ state' = [state EXCEPT ![Source] = IF @ = "REPLACING" THEN "OPEN" ELSE @]
  /\ UNCHANGED <<client, cancelling, connection, lapses>> /\ Unchanged

\* The old session cannot be had back, at the rollback of a failed load or of
\* a cancelled replacement: close.
GiveUp ==
  /\ replacement \in {"rollback", "restoring"}
  /\ replacement' = "giving_up"
  /\ cancelling' = FALSE
  /\ state' = [state EXCEPT ![Source] = "CLOSING"]
  /\ UNCHANGED <<client, connection, pc, lapses>> /\ Unchanged

\* _detach_cancelled_successor()
Detached(f, retired) == [f EXCEPT ![Successor] = retired]

\* _close_impl() of the source, by the replacement itself.  A cancellation is
\* lost on close_session().
GiveUpEnds ==
  /\ replacement = "giving_up"
  /\ ReplacementEnds("failed")
  /\ state' = Detached([state EXCEPT ![Source] = "CLOSED"], "RETIRED")
  /\ client' = [s \in Sessions |-> FALSE]
  /\ process' = "down" /\ servers' = "down"
  /\ UNCHANGED <<cancelling, lapses>> /\ Unchanged

\* It leaves client.close() half-way, or cuts the wait for the tool servers and
\* with it the rest of _close_impl().
GiveUpCut ==
  /\ replacement = "giving_up" /\ cancelling
  /\ ReplacementEnds("failed")
  /\ \/ /\ state' = Detached([state EXCEPT ![Source] = "CLOSED"], "RETIRED")
        /\ client' = [s \in Sessions |-> FALSE]
        /\ UNCHANGED process
     \/ /\ state' = Detached(state, "RETIRED")
        /\ client' = Detached(client, FALSE)
        /\ process' = "down"
  /\ servers' = "down"
  /\ lapses' = lapses \cup {"cut"}
  /\ UNCHANGED cancelling /\ Unchanged

\* _retire_after_replacement()
Retire ==
  /\ replacement = "checkpoint" /\ ~cancelling
  /\ ReplacementEnds("replaced")
  /\ state' = [state EXCEPT ![Source] = "RETIRED"]
  /\ client' = [client EXCEPT ![Source] = FALSE]
  /\ UNCHANGED <<cancelling, connection, lapses>> /\ Unchanged

\* Cancelled with the successor made: a close() will see to the source,
\* otherwise the process is made to load it again.
CheckpointCancelled ==
  /\ replacement = "checkpoint" /\ cancelling
  /\ cancelling' = FALSE
  /\ IF closeReplaced
       THEN /\ ReplacementEnds("failed")
            /\ state' = Detached(state, "RETIRED")
            /\ client' = Detached(client, FALSE)
       ELSE /\ replacement' = "restoring"
            /\ UNCHANGED <<state, client, pc>>
  /\ UNCHANGED <<connection, lapses>> /\ Unchanged

RestoreSucceeds ==
  /\ replacement = "restoring" /\ ~cancelling
  /\ ReplacementEnds("failed")
  /\ state' = Detached([state EXCEPT ![Source] = "OPEN"], "RETIRED")
  /\ client' = Detached(client, FALSE)
  /\ UNCHANGED <<cancelling, connection, lapses>> /\ Unchanged

\* The close task resumes before the caller does.
Resumes(c) == pc[c] \in {"replaced", "replace_failed"} /\ closing[Source] # "after_replacement"

ReplaceReturns(c) ==
  /\ Resumes(c)
  /\ Goes(c, "idle")
  /\ returned' = (returned \/ pc[c] = "replaced")
  /\ UNCHANGED <<sessionVars, openVars, replaceVars, connection, awaits, calls, closed, lapses>>

\* wait_shielded() and _abandon_cancelled_replacement(): the cancelled caller
\* cancels the replacement and waits for it; cancelled again, it does so again.
CancelReplace(c) ==
  /\ pc[c] \in {"replacing", "abandoning"}
  /\ Goes(c, "abandoning")
  /\ cancelling' = TRUE
  /\ UNCHANGED <<sessionVars, openVars, replacement, closeReplaced, connection, awaits, calls,
                 returned, closed, lapses>>

\* Cancelled after the replacement was made and before it is resumed, the
\* caller undoes it itself.  If the successor is being closed it is detached
\* none the less, and its tool servers with it unless they are being closed.
CancelReplaced(c) ==
  /\ Resumes(c) /\ pc[c] = "replaced"
  /\ IF closeReplaced
       THEN /\ Goes(c, "idle")
            /\ state' = Detached(state, "RETIRED")
            /\ client' = Detached(client, FALSE)
            /\ lapses' = IF closing[Successor] \in {"asking", "ending"}
                           THEN lapses \cup {"dropped"} ELSE lapses
       ELSE /\ Goes(c, "restoring")
            /\ lapses' = lapses \cup {"undone"}
            /\ UNCHANGED <<state, client>>
  /\ UNCHANGED <<closeRequested, closing, openVars, replaceVars, connection, awaits, calls,
                 returned, closed>>

\* The source has no client any more: neither outcome gives it one back, and
\* closing it closes nothing.
UndoEnds(c) ==
  /\ pc[c] = "restoring"
  /\ Goes(c, "idle")
  /\ \E s \in {"OPEN", "CLOSED"} : state' = Detached([state EXCEPT ![Source] = s], "RETIRED")
  /\ client' = Detached(client, FALSE)
  /\ UNCHANGED <<closeRequested, closing, openVars, replaceVars, connection, awaits, calls,
                 returned, closed, lapses>>

-----------------------------------------------------------------------------
OpenTask ==
  OpenServes \/ OpenConnects \/ OpenSucceeds \/ OpenFails \/ OpenDisconnects \/ OpenUnwinds
CleanupTask == CleanupCancels \/ CleanupDrains \/ CleanupEnds
CloseTask(t) ==
  \/ ClientCloses(t) \/ ClientClosed(t) \/ CloseImplEnds(t)
  \/ t = Source /\ (CloseAfterOpen \/ CloseAfterFailure \/ CloseAfterReplacement \/ CloseSuccessorEnds)
ReplacementTask ==
  \/ OperationSucceeds \/ OperationFails \/ LoadSucceeds \/ LoadFails
  \/ RollbackSucceeds \/ GiveUp \/ GiveUpEnds \/ GiveUpCut
  \/ Retire \/ CheckpointCancelled \/ RestoreSucceeds
Tasks == OpenTask \/ CleanupTask \/ (\E t \in Closers : CloseTask(t)) \/ ReplacementTask

Resumed(c) ==
  \/ OpenReturns(c) \/ CloseReturns(c) \/ ReplaceReturns(c)
  \/ pc[c] = "retrying" /\ (OpenReturnsAtOnce(c) \/ OpenWaits(c))
  \/ pc[c] = "abandoning_open" /\ cleanup = "none" /\ LeaveCleanup(c)

Next ==
  \/ Tasks
  \/ \E c \in Callers :
       \/ OpenReturnsAtOnce(c) \/ OpenWaits(c) \/ OpenBehindCleanup(c) \/ OpenReturns(c)
       \/ CancelOpen(c) \/ LeaveCleanup(c)
       \/ Close(c) \/ CloseReturns(c) \/ CancelClose(c)
       \/ ReplaceStarts(c) \/ ReplaceReturns(c) \/ CancelReplace(c) \/ CancelReplaced(c)
       \/ UndoEnds(c)

Spec == Init /\ [][Next]_vars

\* The event loop runs the tasks.  It says nothing of those that wait for an
\* RPC, whose timer runs only once the request is written; but a cancellation
\* ends every wait of the replacement.
AwaitsRpc == replacement # "checkpoint" /\ ~cancelling
LoopFairness ==
  /\ WF_vars(opening \notin {"connected", "unwinding"} /\ OpenTask)
  /\ WF_vars(CleanupTask)
  /\ WF_vars(~AwaitsRpc /\ ReplacementTask)
  /\ \A t \in Closers : WF_vars(closing[t] # "asking" /\ CloseTask(t))
  /\ \A c \in Callers : WF_vars(Resumed(c))

LoopSpec == Spec /\ LoopFairness

\* A process that reads its stdin, or is gone: every request is written or fails
\* at once, and then the timer of the RPC runs.
SendFairness ==
  /\ WF_vars(opening \in {"connected", "unwinding"} /\ OpenTask)
  /\ WF_vars(AwaitsRpc /\ ReplacementTask)
  /\ \A t \in Closers : WF_vars(ClientCloses(t))
  /\ \A c \in Callers : WF_vars(UndoEnds(c))

-----------------------------------------------------------------------------
Usable(s)      == state[s] \in {"OPEN", "REPLACING"}
BeingClosed(s) == \E t \in Closers : Of(t) = s /\ closing[t] \in Closing

\* Neither process nor tool servers are ever nobody's: a task is still building
\* them or giving them up, a session that can be used has them, or somebody is
\* closing its session.  The lapses apart, neither cancellation nor failure leaks
\* them; and source and successor, which share them, are never both usable.
OwnerExists ==
  /\ lapses \cap {"undone", "cut"} = {} =>
       /\ process = "up" =>
            \/ opening \in {"connected", "unwinding"}
            \/ replacement = "giving_up"
            \/ \E s \in Sessions : client[s] /\ (Usable(s) \/ BeingClosed(s))
            \/ \E t \in Closers : closing[t] = "asking"
       /\ process = "ending" => \E t \in Closers : closing[t] = "ending"
  /\ servers = "up" /\ lapses = {} =>
       \/ opening \in Opening
       \/ replacement = "giving_up"
       \/ \E s \in Sessions : client[s] /\ (Usable(s) \/ BeingClosed(s))
       \/ \E t \in Closers : closing[t] = "tools"
  /\ Cardinality({s \in Sessions : state[s] = "OPEN"}) <= 1

\* README.md:226-228 and tests/test_v5_session.py:1003.  An open session holds
\* the connection, also one restored after its replacement was cancelled.
ConnectionOwned == \A s \in Sessions : state[s] = "OPEN" => client[s]

\* A close() that returned, whatever the session was doing when it was called,
\* has released the connection, and the session is not opened or restored again.
\* Of two close tasks of a restored source one may return before the other has
\* seen the process end.
ClosedForGood ==
  \A s \in closed :
    /\ lapses \cap {"undone", "cut"} = {} =>
         /\ state[s] \in {"CLOSED", "RETIRED"}
         /\ process = "down" \/ (process = "ending" /\ closing[Again] # "none")
    /\ lapses = {} => servers = "down"

\* A session that says it is being opened is being opened.
\* tests/test_v5_session.py:504, 606: a cancelled open() leaves it retryable.
OpeningGoesOn == state[Source] = "OPENING" /\ cleanup = "none" => opening \in Opening

\* _open_waiters counts those who still have to be resumed, of whatever
\* opening: the last of them, and no other, may undo it.
WaitersCounted ==
  waiters = Cardinality({c \in Callers : pc[c] \in {"opening", "opened", "open_failed"}})

\* Every open(), close(), fork(), compact() and rewind() returns or raises, if
\* the process does not hold a request for good.
CallersReturn ==
  SendFairness => \A c \in Callers : pc[c] # "idle" ~> pc[c] = "idle"

\* With such a process a close() takes effect even if every caller of it is
\* cancelled.
ClosesTakeEffect ==
  SendFairness =>
    \A s \in Sessions :
      closeRequested[s] ~> (process = "down" /\ servers = "down") \/ lapses # {}

-----------------------------------------------------------------------------
(* What Ownership promises *)

\* A session has it, or the close task of one is about to give it up.
Has(s, step) == client[s] \/ \E t \in Closers : Of(t) = s /\ closing[t] = step

\* Who has what is up.  A process that is being ended can no longer be used.
\* What neither a session nor an opening task has is leaked, which Ownership
\* does not know.
Holder(resource, step, lost) ==
  IF lost THEN "lost"
  ELSE IF resource # "up" THEN "nobody"
  ELSE IF Has(Source, step) THEN "source"
  ELSE IF Has(Successor, step) THEN "successor"
  ELSE IF opening \in Opening THEN "opening"
  ELSE "leaked"

Name(s) == IF s = Source THEN "source" ELSE "successor"
Finished == {Name(s) : s \in closed}

Process == INSTANCE Ownership WITH
  holder   <- Holder(process, "asking", lapses \cap {"undone", "cut"} # {}),
  finished <- Finished
Servers == INSTANCE Ownership WITH
  holder   <- Holder(servers, "tools", lapses # {}),
  finished <- Finished

\* Whatever is opened, forked, closed and cancelled at once, the tasks pass the
\* process and the tool servers on as Ownership has it: never leaked, never taken
\* back by a source that was replaced, never built again after a close() returned.
ImplementsOwnership == Process!Spec /\ Servers!Spec
=============================================================================
