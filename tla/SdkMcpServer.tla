---------------------------- MODULE SdkMcpServer ----------------------------
(***************************************************************************)
(* droid_sdk.mcp: start and close of an in-process MCP server, shared by   *)
(* whoever uses its handle.  Each start and each close is a task of the    *)
(* event loop; later ones queue behind the one under way.  A caller waits  *)
(* for a task through a shield, so its cancellation never cancels it.      *)
(*                                                                         *)
(* A uvicorn server has the number of the task that started it.  state.lock *)
(* is never held across an await.                                          *)
(***************************************************************************)
EXTENDS Naturals, FiniteSets

CONSTANTS Callers,    \* tasks that use the handle
          MaxCalls,   \* bound on the calls of each
          MaxTasks    \* bound on the tasks started

ASSUME ServerAssumption == IsFiniteSet(Callers) /\ MaxCalls \in Nat /\ MaxTasks \in Nat

Tasks == 1..MaxTasks
None  == 0

VARIABLES
  runtime,    \* state.runtime: the task that started it
  startTask,  \* state.start_task
  closeTask,  \* state.close_task
  waiters,    \* state.start_waiters
  made,       \* tasks made so far
  kind,       \* what each task does
  behind,     \* the task it waits for
  target,     \* the server it closes
  phase,      \* how far it is
  running,    \* uvicorn servers that listen
  pc,         \* what each caller is doing
  awaits,     \* the task it waits for
  calls,      \* calls it has made
  kept,       \* servers a start() has returned (history)
  since,      \* callers whose close() was called after the last start() (history)
  stopped     \* such a close() has returned (history)

stateVars  == <<runtime, startTask, closeTask, waiters>>
taskVars   == <<made, kind, behind, target, phase>>
historyVars == <<kept, since, stopped>>
vars == <<stateVars, taskVars, running, pc, awaits, calls, historyVars>>

-----------------------------------------------------------------------------
StateOK ==
  /\ runtime \in Tasks \cup {None}
  /\ startTask \in Tasks \cup {None} /\ closeTask \in Tasks \cup {None}

TasksOK ==
  /\ made \in 0..MaxTasks
  /\ kind \in [Tasks -> {"unmade", "start", "close_after_start", "close"}]
  /\ behind \in [Tasks -> Tasks \cup {None}]
  /\ target \in [Tasks -> Tasks \cup {None}]
  /\ phase \in [Tasks -> {"unmade", "waiting", "working", "ok", "failed"}]
  /\ running \subseteq Tasks

CallersOK ==
  /\ waiters \in 0..Cardinality(Callers)
  /\ pc \in [Callers -> {"idle", "starting", "started", "start_failed", "closing"}]
  /\ awaits \in [Callers -> Tasks \cup {None}]
  /\ calls \in [Callers -> 0..MaxCalls]

HistoryOK == kept \subseteq Tasks /\ since \subseteq Callers /\ stopped \in BOOLEAN

TypeOK == StateOK /\ TasksOK /\ CallersOK /\ HistoryOK

Init ==
  /\ runtime = None /\ startTask = None /\ closeTask = None
  /\ waiters = 0
  /\ made = 0
  /\ kind = [t \in Tasks |-> "unmade"]
  /\ behind = [t \in Tasks |-> None]
  /\ target = [t \in Tasks |-> None]
  /\ phase = [t \in Tasks |-> "unmade"]
  /\ running = {}
  /\ pc = [c \in Callers |-> "idle"]
  /\ awaits = [c \in Callers |-> None]
  /\ calls = [c \in Callers |-> 0]
  /\ kept = {}
  /\ since = {}
  /\ stopped = FALSE

-----------------------------------------------------------------------------
Done(t) == t # None /\ phase[t] \in {"ok", "failed"}
Live(t) == t # None /\ ~Done(t)

Calls(c) ==
  /\ pc[c] = "idle"
  /\ calls[c] < MaxCalls
  /\ calls' = [calls EXCEPT ![c] = @ + 1]

Waits(c, p, t) ==
  /\ pc' = [pc EXCEPT ![c] = p]
  /\ awaits' = [awaits EXCEPT ![c] = t]

\* asyncio.create_task()
Create(k, t, server) ==
  /\ made < MaxTasks
  /\ made' = made + 1
  /\ kind' = [kind EXCEPT ![made'] = k]
  /\ behind' = [behind EXCEPT ![made'] = t]
  /\ target' = [target EXCEPT ![made'] = server]
  /\ phase' = [phase EXCEPT ![made'] = IF t = None THEN "working" ELSE "waiting"]

\* Ends task t, and resolves it for the callers that wait for it.
End(t, p) ==
  /\ phase' = [phase EXCEPT ![t] = p]
  /\ pc' = [c \in Callers |->
              IF pc[c] = "starting" /\ awaits[c] = t
                THEN (IF p = "ok" THEN "started" ELSE "start_failed") ELSE pc[c]]

\* A start() makes every close() called before it one that promises nothing.
StartCalled == since' = {} /\ stopped' = FALSE

-----------------------------------------------------------------------------
(* start_sdk_server() *)

StartAtOnce(c) ==
  /\ Calls(c)
  /\ runtime # None /\ ~Live(closeTask)
  /\ kept' = kept \cup {runtime}
  /\ StartCalled
  /\ UNCHANGED <<stateVars, taskVars, running, pc, awaits>>

\* It joins a start under way, or starts anew, behind a close under way.
StartWaits(c) ==
  /\ Calls(c)
  /\ runtime = None \/ Live(closeTask)
  /\ IF Live(startTask)
       THEN UNCHANGED <<startTask, taskVars, running>>
       ELSE /\ Create("start", IF Live(closeTask) THEN closeTask ELSE None, None)
            /\ startTask' = made'
            /\ running' = IF Live(closeTask) THEN running ELSE running \cup {made'}
  /\ waiters' = waiters + 1
  /\ Waits(c, "starting", startTask')
  /\ StartCalled
  /\ UNCHANGED <<runtime, closeTask, kept>>

StartReturns(c) ==
  /\ pc[c] \in {"started", "start_failed"}
  /\ pc' = [pc EXCEPT ![c] = "idle"]
  /\ waiters' = waiters - 1
  /\ kept' = IF pc[c] = "started" THEN kept \cup {awaits[c]} ELSE kept
  /\ UNCHANGED <<runtime, startTask, closeTask, taskVars, running, awaits, calls, since, stopped>>

\* abandon(), which a waiter cancelled before it is resumed runs too.
Abandon(c) ==
  /\ pc[c] \in {"starting", "started", "start_failed"}
  /\ pc' = [pc EXCEPT ![c] = "idle"]
  /\ waiters' = waiters - 1
  /\ IF waiters' = 0 /\ startTask = awaits[c]
       THEN /\ Create("close_after_start", startTask, None)
            /\ startTask' = None
            /\ closeTask' = made'
       ELSE UNCHANGED <<startTask, closeTask, taskVars>>
  /\ UNCHANGED <<runtime, running, awaits, calls, historyVars>>

-----------------------------------------------------------------------------
(* _start_after_close(), _start_sdk_server_impl() *)

StartProceeds(t) ==
  /\ kind[t] = "start" /\ phase[t] = "waiting"
  /\ Done(behind[t])
  /\ phase' = [phase EXCEPT ![t] = "working"]
  /\ running' = running \cup {t}
  /\ UNCHANGED <<stateVars, made, kind, behind, target, pc, awaits, calls, historyVars>>

StartSucceeds(t) ==
  /\ kind[t] = "start" /\ phase[t] = "working"
  /\ End(t, "ok")
  /\ runtime' = t
  /\ UNCHANGED <<startTask, closeTask, waiters, made, kind, behind, target, running, awaits,
                 calls, historyVars>>

\* The server stops, or is not up after 500 looks.
StartFails(t) ==
  /\ kind[t] = "start" /\ phase[t] = "working"
  /\ End(t, "failed")
  /\ running' = running \ {t}
  /\ UNCHANGED <<stateVars, made, kind, behind, target, awaits, calls, historyVars>>

-----------------------------------------------------------------------------
(* close_sdk_server() *)

CloseAtOnce(c) ==
  /\ Calls(c)
  /\ ~Live(startTask) /\ ~Live(closeTask) /\ runtime = None
  /\ stopped' = TRUE
  /\ UNCHANGED <<stateVars, taskVars, running, pc, awaits, kept, since>>

\* Fault: a close under way is joined whatever is starting behind it.
CloseJoinsFirst(c) ==
  /\ Calls(c)
  /\ Live(startTask) \/ Live(closeTask) \/ runtime # None
  /\ IF Live(closeTask)
       THEN UNCHANGED <<startTask, closeTask, taskVars>>
       ELSE /\ IF Live(startTask)
                 THEN Create("close_after_start", startTask, None) /\ startTask' = None
                 ELSE Create("close", None, runtime) /\ UNCHANGED startTask
            /\ closeTask' = made'
  /\ Waits(c, "closing", closeTask')
  /\ since' = since \cup {c}
  /\ UNCHANGED <<runtime, waiters, running, kept, stopped>>

\* A start under way is waited for first, a close under way is joined.
CloseWaits(c) ==
  /\ Calls(c)
  /\ Live(startTask) \/ Live(closeTask) \/ runtime # None
  /\ \/ /\ Live(startTask)
        /\ Create("close_after_start", startTask, None)
        /\ startTask' = None /\ closeTask' = made'
     \/ /\ ~Live(startTask) /\ Live(closeTask)
        /\ UNCHANGED <<startTask, closeTask, taskVars>>
     \/ /\ ~Live(startTask) /\ ~Live(closeTask)
        /\ Create("close", None, runtime)
        /\ closeTask' = made' /\ UNCHANGED startTask
  /\ Waits(c, "closing", closeTask')
  /\ since' = since \cup {c}
  /\ UNCHANGED <<runtime, waiters, running, kept, stopped>>

CloseReturns(c) ==
  /\ pc[c] = "closing"
  /\ Done(awaits[c])
  /\ pc' = [pc EXCEPT ![c] = "idle"]
  /\ stopped' = (stopped \/ c \in since)
  /\ since' = since \ {c}
  /\ UNCHANGED <<stateVars, taskVars, running, awaits, calls, kept>>

\* The close goes on without its caller.
CancelClose(c) ==
  /\ pc[c] = "closing"
  /\ pc' = [pc EXCEPT ![c] = "idle"]
  /\ since' = since \ {c}
  /\ UNCHANGED <<stateVars, taskVars, running, awaits, calls, kept, stopped>>

\* Fault: a close behind a start counts on its server.
CloseProceedsIfStarted(t) ==
  /\ kind[t] = "close_after_start" /\ phase[t] = "waiting"
  /\ Done(behind[t]) /\ phase[behind[t]] = "ok" /\ runtime # None
  /\ target' = [target EXCEPT ![t] = runtime]
  /\ phase' = [phase EXCEPT ![t] = "working"]
  /\ UNCHANGED <<stateVars, made, kind, behind, running, pc, awaits, calls, historyVars>>

\* _close_after_start(): whatever runs when the start has ended.
CloseProceeds(t) ==
  /\ kind[t] = "close_after_start" /\ phase[t] = "waiting"
  /\ Done(behind[t])
  /\ IF phase[behind[t]] = "ok" /\ runtime # None
       THEN /\ target' = [target EXCEPT ![t] = runtime]
            /\ phase' = [phase EXCEPT ![t] = "working"]
       ELSE /\ phase' = [phase EXCEPT ![t] = "ok"]
            /\ UNCHANGED target
  /\ UNCHANGED <<stateVars, made, kind, behind, running, pc, awaits, calls, historyVars>>

\* Fault: the runtime is dropped whichever it is.
CloseServerAny(t) ==
  /\ kind[t] \in {"close", "close_after_start"} /\ phase[t] = "working"
  /\ phase' = [phase EXCEPT ![t] = "ok"]
  /\ running' = running \ {target[t]}
  /\ runtime' = None
  /\ UNCHANGED <<startTask, closeTask, waiters, made, kind, behind, target, pc, awaits, calls,
                 historyVars>>

\* _close_sdk_server_impl(): the server ends by itself or is cancelled.
CloseServer(t) ==
  /\ kind[t] \in {"close", "close_after_start"} /\ phase[t] = "working"
  /\ phase' = [phase EXCEPT ![t] = "ok"]
  /\ running' = running \ {target[t]}
  /\ runtime' = IF runtime = target[t] THEN None ELSE runtime
  /\ UNCHANGED <<startTask, closeTask, waiters, made, kind, behind, target, pc, awaits, calls,
                 historyVars>>

-----------------------------------------------------------------------------
TaskStep(t) ==
  \/ StartProceeds(t) \/ StartSucceeds(t) \/ StartFails(t) \/ CloseProceeds(t) \/ CloseServer(t)

Next ==
  \/ \E t \in Tasks : TaskStep(t)
  \/ \E c \in Callers :
       \/ StartAtOnce(c) \/ StartWaits(c) \/ StartReturns(c) \/ Abandon(c)
       \/ CloseAtOnce(c) \/ CloseWaits(c) \/ CloseReturns(c) \/ CancelClose(c)

Spec == Init /\ [][Next]_vars

\* The loop runs its tasks, and every wait of theirs for a server has a limit.
LoopFairness ==
  /\ \A t \in Tasks : WF_vars(TaskStep(t))
  /\ \A c \in Callers : WF_vars(StartReturns(c) \/ CloseReturns(c))

LoopSpec == Spec /\ LoopFairness

-----------------------------------------------------------------------------
\* A server that listens can be closed: it is coming up, it is the runtime, or
\* a close has it in hand.  No overlap of starts and closes loses one, or has two
\* servers listen for one handle.
NoStrayServer ==
  /\ Cardinality(running) <= 1
  /\ \A t \in running :
       \/ t = runtime
       \/ phase[t] = "working"
       \/ \E u \in Tasks : target[u] = t /\ phase[u] = "working"

\* A close() that returned and was not overtaken by a start() leaves nothing
\* behind, whichever close, start or abandoned start it found under way.
ClosedIsStopped == stopped => running = {} /\ runtime = None

\* Tasks queue behind each other, but never in a circle: every call returns.
CallersReturn == \A c \in Callers : pc[c] # "idle" ~> pc[c] = "idle"

\* mcp.py:357.  "The last cancelled waiter tears down whatever the start
\* produced": when every caller has gone, a server none was given is being closed.
\* Not so with a waiter of an earlier start about: see README, section 5.
AbandonedIsClosed ==
  \A t \in running :
    \/ t \in kept
    \/ \E c \in Callers : pc[c] # "idle"
    \/ \E u \in Tasks : Live(u) /\ kind[u] # "start" /\ (behind[u] = t \/ target[u] = t)
=============================================================================
