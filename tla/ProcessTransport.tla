-------------------------- MODULE ProcessTransport --------------------------
(***************************************************************************)
(* droid_sdk.transport: the child process and its pipes.  Any number of    *)
(* tasks call connect(), send(), read_messages() and close(); pc is the    *)
(* await each stands at.  Processes are numbered in the order in which     *)
(* they are spawned, and so are the write locks, one made by each          *)
(* connect().  The operating system kills, reaps and closes pipes; a pipe  *)
(* may close before its process ends, or after it when a grandchild holds  *)
(* it.  Messages read are handed on at once and change nothing here.       *)
(***************************************************************************)
EXTENDS Naturals, FiniteSets

CONSTANTS Tasks,      \* tasks that use the transport
          MaxCalls,   \* bound on the calls made
          MaxSpawns   \* bound on the processes spawned

ASSUME TransportAssumption == MaxCalls \in Nat /\ MaxSpawns \in Nat

Processes == 1..MaxSpawns
None == 0

VARIABLES
  process,      \* self._process
  connected,    \* self._is_connected
  closing,      \* self._is_closing
  error,        \* self._process_error: the process whose end it reports
  drainer,      \* self._stderr_task: the process whose stderr it reads
  drain,        \* state of each stderr task
  lock,         \* self._write_lock: the process it was made for
  spawned,      \* processes spawned so far
  os,           \* operating system: state of each process
  stdout,       \* processes whose stdout is open
  stderr,       \* processes whose stderr is open
  pc,           \* what each task is doing
  held,         \* the process in its local variable or whose stderr it waits for
  queue,        \* the lock it has or waits for
  calls,        \* calls made so far
  outcome,      \* how its last read_messages() ended (history)
  overlap       \* what overlapped a connect() so far, or was reported too late (history)

fieldVars == <<process, connected, closing, error, drainer, lock>>
osVars    == <<spawned, os, stdout, stderr>>
taskVars  == <<pc, held, queue, calls>>
vars == <<fieldVars, drain, osVars, taskVars, outcome, overlap>>

Connecting == {"clean", "spawn"}
Sending    == {"lock", "drain"}
Reading    == {"read", "exit wait", "read stderr"}
Closing    == {"grace", "kill wait", "close stderr"}
-----------------------------------------------------------------------------
FlagsOK == connected \in BOOLEAN /\ closing \in BOOLEAN

TypeOK ==
  /\ FlagsOK
  /\ process \in Processes \cup {None} /\ error \in Processes \cup {None}
  /\ drainer \in Processes \cup {None} /\ lock \in Processes \cup {None}
  /\ drain \in [Processes -> {"none", "reading", "cancelled", "done"}]
  /\ spawned \in 0..MaxSpawns
  /\ os \in [Processes -> {"none", "running", "killed", "dead"}]
  /\ stdout \subseteq Processes /\ stderr \subseteq Processes
  /\ pc \in [Tasks -> {"idle"} \cup Connecting \cup Sending \cup Reading \cup Closing]
  /\ held \in [Tasks -> Processes \cup {None}]
  /\ queue \in [Tasks -> Processes \cup {None}]
  /\ calls \in 0..MaxCalls
  /\ outcome \in [Tasks -> {"none", "raised", "ended", "cancelled"}]
  /\ overlap \subseteq {"connect", "close", "reader", "report"}

Init ==
  /\ process = None /\ error = None /\ drainer = None /\ lock = None
  /\ connected = FALSE /\ closing = FALSE
  /\ drain = [p \in Processes |-> "none"]
  /\ spawned = 0
  /\ os = [p \in Processes |-> "none"]
  /\ stdout = {} /\ stderr = {}
  /\ pc = [t \in Tasks |-> "idle"]
  /\ held = [t \in Tasks |-> None]
  /\ queue = [t \in Tasks |-> None]
  /\ calls = 0
  /\ outcome = [t \in Tasks |-> "none"]
  /\ overlap = {}

-----------------------------------------------------------------------------
Alive(p) == os[p] \in {"running", "killed"}

Called(t) ==
  /\ pc[t] = "idle"
  /\ calls < MaxCalls
  /\ calls' = calls + 1

\* Task t goes to an await, with process p in hand.
Goes(t, to, p) ==
  /\ pc' = [pc EXCEPT ![t] = to]
  /\ held' = [held EXCEPT ![t] = p]
  /\ queue' = [queue EXCEPT ![t] = IF to \in Sending THEN lock ELSE None]

Leaves(t) == Goes(t, "idle", None)

\* _finish_stderr_task(): takes the task away, cancels it if asked to, and waits
\* for it at `wait'; a task that is done is not waited for.
MustWait == drainer # None /\ drain[drainer] # "done"

FinishStderr(cancel) ==
  /\ drainer' = None
  /\ drain' = IF MustWait /\ cancel THEN [drain EXCEPT ![drainer] = "cancelled"] ELSE drain

-----------------------------------------------------------------------------
(* connect() *)

Resets == error' = None /\ closing' = FALSE

ConnectRefused(t) ==
  /\ Called(t)
  /\ connected
  /\ UNCHANGED <<fieldVars, drain, osVars, pc, held, queue, outcome, overlap>>

Overlaps(t) ==
  overlap \cup (IF \E u \in Tasks \ {t} : pc[u] \in Connecting THEN {"connect"} ELSE {})
          \cup (IF \E u \in Tasks : pc[u] \in Closing THEN {"close"} ELSE {})
          \cup (IF \E u \in Tasks : pc[u] \in Reading THEN {"reader"} ELSE {})

ConnectBegins(t) ==
  /\ Called(t)
  /\ ~connected
  /\ overlap' = Overlaps(t)
  /\ FinishStderr(TRUE)
  /\ IF MustWait THEN Goes(t, "clean", drainer) /\ UNCHANGED <<error, closing>>
                 ELSE Goes(t, "spawn", None) /\ Resets
  /\ UNCHANGED <<process, connected, lock, osVars, outcome>>

\* Write locks are fair; a sender is released when its process has ended.  Spawning
\* takes the loop many turns: whoever was ready before has been resumed.
LockFree(l) == \A u \in Tasks : ~(pc[u] = "drain" /\ queue[u] = l)
SendReady(u) ==
  \/ pc[u] = "lock" /\ LockFree(queue[u])
  \/ pc[u] = "drain" /\ ~Alive(held[u])

ConnectCleaned(t) ==
  /\ pc[t] = "clean" /\ drain[held[t]] = "done"
  /\ Goes(t, "spawn", None)
  /\ Resets
  /\ UNCHANGED <<process, connected, drainer, lock, drain, osVars, calls, outcome, overlap>>

ConnectSpawns(t) ==
  /\ pc[t] = "spawn" /\ spawned < MaxSpawns
  /\ ~\E u \in Tasks : SendReady(u)
  /\ spawned' = spawned + 1
  /\ os' = [os EXCEPT ![spawned'] = "running"]
  /\ stdout' = stdout \cup {spawned'} /\ stderr' = stderr \cup {spawned'}
  /\ process' = spawned'
  /\ connected' = TRUE
  /\ lock' = spawned'
  /\ drainer' = spawned'
  /\ drain' = [drain EXCEPT ![spawned'] = "reading"]
  /\ overlap' = Overlaps(t)
  /\ Leaves(t)
  /\ UNCHANGED <<closing, error, calls, outcome>>

\* The executable is missing, the spawn fails, or connect() is cancelled.
ConnectFails(t) ==
  /\ pc[t] = "spawn" \/ (pc[t] = "clean" /\ drain[held[t]] # "done")
  /\ Leaves(t)
  /\ UNCHANGED <<fieldVars, drain, osVars, calls, outcome, overlap>>

-----------------------------------------------------------------------------
(* send() *)

Usable == error = None /\ connected /\ process # None

SendBegins(t) ==
  /\ Called(t)
  /\ IF ~Usable THEN UNCHANGED <<pc, held, queue>>
     ELSE Goes(t, IF LockFree(lock) THEN "drain" ELSE "lock", process)
  /\ UNCHANGED <<fieldVars, drain, osVars, outcome, overlap>>

\* Fault: a sender that finds the transport gone asks for the lock again.
FaultSendLocked(t) ==
  /\ pc[t] = "lock" /\ LockFree(queue[t]) /\ Usable
  /\ pc' = [pc EXCEPT ![t] = "drain"]
  /\ held' = [held EXCEPT ![t] = process]
  /\ UNCHANGED <<fieldVars, drain, osVars, queue, calls, outcome, overlap>>

\* The lock is got: everything is checked again before the line is written.
SendLocked(t) ==
  /\ pc[t] = "lock" /\ LockFree(queue[t])
  /\ IF Usable
       THEN /\ pc' = [pc EXCEPT ![t] = "drain"]
            /\ held' = [held EXCEPT ![t] = process]
            /\ UNCHANGED queue
       ELSE Leaves(t)
  /\ UNCHANGED <<fieldVars, drain, osVars, calls, outcome, overlap>>

\* drain() returns when the process has read enough, or fails when it is gone.
SendEnds(t) ==
  /\ pc[t] = "drain"
  /\ Leaves(t)
  /\ UNCHANGED <<fieldVars, drain, osVars, calls, outcome, overlap>>

CancelSend(t) ==
  /\ pc[t] = "lock"
  /\ Leaves(t)
  /\ UNCHANGED <<fieldVars, drain, osVars, calls, outcome, overlap>>

-----------------------------------------------------------------------------
(* read_messages() *)

\* A second reader of the same stdout is refused by asyncio.
ReadBegins(t) ==
  /\ Called(t)
  /\ process # None
  /\ ~\E u \in Tasks : pc[u] = "read" /\ held[u] = process
  /\ Goes(t, "read", process)
  /\ outcome' = [outcome EXCEPT ![t] = "none"]
  /\ overlap' = IF \E u \in Tasks : pc[u] \in Connecting THEN overlap \cup {"reader"} ELSE overlap
  /\ UNCHANGED <<fieldVars, drain, osVars>>

ReadReturns(t, how) ==
  /\ Leaves(t)
  /\ outcome' = [outcome EXCEPT ![t] = how]

\* Fault: the read loop just ends when the process has exited by itself.
FaultExitSeen(t) ==
  /\ FinishStderr(FALSE)
  /\ connected' = FALSE
  /\ ReadReturns(t, "ended")
  /\ UNCHANGED <<error, overlap>>

\* The exit is reported; the reader may be one that was left over from an earlier
\* process, and the transport's own still run.
Reports(t) ==
  /\ connected' = FALSE
  /\ error' = held[t]
  /\ ReadReturns(t, "raised")
  /\ overlap' = IF process # None /\ Alive(process) THEN overlap \cup {"report"} ELSE overlap

\* The process has ended: its stderr is awaited for the diagnostic.
ExitSeen(t) ==
  /\ FinishStderr(FALSE)
  /\ IF MustWait
       THEN Goes(t, "read stderr", drainer) /\ UNCHANGED <<connected, error, outcome, overlap>>
       ELSE Reports(t)

ReadEof(t) ==
  /\ pc[t] = "read" /\ held[t] \notin stdout
  /\ IF closing
       THEN ReadReturns(t, "ended") /\ UNCHANGED <<connected, error, drainer, drain, overlap>>
     ELSE IF Alive(held[t])
       THEN /\ Goes(t, "exit wait", held[t])
            /\ UNCHANGED <<connected, error, drainer, drain, outcome, overlap>>
     ELSE ExitSeen(t)
  /\ UNCHANGED <<process, closing, lock, osVars, calls>>

\* wait_for(process.wait(), 2.0): after the limit the loop ends without an error.
ReadWaited(t) ==
  /\ pc[t] = "exit wait"
  /\ IF Alive(held[t])
       THEN ReadReturns(t, "ended") /\ UNCHANGED <<connected, error, drainer, drain, overlap>>
       ELSE ExitSeen(t)
  /\ UNCHANGED <<process, closing, lock, osVars, calls>>

\* The stderr task it waited for may be that of a later process.
ReadReports(t) ==
  /\ pc[t] = "read stderr" /\ drain[held[t]] = "done"
  /\ Reports(t)
  /\ UNCHANGED <<process, closing, drainer, lock, drain, osVars, calls>>

CancelRead(t) ==
  /\ pc[t] \in {"read", "exit wait"} \/ (pc[t] = "read stderr" /\ drain[held[t]] # "done")
  /\ ReadReturns(t, "cancelled")
  /\ UNCHANGED <<fieldVars, drain, osVars, calls, overlap>>

-----------------------------------------------------------------------------
(* close() *)

CloseBegins(t) ==
  /\ Called(t)
  /\ ~closing
  /\ connected' = FALSE
  /\ process' = None
  /\ IF process # None /\ Alive(process)
       THEN Goes(t, "grace", process) /\ closing' = TRUE /\ UNCHANGED <<drainer, drain>>
     ELSE /\ FinishStderr(FALSE)
          /\ IF MustWait THEN Goes(t, "close stderr", drainer) /\ closing' = TRUE
                         ELSE Leaves(t) /\ closing' = FALSE
  /\ UNCHANGED <<error, lock, osVars, outcome, overlap>>

\* The `finally' of close(), with `process' in hand.
CloseFinally(t) ==
  /\ FinishStderr(Alive(held[t]))
  /\ IF MustWait THEN Goes(t, "close stderr", drainer) /\ UNCHANGED closing
                 ELSE Leaves(t) /\ closing' = FALSE
  /\ UNCHANGED <<process, connected, error, lock, calls, outcome, overlap>>

CloseWaited(t) ==
  /\ \/ pc[t] = "grace" /\ ~Alive(held[t])
     \/ pc[t] = "kill wait"     \* the process has ended, or after two seconds, or cancelled
  /\ CloseFinally(t)
  /\ UNCHANGED osVars

\* Fault: a cancelled close goes straight to its `finally'.
FaultCloseKills(t) ==
  /\ pc[t] = "grace"
  /\ CloseFinally(t)
  /\ UNCHANGED osVars

\* Fault: SIGKILL is never sent, the wait goes on.
FaultNeverKills(t) ==
  /\ pc[t] = "grace"
  /\ UNCHANGED vars

\* The grace period is over, or close() is cancelled within it.
CloseKills(t) ==
  /\ pc[t] = "grace"
  /\ os' = [os EXCEPT ![held[t]] = IF Alive(held[t]) THEN "killed" ELSE @]
  /\ Goes(t, "kill wait", held[t])
  /\ UNCHANGED <<fieldVars, drain, spawned, stdout, stderr, calls, outcome, overlap>>

CloseEnds(t) ==
  /\ pc[t] = "close stderr" /\ drain[held[t]] = "done"
  /\ closing' = FALSE
  /\ Leaves(t)
  /\ UNCHANGED <<process, connected, error, drainer, lock, drain, osVars, calls, outcome, overlap>>

CancelClose(t) ==
  /\ pc[t] = "close stderr" /\ drain[held[t]] # "done"
  /\ closing' = FALSE
  /\ Leaves(t)
  /\ UNCHANGED <<process, connected, error, drainer, lock, drain, osVars, calls, outcome, overlap>>

-----------------------------------------------------------------------------
(* stderr tasks and the operating system *)

DrainEnds(p) ==
  /\ \/ drain[p] = "cancelled"
     \/ drain[p] = "reading" /\ p \notin stderr
  /\ drain' = [drain EXCEPT ![p] = "done"]
  /\ UNCHANGED <<fieldVars, osVars, taskVars, outcome, overlap>>

Exit(p) ==
  /\ Alive(p)
  /\ os' = [os EXCEPT ![p] = "dead"]
  /\ UNCHANGED <<fieldVars, drain, spawned, stdout, stderr, taskVars, outcome, overlap>>

PipesClose(p) ==
  /\ \/ stdout' = stdout \ {p} /\ p \in stdout /\ UNCHANGED stderr
     \/ stderr' = stderr \ {p} /\ p \in stderr /\ UNCHANGED stdout
  /\ UNCHANGED <<fieldVars, drain, spawned, os, taskVars, outcome, overlap>>

-----------------------------------------------------------------------------
ConnectStep(t) == ConnectCleaned(t) \/ ConnectSpawns(t) \/ ConnectFails(t)
ReadStep(t)    == ReadEof(t) \/ ReadWaited(t) \/ ReadReports(t)
CloseStep(t)   == CloseWaited(t) \/ CloseKills(t) \/ CloseEnds(t)

Next ==
  \/ \E t \in Tasks :
       \/ ConnectRefused(t) \/ ConnectBegins(t) \/ ConnectStep(t)
       \/ SendBegins(t) \/ SendLocked(t) \/ SendEnds(t) \/ CancelSend(t)
       \/ ReadBegins(t) \/ ReadStep(t) \/ CancelRead(t)
       \/ CloseBegins(t) \/ CloseStep(t) \/ CancelClose(t)
  \/ \E p \in Processes : DrainEnds(p) \/ Exit(p) \/ PipesClose(p)

Spec == Init /\ [][Next]_vars

\* The loop resumes a task whose await is done; the waits of close() and of the
\* reader for an exit have limits.  A killed process ends, and a write to a
\* process that has ended fails.
LoopFairness ==
  /\ \A t \in Tasks :
       /\ WF_vars(ConnectCleaned(t)) /\ WF_vars(SendLocked(t)) /\ WF_vars(ReadStep(t))
       /\ WF_vars(CloseStep(t))
       /\ WF_vars(SendEnds(t) /\ ~Alive(held[t]))
  /\ \A p \in Processes : WF_vars(DrainEnds(p)) /\ WF_vars(os[p] = "killed" /\ Exit(p))

LoopSpec == Spec /\ LoopFairness

\* No grandchild keeps the pipes of a process that has ended.
PipeFairness == \A p \in Processes : WF_vars(os[p] = "dead" /\ PipesClose(p))

-----------------------------------------------------------------------------
\* A process that runs has somebody who will end it: it is the transport's, a
\* close() still waits for it, or it has been killed.  A close() that is cancelled,
\* even twice, leaves none behind.  Of two connect() that overlap, one process
\* is overwritten (transport.py:131); so is one that runs when a reader left over
\* from an earlier process reports the end of that one (transport.py:292).
NoOrphan ==
  overlap \cap {"connect", "report"} = {} =>
    \A p \in Processes : os[p] = "running" =>
      p = process \/ \E t \in Tasks : pc[t] = "grace" /\ held[t] = p

\* A process that ends while it is read is reported to the reader as an error,
\* unless the reader was cancelled or the process is being closed: the engine
\* relies on it to fail its calls.
DeathIsReported ==
  PipeFairness =>
    \A t \in Tasks : pc[t] = "read" /\ held[t] # None /\ os[held[t]] = "dead" ~>
      outcome[t] \in {"raised", "cancelled"} \/ process = None \/ overlap # {}

\* close() always ends, however the process behaves, as long as its stderr ends
\* with it and no connect() comes in between.
ClosesEnd ==
  PipeFairness =>
    \A t \in Tasks : pc[t] \in Closing ~> pc[t] \notin Closing \/ "close" \in overlap

\* A process that has ended, or is closed, holds no sender: not the one in
\* drain(), and not those behind it.
SendersReleased ==
  \A t \in Tasks : pc[t] \in Sending /\ (process # held[t] \/ ~Alive(held[t])) ~>
    pc[t] \notin Sending \/ overlap # {}
=============================================================================
