----------------------- MODULE ProcessTransportProofs -----------------------
(***************************************************************************)
(* Theorems about ProcessTransport for every set of tasks and any number   *)
(* of calls and processes.  NoOrphan is not inductive: connect() spawns    *)
(* over whatever self._process holds, so a process that runs must be seen  *)
(* in self._is_connected while no second connect() is under way.           *)
(***************************************************************************)
EXTENDS ProcessTransport, TLAPS

\* Of connect() calls that do not overlap one at most is under way, and until it
\* ends the transport is not connected.
OneConnects ==
  "connect" \notin overlap =>
    \A t \in Tasks : pc[t] \in Connecting =>
      ~connected /\ \A u \in Tasks : pc[u] \in Connecting => u = t

\* The transport knows that its process runs.
RunningIsConnected ==
  overlap \cap {"connect", "report"} = {} =>
    (process # None /\ os[process] = "running" => connected)

OrphanInv == OneConnects /\ RunningIsConnected /\ NoOrphan

-----------------------------------------------------------------------------
(* Types *)

\* A task that goes to an await, with a process or none in hand, keeps the types.
LEMMA GoesKeepsTypes ==
  ASSUME TypeOK, NEW t \in Tasks, NEW to, NEW p \in Processes \cup {None}, Goes(t, to, p),
         to \in {"idle"} \cup Connecting \cup Sending \cup Reading \cup Closing
  PROVE  /\ pc' \in [Tasks -> {"idle"} \cup Connecting \cup Sending \cup Reading \cup Closing]
         /\ held' \in [Tasks -> Processes \cup {None}]
         /\ queue' \in [Tasks -> Processes \cup {None}]
BY DEF TypeOK, Goes

\* So does one that returns.
LEMMA LeavesKeepsTypes ==
  ASSUME TypeOK, NEW t \in Tasks, Leaves(t)
  PROVE  /\ pc' \in [Tasks -> {"idle"} \cup Connecting \cup Sending \cup Reading \cup Closing]
         /\ held' \in [Tasks -> Processes \cup {None}]
         /\ queue' \in [Tasks -> Processes \cup {None}]
BY DEF TypeOK, Goes, Leaves

\* Calls stay within their bound.
LEMMA CalledKeepsTypes ==
  ASSUME TypeOK, NEW t \in Tasks, Called(t)
  PROVE  calls' \in 0..MaxCalls
BY TransportAssumption DEF TypeOK, Called

\* _finish_stderr_task() keeps the types of what it changes.
LEMMA FinishKeepsTypes ==
  ASSUME TypeOK, FinishStderr(TRUE) \/ FinishStderr(FALSE)
  PROVE  /\ drainer' = None
         /\ drain' \in [Processes -> {"none", "reading", "cancelled", "done"}]
         /\ MustWait => drainer \in Processes
BY DEF TypeOK, FinishStderr, MustWait

\* The flags of the transport are only set to TRUE or FALSE.
LEMMA FlagsKeepTypes == FlagsOK /\ [Next]_vars => FlagsOK'
<1> SUFFICES ASSUME FlagsOK, [Next]_vars PROVE FlagsOK'
  OBVIOUS
<1> USE DEF fieldVars
<1>1. ASSUME NEW t \in Tasks, ConnectRefused(t) \/ ConnectBegins(t) \/ ConnectStep(t)
      PROVE  FlagsOK'
  BY <1>1 DEF FlagsOK, ConnectRefused, ConnectBegins, ConnectStep, ConnectCleaned, ConnectSpawns,
     ConnectFails, Resets
<1>2. ASSUME NEW t \in Tasks, SendBegins(t) \/ SendLocked(t) \/ SendEnds(t) \/ CancelSend(t)
      PROVE  FlagsOK'
  BY <1>2 DEF FlagsOK, SendBegins, SendLocked, SendEnds, CancelSend
<1>3. ASSUME NEW t \in Tasks, ReadBegins(t) \/ ReadStep(t) \/ CancelRead(t)
      PROVE  FlagsOK'
  BY <1>3 DEF FlagsOK, ReadBegins, ReadStep, ReadEof, ReadWaited, ReadReports, CancelRead,
     ExitSeen, Reports
<1>4. ASSUME NEW t \in Tasks, CloseBegins(t) \/ CloseStep(t) \/ CancelClose(t)
      PROVE  FlagsOK'
  BY <1>4 DEF FlagsOK, CloseBegins, CloseStep, CloseWaited, CloseFinally, CloseKills, CloseEnds,
     CancelClose
<1>5. ASSUME NEW p \in Processes, DrainEnds(p) \/ Exit(p) \/ PipesClose(p)
      PROVE  FlagsOK'
  BY <1>5 DEF FlagsOK, DrainEnds, Exit, PipesClose
<1>6. CASE UNCHANGED vars
  BY <1>6 DEF FlagsOK, vars
<1> QED BY <1>1, <1>2, <1>3, <1>4, <1>5, <1>6 DEF Next

\* Every variable keeps its type.
THEOREM TransportTypeCorrect == Spec => []TypeOK
<1>1. Init => TypeOK
  <2> SUFFICES ASSUME Init PROVE TypeOK
    OBVIOUS
  <2>1. FlagsOK
    BY DEF Init, FlagsOK
  <2> QED BY <2>1, TransportAssumption DEF Init, TypeOK
<1>2. TypeOK /\ [Next]_vars => TypeOK'
  <2> SUFFICES ASSUME TypeOK, [Next]_vars PROVE TypeOK'
    OBVIOUS
  <2> USE TransportAssumption
  <2> FlagsOK'
    BY FlagsKeepTypes DEF TypeOK
  <2>0. ASSUME NEW t \in Tasks, ExitSeen(t), UNCHANGED <<process, closing, lock, osVars, calls>>
        PROVE  TypeOK'
    <3>1. CASE MustWait
      BY <2>0, <3>1, FinishKeepsTypes, GoesKeepsTypes DEF ExitSeen, osVars, TypeOK, Reading
    <3>2. CASE ~MustWait
      <4>1. FinishStderr(FALSE) /\ Reports(t)
        BY <2>0, <3>2 DEF ExitSeen
      <4>2. /\ error' \in Processes \cup {None}
            /\ overlap' \subseteq {"connect", "close", "reader", "report"}
            /\ Leaves(t) /\ outcome' = [outcome EXCEPT ![t] = "raised"]
        BY <4>1 DEF Reports, ReadReturns, TypeOK
      <4> QED BY <2>0, <4>1, <4>2, FinishKeepsTypes, LeavesKeepsTypes DEF osVars, TypeOK
    <3> QED BY <3>1, <3>2
  <2>1. ASSUME NEW t \in Tasks, ConnectRefused(t) \/ ConnectBegins(t) \/ ConnectStep(t)
        PROVE  TypeOK'
    <3>1. CASE ConnectRefused(t)  BY <3>1 DEF ConnectRefused, Called, fieldVars, osVars, TypeOK
    <3>2. CASE ConnectBegins(t)
      <4>1. CASE MustWait
        BY <3>2, <4>1, FinishKeepsTypes, GoesKeepsTypes
        DEF ConnectBegins, Called, Overlaps, Connecting, osVars, TypeOK
      <4>2. CASE ~MustWait
        BY <3>2, <4>2, FinishKeepsTypes, GoesKeepsTypes
        DEF ConnectBegins, Called, Overlaps, Connecting, Resets, osVars, TypeOK
      <4> QED BY <4>1, <4>2
    <3>3. CASE ConnectCleaned(t)
      BY <3>3, GoesKeepsTypes DEF ConnectCleaned, Connecting, Resets, osVars, TypeOK
    <3>4. CASE ConnectSpawns(t)
      BY <3>4, LeavesKeepsTypes DEF ConnectSpawns, Overlaps, Processes, TypeOK
    <3>5. CASE ConnectFails(t)
      BY <3>5, LeavesKeepsTypes DEF ConnectFails, fieldVars, osVars, TypeOK
    <3> QED BY <2>1, <3>1, <3>2, <3>3, <3>4, <3>5 DEF ConnectStep
  <2>2. ASSUME NEW t \in Tasks, SendBegins(t) \/ SendLocked(t) \/ SendEnds(t) \/ CancelSend(t)
        PROVE  TypeOK'
    <3>1. CASE SendBegins(t)
      BY <3>1, GoesKeepsTypes DEF SendBegins, Called, Sending, fieldVars, osVars, TypeOK
    <3>2. CASE SendLocked(t)
      BY <3>2, LeavesKeepsTypes DEF SendLocked, Sending, fieldVars, osVars, TypeOK
    <3>3. CASE SendEnds(t)
      BY <3>3, LeavesKeepsTypes DEF SendEnds, fieldVars, osVars, TypeOK
    <3>4. CASE CancelSend(t)
      BY <3>4, LeavesKeepsTypes DEF CancelSend, fieldVars, osVars, TypeOK
    <3> QED BY <2>2, <3>1, <3>2, <3>3, <3>4
  <2>3. ASSUME NEW t \in Tasks, ReadBegins(t) \/ ReadStep(t) \/ CancelRead(t)
        PROVE  TypeOK'
    <3>1. CASE ReadBegins(t)
      <4>1. Goes(t, "read", process) /\ calls' \in 0..MaxCalls
        BY <3>1 DEF ReadBegins, Called, TypeOK
      <4> QED
        BY <3>1, <4>1, GoesKeepsTypes DEF ReadBegins, Reading, fieldVars, osVars, TypeOK
    <3>2. CASE ReadEof(t)
      <4>1. CASE closing
        BY <3>2, <4>1, LeavesKeepsTypes DEF ReadEof, ReadReturns, osVars, TypeOK
      <4>2. CASE ~closing /\ Alive(held[t])
        BY <3>2, <4>2, GoesKeepsTypes DEF ReadEof, Reading, osVars, TypeOK
      <4>3. CASE ~closing /\ ~Alive(held[t])
        BY <3>2, <4>3, <2>0 DEF ReadEof
      <4> QED BY <4>1, <4>2, <4>3
    <3>3. CASE ReadWaited(t)
      <4>1. CASE Alive(held[t])
        BY <3>3, <4>1, LeavesKeepsTypes DEF ReadWaited, ReadReturns, osVars, TypeOK
      <4>2. CASE ~Alive(held[t])
        BY <3>3, <4>2, <2>0 DEF ReadWaited
      <4> QED BY <4>1, <4>2
    <3>4. CASE ReadReports(t)
      BY <3>4, LeavesKeepsTypes DEF ReadReports, Reports, ReadReturns, osVars, TypeOK
    <3>5. CASE CancelRead(t)
      BY <3>5, LeavesKeepsTypes DEF CancelRead, ReadReturns, fieldVars, osVars, TypeOK
    <3> QED BY <2>3, <3>1, <3>2, <3>3, <3>4, <3>5 DEF ReadStep
  <2>4. ASSUME NEW t \in Tasks, CloseBegins(t) \/ CloseStep(t) \/ CancelClose(t)
        PROVE  TypeOK'
    <3>1. CASE CloseBegins(t)
      <4>0. /\ process' = None /\ calls' \in 0..MaxCalls
            /\ UNCHANGED <<error, lock, spawned, os, stdout, stderr, outcome, overlap>>
        <5>1. Called(t)
          BY <3>1 DEF CloseBegins
        <5> QED BY <3>1, <5>1, CalledKeepsTypes DEF CloseBegins, osVars
      <4>1. CASE process # None /\ Alive(process)
        <5>1. Goes(t, "grace", process) /\ UNCHANGED <<drainer, drain>>
          BY <3>1, <4>1 DEF CloseBegins
        <5> QED BY <4>0, <5>1, GoesKeepsTypes DEF Closing, TypeOK
      <4>2. CASE ~(process # None /\ Alive(process)) /\ MustWait
        <5>1. Goes(t, "close stderr", drainer) /\ FinishStderr(FALSE)
          BY <3>1, <4>2 DEF CloseBegins
        <5> QED BY <4>0, <4>2, <5>1, FinishKeepsTypes, GoesKeepsTypes DEF Closing, TypeOK
      <4>3. CASE ~(process # None /\ Alive(process)) /\ ~MustWait
        <5>1. Leaves(t) /\ FinishStderr(FALSE)
          BY <3>1, <4>3 DEF CloseBegins
        <5> QED BY <4>0, <5>1, FinishKeepsTypes, LeavesKeepsTypes DEF TypeOK
      <4> QED BY <4>1, <4>2, <4>3
    <3>2. CASE CloseWaited(t)
      <4>1. FinishStderr(TRUE) \/ FinishStderr(FALSE)
        BY <3>2 DEF CloseWaited, CloseFinally, FinishStderr
      <4>2. CASE MustWait
        BY <3>2, <4>1, <4>2, FinishKeepsTypes, GoesKeepsTypes
        DEF CloseWaited, CloseFinally, Closing, osVars, TypeOK
      <4>3. CASE ~MustWait
        BY <3>2, <4>1, <4>3, FinishKeepsTypes, LeavesKeepsTypes
        DEF CloseWaited, CloseFinally, osVars, TypeOK
      <4> QED BY <4>2, <4>3
    <3>3. CASE CloseKills(t)
      BY <3>3, GoesKeepsTypes DEF CloseKills, Closing, fieldVars, TypeOK
    <3>4. CASE CloseEnds(t) \/ CancelClose(t)
      BY <3>4, LeavesKeepsTypes DEF CloseEnds, CancelClose, osVars, TypeOK
    <3> QED BY <2>4, <3>1, <3>2, <3>3, <3>4 DEF CloseStep
  <2>5. ASSUME NEW p \in Processes, DrainEnds(p) \/ Exit(p) \/ PipesClose(p)
        PROVE  TypeOK'
    BY <2>5 DEF DrainEnds, Exit, PipesClose, fieldVars, osVars, taskVars, TypeOK
  <2>6. CASE UNCHANGED vars
    BY <2>6 DEF vars, fieldVars, osVars, taskVars, TypeOK
  <2> QED BY <2>1, <2>2, <2>3, <2>4, <2>5, <2>6 DEF Next
<1> QED BY <1>1, <1>2, PTL DEF Spec
-----------------------------------------------------------------------------
(* No orphan *)

\* What a task does that neither begins to connect nor leaves a process it waits for
\* running disturbs no part of the invariant.
LEMMA OrphanInvFrame ==
  ASSUME OrphanInv, NEW t \in Tasks, UNCHANGED <<process, connected, os>>,
         overlap \subseteq overlap',
         \A u \in Tasks \ {t} : pc'[u] = pc[u] /\ held'[u] = held[u],
         pc[t] # "grace" \/ os[held[t]] # "running",
         pc'[t] \in Connecting => pc[t] \in Connecting
  PROVE  OrphanInv'
BY DEF OrphanInv, OneConnects, RunningIsConnected, NoOrphan, Connecting

\* A task that goes somewhere leaves the others where they are.
LEMMA GoesAlone ==
  ASSUME TypeOK, NEW t \in Tasks, NEW to, NEW p, Goes(t, to, p)
  PROVE  /\ pc'[t] = to /\ held'[t] = p
         /\ \A u \in Tasks \ {t} : pc'[u] = pc[u] /\ held'[u] = held[u]
BY DEF TypeOK, Goes

\* The invariant is inductive: a process is overwritten only by a connect() that
\* found the transport not connected and is the only one under way.
LEMMA OrphanInvStep == TypeOK /\ OrphanInv /\ [Next]_vars => OrphanInv'
<1> SUFFICES ASSUME TypeOK, OrphanInv, [Next]_vars PROVE OrphanInv'
  OBVIOUS
<1>0. ASSUME NEW t \in Tasks, NEW to, NEW p, Goes(t, to, p), to \notin Connecting,
             pc[t] # "grace" \/ os[held[t]] # "running",
             UNCHANGED <<process, connected, os>>, overlap \subseteq overlap'
      PROVE  OrphanInv'
  BY <1>0, GoesAlone, OrphanInvFrame
<1>1. ASSUME NEW t \in Tasks, ConnectRefused(t) PROVE OrphanInv'
  <2>1. pc[t] = "idle"
    BY <1>1 DEF ConnectRefused, Called
  <2> QED BY <1>1, <2>1, OrphanInvFrame DEF ConnectRefused, fieldVars, osVars
<1>2. ASSUME NEW t \in Tasks, ConnectBegins(t) PROVE OrphanInv'
  <2>1. \E p : Goes(t, "clean", p) \/ Goes(t, "spawn", p)
    BY <1>2 DEF ConnectBegins
  <2>2. pc[t] = "idle" /\ ~connected /\ overlap' = Overlaps(t)
    BY <1>2 DEF ConnectBegins, Called
  <2>3. \A u \in Tasks \ {t} : pc'[u] = pc[u] /\ held'[u] = held[u]
    BY <2>1, GoesAlone
  <2>4. UNCHANGED <<process, connected, os>>
    BY <1>2 DEF ConnectBegins, osVars
  <2>5. OneConnects'
    BY <2>2, <2>3, <2>4 DEF OneConnects, Overlaps
  <2>6. RunningIsConnected' /\ NoOrphan'
    BY <2>2, <2>3, <2>4 DEF OrphanInv, RunningIsConnected, NoOrphan, Overlaps
  <2> QED BY <2>5, <2>6 DEF OrphanInv
<1>3. ASSUME NEW t \in Tasks, ConnectSpawns(t) PROVE OrphanInv'
  <2>1. /\ pc[t] \in Connecting /\ pc[t] # "grace" /\ overlap' = Overlaps(t)
        /\ spawned + 1 \in Processes
    <3>1. spawned + 1 \in Processes
      BY <1>3, TransportAssumption DEF ConnectSpawns, Processes, TypeOK
    <3> QED BY <1>3, <3>1 DEF ConnectSpawns, Connecting
  <2>2. /\ process' = spawned + 1 /\ connected' = TRUE
        /\ \A p \in Processes : p # spawned + 1 => os'[p] = os[p]
    BY <1>3, <2>1 DEF ConnectSpawns, TypeOK
  <2>3. /\ pc'[t] = "idle"
        /\ \A u \in Tasks \ {t} : pc'[u] = pc[u] /\ held'[u] = held[u]
    BY <1>3, GoesAlone DEF ConnectSpawns, Leaves
  <2>4. OneConnects'
    BY <2>1, <2>3 DEF OneConnects, Overlaps, Connecting
  <2>5. RunningIsConnected'
    BY <2>2 DEF RunningIsConnected
  <2>6. NoOrphan'
    <3> SUFFICES ASSUME overlap' \cap {"connect", "report"} = {},
                        NEW p \in Processes, os'[p] = "running", p # process'
                 PROVE  \E u \in Tasks : pc'[u] = "grace" /\ held'[u] = p
      BY DEF NoOrphan
    <3>1. overlap \cap {"connect", "report"} = {}
      BY <2>1 DEF Overlaps
    <3>2. os[p] = "running"
      BY <2>2
    <3>3. ~connected
      BY <2>1, <3>1 DEF OrphanInv, OneConnects
    <3>4. p # process
      BY <3>1, <3>2, <3>3 DEF OrphanInv, RunningIsConnected, Processes, None, TypeOK
    <3>5. PICK u \in Tasks : pc[u] = "grace" /\ held[u] = p
      BY <3>1, <3>2, <3>4 DEF OrphanInv, NoOrphan
    <3> QED BY <3>5, <2>1, <2>3
  <2> QED BY <2>4, <2>5, <2>6 DEF OrphanInv
<1>4. ASSUME NEW t \in Tasks, ConnectFails(t) PROVE OrphanInv'
  BY <1>4, <1>0 DEF ConnectFails, Leaves, fieldVars, osVars, Connecting
<1>5. ASSUME NEW t \in Tasks, ConnectCleaned(t) PROVE OrphanInv'
  BY <1>5, GoesAlone, OrphanInvFrame DEF ConnectCleaned, osVars, Connecting
<1>6. ASSUME NEW t \in Tasks, SendBegins(t) \/ SendLocked(t) \/ SendEnds(t) \/ CancelSend(t)
      PROVE  OrphanInv'
  <2>1. UNCHANGED <<process, connected, os, overlap>> /\ pc[t] # "grace"
    BY <1>6 DEF SendBegins, SendLocked, SendEnds, CancelSend, Called, fieldVars, osVars
  <2>2. pc'[t] \notin Connecting \/ pc'[t] = pc[t]
    BY <1>6 DEF SendBegins, SendLocked, SendEnds, CancelSend, Goes, Leaves, Connecting, TypeOK
  <2>3. \A u \in Tasks \ {t} : pc'[u] = pc[u] /\ held'[u] = held[u]
    BY <1>6 DEF SendBegins, SendLocked, SendEnds, CancelSend, Goes, Leaves, TypeOK
  <2> QED BY <2>1, <2>2, <2>3, OrphanInvFrame
<1>7. ASSUME NEW t \in Tasks, ReadBegins(t) PROVE OrphanInv'
  <2>1. pc[t] = "idle" /\ overlap \subseteq overlap'
    BY <1>7 DEF ReadBegins, Called
  <2> QED BY <1>7, <2>1, <1>0 DEF ReadBegins, fieldVars, osVars, Connecting
<1>8. ASSUME NEW t \in Tasks, CancelRead(t) PROVE OrphanInv'
  BY <1>8, <1>0 DEF CancelRead, ReadReturns, Leaves, fieldVars, osVars, Connecting
<1>9. ASSUME NEW t \in Tasks, Reports(t), pc[t] # "grace", UNCHANGED <<process, os>>
      PROVE  OrphanInv'
  <2>1. /\ pc'[t] = "idle"
        /\ \A u \in Tasks \ {t} : pc'[u] = pc[u] /\ held'[u] = held[u]
    BY <1>9, GoesAlone DEF Reports, ReadReturns, Leaves
  <2>2. connected' = FALSE /\ overlap \subseteq overlap'
    BY <1>9 DEF Reports
  <2>3. OneConnects' /\ NoOrphan'
    BY <1>9, <2>1, <2>2 DEF OrphanInv, OneConnects, NoOrphan, Connecting
  <2>4. RunningIsConnected'
    BY <1>9, <2>2 DEF Reports, RunningIsConnected, Alive
  <2> QED BY <2>3, <2>4 DEF OrphanInv
<1>10. ASSUME NEW t \in Tasks, ReadStep(t) PROVE OrphanInv'
  <2>1. pc[t] # "grace" /\ UNCHANGED <<process, os>>
    BY <1>10 DEF ReadStep, ReadEof, ReadWaited, ReadReports, osVars
  <2>2. CASE Reports(t)
    BY <2>1, <2>2, <1>9
  <2>3. CASE ~Reports(t)
    <3>1. UNCHANGED <<connected, overlap>>
      BY <1>10, <2>3 DEF ReadStep, ReadEof, ReadWaited, ReadReports, ExitSeen
    <3>2. \E p : Goes(t, "idle", p) \/ Goes(t, "exit wait", p) \/ Goes(t, "read stderr", p)
      BY <1>10, <2>3 DEF ReadStep, ReadEof, ReadWaited, ReadReports, ExitSeen, ReadReturns, Leaves
    <3> QED BY <2>1, <3>1, <3>2, <1>0 DEF Connecting
  <2> QED BY <2>2, <2>3
<1>11. ASSUME NEW t \in Tasks, CloseBegins(t) PROVE OrphanInv'
  <2>1. pc[t] = "idle" /\ process' = None /\ connected' = FALSE /\ UNCHANGED <<os, overlap>>
    BY <1>11 DEF CloseBegins, Called, osVars
  <2>2. \E p : \/ Goes(t, "idle", p) \/ Goes(t, "close stderr", p)
               \/ Goes(t, "grace", p) /\ p = process
    BY <1>11 DEF CloseBegins, Leaves
  <2>3. /\ pc'[t] \notin Connecting
        /\ \A u \in Tasks \ {t} : pc'[u] = pc[u] /\ held'[u] = held[u]
    <3>1. pc'[t] \in {"idle", "close stderr", "grace"}
      BY <2>2, GoesAlone
    <3> QED BY <2>2, <3>1, GoesAlone DEF Connecting
  <2>4. OneConnects' /\ RunningIsConnected'
    BY <2>1, <2>3 DEF OrphanInv, OneConnects, RunningIsConnected, Connecting
  <2>5. process \in Processes /\ os[process] = "running" => pc'[t] = "grace" /\ held'[t] = process
    <3>1. process \in Processes /\ os[process] = "running" => process # None /\ Alive(process)
      BY DEF Alive, Processes, None
    <3> QED BY <1>11, <3>1, GoesAlone DEF CloseBegins
  <2>6. NoOrphan'
    BY <2>1, <2>3, <2>5 DEF OrphanInv, NoOrphan
  <2> QED BY <2>4, <2>6 DEF OrphanInv
<1>12. ASSUME NEW t \in Tasks, CloseWaited(t) PROVE OrphanInv'
  <2>1. /\ pc[t] # "grace" \/ os[held[t]] # "running"
        /\ UNCHANGED <<process, connected, os, overlap>>
    BY <1>12 DEF CloseWaited, CloseFinally, osVars, Alive
  <2>2. \E p : Goes(t, "idle", p) \/ Goes(t, "close stderr", p)
    BY <1>12 DEF CloseWaited, CloseFinally, Leaves
  <2> QED BY <2>1, <2>2, <1>0 DEF Connecting
<1>13. ASSUME NEW t \in Tasks, CloseKills(t) PROVE OrphanInv'
  <2>1. UNCHANGED <<process, connected, overlap>> /\ Goes(t, "kill wait", held[t])
    BY <1>13 DEF CloseKills, fieldVars
  <2>2. \A p \in Processes : os'[p] = "running" => os[p] = "running" /\ p # held[t]
    BY <1>13 DEF CloseKills, Alive, TypeOK
  <2>3. /\ pc'[t] = "kill wait"
        /\ \A u \in Tasks \ {t} : pc'[u] = pc[u] /\ held'[u] = held[u]
    BY <2>1, GoesAlone
  <2>4. OneConnects'
    BY <2>1, <2>3 DEF OrphanInv, OneConnects, Connecting
  <2>5. RunningIsConnected'
    <3>1. process # None => process \in Processes
      BY DEF TypeOK
    <3> QED BY <2>1, <2>2, <3>1 DEF OrphanInv, RunningIsConnected
  <2>6. NoOrphan'
    <3> SUFFICES ASSUME overlap \cap {"connect", "report"} = {},
                        NEW p \in Processes, os'[p] = "running", p # process
                 PROVE  \E u \in Tasks : pc'[u] = "grace" /\ held'[u] = p
      BY <2>1 DEF NoOrphan
    <3>1. PICK u \in Tasks : pc[u] = "grace" /\ held[u] = p
      BY <2>2 DEF OrphanInv, NoOrphan
    <3> QED BY <3>1, <2>2, <2>3
  <2> QED BY <2>4, <2>5, <2>6 DEF OrphanInv
<1>14. ASSUME NEW t \in Tasks, CloseEnds(t) \/ CancelClose(t) PROVE OrphanInv'
  BY <1>14, <1>0 DEF CloseEnds, CancelClose, Leaves, osVars, Connecting
<1>15. ASSUME NEW p \in Processes, DrainEnds(p) \/ Exit(p) \/ PipesClose(p) PROVE OrphanInv'
  <2>1. UNCHANGED <<process, connected, overlap, pc, held>>
    BY <1>15 DEF DrainEnds, Exit, PipesClose, fieldVars, taskVars
  <2>2. \A q \in Processes : os'[q] = "running" => os[q] = "running"
    BY <1>15 DEF DrainEnds, Exit, PipesClose, osVars, TypeOK
  <2> QED BY <2>1, <2>2 DEF OrphanInv, OneConnects, RunningIsConnected, NoOrphan, TypeOK
<1>16. CASE UNCHANGED vars
  BY <1>16 DEF vars, fieldVars, osVars, taskVars, OrphanInv, OneConnects, RunningIsConnected,
     NoOrphan
<1> QED
  BY <1>1, <1>2, <1>3, <1>4, <1>5, <1>6, <1>7, <1>8, <1>10, <1>11, <1>12, <1>13, <1>14, <1>15,
     <1>16
  DEF Next, ConnectStep, CloseStep

\* A process that runs has somebody who will end it, unless two connect() overlapped
\* or a reader that was left over reported the end of an earlier process.
THEOREM TransportLeavesNoOrphan == Spec => []NoOrphan
<1>1. Init => OrphanInv
  BY DEF Init, OrphanInv, OneConnects, RunningIsConnected, NoOrphan, Connecting
<1>2. OrphanInv => NoOrphan
  BY DEF OrphanInv
<1> QED BY <1>1, <1>2, OrphanInvStep, TransportTypeCorrect, PTL DEF Spec
=============================================================================
