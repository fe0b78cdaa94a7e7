------------------------ MODULE ProtocolEngineProofs ------------------------
(***************************************************************************)
(* Theorems about ProtocolEngine for every set of calls, ids, requests and *)
(* closers.  The invariant CallInv is inductive for pairwise distinct ids; *)
(* CloseInv and ReplyInv need no assumption about ids.                     *)
(***************************************************************************)
EXTENDS ProtocolEngine, TLAPS

\* A Future holds a response only if that response answers its own call.
ResponsesMatch ==
  \A c \in Calls : (fut[c] \in ResponseKinds \/ outcome[c] \in ResponseKinds)
                    => answers[c] = c

CallInv == NoLeakedEntry /\ OpenIsRegistered /\ BrokenRejectsAll /\ ResponsesMatch

-----------------------------------------------------------------------------
(* Types *)

\* _reject_all_pending() touches only open futures that have an entry, and
\* leaves no entry.
LEMMA RejectAllPendingEffect ==
  ASSUME TypeOK, NEW e \in Rejections, RejectAllPending(e)
  PROVE  /\ fut' \in [Calls -> FutureStates]
         /\ pending' \in [Ids -> Calls \cup {NoCall}]
         /\ \A i \in Ids : pending'[i] = NoCall
         /\ \A c \in Calls : \/ fut'[c] = fut[c] /\ (fut[c] # "open" \/ \A i \in Ids : pending[i] # c)
                             \/ fut'[c] = e /\ fut[c] = "open"
<1> DEFINE rejected == {c \in Calls : fut[c] = "open" /\ \E i \in Ids : pending[i] = c}
<1>1. fut' = [c \in Calls |-> IF c \in rejected THEN e ELSE fut[c]]
  BY DEF RejectAllPending
<1>2. pending' = [i \in Ids |-> NoCall]
  BY DEF RejectAllPending
<1>3. e \in FutureStates
  BY DEF FutureStates
<1>4. \A c \in rejected : fut[c] = "open"
  OBVIOUS
<1>5. \A c \in Calls : c \notin rejected => fut[c] # "open" \/ \A i \in Ids : pending[i] # c
  OBVIOUS
<1> HIDE DEF rejected
<1> QED BY <1>1, <1>2, <1>3, <1>4, <1>5 DEF TypeOK

\* Every variable keeps its type whatever the transport does.
THEOREM TypeCorrect == Spec => []TypeOK
<1>1. Init => TypeOK
  <2> SUFFICES ASSUME Init PROVE TypeOK
    OBVIOUS
  <2>1. pc \in [Calls -> CallPoints] /\ fut \in [Calls -> FutureStates]
    BY DEF Init, CallPoints, FutureStates
  <2>2. answers \in [Calls -> Calls \cup {NoCall}] /\ outcome \in [Calls -> Outcomes]
    BY DEF Init, Outcomes
  <2>3. pending \in [Ids -> Calls \cup {NoCall}] /\ wire \subseteq Calls
    BY DEF Init
  <2>4. reader \in ReaderStates /\ closer \in [Closers -> ClosePoints]
    BY DEF Init, ReaderStates, ClosePoints
  <2>5. /\ task \in [Requests -> {"absent"} \cup LiveTask \cup EndedTask]
        /\ replies \in [Requests -> Nat]
    BY DEF Init
  <2> QED BY <2>1, <2>2, <2>3, <2>4, <2>5 DEF Init, TypeOK
<1>2. TypeOK /\ [Next]_vars => TypeOK'
  <2> SUFFICES ASSUME TypeOK, [Next]_vars PROVE TypeOK'
    OBVIOUS
  <2> USE EngineAssumption DEF TypeOK, CallPoints, FutureStates, Outcomes, ReaderStates,
        ClosePoints, LiveTask, EndedTask, ResponseKinds, Rejections,
        callVars, readerVars, taskVars, Return, Popped
  <2>1. ASSUME NEW c \in Calls, CallNext(c) PROVE TypeOK'
    <3>1. CASE Refuse(c)            BY <3>1 DEF Refuse
    <3>2. CASE Register(c)          BY <3>2 DEF Register
    <3>3. CASE Write(c)             BY <3>3 DEF Write
    <3>4. CASE SendReturns(c)       BY <3>4 DEF SendReturns
    <3>5. ASSUME NEW o \in Outcomes, SendFails(c, o) PROVE TypeOK'
      BY <3>5 DEF SendFails
    <3>6. CASE TimerFires(c)        BY <3>6 DEF TimerFires, Interrupt
    <3>7. CASE CallerCancelled(c)   BY <3>7 DEF CallerCancelled, Interrupt
    <3>8. CASE Wake(c)              BY <3>8 DEF Wake
    <3>9. CASE WakeInterrupted(c)   BY <3>9 DEF WakeInterrupted
    <3> QED BY <2>1, <3>1, <3>2, <3>3, <3>4, <3>5, <3>6, <3>7, <3>8, <3>9 DEF CallNext
  <2>2. CASE ReaderNext
    <3>1. ASSUME NEW c \in Calls, NEW kind \in ResponseKinds, Response(c, kind) PROVE TypeOK'
      BY <3>1 DEF Response, Settle
    <3>2. ASSUME NEW payload \in {"object", "other"}, NullIdError(payload) PROVE TypeOK'
      <4>1. CASE payload = "object"  BY <3>2, <4>1 DEF NullIdError, vars
      <4>2. CASE payload # "object"
        BY <3>2, <4>2, RejectAllPendingEffect DEF NullIdError, HandleTransportError
      <4> QED BY <4>1, <4>2
    <3>3. CASE ReaderFails
      BY <3>3, RejectAllPendingEffect DEF ReaderFails, HandleTransportError
    <3>4. CASE ReaderEnds       BY <3>4 DEF ReaderEnds
    <3>5. CASE ReaderCancelled  BY <3>5 DEF ReaderCancelled
    <3> QED BY <2>2, <3>1, <3>2, <3>3, <3>4, <3>5 DEF ReaderNext
  <2>3. ASSUME NEW r \in Requests, TaskNext(r) PROVE TypeOK'
    BY <2>3 DEF TaskNext, ScheduleServerRequest, HandleServerRequest, HandlerReturns,
       WriteReply, ReplySent, ReplyFails, TaskCancelled, TaskMoves
  <2>4. ASSUME NEW h \in BOOLEAN, SetHandler(h) PROVE TypeOK'
    BY <2>4 DEF SetHandler
  <2>5. ASSUME NEW k \in Closers, CloseNext(k) PROVE TypeOK'
    <3>0. LiveTasks \subseteq Requests  BY DEF LiveTasks
    <3>4. ASSUME RejectAndCancelTasks(k)
          PROVE  /\ fut' \in [Calls -> FutureStates]
                 /\ pending' \in [Ids -> Calls \cup {NoCall}]
                 /\ cancelled' \subseteq Requests
                 /\ closer' \in [Closers -> ClosePoints]
                 /\ handler' \in BOOLEAN
      <4>1. RejectAllPending("engineClosed")  BY <3>4 DEF RejectAndCancelTasks
      <4>2. /\ fut' \in [Calls -> FutureStates]
            /\ pending' \in [Ids -> Calls \cup {NoCall}]
        BY <4>1, RejectAllPendingEffect
      <4> QED BY <3>4, <3>0, <4>2 DEF RejectAndCancelTasks
    <3>1. CASE CloseBegins(k)
      <4>1. CASE ReaderDone
        BY <3>1, <4>1, <3>4 DEF CloseBegins, RejectAndCancelTasks
      <4>2. CASE ~ReaderDone  BY <3>1, <4>2 DEF CloseBegins
      <4> QED BY <4>1, <4>2
    <3>2. CASE CloseAfterReader(k)
      BY <3>2, <3>4 DEF CloseAfterReader, RejectAndCancelTasks
    <3>3. ASSUME NEW end \in ClosePoints, CloseAfterTasks(k, end) PROVE TypeOK'
      BY <3>3 DEF CloseAfterTasks
    <3> QED BY <2>5, <3>1, <3>2, <3>3 DEF CloseNext
  <2>6. CASE UNCHANGED vars  BY <2>6 DEF vars
  <2> QED BY <2>1, <2>2, <2>3, <2>4, <2>5, <2>6 DEF Next
<1> QED BY <1>1, <1>2, PTL DEF Spec
-----------------------------------------------------------------------------
(* Correlation of requests and responses *)

LEMMA CallInvInit == TypeOK /\ Init => CallInv
BY DEF TypeOK, Init, CallInv, NoLeakedEntry, OpenIsRegistered, BrokenRejectsAll,
       ResponsesMatch, ResponseKinds

LEMMA CallInvRejectAll ==
  ASSUME TypeOK, CallInv, NEW e \in Rejections, RejectAllPending(e),
         UNCHANGED <<pc, answers, outcome>>
  PROVE  /\ CallInv'
         /\ \A c \in Calls : pc[c] \in {"sending", "waiting"} => fut'[c] # "open"
<1> USE EngineAssumption
<1>1. /\ \A i \in Ids : pending'[i] = NoCall
      /\ \A c \in Calls : \/ fut'[c] = fut[c] /\ (fut[c] # "open" \/ \A i \in Ids : pending[i] # c)
                          \/ fut'[c] = e /\ fut[c] = "open"
  BY RejectAllPendingEffect
<1>2. e # "open" /\ e \notin ResponseKinds
  BY DEF Rejections, ResponseKinds
<1>3. \A c \in Calls : pc[c] \in {"sending", "waiting"} => fut'[c] # "open"
  BY <1>1, <1>2 DEF CallInv, OpenIsRegistered
<1>4. NoLeakedEntry'
  BY <1>1 DEF NoLeakedEntry
<1>5. OpenIsRegistered' /\ BrokenRejectsAll'
  BY <1>3 DEF OpenIsRegistered, BrokenRejectsAll
<1>6. ResponsesMatch'
  BY <1>1, <1>2 DEF CallInv, ResponsesMatch
<1> QED BY <1>3, <1>4, <1>5, <1>6 DEF CallInv

LEMMA CallInvStep == DistinctIds /\ TypeOK /\ CallInv /\ [Next]_vars => CallInv'
<1> SUFFICES ASSUME DistinctIds, TypeOK, CallInv, [Next]_vars PROVE CallInv'
  OBVIOUS
<1> USE EngineAssumption DEF CallInv
<1>1. ASSUME NEW c \in Calls, CallNext(c) PROVE CallInv'
  <2> USE DEF NoLeakedEntry, OpenIsRegistered, BrokenRejectsAll, ResponsesMatch,
        Return, Popped, readerVars
  <2>1. CASE Refuse(c)
    BY <2>1 DEF Refuse, TypeOK, ResponseKinds
  <2>2. CASE Register(c)
    BY <2>2 DEF Register, TypeOK, DistinctIds, ResponseKinds
  <2>3. CASE Write(c)
    BY <2>3 DEF Write
  <2>4. CASE SendReturns(c)
    BY <2>4 DEF SendReturns, TypeOK
  <2>5. ASSUME NEW o \in Outcomes, SendFails(c, o) PROVE CallInv'
    BY <2>5 DEF SendFails, TypeOK, DistinctIds, ResponseKinds
  <2>6. CASE TimerFires(c)
    BY <2>6 DEF TimerFires, Interrupt, TypeOK, ResponseKinds
  <2>7. CASE CallerCancelled(c)
    BY <2>7 DEF CallerCancelled, Interrupt, TypeOK, ResponseKinds
  <2>8. CASE Wake(c)
    BY <2>8 DEF Wake, TypeOK, ResponseKinds, Rejections
  <2>9. CASE WakeInterrupted(c)
    BY <2>9 DEF WakeInterrupted, TypeOK, DistinctIds, ResponseKinds
  <2> QED BY <1>1, <2>1, <2>2, <2>3, <2>4, <2>5, <2>6, <2>7, <2>8, <2>9 DEF CallNext
<1>2. CASE ReaderNext
  <2>1. ASSUME NEW c \in Calls, NEW kind \in ResponseKinds, Response(c, kind) PROVE CallInv'
    <3>1. pending[IdOf[c]] \in {c, NoCall}
      BY DEF NoLeakedEntry, DistinctIds, TypeOK
    <3>2. CASE pending[IdOf[c]] = c /\ fut[c] = "open"
      BY <2>1, <3>2 DEF Response, Settle, Popped, TypeOK, DistinctIds, readerVars,
         ResponseKinds, NoLeakedEntry, OpenIsRegistered, BrokenRejectsAll, ResponsesMatch
    <3>3. CASE ~(pending[IdOf[c]] = c /\ fut[c] = "open")
      <4>1. UNCHANGED <<fut, answers>>
        BY <2>1, <3>1, <3>3 DEF Response, Settle
      <4> QED
        BY <2>1, <3>1, <3>3, <4>1 DEF Response, Popped, TypeOK, DistinctIds, readerVars,
           NoLeakedEntry, OpenIsRegistered, BrokenRejectsAll, ResponsesMatch
    <3> QED BY <3>2, <3>3
  <2>2. ASSUME NEW state \in ReaderStates, HandleTransportError(state) PROVE CallInv'
    BY <2>2, CallInvRejectAll DEF HandleTransportError, Rejections
  <2>3. CASE ReaderEnds \/ ReaderCancelled
    BY <2>3 DEF ReaderEnds, ReaderCancelled, callVars,
       NoLeakedEntry, OpenIsRegistered, BrokenRejectsAll, ResponsesMatch
  <2>4. CASE UNCHANGED vars
    BY <2>4 DEF vars, callVars, readerVars,
       NoLeakedEntry, OpenIsRegistered, BrokenRejectsAll, ResponsesMatch
  <2> QED BY <1>2, <2>1, <2>2, <2>3, <2>4
          DEF ReaderNext, ReaderFails, NullIdError, ReaderStates
<1>3. CASE \/ \E r \in Requests : TaskNext(r)
           \/ \E h \in BOOLEAN : SetHandler(h)
           \/ UNCHANGED vars
  <2>1. UNCHANGED <<callVars, readerVars>>
    BY <1>3 DEF TaskNext, ScheduleServerRequest, HandleServerRequest, HandlerReturns,
       WriteReply, ReplySent, ReplyFails, TaskCancelled, TaskMoves, SetHandler, vars
  <2> QED BY <2>1 DEF callVars, readerVars,
             NoLeakedEntry, OpenIsRegistered, BrokenRejectsAll, ResponsesMatch
<1>4. ASSUME NEW k \in Closers, CloseNext(k) PROVE CallInv'
  <2>1. CASE RejectAndCancelTasks(k)
    BY <2>1, CallInvRejectAll DEF RejectAndCancelTasks, Rejections
  <2>2. CASE UNCHANGED <<callVars, transportError>>
    BY <2>2 DEF callVars, NoLeakedEntry, OpenIsRegistered, BrokenRejectsAll, ResponsesMatch
  <2> QED BY <1>4, <2>1, <2>2 DEF CloseNext, CloseBegins, CloseAfterReader, CloseAfterTasks
<1> QED BY <1>1, <1>2, <1>3, <1>4 DEF Next

LEMMA CallInvariance == DistinctIds => (Spec => [](TypeOK /\ CallInv))
<1> SUFFICES ASSUME DistinctIds PROVE Spec => [](TypeOK /\ CallInv)
  OBVIOUS
<1>1. TypeOK /\ CallInv /\ [Next]_vars => CallInv'
  BY CallInvStep
<1> QED BY <1>1, CallInvInit, TypeCorrect, PTL DEF Spec

\* protocol.py:11-12 for calls with ids of their own: from the instant the
\* transport error is recorded no running call has an open Future.
THEOREM TransportErrorRejectsAll == DistinctIds => (Spec => []BrokenRejectsAll)
<1>1. CallInv => BrokenRejectsAll
  BY DEF CallInv
<1> QED BY <1>1, CallInvariance, PTL

\* _pending_requests holds exactly the open calls: an entry never outlives
\* its call, and a call that waits can be reached by its response.
THEOREM EntriesAreExact == DistinctIds => (Spec => []EntriesExact)
<1>1. CallInv => EntriesExact
  BY DEF CallInv, EntriesExact
<1> QED BY <1>1, CallInvariance, PTL

\* send_request() returns the response to its own request, whatever order the
\* responses arrive in and however often they are repeated.
THEOREM ResponsesAreOwn == DistinctIds => (Spec => []OwnResponse)
<1>1. CallInv => OwnResponse
  BY DEF CallInv, ResponsesMatch, OwnResponse
<1> QED BY <1>1, CallInvariance, PTL

-----------------------------------------------------------------------------
(* A settled Future is final *)

IdleHasNoFuture == \A c \in Calls : pc[c] = "idle" => fut[c] = "none"

\* What one step may do to a Future: create it, settle it while it is open.
FutureStep ==
  \A c \in Calls :
    \/ fut'[c] = fut[c] /\ answers'[c] = answers[c] /\ (pc'[c] = "idle" => pc[c] = "idle")
    \/ fut[c] = "none" /\ pc'[c] # "idle"
    \/ fut[c] = "open" /\ (pc'[c] = "idle" => pc[c] = "idle")

LEMMA FutureSteps == TypeOK /\ IdleHasNoFuture /\ [Next]_vars => FutureStep
<1> SUFFICES ASSUME TypeOK, IdleHasNoFuture, [Next]_vars PROVE FutureStep
  OBVIOUS
<1> USE EngineAssumption DEF FutureStep
<1>1. ASSUME NEW c \in Calls, CallNext(c) PROVE FutureStep
  BY <1>1 DEF CallNext, Refuse, Register, Write, SendReturns, SendFails, TimerFires,
     CallerCancelled, Interrupt, Wake, WakeInterrupted, Return, TypeOK, IdleHasNoFuture
<1>2. ASSUME NEW e \in Rejections, RejectAllPending(e), UNCHANGED <<pc, answers>>
      PROVE  FutureStep
  BY <1>2, RejectAllPendingEffect
<1>3. ASSUME UNCHANGED callVars PROVE FutureStep
  BY <1>3 DEF callVars
<1>4. CASE ReaderNext
  <2>1. ASSUME NEW c \in Calls, NEW kind \in ResponseKinds, Response(c, kind) PROVE FutureStep
    BY <2>1 DEF Response, Settle, TypeOK
  <2>2. ASSUME NEW state, HandleTransportError(state) PROVE FutureStep
    BY <2>2, <1>2 DEF HandleTransportError, Rejections
  <2> QED BY <1>4, <1>3, <2>1, <2>2
          DEF ReaderNext, ReaderFails, NullIdError, ReaderEnds, ReaderCancelled, vars
<1>5. CASE \/ \E r \in Requests : TaskNext(r)
           \/ \E h \in BOOLEAN : SetHandler(h)
           \/ UNCHANGED vars
  <2>1. UNCHANGED callVars
    BY <1>5 DEF TaskNext, ScheduleServerRequest, HandleServerRequest, HandlerReturns,
       WriteReply, ReplySent, ReplyFails, TaskCancelled, TaskMoves, SetHandler, vars
  <2> QED BY <2>1, <1>3
<1>6. ASSUME NEW k \in Closers, CloseNext(k) PROVE FutureStep
  BY <1>6, <1>2, <1>3 DEF CloseNext, CloseBegins, CloseAfterReader, CloseAfterTasks,
     RejectAndCancelTasks, Rejections
<1> QED BY <1>1, <1>4, <1>5, <1>6 DEF Next

\* No step overwrites a settled Future, with shared ids as well.
THEOREM SettledFuturesStay == Spec => SettledStays
<1>1. Init => IdleHasNoFuture
  BY DEF Init, IdleHasNoFuture
<1>2. TypeOK /\ IdleHasNoFuture /\ [Next]_vars => IdleHasNoFuture'
  BY FutureSteps DEF FutureStep, IdleHasNoFuture, TypeOK
<1>3. TypeOK /\ IdleHasNoFuture /\ [Next]_vars =>
        [\A c \in Calls : fut[c] \notin {"none", "open"} =>
           fut'[c] = fut[c] /\ answers'[c] = answers[c]]_vars
  BY FutureSteps DEF FutureStep
<1> QED BY <1>1, <1>2, <1>3, TypeCorrect, PTL DEF Spec, SettledStays

-----------------------------------------------------------------------------
(* close() *)

\* What holds of a close() that has got past the reader, or past the tasks.
CloseInv ==
  \A k \in Closers :
    /\ closer[k] # "idle" => closed /\ reader # "running"
    /\ closer[k] \in {"tasks", "done", "aborted"} =>
         ReaderDone /\ \A i \in Ids : pending[i] = NoCall
    /\ closer[k] = "tasks" => LiveTasks \subseteq cancelled
    /\ closer[k] \in {"done", "aborted"} => LiveTasks = {}

LEMMA CloseInvStep == TypeOK /\ CloseInv /\ [Next]_vars => CloseInv'
<1> SUFFICES ASSUME TypeOK, CloseInv, [Next]_vars PROVE CloseInv'
  OBVIOUS
<1> USE EngineAssumption
<1>1. ASSUME UNCHANGED <<closed, reader, closer, task, cancelled>>,
             \A i \in Ids : closed /\ pending[i] = NoCall => pending'[i] = NoCall
      PROVE  CloseInv'
  BY <1>1 DEF CloseInv, ReaderDone, LiveTasks
<1>2. ASSUME NEW c \in Calls, CallNext(c) PROVE CloseInv'
  <2>1. UNCHANGED <<closed, reader, closer, task, cancelled>>
    BY <1>2 DEF CallNext, Refuse, Register, Write, SendReturns, SendFails, TimerFires,
       CallerCancelled, Interrupt, Wake, WakeInterrupted, readerVars, taskVars
  <2>2. \A i \in Ids : closed /\ pending[i] = NoCall => pending'[i] = NoCall
    BY <1>2 DEF CallNext, Refuse, Register, Write, SendReturns, SendFails, TimerFires,
       CallerCancelled, Interrupt, Wake, WakeInterrupted, Popped, TypeOK
  <2> QED BY <2>1, <2>2, <1>1
<1>3. CASE ReaderNext
  <2>1. ASSUME NEW c \in Calls, NEW kind \in ResponseKinds, Response(c, kind) PROVE CloseInv'
    BY <2>1, <1>1 DEF Response, Popped, TypeOK, readerVars, taskVars
  <2>2. ASSUME NEW state \in {"failed", "crashed"}, HandleTransportError(state),
               reader \in {"running", "stopping"}
        PROVE  CloseInv'
    <3>1. \A i \in Ids : pending'[i] = NoCall
      BY <2>2, RejectAllPendingEffect DEF HandleTransportError, Rejections
    <3> QED BY <2>2, <3>1 DEF HandleTransportError, CloseInv, ReaderDone, LiveTasks, taskVars
  <2>3. CASE ReaderEnds \/ ReaderCancelled
    BY <2>3 DEF ReaderEnds, ReaderCancelled, CloseInv, ReaderDone, LiveTasks, callVars, taskVars
  <2>4. CASE UNCHANGED vars
    BY <2>4, <1>1 DEF vars, callVars, readerVars, taskVars
  <2> QED BY <1>3, <2>1, <2>2, <2>3, <2>4 DEF ReaderNext, ReaderFails, NullIdError
<1>4. ASSUME NEW r \in Requests, TaskNext(r) PROVE CloseInv'
  <2>1. UNCHANGED <<closed, reader, closer, cancelled, pending>>
    BY <1>4 DEF TaskNext, ScheduleServerRequest, HandleServerRequest, HandlerReturns,
       WriteReply, ReplySent, ReplyFails, TaskCancelled, TaskMoves, callVars, readerVars
  <2>2. \/ reader = "running"
        \/ LiveTasks' \subseteq LiveTasks
    BY <1>4 DEF TaskNext, ScheduleServerRequest, HandleServerRequest, HandlerReturns,
       WriteReply, ReplySent, ReplyFails, TaskCancelled, TaskMoves, LiveTasks, LiveTask, TypeOK
  <2> QED BY <2>1, <2>2 DEF CloseInv, ReaderDone
<1>5. ASSUME NEW h \in BOOLEAN, SetHandler(h) PROVE CloseInv'
  BY <1>5, <1>1 DEF SetHandler, callVars, readerVars
<1>6. ASSUME NEW k \in Closers, CloseNext(k) PROVE CloseInv'
  <2>1. ASSUME RejectAndCancelTasks(k), closed', reader' = reader, ReaderDone PROVE CloseInv'
    <3>1. \A i \in Ids : pending'[i] = NoCall
      BY <2>1, RejectAllPendingEffect DEF RejectAndCancelTasks, Rejections
    <3>2. LiveTasks' = LiveTasks
      BY <2>1 DEF RejectAndCancelTasks, LiveTasks
    <3>3. cancelled' = cancelled \cup LiveTasks
      BY <2>1 DEF RejectAndCancelTasks
    <3>4. \/ closer' = [closer EXCEPT ![k] = "done"] /\ LiveTasks = {}
          \/ closer' = [closer EXCEPT ![k] = "tasks"]
      BY <2>1 DEF RejectAndCancelTasks
    <3>5. ReaderDone' /\ reader # "running"
      BY <2>1 DEF ReaderDone
    <3> QED BY <2>1, <3>1, <3>2, <3>3, <3>4, <3>5 DEF CloseInv, TypeOK
  <2>2. CASE CloseBegins(k)
    <3>1. CASE ReaderDone
      BY <2>2, <3>1, <2>1 DEF CloseBegins
    <3>2. CASE ~ReaderDone
      BY <2>2, <3>2 DEF CloseBegins, CloseInv, ReaderDone, LiveTasks, callVars, taskVars, TypeOK
    <3> QED BY <3>1, <3>2
  <2>3. CASE CloseAfterReader(k)
    BY <2>3, <2>1 DEF CloseAfterReader, CloseInv
  <2>4. ASSUME NEW end \in ClosePoints, CloseAfterTasks(k, end) PROVE CloseInv'
    <3>1. LiveTasks = {}
      BY <2>4 DEF CloseAfterTasks, CloseInv, LiveTasks, LiveTask, EndedTask
    <3>2. LiveTasks' = LiveTasks
      BY <2>4 DEF CloseAfterTasks, LiveTasks
    <3> QED BY <2>4, <3>1, <3>2 DEF CloseAfterTasks, CloseInv, ReaderDone, callVars, TypeOK
  <2> QED BY <1>6, <2>2, <2>3, <2>4 DEF CloseNext
<1>7. CASE UNCHANGED vars
  BY <1>7, <1>1 DEF vars, callVars, readerVars, taskVars
<1> QED BY <1>2, <1>3, <1>4, <1>5, <1>6, <1>7 DEF Next

\* When a close() is over, by itself or cancelled, nothing of the engine is
\* left running, even when several tasks close it at once.
THEOREM ClosedEngineIsQuiet == DistinctIds => (Spec => []ClosedIsQuiet)
<1>1. Init => CloseInv
  BY DEF Init, CloseInv
<1>2. CallInv /\ CloseInv => ClosedIsQuiet
  BY EngineAssumption DEF CallInv, OpenIsRegistered, CloseInv, ClosedIsQuiet
<1> QED BY <1>1, <1>2, CloseInvStep, TypeCorrect, CallInvariance, PTL DEF Spec

-----------------------------------------------------------------------------
(* Replies to server->client requests *)

RepliesCounted ==
  \A r \in Requests : /\ task[r] \in {"absent", "scheduled", "handling", "replying"}
                          => replies[r] = 0
                      /\ replies[r] <= 1

\* No path of the handler task writes a second reply.
THEOREM OneReplyAtMost == Spec => []AtMostOneReply
<1>1. Init => RepliesCounted
  BY DEF Init, RepliesCounted
<1>2. TypeOK /\ RepliesCounted /\ [Next]_vars => RepliesCounted'
  <2> SUFFICES ASSUME TypeOK, RepliesCounted, [Next]_vars PROVE RepliesCounted'
    OBVIOUS
  <2>1. ASSUME NEW r \in Requests, TaskNext(r) PROVE RepliesCounted'
    BY <2>1 DEF TaskNext, ScheduleServerRequest, HandleServerRequest, HandlerReturns,
       WriteReply, ReplySent, ReplyFails, TaskCancelled, TaskMoves, RepliesCounted,
       TypeOK, LiveTask
  <2>2. ASSUME UNCHANGED <<task, replies>> PROVE RepliesCounted'
    BY <2>2 DEF RepliesCounted
  <2>3. CASE \E c \in Calls : CallNext(c)
    BY <2>3, <2>2 DEF CallNext, Refuse, Register, Write, SendReturns, SendFails, TimerFires,
       CallerCancelled, Interrupt, Wake, WakeInterrupted, taskVars
  <2>4. CASE ReaderNext
    BY <2>4, <2>2 DEF ReaderNext, Response, NullIdError, ReaderFails, ReaderEnds,
       ReaderCancelled, HandleTransportError, taskVars, vars
  <2>5. CASE \E k \in Closers : CloseNext(k)
    BY <2>5, <2>2 DEF CloseNext, CloseBegins, CloseAfterReader, CloseAfterTasks,
       RejectAndCancelTasks, taskVars
  <2>6. CASE UNCHANGED vars \/ \E h \in BOOLEAN : SetHandler(h)
    BY <2>6, <2>2 DEF vars, taskVars, SetHandler
  <2> QED BY <2>1, <2>3, <2>4, <2>5, <2>6 DEF Next
<1>3. RepliesCounted => AtMostOneReply
  BY DEF RepliesCounted, AtMostOneReply
<1> QED BY <1>1, <1>2, <1>3, TypeCorrect, PTL DEF Spec

-----------------------------------------------------------------------------
(* The engine implements RpcCalls *)

\* The facts about the reader and about interrupted calls that the mapping
\* needs beyond CallInv and CloseInv.
LinkInv ==
  /\ transportError => ReaderDone
  /\ closed => reader # "running"
  /\ \A c \in Calls : pc[c] \in {"timedOut", "cancelling"} => fut[c] # "open"

LEMMA LinkInvStep == TypeOK /\ LinkInv /\ [Next]_vars => LinkInv'
<1> SUFFICES ASSUME TypeOK, LinkInv, [Next]_vars PROVE LinkInv'
  OBVIOUS
<1> USE EngineAssumption
<1>1. ASSUME NEW c \in Calls, CallNext(c) PROVE LinkInv'
  BY <1>1 DEF CallNext, Refuse, Register, Write, SendReturns, SendFails, TimerFires,
     CallerCancelled, Interrupt, Wake, WakeInterrupted, Return, readerVars, LinkInv,
     ReaderDone, TypeOK
<1>2. ASSUME NEW e \in Rejections, RejectAllPending(e), UNCHANGED pc
      PROVE  \A c \in Calls : pc'[c] \in {"timedOut", "cancelling"} => fut'[c] # "open"
  BY <1>2, RejectAllPendingEffect DEF LinkInv, Rejections
<1>3. CASE ReaderNext
  <2>1. ASSUME NEW c \in Calls, NEW kind \in ResponseKinds, Response(c, kind) PROVE LinkInv'
    BY <2>1 DEF Response, Settle, LinkInv, ReaderDone, TypeOK, readerVars, ResponseKinds
  <2>2. ASSUME NEW state \in {"failed", "crashed"}, HandleTransportError(state) PROVE LinkInv'
    BY <2>2, <1>2 DEF HandleTransportError, LinkInv, ReaderDone, Rejections
  <2>3. CASE ReaderEnds \/ ReaderCancelled
    BY <2>3 DEF ReaderEnds, ReaderCancelled, LinkInv, ReaderDone, callVars
  <2>4. CASE UNCHANGED vars
    BY <2>4 DEF vars, callVars, readerVars, LinkInv, ReaderDone
  <2> QED BY <1>3, <2>1, <2>2, <2>3, <2>4 DEF ReaderNext, ReaderFails, NullIdError
<1>4. ASSUME UNCHANGED <<callVars, readerVars>> PROVE LinkInv'
  BY <1>4 DEF callVars, readerVars, LinkInv, ReaderDone
<1>5. CASE \/ \E r \in Requests : TaskNext(r)
           \/ \E h \in BOOLEAN : SetHandler(h)
           \/ UNCHANGED vars
  BY <1>5, <1>4 DEF TaskNext, ScheduleServerRequest, HandleServerRequest, HandlerReturns,
     WriteReply, ReplySent, ReplyFails, TaskCancelled, TaskMoves, SetHandler, vars
<1>6. ASSUME NEW k \in Closers, CloseNext(k) PROVE LinkInv'
  <2>1. ASSUME RejectAndCancelTasks(k), UNCHANGED reader, ReaderDone PROVE LinkInv'
    BY <2>1, <1>2 DEF RejectAndCancelTasks, LinkInv, ReaderDone, Rejections
  <2>2. CASE CloseBegins(k)
    <3>1. CASE ReaderDone   BY <2>2, <3>1, <2>1 DEF CloseBegins
    <3>2. CASE ~ReaderDone  BY <2>2, <3>2 DEF CloseBegins, LinkInv, ReaderDone, callVars
    <3> QED BY <3>1, <3>2
  <2>3. CASE CloseAfterReader(k)
    BY <2>3, <2>1 DEF CloseAfterReader
  <2>4. ASSUME NEW end \in ClosePoints, CloseAfterTasks(k, end) PROVE LinkInv'
    BY <2>4 DEF CloseAfterTasks, LinkInv, ReaderDone, callVars
  <2> QED BY <1>6, <2>2, <2>3, <2>4 DEF CloseNext
<1> QED BY <1>1, <1>3, <1>5, <1>6 DEF Next

Status == [c \in Calls |-> CallStatus(c)]

\* CallStatus as a table.
LEMMA StatusTable ==
  ASSUME NEW c \in Calls
  PROVE  /\ pc[c] = "idle" => Status[c] = "new"
         /\ pc[c] = "returned" => Status[c] = IF outcome[c] \in ResponseKinds THEN "returned" ELSE "raised"
         /\ pc[c] \notin {"idle", "returned"} =>
              Status[c] = IF fut[c] = "open" THEN "open"
                          ELSE IF fut[c] \in ResponseKinds THEN "answered" ELSE "failed"
BY DEF Status, CallStatus, ResponseKinds

LEMMA StatusTableNext ==
  ASSUME NEW c \in Calls
  PROVE  /\ pc'[c] = "idle" => Status'[c] = "new"
         /\ pc'[c] = "returned" => Status'[c] = IF outcome'[c] \in ResponseKinds THEN "returned" ELSE "raised"
         /\ pc'[c] \notin {"idle", "returned"} =>
              Status'[c] = IF fut'[c] = "open" THEN "open"
                           ELSE IF fut'[c] \in ResponseKinds THEN "answered" ELSE "failed"
BY DEF Status, CallStatus, ResponseKinds

\* A step of one call that leaves the others and the link alone.
LEMMA OneCallMoves ==
  ASSUME NEW c \in Calls, NEW from, NEW to,
         Status[c] \in from, Status'[c] = to,
         \A d \in Calls \ {c} : Status'[d] = Status[d], Link' = Link
  PROVE  Rpc!Move(c, from, to)
BY DEF Rpc!Move, Status

\* When the link goes down every open call fails; when it is down already
\* there is no open call left and nothing changes.
LEMMA RejectAllBreaks ==
  ASSUME TypeOK, CallInv, CloseInv, LinkInv, NEW e \in Rejections, RejectAllPending(e),
         UNCHANGED <<pc, answers, outcome>>, Rejected'
  PROVE  Rpc!Break \/ UNCHANGED Rpc!vars
<1> USE EngineAssumption
<1>1. \A c \in Calls : \/ fut'[c] = fut[c] /\ (fut[c] # "open" \/ \A i \in Ids : pending[i] # c)
                       \/ fut'[c] = e /\ fut[c] = "open"
  BY RejectAllPendingEffect
<1>2. \A c \in Calls : pc[c] \in {"sending", "waiting"} => fut'[c] # "open"
  BY CallInvRejectAll
<1>3. e # "open" /\ e \notin ResponseKinds
  BY DEF Rejections, ResponseKinds
<1>4. ASSUME NEW c \in Calls
      PROVE  Status'[c] = IF Status[c] = "open" THEN "failed" ELSE Status[c]
  BY <1>1, <1>2, <1>3, StatusTable, StatusTableNext
     DEF TypeOK, CallPoints, LinkInv, ResponseKinds
<1>5. Status' = [c \in Calls |-> IF Status[c] = "open" THEN "failed" ELSE Status[c]]
  BY <1>4 DEF Status
<1>6. Link' = "down"
  BY DEF Link
<1>7. CASE ~Rejected
  <2>1. Link # "down"
    BY <1>7 DEF Link
  <2> QED BY <2>1, <1>5, <1>6 DEF Rpc!Break, Status
<1>8. CASE Rejected
  <2>1. \A c \in Calls : Status[c] # "open"
    BY <1>8, StatusTable DEF Rejected, TypeOK, CallPoints, CallInv, BrokenRejectsAll,
       OpenIsRegistered, CloseInv, LinkInv, ResponseKinds
  <2>2. Status' = Status
    BY <2>1, <1>5 DEF Status
  <2> QED BY <2>2, <1>6, <1>8 DEF Link, Rpc!vars, Status
<1> QED BY <1>7, <1>8

LEMMA RefinementStep ==
  DistinctIds /\ TypeOK /\ CallInv /\ CloseInv /\ LinkInv /\ [Next]_vars
    => [Rpc!Next]_(Rpc!vars)
<1> SUFFICES ASSUME DistinctIds, TypeOK, CallInv, CloseInv, LinkInv, [Next]_vars
             PROVE  Rpc!Next \/ UNCHANGED Rpc!vars
  OBVIOUS
<1> USE EngineAssumption
<1>1. ASSUME UNCHANGED <<pc, fut, outcome>>, Link' = Link PROVE UNCHANGED Rpc!vars
  BY <1>1 DEF Rpc!vars, CallStatus
<1>2. ASSUME UNCHANGED readerVars PROVE Link' = Link
  BY <1>2 DEF readerVars, Link, Rejected
<1>3. ASSUME NEW c \in Calls, CallNext(c) PROVE Rpc!Next \/ UNCHANGED Rpc!vars
  <2>1. Link' = Link
    BY <1>3, <1>2 DEF CallNext, Refuse, Register, Write, SendReturns, SendFails, TimerFires,
       CallerCancelled, Interrupt, Wake, WakeInterrupted
  <2>2. \A d \in Calls \ {c} : Status'[d] = Status[d]
    <3>1. \A d \in Calls \ {c} : pc'[d] = pc[d] /\ fut'[d] = fut[d] /\ outcome'[d] = outcome[d]
      BY <1>3 DEF CallNext, Refuse, Register, Write, SendReturns, SendFails, TimerFires,
         CallerCancelled, Interrupt, Wake, WakeInterrupted, Return, TypeOK
    <3> QED BY <3>1 DEF Status, CallStatus
  <2>3. ASSUME Status'[c] = Status[c] PROVE UNCHANGED Rpc!vars
    <3>1. Status' = Status
      BY <2>2, <2>3 DEF Status
    <3> QED BY <3>1, <2>1 DEF Rpc!vars, Status
  <2>4. CASE Refuse(c)
    <3>1. Status[c] = "new" /\ Status'[c] = "raised"
      BY <2>4, StatusTable, StatusTableNext DEF Refuse, Return, TypeOK, ResponseKinds
    <3>2. Link # "up"
      BY <2>4 DEF Refuse, Link, Rejected
    <3> QED BY <3>1, <3>2, <2>1, <2>2, OneCallMoves DEF Rpc!Next, Rpc!Refuse
  <2>5. CASE Register(c)
    <3>1. Status[c] = "new" /\ Status'[c] = "open"
      BY <2>5, StatusTable, StatusTableNext DEF Register, TypeOK, ResponseKinds
    <3>2. Link = "up"
      BY <2>5 DEF Register, Link, Rejected, CloseInv
    <3> QED BY <3>1, <3>2, <2>1, <2>2, OneCallMoves DEF Rpc!Next, Rpc!Begin
  <2>6. CASE Write(c)
    BY <2>6, <2>1, <1>1 DEF Write
  <2>7. CASE SendReturns(c)
    <3>1. Status'[c] = Status[c]
      BY <2>7, StatusTable, StatusTableNext DEF SendReturns, TypeOK
    <3> QED BY <3>1, <2>3
  <2>8. ASSUME NEW o \in Outcomes, SendFails(c, o) PROVE Rpc!Next
    <3>1. Status[c] \in {"open", "answered", "failed"} /\ Status'[c] = "raised"
      BY <2>8, StatusTable, StatusTableNext DEF SendFails, Return, TypeOK, ResponseKinds
    <3> QED BY <3>1, <2>1, <2>2, OneCallMoves DEF Rpc!Next, Rpc!Raise
  <2>9. ASSUME NEW p \in {"timedOut", "cancelling"}, Interrupt(c, p)
        PROVE  Rpc!Next \/ UNCHANGED Rpc!vars
    <3>1. CASE fut[c] = "open"
      <4>1. Status[c] = "open" /\ Status'[c] = "failed"
        BY <2>9, <3>1, StatusTable, StatusTableNext DEF Interrupt, TypeOK, ResponseKinds
      <4> QED BY <4>1, <2>1, <2>2, OneCallMoves DEF Rpc!Next, Rpc!Fail
    <3>2. CASE fut[c] # "open"
      <4>1. Status'[c] = Status[c]
        BY <2>9, <3>2, StatusTable, StatusTableNext DEF Interrupt, TypeOK
      <4> QED BY <4>1, <2>3
    <3> QED BY <3>1, <3>2
  <2>10. CASE Wake(c)
    <3>1. CASE fut[c] \in ResponseKinds
      <4>1. Status[c] = "answered" /\ Status'[c] = "returned"
        BY <2>10, <3>1, StatusTable, StatusTableNext DEF Wake, Return, TypeOK, ResponseKinds
      <4> QED BY <4>1, <2>1, <2>2, OneCallMoves DEF Rpc!Next, Rpc!Deliver
    <3>2. CASE fut[c] \in Rejections
      <4>1. Status[c] = "failed" /\ Status'[c] = "raised"
        BY <2>10, <3>2, StatusTable, StatusTableNext
           DEF Wake, Return, TypeOK, ResponseKinds, Rejections
      <4> QED BY <4>1, <2>1, <2>2, OneCallMoves DEF Rpc!Next, Rpc!Raise
    <3> QED BY <2>10, <3>1, <3>2 DEF Wake
  <2>11. CASE WakeInterrupted(c)
    <3>1. Status[c] \in {"open", "answered", "failed"} /\ Status'[c] = "raised"
      BY <2>11, StatusTable, StatusTableNext DEF WakeInterrupted, Return, TypeOK, ResponseKinds
    <3> QED BY <3>1, <2>1, <2>2, OneCallMoves DEF Rpc!Next, Rpc!Raise
  <2> QED BY <1>3, <2>4, <2>5, <2>6, <2>7, <2>8, <2>9, <2>10, <2>11
          DEF CallNext, TimerFires, CallerCancelled
<1>4. CASE ReaderNext
  <2>1. ASSUME NEW c \in Calls, NEW kind \in ResponseKinds, Response(c, kind)
        PROVE  Rpc!Next \/ UNCHANGED Rpc!vars
    <3>1. Link' = Link /\ Link = "up"
      BY <2>1, <1>2 DEF Response, Link, Rejected, LinkInv, CloseInv, ReaderDone
    <3>2. pending[IdOf[c]] \in {c, NoCall}
      BY DEF CallInv, NoLeakedEntry, DistinctIds, TypeOK
    <3>3. CASE pending[IdOf[c]] = c /\ fut[c] = "open"
      <4>1. fut' = [fut EXCEPT ![c] = kind] /\ UNCHANGED <<pc, outcome>>
        BY <2>1, <3>3 DEF Response, Settle
      <4>2. pc[c] \notin {"idle", "returned"}
        BY <3>3 DEF CallInv, NoLeakedEntry
      <4>3. Status[c] = "open" /\ Status'[c] = "answered"
        BY <2>1, <3>3, <4>1, <4>2, StatusTable, StatusTableNext DEF TypeOK, ResponseKinds
      <4>4. \A d \in Calls \ {c} : Status'[d] = Status[d]
        BY <4>1 DEF Status, CallStatus, TypeOK
      <4> QED BY <4>3, <4>4, <3>1, OneCallMoves DEF Rpc!Next, Rpc!Answer
    <3>4. CASE ~(pending[IdOf[c]] = c /\ fut[c] = "open")
      BY <2>1, <3>1, <3>2, <3>4, <1>1 DEF Response, Settle
    <3> QED BY <3>3, <3>4
  <2>2. ASSUME NEW state, HandleTransportError(state) PROVE Rpc!Break \/ UNCHANGED Rpc!vars
    BY <2>2, RejectAllBreaks DEF HandleTransportError, Rejections, Rejected
  <2>3. CASE ReaderEnds \/ ReaderCancelled \/ UNCHANGED vars
    BY <2>3, <1>1 DEF ReaderEnds, ReaderCancelled, callVars, vars, readerVars, Link, Rejected
  <2> QED BY <1>4, <2>1, <2>2, <2>3 DEF ReaderNext, ReaderFails, NullIdError, Rpc!Next
<1>5. CASE \/ \E r \in Requests : TaskNext(r)
           \/ \E h \in BOOLEAN : SetHandler(h)
           \/ UNCHANGED vars
  <2>1. UNCHANGED <<callVars, readerVars>>
    BY <1>5 DEF TaskNext, ScheduleServerRequest, HandleServerRequest, HandlerReturns,
       WriteReply, ReplySent, ReplyFails, TaskCancelled, TaskMoves, SetHandler, vars
  <2> QED BY <2>1, <1>1, <1>2 DEF callVars
<1>6. ASSUME NEW k \in Closers, CloseNext(k) PROVE Rpc!Next \/ UNCHANGED Rpc!vars
  <2>1. ASSUME RejectAndCancelTasks(k) PROVE Rpc!Next \/ UNCHANGED Rpc!vars
    <3>1. closer'[k] \in {"tasks", "done"}
      BY <2>1 DEF RejectAndCancelTasks, TypeOK
    <3> QED BY <2>1, <3>1, RejectAllBreaks DEF RejectAndCancelTasks, Rejections, Rejected, Rpc!Next
  <2>2. CASE CloseBegins(k) /\ ~ReaderDone
    <3>1. closed' /\ UNCHANGED <<callVars, transportError>> /\ closer' = [closer EXCEPT ![k] = "reader"]
      BY <2>2 DEF CloseBegins
    <3>2. ~Rejected /\ ~Rejected'
      BY <2>2, <3>1 DEF Rejected, LinkInv, CloseInv, TypeOK
    <3>3. Link' = "closing" /\ Link \in {"up", "closing"}
      BY <3>1, <3>2 DEF Link
    <3> QED BY <3>1, <3>3, <1>1 DEF Rpc!Next, Rpc!StartClosing, callVars, CallStatus
  <2>3. ASSUME NEW end \in ClosePoints, CloseAfterTasks(k, end) PROVE UNCHANGED Rpc!vars
    <3>1. Rejected' = Rejected
      BY <2>3 DEF CloseAfterTasks, Rejected, TypeOK
    <3> QED BY <2>3, <3>1, <1>1 DEF CloseAfterTasks, Link, callVars
  <2> QED BY <1>6, <2>1, <2>2, <2>3 DEF CloseNext, CloseBegins, CloseAfterReader
<1> QED BY <1>3, <1>4, <1>5, <1>6 DEF Next

\* For calls with ids of their own the engine does nothing RpcCalls forbids:
\* every open call fails in the instant the link breaks, none begins later,
\* and a response is returned only if it arrived while its call was open.
THEOREM EngineImplementsRpcCalls == DistinctIds => (Spec => ImplementsRpcCalls)
<1> SUFFICES ASSUME DistinctIds PROVE Spec => ImplementsRpcCalls
  OBVIOUS
<1>1. Init => Rpc!Init
  BY DEF Init, Rpc!Init, CallStatus, Link, Rejected
<1>2. Init => CloseInv /\ LinkInv
  BY DEF Init, CloseInv, LinkInv
<1>3. TypeOK /\ CallInv /\ CloseInv /\ LinkInv /\ [Next]_vars => [Rpc!Next]_(Rpc!vars)
  BY RefinementStep
<1> QED BY <1>1, <1>2, <1>3, CallInvariance, CloseInvStep, LinkInvStep, PTL
        DEF Spec, ImplementsRpcCalls, Rpc!Spec
=============================================================================
