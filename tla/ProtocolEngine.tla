--------------------------- MODULE ProtocolEngine ---------------------------
(***************************************************************************)
(* droid_sdk.protocol.ProtocolEngine: correlation of JSON-RPC requests and *)
(* responses, the reader task, the sticky transport error, the tasks that  *)
(* answer server->client requests, and close().                            *)
(*                                                                         *)
(* The engine runs on one asyncio event loop, so the code between two      *)
(* awaits is one action.  A call is one execution of send_request(); an    *)
(* asyncio task that retries a request is several calls.  The transport    *)
(* and the droid process behind it are the environment: a send may block,  *)
(* fail or be cancelled, a request may be answered late, twice or never.   *)
(***************************************************************************)
EXTENDS Naturals, FiniteSets

CONSTANTS Calls,      \* executions of send_request()
          Ids,        \* request ids
          IdOf,       \* the id each call is sent with
          NoCall,     \* marks an id without an entry in _pending_requests
          Requests,   \* server->client requests the process may send
          Closers     \* tasks that call close()

ASSUME EngineAssumption == /\ IdOf \in [Calls -> Ids]
                           /\ NoCall \notin Calls

VARIABLES
  pc,              \* where each call is in send_request()
  fut,             \* the state of each call's Future
  answers,         \* whose response was stored in the call's Future
  outcome,         \* how send_request() returned or what it raised
  pending,         \* _pending_requests
  wire,            \* calls whose line reached the process (history)
  transportError,  \* _transport_error is set
  closed,          \* _closed
  reader,          \* the reader task
  closer,          \* where each task is in close()
  task,            \* the background task of each server->client request
  cancelled,       \* background tasks close() has cancelled and awaits
  replies,         \* replies written for each server->client request (history)
  handler          \* a permission or ask-user handler is registered

callVars   == <<pc, fut, answers, outcome, pending, wire>>
readerVars == <<transportError, closed, reader, closer>>
taskVars   == <<task, cancelled, replies, handler>>
vars       == <<callVars, readerVars, taskVars>>

-----------------------------------------------------------------------------
ResponseKinds == {"result", "error", "malformed"}
Rejections    == {"connectionLost", "engineClosed"}
FutureStates  == {"none", "open", "cancelled"} \cup ResponseKinds \cup Rejections
Outcomes      == {"none", "refused", "sendFailed", "timeout", "cancelled"}
                   \cup ResponseKinds \cup Rejections
CallPoints    == {"idle", "sending", "waiting", "timedOut", "cancelling", "returned"}
ReaderStates  == {"running", "stopping", "failed", "crashed", "ended", "stopped"}
ClosePoints   == {"idle", "reader", "tasks", "done", "aborted"}
LiveTask      == {"scheduled", "handling", "replying", "flushing"}
EndedTask     == {"replied", "lost", "dropped", "cancelled"}

TypeOK ==
  /\ pc \in [Calls -> CallPoints]
  /\ fut \in [Calls -> FutureStates]
  /\ answers \in [Calls -> Calls \cup {NoCall}]
  /\ outcome \in [Calls -> Outcomes]
  /\ pending \in [Ids -> Calls \cup {NoCall}]
  /\ wire \subseteq Calls
  /\ transportError \in BOOLEAN
  /\ closed \in BOOLEAN
  /\ reader \in ReaderStates
  /\ closer \in [Closers -> ClosePoints]
  /\ task \in [Requests -> {"absent"} \cup LiveTask \cup EndedTask]
  /\ cancelled \subseteq Requests
  /\ replies \in [Requests -> Nat]
  /\ handler \in BOOLEAN

\* The engine as DroidClient.connect() leaves it: wired and started.
Init ==
  /\ pc = [c \in Calls |-> "idle"]
  /\ fut = [c \in Calls |-> "none"]
  /\ answers = [c \in Calls |-> NoCall]
  /\ outcome = [c \in Calls |-> "none"]
  /\ pending = [i \in Ids |-> NoCall]
  /\ wire = {}
  /\ transportError = FALSE
  /\ closed = FALSE
  /\ reader = "running"
  /\ closer = [k \in Closers |-> "idle"]
  /\ task = [r \in Requests |-> "absent"]
  /\ cancelled = {}
  /\ replies = [r \in Requests |-> 0]
  /\ handler = TRUE

-----------------------------------------------------------------------------
(* send_request() *)

Popped(c) == [pending EXCEPT ![IdOf[c]] = NoCall]

Return(c, o) ==
  /\ pc' = [pc EXCEPT ![c] = "returned"]
  /\ outcome' = [outcome EXCEPT ![c] = o]

\* The guards at the top: a closed engine and a sticky error are both final.
Refuse(c) ==
  /\ pc[c] = "idle"
  /\ closed \/ transportError
  /\ Return(c, "refused")
  /\ UNCHANGED <<fut, answers, pending, wire, readerVars, taskVars>>

\* Fault: the sticky error is not checked.
RegisterWhenBroken(c) ==
  /\ pc[c] = "idle"
  /\ ~closed
  /\ pc' = [pc EXCEPT ![c] = "sending"]
  /\ fut' = [fut EXCEPT ![c] = "open"]
  /\ pending' = [pending EXCEPT ![IdOf[c]] = c]
  /\ UNCHANGED <<answers, outcome, wire, readerVars, taskVars>>

\* Fault: the closed flag is not checked.
RegisterWhenClosed(c) ==
  /\ pc[c] = "idle"
  /\ ~transportError
  /\ pc' = [pc EXCEPT ![c] = "sending"]
  /\ fut' = [fut EXCEPT ![c] = "open"]
  /\ pending' = [pending EXCEPT ![IdOf[c]] = c]
  /\ UNCHANGED <<answers, outcome, wire, readerVars, taskVars>>

\* There is no await between the guards and the registration.
Register(c) ==
  /\ pc[c] = "idle"
  /\ ~closed
  /\ ~transportError
  /\ pc' = [pc EXCEPT ![c] = "sending"]
  /\ fut' = [fut EXCEPT ![c] = "open"]
  /\ pending' = [pending EXCEPT ![IdOf[c]] = c]
  /\ UNCHANGED <<answers, outcome, wire, readerVars, taskVars>>

\* transport.send() writes the line, then waits for the pipe to drain.
Write(c) ==
  /\ pc[c] = "sending"
  /\ c \notin wire
  /\ wire' = wire \cup {c}
  /\ UNCHANGED <<pc, fut, answers, outcome, pending, readerVars, taskVars>>

SendReturns(c) ==
  /\ pc[c] = "sending"
  /\ c \in wire
  /\ pc' = [pc EXCEPT ![c] = "waiting"]
  /\ UNCHANGED <<fut, answers, outcome, pending, wire, readerVars, taskVars>>

SendFails(c, o) ==
  /\ pc[c] = "sending"
  /\ o \in {"sendFailed", "cancelled"}
  /\ Return(c, o)
  /\ pending' = Popped(c)
  /\ UNCHANGED <<fut, answers, wire, readerVars, taskVars>>

\* wait_for(): the timer, or cancellation of the calling task, cancels a
\* Future that is still open.  The call itself runs only when it is resumed.
Interrupt(c, p) ==
  /\ pc[c] = "waiting"
  /\ pc' = [pc EXCEPT ![c] = p]
  /\ fut' = [fut EXCEPT ![c] = IF @ = "open" THEN "cancelled" ELSE @]
  /\ UNCHANGED <<answers, outcome, pending, wire, readerVars, taskVars>>

TimerFires(c)  == Interrupt(c, "timedOut")
CallerCancelled(c) == Interrupt(c, "cancelling")

\* Resumed with a settled Future.  An interrupted wait_for() may still return
\* it: up to Python 3.11 the Future wins, from 3.12 the interruption does.
Wake(c) ==
  /\ pc[c] \in {"waiting", "timedOut", "cancelling"}
  /\ fut[c] \in ResponseKinds \cup Rejections
  /\ Return(c, fut[c])
  /\ UNCHANGED <<fut, answers, pending, wire, readerVars, taskVars>>

\* Fault: an interrupted call leaves its entry behind.
WakeWithoutPop(c) ==
  /\ pc[c] \in {"timedOut", "cancelling"}
  /\ Return(c, IF pc[c] = "timedOut" THEN "timeout" ELSE "cancelled")
  /\ UNCHANGED <<fut, answers, pending, wire, readerVars, taskVars>>

\* Fault: the timeout is not handled.
WakeOnlyCancelled(c) ==
  /\ pc[c] = "cancelling"
  /\ Return(c, "cancelled")
  /\ pending' = Popped(c)
  /\ UNCHANGED <<fut, answers, wire, readerVars, taskVars>>

WakeInterrupted(c) ==
  /\ pc[c] \in {"timedOut", "cancelling"}
  /\ Return(c, IF pc[c] = "timedOut" THEN "timeout" ELSE "cancelled")
  /\ pending' = Popped(c)
  /\ UNCHANGED <<fut, answers, wire, readerVars, taskVars>>

-----------------------------------------------------------------------------
(* The reader task: _read_loop(), _handle_message(), transport errors *)

\* set_result() and set_exception(), each behind a check of future.done().
Settle(h, kind, c) ==
  IF h # NoCall /\ fut[h] = "open"
    THEN /\ fut' = [fut EXCEPT ![h] = kind]
         /\ answers' = [answers EXCEPT ![h] = c]
    ELSE UNCHANGED <<fut, answers>>

\* Fault: responses are matched to any pending call instead of by id.
ResponseToAny(c, kind) ==
  /\ reader = "running"
  /\ c \in wire
  /\ \E i \in Ids : /\ Settle(pending[i], kind, c)
                   /\ pending' = [pending EXCEPT ![i] = NoCall]
  /\ UNCHANGED <<pc, outcome, wire, readerVars, taskVars>>

\* A response to call c arrives.  Nothing stops the process from answering a
\* call that is gone, or one it has already answered.
Response(c, kind) ==
  /\ reader = "running"
  /\ c \in wire
  /\ Settle(pending[IdOf[c]], kind, c)
  /\ pending' = Popped(c)
  /\ UNCHANGED <<pc, outcome, wire, readerVars, taskVars>>

\* Fault: the entries are dropped, their futures left open.
ForgetAllPending(e) ==
  /\ pending' = [i \in Ids |-> NoCall]
  /\ UNCHANGED fut

\* _reject_all_pending()
RejectAllPending(e) ==
  LET rejected == {c \in Calls : fut[c] = "open" /\ \E i \in Ids : pending[i] = c}
  IN  /\ fut' = [c \in Calls |-> IF c \in rejected THEN e ELSE fut[c]]
      /\ pending' = [i \in Ids |-> NoCall]

\* _handle_transport_error(), run by the reader task as its last step.
HandleTransportError(state) ==
  /\ transportError' = TRUE
  /\ reader' = state
  /\ RejectAllPending("connectionLost")
  /\ UNCHANGED <<pc, answers, outcome, wire, closed, closer, taskVars>>

\* read_messages() raises.  It may do so even when the reader task is being
\* cancelled, by turning the cancellation into an exception of its own.
ReaderFails ==
  /\ reader \in {"running", "stopping"}
  /\ HandleTransportError("failed")

\* A response with a null id is logged; reading the code of an error that is
\* not an object raises, and _read_loop() takes any exception for a
\* transport error.
NullIdError(payload) ==
  /\ reader = "running"
  /\ IF payload = "object" THEN UNCHANGED vars ELSE HandleTransportError("crashed")

\* read_messages() ends without an exception: nobody is told.
ReaderEnds ==
  /\ reader = "running"
  /\ reader' = "ended"
  /\ UNCHANGED <<callVars, transportError, closed, closer, taskVars>>

ReaderCancelled ==
  /\ reader = "stopping"
  /\ reader' = "stopped"
  /\ UNCHANGED <<callVars, transportError, closed, closer, taskVars>>

-----------------------------------------------------------------------------
(* Server->client requests, each answered by a background task *)

ScheduleServerRequest(r) ==
  /\ reader = "running"
  /\ task[r] = "absent"
  /\ task' = [task EXCEPT ![r] = "scheduled"]
  /\ UNCHANGED <<callVars, readerVars, cancelled, replies, handler>>

TaskMoves(r, from, to) ==
  /\ task[r] = from
  /\ task' = [task EXCEPT ![r] = to]
  /\ UNCHANGED <<callVars, readerVars, cancelled, handler>>

\* The first step of the task reads the handler.  Without one it answers
\* with the default; a method it does not know is dropped unanswered.
HandleServerRequest(r) ==
  /\ r \notin cancelled
  /\ \/ handler /\ TaskMoves(r, "scheduled", "handling")
     \/ ~handler /\ TaskMoves(r, "scheduled", "replying")
     \/ TaskMoves(r, "scheduled", "dropped")
  /\ UNCHANGED replies

\* A value becomes a response, an exception an error response.
HandlerReturns(r) == TaskMoves(r, "handling", "replying") /\ UNCHANGED replies

WriteReply(r) ==
  /\ TaskMoves(r, "replying", "flushing")
  /\ replies' = [replies EXCEPT ![r] = @ + 1]

ReplySent(r) == TaskMoves(r, "flushing", "replied") /\ UNCHANGED replies

\* Fault: a failed send is answered with an error response.
ReplyFailsLoudly(r) ==
  /\ TaskMoves(r, "replying", "lost") \/ TaskMoves(r, "flushing", "replying")
  /\ UNCHANGED replies

\* A failed send is logged and swallowed.
ReplyFails(r) ==
  /\ TaskMoves(r, "replying", "lost") \/ TaskMoves(r, "flushing", "lost")
  /\ UNCHANGED replies

\* Fault: close() waits for the handlers instead of cancelling them.
TaskAwaited(r) ==
  /\ r \in cancelled
  /\ \E p \in LiveTask \ {"handling"} : TaskMoves(r, p, "cancelled")
  /\ UNCHANGED replies

\* close() cancels every task; a handler may also raise CancelledError itself.
TaskCancelled(r) ==
  /\ r \in cancelled \/ task[r] = "handling"
  /\ \E p \in LiveTask : TaskMoves(r, p, "cancelled")
  /\ UNCHANGED replies

SetHandler(h) ==
  /\ ~closed
  /\ handler' = h
  /\ UNCHANGED <<callVars, readerVars, task, cancelled, replies>>

-----------------------------------------------------------------------------
(* close() *)

LiveTasks == {r \in Requests : task[r] \in LiveTask}

\* The part of close() after the reader: reject, cancel the tasks, and, when
\* there is none to wait for, clear the handlers.
RejectAndCancelTasks(k) ==
  /\ RejectAllPending("engineClosed")
  /\ cancelled' = cancelled \cup LiveTasks
  /\ IF LiveTasks = {}
       THEN closer' = [closer EXCEPT ![k] = "done"] /\ handler' = FALSE
       ELSE closer' = [closer EXCEPT ![k] = "tasks"] /\ UNCHANGED handler
  /\ UNCHANGED <<pc, answers, outcome, wire, transportError, task, replies>>

ReaderDone == reader \notin {"running", "stopping"}

\* close() sets _closed and cancels the reader; awaiting a reader that is
\* already done does not suspend.
CloseBegins(k) ==
  /\ closer[k] = "idle"
  /\ closed' = TRUE
  /\ IF ReaderDone
       THEN RejectAndCancelTasks(k) /\ UNCHANGED reader
       ELSE /\ reader' = "stopping"
            /\ closer' = [closer EXCEPT ![k] = "reader"]
            /\ UNCHANGED <<callVars, transportError, taskVars>>

\* The suppress() around the await also swallows a cancellation of close().
CloseAfterReader(k) ==
  /\ closer[k] = "reader"
  /\ ReaderDone
  /\ RejectAndCancelTasks(k)
  /\ UNCHANGED <<reader, closed>>

\* Fault: the cancelled tasks are not awaited.
CloseWithoutGather(k, end) ==
  /\ closer[k] = "tasks"
  /\ end \in {"done", "aborted"}
  /\ closer' = [closer EXCEPT ![k] = end]
  /\ handler' = (handler /\ end = "aborted")
  /\ UNCHANGED <<callVars, transportError, closed, reader, task, cancelled, replies>>

\* gather() returned, or the task that runs close() was cancelled while it
\* waited and the handlers stay.
CloseAfterTasks(k, end) ==
  /\ closer[k] = "tasks"
  /\ end \in {"done", "aborted"}
  /\ \A r \in cancelled : task[r] \in EndedTask
  /\ closer' = [closer EXCEPT ![k] = end]
  /\ handler' = (handler /\ end = "aborted")
  /\ UNCHANGED <<callVars, transportError, closed, reader, task, cancelled, replies>>

-----------------------------------------------------------------------------
CallNext(c) ==
  \/ Refuse(c) \/ Register(c)
  \/ Write(c) \/ SendReturns(c) \/ \E o \in Outcomes : SendFails(c, o)
  \/ TimerFires(c) \/ CallerCancelled(c)
  \/ Wake(c) \/ WakeInterrupted(c)

ReaderNext ==
  \/ \E c \in Calls, kind \in ResponseKinds : Response(c, kind)
  \/ \E payload \in {"object", "other"} : NullIdError(payload)
  \/ ReaderFails \/ ReaderEnds \/ ReaderCancelled

TaskNext(r) ==
  \/ ScheduleServerRequest(r) \/ HandleServerRequest(r) \/ HandlerReturns(r)
  \/ WriteReply(r) \/ ReplySent(r) \/ ReplyFails(r) \/ TaskCancelled(r)

CloseNext(k) ==
  \/ CloseBegins(k) \/ CloseAfterReader(k)
  \/ \E end \in ClosePoints : CloseAfterTasks(k, end)

Next ==
  \/ \E c \in Calls : CallNext(c)
  \/ ReaderNext
  \/ \E r \in Requests : TaskNext(r)
  \/ \E h \in BOOLEAN : SetHandler(h)
  \/ \E k \in Closers : CloseNext(k)

Spec == Init /\ [][Next]_vars

\* What the event loop runs by itself once it is ready.  Timers and the process
\* are assumed only where a property says so.
LoopFairness ==
  /\ \A c \in Calls : WF_vars(Wake(c) \/ WakeInterrupted(c))
  /\ WF_vars(ReaderCancelled)
  /\ \A r \in Requests : /\ WF_vars(HandleServerRequest(r))
                         /\ WF_vars(r \in cancelled /\ TaskCancelled(r))
  /\ \A k \in Closers : /\ WF_vars(CloseAfterReader(k))
                        /\ WF_vars(CloseAfterTasks(k, "done"))

\* Every wait_for() has a timer.
TimerFairness == \A c \in Calls : WF_vars(TimerFires(c))

\* The process reads its stdin, or the send fails.
SendFairness == \A c \in Calls : WF_vars(Write(c)) /\ WF_vars(SendReturns(c))

-----------------------------------------------------------------------------
DistinctIds == \A c, d \in Calls : IdOf[c] = IdOf[d] => c = d

\* An entry of _pending_requests belongs to a call that has not returned and
\* that nobody has answered.
NoLeakedEntry ==
  \A i \in Ids : pending[i] # NoCall =>
    /\ IdOf[pending[i]] = i
    /\ pc[pending[i]] \in {"sending", "waiting", "timedOut", "cancelling"}
    /\ fut[pending[i]] \in {"open", "cancelled"}

\* A call whose Future is open can still be woken by a response or rejected:
\* its entry is there and no other call has taken its place.
OpenIsRegistered ==
  \A c \in Calls : pc[c] \in {"sending", "waiting"} /\ fut[c] = "open"
                    => pending[IdOf[c]] = c

\* _pending_requests holds exactly the calls that can still be answered: the
\* code pops it in six places, and neither leaks an entry nor loses a caller.
EntriesExact == NoLeakedEntry /\ OpenIsRegistered

\* protocol.py:11-12.  After a transport error no Future of a running call is
\* left open, so no call waits for its timeout.
BrokenRejectsAll ==
  transportError => \A c \in Calls : pc[c] \in {"sending", "waiting"} => fut[c] # "open"

\* A value returned by send_request() is the response to that very call.
OwnResponse ==
  \A c \in Calls : outcome[c] \in ResponseKinds => answers[c] = c

\* Once a close() has returned, normally or by cancellation, no call waits,
\* the reader has stopped and no handler task is left running.
ClosedIsQuiet ==
  (\E k \in Closers : closer[k] \in {"done", "aborted"}) =>
    /\ \A i \in Ids : pending[i] = NoCall
    /\ \A c \in Calls : pc[c] \in {"sending", "waiting"} => fut[c] # "open"
    /\ ReaderDone
    /\ LiveTasks = {}

\* A permission or ask-user request is never answered twice, whatever fails.
AtMostOneReply == \A r \in Requests : replies[r] <= 1

\* A settled Future is final: a late or duplicate response, an error or
\* close() never overwrites what the call is about to return.
SettledStays ==
  [][\A c \in Calls : fut[c] \notin {"none", "open"} =>
       fut'[c] = fut[c] /\ answers'[c] = answers[c]]_vars

\* protocol.py:505 "log but don't crash".  Not so: see README, section 5.
ReaderSurvivesMessages == reader # "crashed"

\* protocol.py:11-12 without the help of a timer: a waiting call is resumed.
BrokenCallsReturn ==
  \A c \in Calls :
    (transportError \/ \E k \in Closers : closer[k] = "done") /\ pc[c] = "waiting"
      ~> pc[c] = "returned"

\* protocol.py:204.  With a process that reads its stdin every call returns,
\* if only by its timeout.
CallsReturn ==
  TimerFairness /\ SendFairness => \A c \in Calls : pc[c] = "sending" ~> pc[c] = "returned"

\* Every close() ends even when a handler never returns on its own.
CloseEnds == \A k \in Closers : closer[k] = "reader" ~> closer[k] \in {"done", "aborted"}

LoopSpec == Spec /\ LoopFairness

-----------------------------------------------------------------------------
(* The engine implements RpcCalls *)

CallStatus(c) ==
  CASE pc[c] = "idle" -> "new"
    [] pc[c] = "returned" /\ outcome[c] \in ResponseKinds -> "returned"
    [] pc[c] = "returned" /\ outcome[c] \notin ResponseKinds -> "raised"
    [] pc[c] \notin {"idle", "returned"} /\ fut[c] = "open" -> "open"
    [] pc[c] \notin {"idle", "returned"} /\ fut[c] \in ResponseKinds -> "answered"
    [] OTHER -> "failed"

Rejected == transportError \/ \E k \in Closers : closer[k] \in {"tasks", "done", "aborted"}

Link == IF Rejected THEN "down" ELSE IF closed THEN "closing" ELSE "up"

Rpc == INSTANCE RpcCalls WITH status <- [c \in Calls |-> CallStatus(c)], link <- Link

\* Each step of futures, entries and tasks is a step of RpcCalls or none.
ImplementsRpcCalls == Rpc!Spec
=============================================================================
