------------------------------ MODULE RunStream ------------------------------
(***************************************************************************)
(* droid_sdk._high_level.streaming.RunStream with the start and finish     *)
(* callbacks of Session.stream(): one turn of the agent, its queue of      *)
(* events, its deadline, and the release that gives the session back.      *)
(*                                                                         *)
(* A stream has one consumer, a task that runs                             *)
(*     async with session.stream(...) as stream:                           *)
(*         async for event in stream: ...                                  *)
(* Notifications reach every listener in the reader task.  The droid       *)
(* process is the environment: it reads its stdin in order and works on    *)
(* one turn at a time.                                                     *)
(***************************************************************************)
EXTENDS Naturals, Sequences

CONSTANTS Streams,    \* the streams a session makes, numbered in that order
          NoStream,   \* no stream is active
          Timed,      \* the streams made with a timeout
          MaxEvents,  \* bound on the events of each turn
          Liberties   \* what may happen besides the loop above

ASSUME StreamAssumption ==
  /\ Streams \subseteq Nat
  /\ NoStream \notin Streams
  /\ Timed \subseteq Streams
  /\ MaxEvents \in [Streams -> Nat]
  /\ Liberties \subseteq {"close_session", "start_released", "lose_link",
                          "send_malformed", "fail_handlers"}

VARIABLES
  pc,          \* where the consumer of each stream is
  outcome,     \* how its loop ended
  seen,        \* the events it was given (history)
  overtaken,   \* the interrupts its message was written before (history)
  started,     \* _started
  release,     \* _released and the finish() task
  done,        \* _done
  result,      \* _result is set
  error,       \* _error is set
  queue,       \* _queue
  expired,     \* the clock has passed _deadline
  session,     \* Session._state, BUSY being OPEN with an active stream
  active,      \* Session._active_stream
  sink,        \* InteractionDispatcher.error_sink
  subscribed,  \* streams whose listeners the client holds
  interrupts,  \* interrupt_session() tasks that have not written yet
  stdin,       \* what the process has still to read
  turn,        \* the process: the turn of each stream
  emitted,     \* the process: events it sent for each turn
  asking,      \* the interaction each turn may ask for (one suffices)
  pipe,        \* what the reader has still to read
  link         \* the engine: "up", "broken" or "closed"

consumerVars == <<pc, outcome, seen, overtaken, started>>
bufferVars   == <<done, result, error, queue>>
sessionVars  == <<session, active, sink, subscribed, interrupts>>
processVars  == <<turn, emitted, asking>>
vars == <<consumerVars, release, bufferVars, expired, sessionVars,
          stdin, processVars, pipe, link>>

-----------------------------------------------------------------------------
Points   == {"none", "created", "starting", "accepted", "ready", "waiting", "woken",
             "releasing", "over"}
Outcomes == {"none", "stopped", "failed", "timeout", "cancelled", "left"}
Releases == {"held", "interrupt", "plain", "finished"}

\* What the process sends: the response to add_user_message(), an event of
\* the turn (the n-th), the failure of an interaction handler, the
\* completion of the turn, or a notification that does not validate.
Kinds   == {"accepted", "event", "failure", "completed", "malformed"}
Notices == [turn : Streams, kind : Kinds, n : Nat]

ConsumersOK ==
  /\ pc \in [Streams -> Points]
  /\ outcome \in [Streams -> Outcomes]
  /\ seen \in [Streams -> Seq(Notices)]
  /\ overtaken \in [Streams -> SUBSET Streams]
  /\ release \in [Streams -> Releases]
  /\ queue \in [Streams -> Seq(Notices)]

FlagsOK ==
  /\ started \in [Streams -> BOOLEAN]
  /\ done \in [Streams -> BOOLEAN]
  /\ result \in [Streams -> BOOLEAN]
  /\ error \in [Streams -> BOOLEAN]
  /\ expired \in [Streams -> BOOLEAN]

SessionOK ==
  /\ session \in {"open", "closing", "detached", "closed"}
  /\ active \in Streams \cup {NoStream}
  /\ sink \in Streams \cup {NoStream}
  /\ subscribed \subseteq Streams
  /\ interrupts \subseteq Streams

ProcessOK ==
  /\ stdin \in Seq({"message", "interrupt"} \X Streams)
  /\ turn \in [Streams -> {"none", "running", "completed", "interrupted"}]
  /\ emitted \in [Streams -> Nat]
  /\ asking \in [Streams -> {"unasked", "asked", "failed"}]
  /\ pipe \in Seq(Notices)
  /\ link \in {"up", "broken", "closed"}

TypeOK == ConsumersOK /\ FlagsOK /\ SessionOK /\ ProcessOK

Init ==
  /\ pc = [s \in Streams |-> "none"]
  /\ outcome = [s \in Streams |-> "none"]
  /\ seen = [s \in Streams |-> <<>>]
  /\ overtaken = [s \in Streams |-> {}]
  /\ started = [s \in Streams |-> FALSE]
  /\ release = [s \in Streams |-> "held"]
  /\ done = [s \in Streams |-> FALSE]
  /\ result = [s \in Streams |-> FALSE]
  /\ error = [s \in Streams |-> FALSE]
  /\ queue = [s \in Streams |-> <<>>]
  /\ expired = [s \in Streams |-> FALSE]
  /\ session = "open"
  /\ active = NoStream
  /\ sink = NoStream
  /\ subscribed = {}
  /\ interrupts = {}
  /\ stdin = <<>>
  /\ turn = [s \in Streams |-> "none"]
  /\ emitted = [s \in Streams |-> 0]
  /\ asking = [s \in Streams |-> "unasked"]
  /\ pipe = <<>>
  /\ link = "up"

-----------------------------------------------------------------------------
(* Session.stream(), its start and finish callbacks, _release() *)

\* Fault: an active stream is not looked for.
MakeStreamWhileBusy(s) ==
  /\ pc[s] = "none"
  /\ \A r \in Streams : r < s => pc[r] # "none"
  /\ session = "open"
  /\ active' = s
  /\ pc' = [pc EXCEPT ![s] = "created"]
  /\ UNCHANGED <<outcome, seen, overtaken, started, release, bufferVars, expired, session, sink,
                 subscribed, interrupts, stdin, processVars, pipe, link>>

\* The session is claimed when the stream is made, before it is started.
MakeStream(s) ==
  /\ pc[s] = "none"
  /\ \A r \in Streams : r < s => pc[r] # "none"
  /\ session = "open"
  /\ active = NoStream
  /\ active' = s
  /\ pc' = [pc EXCEPT ![s] = "created"]
  /\ UNCHANGED <<outcome, seen, overtaken, started, release, bufferVars, expired, session, sink,
                 subscribed, interrupts, stdin, processVars, pipe, link>>

\* _release(): the first caller has finish() run as a task and waits for it.
Release(s, interrupt, how) ==
  /\ outcome' = [outcome EXCEPT ![s] = how]
  /\ IF release[s] = "held"
       THEN /\ release' = [release EXCEPT ![s] = IF interrupt THEN "interrupt" ELSE "plain"]
            /\ pc' = [pc EXCEPT ![s] = "releasing"]
       ELSE /\ pc' = [pc EXCEPT ![s] = "over"]
            /\ UNCHANGED release

\* _raise_timeout()
RaiseTimeout(s) ==
  /\ queue' = [queue EXCEPT ![s] = <<>>]
  /\ result' = [result EXCEPT ![s] = FALSE]
  /\ error' = [error EXCEPT ![s] = FALSE]
  /\ done' = [done EXCEPT ![s] = TRUE]
  /\ Release(s, TRUE, "timeout")

\* A stream may be entered, or iterated, after it was closed unstarted.
MayStart(s) ==
  /\ ~started[s]
  /\ \/ pc[s] = "created"
     \/ "start_released" \in Liberties /\ pc[s] = "over" /\ outcome[s] = "left"

\* start(): listeners first, then the message, in one step.
Start(s) ==
  /\ MayStart(s)
  /\ session # "closed"
  /\ started' = [started EXCEPT ![s] = TRUE]
  /\ sink' = s
  /\ subscribed' = subscribed \cup {s}
  /\ stdin' = IF link = "up" THEN Append(stdin, <<"message", s>>) ELSE stdin
  /\ pc' = [pc EXCEPT ![s] = "starting"]
  /\ outcome' = [outcome EXCEPT ![s] = "none"]
  /\ overtaken' = [overtaken EXCEPT ![s] = interrupts]
  /\ UNCHANGED <<seen, release, bufferVars, expired, session, active, interrupts,
                 processVars, pipe, link>>

\* The deadline has passed before start() can run, which then never does.
StartTooLate(s) ==
  /\ MayStart(s)
  /\ s \in Timed
  /\ started' = [started EXCEPT ![s] = TRUE]
  /\ expired' = [expired EXCEPT ![s] = TRUE]
  /\ RaiseTimeout(s)
  /\ UNCHANGED <<seen, overtaken, sessionVars, stdin, processVars, pipe, link>>

\* start() raises because the client is gone, or add_user_message() fails.
StartFails(s) ==
  /\ \/ MayStart(s) /\ session = "closed"
     \/ pc[s] = "starting"
  /\ started' = [started EXCEPT ![s] = TRUE]
  /\ Release(s, FALSE, "failed")
  /\ UNCHANGED <<seen, overtaken, bufferVars, expired, sessionVars, stdin, processVars, pipe, link>>

StartReturns(s) ==
  /\ pc[s] = "accepted"
  /\ pc' = [pc EXCEPT ![s] = "ready"]
  /\ UNCHANGED <<outcome, seen, overtaken, started, release, bufferVars, expired,
                 sessionVars, stdin, processVars, pipe, link>>

\* wait_for() around start(): the timer may fire before the response is seen.
StartTimesOut(s) ==
  /\ pc[s] \in {"starting", "accepted"}
  /\ expired[s]
  /\ RaiseTimeout(s)
  /\ UNCHANGED <<seen, overtaken, started, expired, sessionVars, stdin, processVars, pipe, link>>

\* Fault: finish() leaves the listeners in place.
FinishStillListening(s) ==
  /\ release[s] \in {"interrupt", "plain"}
  /\ release' = [release EXCEPT ![s] = "finished"]
  /\ active' = IF active = s THEN NoStream ELSE active
  /\ sink' = NoStream
  /\ interrupts' = IF release[s] = "interrupt" /\ session # "closed"
                     THEN interrupts \cup {s} ELSE interrupts
  /\ UNCHANGED <<consumerVars, bufferVars, expired, session, subscribed, stdin,
                 processVars, pipe, link>>

\* Fault: finish() interrupts nothing.
FinishQuietly(s) ==
  /\ release[s] \in {"interrupt", "plain"}
  /\ release' = [release EXCEPT ![s] = "finished"]
  /\ subscribed' = subscribed \ {s}
  /\ active' = IF active = s THEN NoStream ELSE active
  /\ sink' = NoStream
  /\ UNCHANGED <<consumerVars, bufferVars, expired, session, interrupts, stdin,
                 processVars, pipe, link>>

\* Fault: finish() gives the session back only when nothing is interrupted.
FinishStillBusy(s) ==
  /\ release[s] \in {"interrupt", "plain"}
  /\ release' = [release EXCEPT ![s] = "finished"]
  /\ subscribed' = subscribed \ {s}
  /\ active' = IF active = s /\ release[s] = "plain" THEN NoStream ELSE active
  /\ sink' = NoStream
  /\ interrupts' = IF release[s] = "interrupt" /\ session # "closed"
                     THEN interrupts \cup {s} ELSE interrupts
  /\ UNCHANGED <<consumerVars, bufferVars, expired, session, stdin, processVars, pipe, link>>

\* finish(), which has no await of its own.
Finish(s) ==
  /\ release[s] \in {"interrupt", "plain"}
  /\ release' = [release EXCEPT ![s] = "finished"]
  /\ subscribed' = subscribed \ {s}
  /\ active' = IF active = s THEN NoStream ELSE active
  /\ sink' = NoStream
  /\ interrupts' = IF release[s] = "interrupt" /\ session # "closed"
                     THEN interrupts \cup {s} ELSE interrupts
  /\ UNCHANGED <<consumerVars, bufferVars, expired, session, stdin, processVars, pipe, link>>

\* The background task that interrupts the session, not this turn.
WriteInterrupt(s) ==
  /\ s \in interrupts
  /\ interrupts' = interrupts \ {s}
  /\ stdin' = IF link = "up" THEN Append(stdin, <<"interrupt", s>>) ELSE stdin
  /\ UNCHANGED <<consumerVars, release, bufferVars, expired, session, active, sink,
                 subscribed, processVars, pipe, link>>

\* The consumer goes on when finish() is done: the task that interrupts was
\* scheduled before it ...
LeaveRelease(s) ==
  /\ pc[s] = "releasing"
  /\ release[s] = "finished"
  /\ s \notin interrupts
  /\ pc' = [pc EXCEPT ![s] = "over"]
  /\ UNCHANGED <<outcome, seen, overtaken, started, release, bufferVars, expired,
                 sessionVars, stdin, processVars, pipe, link>>

\* ... or because it is cancelled once more, from which finish() is shielded.
CancelAgain(s) ==
  /\ pc[s] = "releasing"
  /\ pc' = [pc EXCEPT ![s] = "over"]
  /\ UNCHANGED <<outcome, seen, overtaken, started, release, bufferVars, expired,
                 sessionVars, stdin, processVars, pipe, link>>

-----------------------------------------------------------------------------
(* The consumer: __anext__(), __aexit__(), aclose() *)

\* Fault: the wait for _wakeup has no limit.
RunnableWhenWoken(s) == pc[s] \in {"ready", "woken"}

\* __anext__() goes through its loop until it has an event, an end, or has to
\* wait for _wakeup.
Runnable(s) ==
  \/ pc[s] = "ready"
  \/ pc[s] = "woken"
  \/ pc[s] = "waiting" /\ expired[s]

PollTimesOut(s) ==
  /\ Runnable(s)
  /\ expired[s]
  /\ RaiseTimeout(s)
  /\ UNCHANGED <<seen, overtaken, started, expired, sessionVars, stdin, processVars, pipe, link>>

PollEvent(s) ==
  /\ Runnable(s)
  /\ ~expired[s]
  /\ queue[s] # <<>>
  /\ seen' = [seen EXCEPT ![s] = Append(@, Head(queue[s]))]
  /\ queue' = [queue EXCEPT ![s] = Tail(@)]
  /\ pc' = [pc EXCEPT ![s] = "ready"]
  /\ UNCHANGED <<outcome, overtaken, started, release, done, result, error, expired,
                 sessionVars, stdin, processVars, pipe, link>>

PollEnd(s) ==
  /\ Runnable(s)
  /\ ~expired[s]
  /\ queue[s] = <<>>
  /\ done[s]
  /\ Release(s, FALSE, IF error[s] THEN "failed" ELSE "stopped")
  /\ UNCHANGED <<seen, overtaken, started, bufferVars, expired, sessionVars, stdin, processVars,
                 pipe, link>>

PollWaits(s) ==
  /\ Runnable(s)
  /\ ~expired[s]
  /\ queue[s] = <<>>
  /\ ~done[s]
  /\ pc' = [pc EXCEPT ![s] = "waiting"]
  /\ UNCHANGED <<outcome, seen, overtaken, started, release, bufferVars, expired,
                 sessionVars, stdin, processVars, pipe, link>>

Poll(s) == PollTimesOut(s) \/ PollEvent(s) \/ PollEnd(s) \/ PollWaits(s)

\* The task of the consumer is cancelled while it is inside the stream.
Cancel(s) ==
  /\ pc[s] \in {"starting", "accepted", "waiting", "woken"}
  /\ Release(s, TRUE, "cancelled")
  /\ UNCHANGED <<seen, overtaken, started, bufferVars, expired, sessionVars, stdin, processVars,
                 pipe, link>>

\* break, an exception in the loop body, or aclose(): _release() interrupts a
\* turn that has not ended.
Leave(s) ==
  /\ pc[s] \in {"created", "ready"}
  /\ Release(s, ~done[s], "left")
  /\ UNCHANGED <<seen, overtaken, started, bufferVars, expired, sessionVars, stdin, processVars,
                 pipe, link>>

\* Time passes only for a stream that has computed its _deadline.
DeadlinePasses(s) ==
  /\ s \in Timed
  /\ started[s]
  /\ pc[s] \in {"starting", "accepted", "ready", "waiting", "woken"}
  /\ ~expired[s]
  /\ expired' = [expired EXCEPT ![s] = TRUE]
  /\ UNCHANGED <<consumerVars, release, bufferVars, sessionVars, stdin, processVars,
                 pipe, link>>

-----------------------------------------------------------------------------
(* The reader task: feed_notification(), feed_error(), queue_error_event() *)

\* _wakeup.set().  The Event is cleared just before each wait, so it matters
\* only while the consumer waits.
Woken(S) == [s \in Streams |-> IF s \in S /\ pc[s] = "waiting" THEN "woken" ELSE pc[s]]

\* Fault: what arrives before add_user_message() has returned is skipped.
ListensOnceStarted(s) ==
  s \in subscribed /\ ~done[s] /\ pc[s] \notin {"starting", "accepted"}

Listens(s) == s \in subscribed /\ ~done[s]

\* Fault: any completion ends the turn.
AnythingMine(s, notice) == TRUE

\* A completion counts only for the stream whose turn id it carries; every
\* other notification counts for whoever listens.
Mine(s, notice) == notice.kind = "completed" => notice.turn = s

\* feed_notification() of every listening stream.
Feed(notice) ==
  LET takes == {s \in Streams : Listens(s) /\ ~expired[s] /\ Mine(s, notice)}
  IN  /\ queue' = [s \in Streams |-> IF s \in takes /\ notice.kind # "malformed"
                                       THEN Append(queue[s], notice) ELSE queue[s]]
      /\ done' = [s \in Streams |->
                    done[s] \/ (s \in takes /\ notice.kind \in {"completed", "malformed"})]
      /\ result' = [s \in Streams |-> result[s] \/ (s \in takes /\ notice.kind = "completed")]
      /\ error' = [s \in Streams |-> error[s] \/ (s \in takes /\ notice.kind = "malformed")]
      /\ pc' = Woken(takes \cup {s \in Streams : Listens(s) /\ expired[s]})

\* The response to add_user_message() is seen by the start() that waits for it.
Accept(t) ==
  /\ pc' = [pc EXCEPT ![t] = IF @ = "starting" THEN "accepted" ELSE @]
  /\ UNCHANGED bufferVars

Deliver ==
  /\ link = "up"
  /\ pipe # <<>>
  /\ pipe' = Tail(pipe)
  /\ IF Head(pipe).kind = "accepted" THEN Accept(Head(pipe).turn) ELSE Feed(Head(pipe))
  /\ UNCHANGED <<outcome, seen, overtaken, started, release, expired, sessionVars, stdin,
                 processVars, link>>

\* Fault: the streams are not told.
LoseLinkSilently ==
  /\ "lose_link" \in Liberties
  /\ link = "up"
  /\ link' = "broken"
  /\ pipe' = <<>>
  /\ stdin' = <<>>
  /\ UNCHANGED <<consumerVars, release, bufferVars, expired, sessionVars, processVars>>

\* The reader dies: feed_error() of every listening stream.
LoseLink ==
  /\ "lose_link" \in Liberties
  /\ link = "up"
  /\ link' = "broken"
  /\ error' = [s \in Streams |-> error[s] \/ Listens(s)]
  /\ done' = [s \in Streams |-> done[s] \/ Listens(s)]
  /\ pc' = Woken({s \in Streams : Listens(s)})
  /\ pipe' = <<>>
  /\ stdin' = <<>>
  /\ UNCHANGED <<outcome, seen, overtaken, started, release, result, queue, expired, sessionVars,
                 processVars>>

\* The interaction handler of a turn fails: the dispatcher reports it to the
\* stream whose error sink is set, whichever that is by now.
HandlerFails(t) ==
  /\ asking[t] = "asked"
  /\ asking' = [asking EXCEPT ![t] = "failed"]
  /\ IF sink # NoStream /\ ~done[sink]
       THEN /\ queue' = [queue EXCEPT ![sink] =
                           Append(@, [turn |-> t, kind |-> "failure", n |-> 0])]
            /\ pc' = Woken({sink})
       ELSE UNCHANGED <<queue, pc>>
  /\ UNCHANGED <<outcome, seen, overtaken, started, release, done, result, error, expired,
                 sessionVars, stdin, turn, emitted, pipe, link>>

-----------------------------------------------------------------------------
(* Session.close() by another task, as far as it concerns streams *)

\* _close_impl() closes the active stream and waits for its finish().
CloseBegins ==
  /\ "close_session" \in Liberties
  /\ session = "open"
  /\ session' = "closing"
  /\ IF active # NoStream /\ release[active] = "held"
       THEN release' = [release EXCEPT ![active] = IF done[active] THEN "plain" ELSE "interrupt"]
       ELSE UNCHANGED release
  /\ UNCHANGED <<consumerVars, bufferVars, expired, active, sink, subscribed, interrupts,
                 stdin, processVars, pipe, link>>

CloseUnsubscribes ==
  /\ session = "closing"
  /\ \A s \in Streams : release[s] \notin {"interrupt", "plain"}
  /\ session' = "detached"
  /\ subscribed' = {}
  /\ UNCHANGED <<consumerVars, release, bufferVars, expired, active, sink, interrupts,
                 stdin, processVars, pipe, link>>

\* close_session(), client.close(): the listeners go with the client.
CloseEnds ==
  /\ session = "detached"
  /\ session' = "closed"
  /\ active' = NoStream
  /\ subscribed' = {}
  /\ interrupts' = {}
  /\ link' = "closed"
  /\ pipe' = <<>>
  /\ stdin' = <<>>
  /\ UNCHANGED <<consumerVars, release, bufferVars, expired, sink, processVars>>

-----------------------------------------------------------------------------
(* The droid process *)

\* Once the link is gone nobody sees what the process does.
Running == {t \in Streams : turn[t] = "running" /\ link = "up"}

Sends(t, kind, n) == pipe' = Append(pipe, [turn |-> t, kind |-> kind, n |-> n])

TakeMessage(t) ==
  /\ link = "up"
  /\ stdin # <<>>
  /\ Head(stdin) = <<"message", t>>
  /\ Running = {}
  /\ stdin' = Tail(stdin)
  /\ turn' = [turn EXCEPT ![t] = "running"]
  /\ Sends(t, "accepted", 0)
  /\ UNCHANGED <<consumerVars, release, bufferVars, expired, sessionVars, emitted, asking, link>>

\* An interrupt ends the turn that runs, or nothing.
TakeInterrupt ==
  /\ link = "up"
  /\ stdin # <<>>
  /\ Head(stdin)[1] = "interrupt"
  /\ stdin' = Tail(stdin)
  /\ IF Running = {}
       THEN UNCHANGED <<turn, pipe>>
       ELSE \E t \in Running : /\ turn' = [turn EXCEPT ![t] = "interrupted"]
                               /\ Sends(t, "completed", 0)
  /\ UNCHANGED <<consumerVars, release, bufferVars, expired, sessionVars, emitted, asking, link>>

EmitEvent(t) ==
  /\ t \in Running
  /\ emitted[t] < MaxEvents[t]
  /\ emitted' = [emitted EXCEPT ![t] = @ + 1]
  /\ Sends(t, "event", emitted[t] + 1)
  /\ UNCHANGED <<consumerVars, release, bufferVars, expired, sessionVars, stdin, turn, asking, link>>

AskUser(t) ==
  /\ "fail_handlers" \in Liberties
  /\ t \in Running
  /\ asking[t] = "unasked"
  /\ asking' = [asking EXCEPT ![t] = "asked"]
  /\ UNCHANGED <<consumerVars, release, bufferVars, expired, sessionVars, stdin, turn,
                 emitted, pipe, link>>

EmitMalformed(t) ==
  /\ "send_malformed" \in Liberties
  /\ t \in Running
  /\ emitted[t] < MaxEvents[t]
  /\ emitted' = [emitted EXCEPT ![t] = @ + 1]
  /\ Sends(t, "malformed", emitted[t] + 1)
  /\ UNCHANGED <<consumerVars, release, bufferVars, expired, sessionVars, stdin, turn, asking, link>>

CompleteTurn(t) ==
  /\ t \in Running
  /\ turn' = [turn EXCEPT ![t] = "completed"]
  /\ Sends(t, "completed", 0)
  /\ UNCHANGED <<consumerVars, release, bufferVars, expired, sessionVars, stdin, emitted, asking, link>>

-----------------------------------------------------------------------------
ConsumerNext(s) ==
  \/ MakeStream(s) \/ Start(s) \/ StartTooLate(s) \/ StartReturns(s)
  \/ StartFails(s) \/ StartTimesOut(s)
  \/ Poll(s) \/ Cancel(s) \/ Leave(s) \/ LeaveRelease(s) \/ CancelAgain(s) \/ DeadlinePasses(s)
  \/ Finish(s) \/ WriteInterrupt(s) \/ HandlerFails(s)

ProcessNext ==
  \/ TakeInterrupt
  \/ \E t \in Streams : \/ TakeMessage(t) \/ EmitEvent(t) \/ AskUser(t)
                        \/ EmitMalformed(t) \/ CompleteTurn(t)

Next ==
  \/ \E s \in Streams : ConsumerNext(s)
  \/ Deliver \/ LoseLink
  \/ CloseBegins \/ CloseUnsubscribes \/ CloseEnds
  \/ ProcessNext

Spec == Init /\ [][Next]_vars

\* What the event loop runs by itself once it is ready.
LoopFairness ==
  /\ WF_vars(Deliver)
  /\ \A s \in Streams : /\ WF_vars(pc[s] \in {"waiting", "woken"} /\ Poll(s))
                        /\ WF_vars(StartTimesOut(s))
                        /\ WF_vars(Finish(s))
                        /\ WF_vars(WriteInterrupt(s))
                        /\ WF_vars(StartReturns(s))
                        /\ WF_vars(LeaveRelease(s))

ClockFairness == \A s \in Streams : WF_vars(DeadlinePasses(s))

\* A process that reads its stdin and ends its turns.
ProcessFairness ==
  /\ WF_vars(TakeInterrupt)
  /\ \A t \in Streams : WF_vars(TakeMessage(t)) /\ WF_vars(CompleteTurn(t))

\* A call on a broken engine fails: BrokenCallsReturn of ProtocolEngine.
EngineFairness == \A s \in Streams : WF_vars(link # "up" /\ StartFails(s))

LoopSpec == Spec /\ LoopFairness

-----------------------------------------------------------------------------
\* README.md:54.  While the session is open only the active stream listens and
\* receives interaction errors, so no turn's events reach a stream that gave
\* the session back, and no second stream is fed beside the active one.
OneAttached ==
  session = "open" => subscribed \subseteq {active} /\ sink \in {active, NoStream}

\* README.md:55-57.  A consumer that timed out, was cancelled or broke off does
\* not leave its turn running: an interrupt of it is on its way.  A stream that
\* failed is not covered: its turn may go on unattended.
TurnAttended ==
  \A s \in Streams :
    /\ session = "open" /\ turn[s] \in {"none", "running"} /\ link = "up"
    /\ started[s] /\ pc[s] = "over" /\ outcome[s] # "failed" /\ ~error[s]
    => \/ release[s] = "interrupt" \/ s \in interrupts
       \/ \E i \in DOMAIN stdin : stdin[i] = <<"interrupt", s>>
       \/ turn[s] = "none" /\ \A i \in DOMAIN stdin : stdin[i] # <<"message", s>>

\* A stream has a result only if the process has ended that stream's own turn,
\* whatever completions of earlier turns are still on their way; and a loop that
\* ends without an exception has one, which run() relies on, even if another task
\* closed the stream or the session meanwhile.
ResultIsOwn ==
  \A s \in Streams :
    /\ result[s] => turn[s] \in {"completed", "interrupted"}
    /\ outcome[s] = "stopped" => result[s]

Given(s) == seen[s] \o queue[s]

\* Where the events of the turn of s are among those of q, whether the k-th of
\* them is there, and whether they come in order and without a gap.
OwnEvents(s, q) == {i \in DOMAIN q : q[i].turn = s /\ q[i].kind = "event"}
Has(s, q, k)    == \E i \in OwnEvents(s, q) : q[i].n = k
InOrder(s, q) ==
  /\ \A i, j \in OwnEvents(s, q) : i < j => q[i].n < q[j].n
  /\ \A i \in OwnEvents(s, q) : \A k \in 1..(q[i].n - 1) : Has(s, q, k)

\* The consumer sees the events of its turn in the order they were sent and
\* without a gap, and all of them before the loop stops.
NothingMissed ==
  \A s \in Streams :
    /\ \A i \in OwnEvents(s, Given(s)) : Given(s)[i].n \in 1..emitted[s]
    /\ InOrder(s, Given(s))
    /\ outcome[s] = "stopped" => \A k \in 1..emitted[s] : Has(s, Given(s), k)

\* Which turn an interrupt ends: that of t is its own, is no longer held by its
\* consumer, or its message has overtaken the interrupt.
Meets(t) ==
  \/ Head(stdin) = <<"interrupt", t>>
  \/ release[t] # "held"
  \/ Head(stdin)[2] \in overtaken[t]

\* interrupt_session() names no turn.  It ends the turn of another stream only if
\* the message of that was written between the finish() that asked for the
\* interrupt and the task that writes it: never because two streams share a
\* session, and not in a program whose consumers wait for their own release.
InterruptsOwnTurn ==
  [][\A t \in Streams : turn[t] = "running" /\ turn'[t] = "interrupted" => Meets(t)]_vars

\* README.md:55.  A turn that is held is ended by no interrupt but its own.  Not so
\* for one that overtook the interrupt of another stream: see README, section 5.
HeldTurnsGoOn ==
  [][\A t \in Streams : turn[t] = "running" /\ turn'[t] = "interrupted"
       => Head(stdin) = <<"interrupt", t>> \/ release[t] # "held"]_vars

\* README.md:67.  A result the consumer was given stays the stream's result.
\* Not so after a late deadline: see README, section 5.
ResultStays ==
  [][\A s \in Streams :
       result[s] /\ (\E i \in DOMAIN seen[s] : seen[s][i].kind = "completed") => result'[s]]_vars

\* streaming.py:317.  A stream collects the events of one turn, its own.
\* Not so after an interrupted turn: see README, section 5.
EventsAreOwn ==
  \A s \in Streams : \A i \in DOMAIN queue[s] : queue[s][i].turn = s

\* A released stream gives the session back, whoever released it.
SessionFreed == \A s \in Streams : release[s] # "held" ~> active # s

\* A stream with a timeout never holds its consumer for good, whatever the
\* process does and even if another task has closed the session meanwhile.
TimedStreamsEnd ==
  ClockFairness => \A s \in Timed : pc[s] \in {"starting", "waiting"} ~> pc[s] \in {"ready", "over"}

\* Without a timeout a consumer that waits is woken by an event, by the end of
\* its turn or by the end of the process, unless another task closes the
\* session or the stream: that detaches the stream and leaves the consumer.
WaitsEnd ==
  EngineFairness /\ ProcessFairness =>
    \A s \in Streams : pc[s] = "waiting" ~> pc[s] # "waiting" \/ release[s] # "held"
=============================================================================
