----------------------------- MODULE DroidClient -----------------------------
(***************************************************************************)
(* droid_sdk.client: connect(), close(), the RPC methods and               *)
(* receive_response() of one DroidClient, called by any number of tasks.   *)
(* Of the engine and the transport below it, it keeps what ProtocolEngine  *)
(* and ProcessTransport promise: a closed or broken engine fails its calls, *)
(* a close() of the transport ends the process it holds.  An RPC method is *)
(* known by the method it requests and by what it does before and after;   *)
(* parameters and results are left out, except for the session that a      *)
(* result names.                                                           *)
(***************************************************************************)
EXTENDS Naturals, Sequences, FiniteSets, TLC

CONSTANTS Tasks,      \* tasks that use the client
          Ops,        \* RPC methods they call
          MaxCalls    \* bound on all the calls made

-----------------------------------------------------------------------------
(* The RPC methods *)

\* What a method does around its request and the wait for the answer: it looks for the
\* session first, checks its arguments before it sends, validates the result of the answer.
Openings == [initialize_session |-> {"arguments", "result"},
             load_session       |-> {"arguments", "result"}]
Listings == [list_models |-> {"arguments", "result"},
             list_tools  |-> {"arguments", "result"}]
Turns    == [add_user_message    |-> {"session", "arguments"},
             interrupt_session   |-> {"session"},
             kill_worker_session |-> {"session"}]
Settings == [update_session_settings |-> {"session", "arguments"},
             toggle_mcp_server       |-> {"session", "result"}]
McpAuth  == [m \in {"authenticate_mcp_server", "cancel_mcp_auth", "clear_mcp_auth"} |->
               {"session", "result"}]
McpCodes == [m \in {"submit_mcp_auth_code", "submit_mcp_auth_error"} |-> {"session", "result"}]
McpServers == [add_mcp_server    |-> {"session", "arguments", "result"},
               remove_mcp_server |-> {"session", "result"},
               list_mcp_registry |-> {"session", "result"},
               list_mcp_tools    |-> {"session", "result"}]
McpTools == [m \in {"list_mcp_servers", "toggle_mcp_tool"} |-> {"session", "result"}]
Skills   == [list_skills        |-> {"session", "result"},
             set_skill_disabled |-> {"session", "arguments", "result"},
             submit_bug_report  |-> {"session", "result"}]
Commands == [list_commands |-> {"session", "result"}]
Closings == [close_session |-> {"session", "arguments", "result"}]
Forks    == [m \in {"compact_session", "fork_session", "rename_session"} |->
               {"session", "arguments", "result"}]
Rewinds  == [get_context_stats     |-> {"session", "result"},
             get_context_breakdown |-> {"session", "result"},
             get_rewind_info       |-> {"session", "arguments", "result"},
             execute_rewind        |-> {"session", "arguments", "result"}]

Methods == Openings @@ Listings @@ Turns @@ Settings @@ McpAuth @@ McpCodes @@ McpServers
           @@ McpTools @@ Skills @@ Commands @@ Closings @@ Forks @@ Rewinds

\* Those that change the session of the client.
OpeningOps == DOMAIN Openings
ClosingOps == DOMAIN Closings

ASSUME ClientAssumption == Ops \subseteq DOMAIN Methods /\ MaxCalls \in Nat

Numbers == 1..MaxCalls   \* of processes, engines, requests and sessions alike
None == 0

VARIABLES
  closed,     \* self._closed
  sessionId,  \* self._session_id
  engine,     \* self._protocol
  listeners,  \* receive_response() subscriptions in _notification_listeners
  process,    \* the process of the transport
  connected,  \* transport.is_connected
  engines,    \* state of each engine
  reader,     \* the engine that reads the stdout of the process
  running,    \* processes that run
  stdin,      \* requests the process has not taken
  pipe,       \* messages it has written and nobody has read
  loaded,     \* the session the process has
  working,    \* it works on a turn
  pc,         \* what each task is doing
  call,       \* the request it waits for
  on,         \* the engine, or the process, its await depends on
  wasBusy,    \* was_not_idle of its receive_response()
  complete,   \* its queue holds the end of the turn
  calls,      \* calls made so far
  owed,       \* tasks whose last call sent a message (history)
  lapse       \* what happened that the client does not undo (history)

clientVars  == <<closed, sessionId, engine, listeners>>
linkVars    == <<process, connected, engines, reader, running>>
droidVars   == <<stdin, pipe, loaded, working>>
taskVars    == <<pc, call, on, calls>>
receiveVars == <<wasBusy, complete>>
vars == <<clientVars, linkVars, droidVars, taskVars, receiveVars, owed, lapse>>

Request == [id : Numbers, op : Ops]
NoCall  == [id |-> None, op |-> "none"]
Message == [kind : {"answer"}, id : Numbers] \cup [kind : {"busy", "idle"}]
Lapses  == {"connects", "close cut", "closed meanwhile", "gave up", "reconnected", "died"}

FlagsOK   == closed \in BOOLEAN /\ connected \in BOOLEAN /\ working \in BOOLEAN
ReceiveOK == wasBusy \in [Tasks -> BOOLEAN] /\ complete \in [Tasks -> BOOLEAN]

TypeOK ==
  /\ FlagsOK /\ ReceiveOK
  /\ sessionId \in Numbers \cup {None} /\ loaded \in Numbers \cup {None}
  /\ engine \in Numbers \cup {None} /\ reader \in Numbers \cup {None}
  /\ process \in Numbers \cup {None}
  /\ listeners \subseteq Tasks /\ running \subseteq Numbers
  /\ engines \in [Numbers -> {"none", "running", "closed", "broken"}]
  /\ stdin \in Seq(Request) /\ pipe \in Seq(Message)
  /\ pc \in [Tasks -> {"idle", "connect", "call", "answered", "receive", "close engine",
                       "close transport"}]
  /\ call \in [Tasks -> Request \cup {NoCall}]
  /\ on \in [Tasks -> Numbers \cup {None}]
  /\ calls \in 0..MaxCalls
  /\ owed \subseteq Tasks /\ lapse \subseteq Lapses

Init ==
  /\ closed = FALSE /\ connected = FALSE /\ working = FALSE
  /\ sessionId = None /\ engine = None /\ process = None /\ reader = None /\ loaded = None
  /\ listeners = {} /\ running = {}
  /\ engines = [n \in Numbers |-> "none"]
  /\ stdin = <<>> /\ pipe = <<>>
  /\ pc = [t \in Tasks |-> "idle"]
  /\ call = [t \in Tasks |-> NoCall]
  /\ on = [t \in Tasks |-> None]
  /\ wasBusy = [t \in Tasks |-> FALSE] /\ complete = [t \in Tasks |-> FALSE]
  /\ calls = 0 /\ owed = {} /\ lapse = {}

-----------------------------------------------------------------------------
\* A call by a task; its number names the process, engine or request it makes.
Called(t) ==
  /\ pc[t] = "idle"
  /\ calls < MaxCalls
  /\ calls' = calls + 1
  /\ owed' = owed \ {t}

Goes(t, to, n) ==
  /\ pc' = [pc EXCEPT ![t] = to]
  /\ on' = [on EXCEPT ![t] = n]

Closing   == {"close engine", "close transport"}
At(where) == \E t \in Tasks : pc[t] \in where

\* _reject_all_pending(): the calls on engine e raise.
Rejected(f, e) == [t \in Tasks |-> IF f[t] = "call" /\ on[t] = e THEN "idle" ELSE f[t]]

-----------------------------------------------------------------------------
(* connect() *)

\* A new engine on a stdout that another engine reads fails at its first read.
NewEngine(n) ==
  /\ engine' = n
  /\ engines' = [engines EXCEPT ![n] = IF reader' = n THEN "running" ELSE "broken"]

ConnectAgain(t) ==
  /\ Called(t)
  /\ connected
  /\ closed' = FALSE
  /\ reader' = IF reader = None THEN calls' ELSE reader
  /\ NewEngine(calls')
  /\ lapse' = IF reader # None \/ At(Closing) THEN lapse \cup {"connects"} ELSE lapse
  /\ UNCHANGED <<sessionId, listeners, process, connected, running, droidVars, pc, call, on,
                 receiveVars>>

ConnectBegins(t) ==
  /\ Called(t)
  /\ ~connected
  /\ closed' = FALSE
  /\ Goes(t, "connect", calls')
  /\ lapse' = IF At({"connect"} \cup Closing) THEN lapse \cup {"connects"} ELSE lapse
  /\ UNCHANGED <<sessionId, engine, listeners, linkVars, droidVars, call, receiveVars>>

\* The process is spawned, the engine is made and its reader started.  Spawning takes
\* the loop many turns: the callers that were answered have been resumed.
ConnectEnds(t) ==
  /\ pc[t] = "connect" /\ ~At({"answered"})
  /\ process' = on[t]
  /\ connected' = TRUE
  /\ running' = running \cup {on[t]}
  /\ stdin' = <<>> /\ pipe' = <<>> /\ loaded' = None /\ working' = FALSE
  /\ reader' = on[t]
  /\ NewEngine(on[t])
  /\ lapse' = lapse \cup (IF closed THEN {"closed meanwhile"} ELSE {})
                    \cup (IF sessionId # None THEN {"reconnected"} ELSE {})
  /\ Goes(t, "idle", None)
  /\ UNCHANGED <<closed, sessionId, listeners, call, calls, receiveVars, owed>>

\* The spawn fails or connect() is cancelled.
ConnectFails(t) ==
  /\ pc[t] = "connect"
  /\ Goes(t, "idle", None)
  /\ UNCHANGED <<clientVars, linkVars, droidVars, call, calls, receiveVars, owed, lapse>>

-----------------------------------------------------------------------------
(* close() *)

\* transport.close(): nothing to wait for without a process.
ClosesTransport(t, f) ==
  /\ connected' = FALSE
  /\ process' = None
  /\ pc' = [f EXCEPT ![t] = IF process \in running THEN "close transport" ELSE "idle"]
  /\ on' = [on EXCEPT ![t] = IF process \in running THEN process ELSE None]

\* protocol.close() rejects its calls and stops the reader before it first waits.
CloseBegins(t) ==
  /\ Called(t)
  /\ ~closed
  /\ closed' = TRUE
  /\ listeners' = {}
  /\ IF engine = None
       THEN ClosesTransport(t, pc) /\ UNCHANGED <<engines, reader>>
       ELSE /\ engines' = [engines EXCEPT ![engine] = "closed"]
            /\ reader' = IF reader = engine THEN None ELSE reader
            /\ pc' = [Rejected(pc, engine) EXCEPT ![t] = "close engine"]
            /\ on' = [on EXCEPT ![t] = engine]
            /\ UNCHANGED <<process, connected>>
  /\ UNCHANGED <<sessionId, engine, running, droidVars, call, receiveVars, lapse>>

\* Fault: the transport is left to the garbage collector.
FaultCloseEngineEnds(t) ==
  /\ pc[t] = "close engine"
  /\ Goes(t, "idle", None)
  /\ connected' = FALSE
  /\ UNCHANGED <<clientVars, process, engines, reader, running, droidVars, call, calls,
                 receiveVars, owed, lapse>>

CloseEngineEnds(t) ==
  /\ pc[t] = "close engine"
  /\ ClosesTransport(t, pc)
  /\ UNCHANGED <<clientVars, engines, reader, running, droidVars, call, calls, receiveVars,
                 owed, lapse>>

\* Cancelled while the engine waits for its handlers.
CancelClose(t) ==
  /\ pc[t] = "close engine"
  /\ Goes(t, "idle", None)
  /\ lapse' = lapse \cup {"close cut"}
  /\ UNCHANGED <<clientVars, linkVars, droidVars, call, calls, receiveVars, owed>>

\* transport.close() ends its process, cancelled or not (NoOrphan).
CloseTransportEnds(t) ==
  /\ pc[t] = "close transport"
  /\ running' = running \ {on[t]}
  /\ reader' = IF process = None THEN None ELSE reader
  /\ Goes(t, "idle", None)
  /\ UNCHANGED <<clientVars, process, connected, engines, droidVars, call, calls,
                 receiveVars, owed, lapse>>

-----------------------------------------------------------------------------
(* The RPC methods *)

\* _ensure_not_closed(), _ensure_session(), _ensure_protocol().
MayCall(op) ==
  /\ ~closed
  /\ "session" \in Methods[op] => sessionId # None
  /\ engine # None

Calls(t, op) ==
  /\ Called(t)
  /\ MayCall(op) /\ engines[engine] = "running" /\ connected
  /\ stdin' = Append(stdin, [id |-> calls', op |-> op])
  /\ call' = [call EXCEPT ![t] = [id |-> calls', op |-> op]]
  /\ Goes(t, "call", engine)
  /\ UNCHANGED <<clientVars, linkVars, pipe, loaded, working, receiveVars, lapse>>

\* The arguments are refused before anything is sent.
CallRefused(t, op) ==
  /\ Called(t)
  /\ MayCall(op) /\ "arguments" \in Methods[op]
  /\ UNCHANGED <<clientVars, linkVars, droidVars, pc, call, on, receiveVars, lapse>>

\* Fault: close_session() leaves the session id.
FaultSetsSession(op, id) ==
  sessionId' = IF op \in OpeningOps THEN id ELSE sessionId

\* _session_id is set once the caller is resumed and the result is valid.
SetsSession(op, id) ==
  sessionId' = CASE op \in OpeningOps -> id
                 [] op \in ClosingOps -> None
                 [] OTHER -> sessionId

\* Callers are resumed in the order in which they were answered.
Resumed(t) ==
  /\ pc[t] = "answered"
  /\ \A u \in Tasks : pc[u] = "answered" => call[u].id >= call[t].id

CallReturns(t) ==
  /\ Resumed(t)
  /\ SetsSession(call[t].op, call[t].id)
  /\ owed' = IF call[t].op = "add_user_message" THEN owed \cup {t} ELSE owed
  /\ call' = [call EXCEPT ![t] = NoCall]
  /\ Goes(t, "idle", None)
  /\ UNCHANGED <<closed, engine, listeners, linkVars, droidVars, calls, receiveVars, lapse>>

\* The call raises; the process may do what it was asked, or has.
Raises(t) ==
  /\ lapse' = IF call[t].op \in OpeningOps \cup ClosingOps THEN lapse \cup {"gave up"} ELSE lapse
  /\ call' = [call EXCEPT ![t] = NoCall]
  /\ Goes(t, "idle", None)
  /\ UNCHANGED <<clientVars, linkVars, droidVars, calls, receiveVars, owed>>

\* The timer, a cancellation or an error response.
CallFails(t) == pc[t] = "call" /\ Raises(t)

\* The result is not valid: _session_id stays, although the process has done as asked.
ResultRefused(t) == Resumed(t) /\ "result" \in Methods[call[t].op] /\ Raises(t)

-----------------------------------------------------------------------------
(* receive_response() *)

\* The subscription is made when the iterator is first asked for a message.
ReceiveBegins(t) ==
  /\ pc[t] = "idle" /\ calls < MaxCalls
  /\ calls' = calls + 1
  /\ ~closed
  /\ listeners' = listeners \cup {t}
  /\ wasBusy' = [wasBusy EXCEPT ![t] = FALSE]
  /\ complete' = [complete EXCEPT ![t] = FALSE]
  /\ Goes(t, "receive", None)
  /\ UNCHANGED <<closed, sessionId, engine, linkVars, droidVars, call, owed, lapse>>

\* The iterator ends with the sentinel, or the consumer leaves it.
ReceiveStops(t) ==
  /\ pc[t] = "receive"
  /\ listeners' = listeners \ {t}
  /\ owed' = owed \ {t}
  /\ Goes(t, "idle", None)
  /\ UNCHANGED <<closed, sessionId, engine, linkVars, droidVars, call, calls, receiveVars, lapse>>

ReceiveEnds(t) == complete[t] /\ ReceiveStops(t)

\* Fault: an Idle read together with the state before it is taken for the initial one.
FaultForgets(n) ==
  /\ wasBusy' = [t \in Tasks |->
       wasBusy[t] \/ (t \in listeners /\ \E i \in 1..n : pipe[i].kind = "busy")]
  /\ complete' = [t \in Tasks |->
       complete[t] \/ (t \in listeners /\ wasBusy[t] /\ \E i \in 1..n : pipe[i].kind = "idle")]

\* _on_notification() for the first n messages: an Idle ends the turn if one that is
\* not Idle has come before it since the subscription.
Notified(n) ==
  /\ wasBusy' = [t \in Tasks |->
       wasBusy[t] \/ (t \in listeners /\ \E i \in 1..n : pipe[i].kind = "busy")]
  /\ complete' = [t \in Tasks |->
       \/ complete[t]
       \/ /\ t \in listeners
          /\ \E i \in 1..n : /\ pipe[i].kind = "idle"
                            /\ (wasBusy[t] \/ \E j \in 1..(i - 1) : pipe[j].kind = "busy")]

\* The reader handles every line that has arrived without a turn of the loop
\* between them, so none of the tasks it wakes runs before the last of them.
ReadChunk ==
  \E n \in 1..Len(pipe) :
    /\ reader # None /\ engines[reader] = "running"
    /\ pc' = [t \in Tasks |->
                IF pc[t] = "call" /\ on[t] = reader
                   /\ \E i \in 1..n : pipe[i].kind = "answer" /\ pipe[i].id = call[t].id
                THEN "answered" ELSE pc[t]]
    /\ Notified(n)
    /\ pipe' = SubSeq(pipe, n + 1, Len(pipe))
    /\ UNCHANGED <<clientVars, linkVars, stdin, loaded, working, call, on, calls, owed, lapse>>

-----------------------------------------------------------------------------
(* The process *)

\* It takes a request, answers it and, for a message, works on a turn.
Take ==
  /\ stdin # <<>> /\ process \in running
  /\ LET r == Head(stdin) IN
       /\ loaded' = CASE r.op \in OpeningOps -> r.id [] r.op \in ClosingOps -> None [] OTHER -> loaded
       /\ pipe' = pipe \o <<[kind |-> "answer", id |-> r.id]>>
                       \o (IF r.op = "add_user_message" THEN <<[kind |-> "busy"]>> ELSE <<>>)
       /\ working' = (working \/ r.op = "add_user_message")
  /\ stdin' = Tail(stdin)
  /\ UNCHANGED <<clientVars, linkVars, taskVars, receiveVars, owed, lapse>>

TurnEnds ==
  /\ working /\ process \in running
  /\ working' = FALSE
  /\ pipe' = Append(pipe, [kind |-> "idle"])
  /\ UNCHANGED <<clientVars, linkVars, stdin, loaded, taskVars, receiveVars, owed, lapse>>

\* The process ends by itself; its reader reports it and the engine breaks.
Dies ==
  /\ process \in running
  /\ running' = running \ {process}
  /\ connected' = (connected /\ reader = None)
  /\ engines' = IF reader = None THEN engines ELSE [engines EXCEPT ![reader] = "broken"]
  /\ reader' = None
  /\ pc' = Rejected(pc, reader)
  /\ lapse' = lapse \cup {"died"}
  /\ UNCHANGED <<clientVars, process, droidVars, call, on, calls, receiveVars, owed>>

-----------------------------------------------------------------------------
ConnectStep(t) == ConnectEnds(t) \/ ConnectFails(t)
CloseStep(t)   == CloseEngineEnds(t) \/ CloseTransportEnds(t)

Next ==
  \/ \E t \in Tasks :
       \/ ConnectAgain(t) \/ ConnectBegins(t) \/ ConnectStep(t)
       \/ CloseBegins(t) \/ CloseStep(t) \/ CancelClose(t)
       \/ \E op \in Ops : Calls(t, op) \/ CallRefused(t, op)
       \/ CallReturns(t) \/ CallFails(t) \/ ResultRefused(t)
       \/ ReceiveBegins(t) \/ ReceiveStops(t)
  \/ ReadChunk \/ Take \/ TurnEnds \/ Dies

Spec == Init /\ [][Next]_vars

\* The loop resumes a task whose await is done and runs the reader.  A spawn ends,
\* and the awaits of close() have limits.
LoopFairness ==
  /\ \A t \in Tasks :
       WF_vars(ConnectStep(t) \/ CloseStep(t) \/ CallReturns(t) \/ ResultRefused(t)
               \/ ReceiveEnds(t))
  /\ WF_vars(ReadChunk)

LoopSpec == Spec /\ LoopFairness

\* The process takes its requests and ends its turns.
ProcessFairness == WF_vars(Take) /\ WF_vars(TurnEnds)

-----------------------------------------------------------------------------
\* After a close() no process runs, whatever was under way when it was called.
\* Not so if connect() overlaps another connect() or the close() itself, or if
\* close() is cancelled while it waits for the engine (client.py:287): the next
\* one returns at once.
ClosedLeavesNothing ==
  closed /\ ~At({"connect"} \cup Closing)
    /\ lapse \cap {"connects", "close cut", "closed meanwhile"} = {}
  => running = {}

\* The session the client names is the one its process has, once no call that
\* changes it is on its way: however such calls of several tasks overlap.  Not so
\* when one was given up or its result refused, or after close() and connect(), which keep
\* the id.
SessionIsLoaded ==
  \/ closed \/ lapse # {} \/ ~connected
  \/ \E t \in Tasks : pc[t] \in {"call", "answered"} /\ call[t].op \in OpeningOps \cup ClosingOps
  \/ sessionId = loaded

\* A receive_response() that has seen the turn begin ends with it, whichever tasks
\* the client is shared by, unless the client is closed or the process ends.
TurnIsReceived ==
  ProcessFairness =>
    \A t \in Tasks : pc[t] = "receive" /\ wasBusy[t] ~>
      pc[t] # "receive" \/ closed \/ lapse # {}

\* client.py:1757: "The final yielded message is always TurnComplete": what is
\* iterated after the answer to add_user_message() ends.
ResponseEnds ==
  ProcessFairness =>
    \A t \in Tasks : pc[t] = "receive" /\ t \in owed ~>
      pc[t] # "receive" \/ closed \/ lapse # {}
=============================================================================
