-------------------------- MODULE DroidClientProofs --------------------------
(***************************************************************************)
(* Theorems about DroidClient for every set of tasks, every choice of RPC  *)
(* methods and any number of calls.                                        *)
(***************************************************************************)
EXTENDS DroidClient, TLAPS

Points == {"idle", "connect", "call", "answered", "receive", "close engine", "close transport"}

\* A connect() has a number for the process and the engine it will make.
ConnectsNumbered == \A t \in Tasks : pc[t] = "connect" => on[t] \in Numbers

TypeInv == TypeOK /\ ConnectsNumbered

-----------------------------------------------------------------------------
(* Types *)

\* The flags of the client, of its transport and of the process are only set to
\* TRUE or FALSE.
LEMMA FlagsKeepTypes == FlagsOK /\ [Next]_vars => FlagsOK'
<1> SUFFICES ASSUME FlagsOK, [Next]_vars PROVE FlagsOK'
  OBVIOUS
<1> USE DEF FlagsOK, clientVars, linkVars, droidVars
<1>1. ASSUME NEW t \in Tasks, ConnectAgain(t) \/ ConnectBegins(t) \/ ConnectStep(t)
      PROVE  FlagsOK'
  BY <1>1 DEF ConnectAgain, ConnectBegins, ConnectStep, ConnectEnds, ConnectFails
<1>2. ASSUME NEW t \in Tasks, CloseBegins(t) \/ CloseStep(t) \/ CancelClose(t)
      PROVE  FlagsOK'
  BY <1>2 DEF CloseBegins, CloseStep, CloseEngineEnds, CloseTransportEnds, CancelClose,
     ClosesTransport
<1>3. ASSUME NEW t \in Tasks, NEW op \in Ops, Calls(t, op) \/ CallRefused(t, op) PROVE FlagsOK'
  BY <1>3 DEF Calls, CallRefused
<1>4. ASSUME NEW t \in Tasks, CallReturns(t) \/ CallFails(t) \/ ResultRefused(t) PROVE FlagsOK'
  BY <1>4 DEF CallReturns, CallFails, ResultRefused, Raises
<1>5. ASSUME NEW t \in Tasks, ReceiveBegins(t) \/ ReceiveStops(t) PROVE FlagsOK'
  BY <1>5 DEF ReceiveBegins, ReceiveStops
<1>6. CASE ReadChunk  BY <1>6 DEF ReadChunk
<1>7. CASE Take       BY <1>7 DEF Take
<1>8. CASE TurnEnds   BY <1>8 DEF TurnEnds
<1>9. CASE Dies       BY <1>9 DEF Dies
<1>10. CASE UNCHANGED vars  BY <1>10 DEF vars
<1> QED BY <1>1, <1>2, <1>3, <1>4, <1>5, <1>6, <1>7, <1>8, <1>9, <1>10 DEF Next

\* So are the flags of each receive_response().
LEMMA ReceiveKeepsTypes == ReceiveOK /\ [Next]_vars => ReceiveOK'
<1> SUFFICES ASSUME ReceiveOK, [Next]_vars PROVE ReceiveOK'
  OBVIOUS
<1> USE DEF ReceiveOK
<1>1. CASE UNCHANGED receiveVars
  BY <1>1 DEF receiveVars
<1>2. ASSUME NEW t \in Tasks, ReceiveBegins(t) PROVE ReceiveOK'
  BY <1>2 DEF ReceiveBegins
<1>3. CASE ReadChunk
  BY <1>3 DEF ReadChunk, Notified
<1>4. [Next]_vars => \/ UNCHANGED receiveVars \/ ReadChunk \/ \E t \in Tasks : ReceiveBegins(t)
  BY DEF Next, ConnectAgain, ConnectBegins, ConnectStep, ConnectEnds, ConnectFails,
     CloseBegins, CloseStep, CloseEngineEnds, CloseTransportEnds, CancelClose, Calls, CallRefused,
     CallReturns, CallFails, ResultRefused, Raises, ReceiveStops, Take, TurnEnds, Dies, vars
<1> QED BY <1>1, <1>2, <1>3, <1>4

\* None is not the number of a call.
LEMMA NoneIsNoNumber == None \notin Numbers
BY ClientAssumption DEF Numbers, None

\* A call has a number of its own.
LEMMA CalledTypes ==
  ASSUME TypeOK, NEW t \in Tasks, Called(t)
  PROVE  /\ calls' = calls + 1 /\ calls' \in Numbers /\ calls' \in 0..MaxCalls
         /\ owed' \subseteq Tasks
<1>1. calls \in 0..MaxCalls /\ owed \subseteq Tasks
  BY DEF TypeOK
<1>2. calls < MaxCalls /\ calls' = calls + 1 /\ owed' = owed \ {t}
  BY DEF Called
<1> QED BY <1>1, <1>2, ClientAssumption DEF Numbers

\* A task that goes to an await keeps the types and leaves the others where they are.
LEMMA GoesTypes ==
  ASSUME TypeOK, NEW t \in Tasks, NEW to \in Points, NEW n \in Numbers \cup {None}, Goes(t, to, n)
  PROVE  /\ pc' \in [Tasks -> Points] /\ on' \in [Tasks -> Numbers \cup {None}]
         /\ pc'[t] = to /\ on'[t] = n
         /\ \A u \in Tasks \ {t} : pc'[u] = pc[u] /\ on'[u] = on[u]
BY DEF TypeOK, Goes, Points

\* transport.close() keeps the types and leaves the other tasks where they are.
LEMMA ClosesTypes ==
  ASSUME TypeOK, NEW t \in Tasks, ClosesTransport(t, pc)
  PROVE  /\ pc' \in [Tasks -> Points] /\ on' \in [Tasks -> Numbers \cup {None}]
         /\ process' = None /\ pc'[t] \in {"idle", "close transport"}
         /\ \A u \in Tasks \ {t} : pc'[u] = pc[u] /\ on'[u] = on[u]
BY DEF TypeOK, ClosesTransport, Points

\* So do the calls that an engine rejects.
LEMMA RejectedTypes ==
  ASSUME TypeOK, NEW e
  PROVE  /\ Rejected(pc, e) \in [Tasks -> Points]
         /\ \A u \in Tasks : Rejected(pc, e)[u] = "connect" => pc[u] = "connect"
BY DEF TypeOK, Rejected, Points

\* Every variable keeps its type.
LEMMA TypeStep == TypeInv /\ [Next]_vars => TypeInv'
<1> SUFFICES ASSUME TypeInv, [Next]_vars PROVE TypeInv'
  OBVIOUS
<1>a. FlagsOK' /\ ReceiveOK'
  BY FlagsKeepTypes, ReceiveKeepsTypes DEF TypeOK, TypeInv
<1>b. TypeOK
  BY DEF TypeInv
<1> USE <1>a, <1>b
<1>1. ASSUME NEW t \in Tasks, ConnectAgain(t) PROVE TypeInv'
  <2>1. calls' \in Numbers /\ calls' \in 0..MaxCalls /\ owed' \subseteq Tasks
    BY <1>1, CalledTypes DEF ConnectAgain
  <2>2. /\ UNCHANGED <<sessionId, listeners, process, running, stdin, pipe, loaded, pc, call, on>>
        /\ reader' \in Numbers \cup {None} /\ lapse' \subseteq Lapses
        /\ engine' = calls' /\ engines' \in [Numbers -> {"none", "running", "closed", "broken"}]
    BY <1>1, <2>1 DEF ConnectAgain, NewEngine, droidVars, TypeOK, Lapses
  <2> QED BY <2>1, <2>2 DEF TypeInv, TypeOK, ConnectsNumbered
<1>2. ASSUME NEW t \in Tasks, ConnectBegins(t) PROVE TypeInv'
  <2>1. calls' \in Numbers /\ calls' \in 0..MaxCalls /\ owed' \subseteq Tasks
    BY <1>2, CalledTypes DEF ConnectBegins
  <2>2. /\ pc' \in [Tasks -> Points] /\ on' \in [Tasks -> Numbers \cup {None}]
        /\ on'[t] = calls' /\ \A u \in Tasks \ {t} : pc'[u] = pc[u] /\ on'[u] = on[u]
    BY <1>2, <2>1, GoesTypes DEF ConnectBegins, Points
  <2>3. /\ UNCHANGED <<sessionId, engine, listeners, process, engines, reader, running, stdin,
                       pipe, loaded, call>>
        /\ lapse' \subseteq Lapses
    BY <1>2 DEF ConnectBegins, droidVars, linkVars, TypeOK, Lapses
  <2>4. ConnectsNumbered'
    BY <2>1, <2>2 DEF TypeInv, ConnectsNumbered
  <2> QED BY <2>1, <2>2, <2>3, <2>4 DEF TypeInv, TypeOK, Points
<1>3. ASSUME NEW t \in Tasks, ConnectEnds(t) PROVE TypeInv'
  <2>1. on[t] \in Numbers
    BY <1>3 DEF TypeInv, ConnectsNumbered, ConnectEnds
  <2>2. /\ pc' \in [Tasks -> Points] /\ on' \in [Tasks -> Numbers \cup {None}]
        /\ pc'[t] = "idle" /\ \A u \in Tasks \ {t} : pc'[u] = pc[u] /\ on'[u] = on[u]
    BY <1>3, GoesTypes DEF ConnectEnds, Points
  <2>3. /\ process' = on[t] /\ running' \subseteq Numbers /\ stdin' = <<>> /\ pipe' = <<>>
        /\ loaded' = None /\ reader' = on[t] /\ lapse' \subseteq Lapses
        /\ UNCHANGED <<sessionId, listeners, call, calls, owed>>
    BY <1>3, <2>1 DEF ConnectEnds, TypeOK, Lapses
  <2>4. engine' = on[t] /\ engines' \in [Numbers -> {"none", "running", "closed", "broken"}]
    BY <1>3, <2>1 DEF ConnectEnds, NewEngine, TypeOK
  <2>5. ConnectsNumbered'
    BY <2>2 DEF TypeInv, ConnectsNumbered
  <2>6. stdin' \in Seq(Request) /\ pipe' \in Seq(Message)
    BY <2>3
  <2> QED BY <2>1, <2>2, <2>3, <2>4, <2>5, <2>6 DEF TypeInv, TypeOK, Points
<1>4. ASSUME NEW t \in Tasks, ConnectFails(t) \/ CancelClose(t) \/ CloseTransportEnds(t)
      PROVE  TypeInv'
  <2>1. /\ pc' \in [Tasks -> Points] /\ on' \in [Tasks -> Numbers \cup {None}]
        /\ pc'[t] = "idle" /\ \A u \in Tasks \ {t} : pc'[u] = pc[u] /\ on'[u] = on[u]
    BY <1>4, GoesTypes DEF ConnectFails, CancelClose, CloseTransportEnds, Points
  <2>2. ConnectsNumbered'
    BY <2>1 DEF TypeInv, ConnectsNumbered
  <2>3. /\ UNCHANGED <<sessionId, engine, listeners, process, engines, stdin, pipe, loaded, call,
                       calls, owed>>
        /\ reader' \in Numbers \cup {None} /\ running' \subseteq Numbers
        /\ lapse' \subseteq Lapses
    BY <1>4 DEF ConnectFails, CancelClose, CloseTransportEnds, clientVars, linkVars, droidVars,
       TypeOK, Lapses
  <2> QED BY <2>1, <2>2, <2>3 DEF TypeInv, TypeOK, Points
<1>5. ASSUME NEW t \in Tasks, CloseBegins(t) PROVE TypeInv'
  <2>1. calls' \in Numbers /\ calls' \in 0..MaxCalls /\ owed' \subseteq Tasks
    BY <1>5, CalledTypes DEF CloseBegins
  <2>2. /\ UNCHANGED <<sessionId, engine, running, stdin, pipe, loaded, call, lapse>>
        /\ listeners' = {}
    BY <1>5 DEF CloseBegins, droidVars
  <2>3. CASE engine = None
    <3>1. ClosesTransport(t, pc) /\ UNCHANGED <<engines, reader>>
      BY <1>5, <2>3 DEF CloseBegins
    <3>2. ConnectsNumbered'
      BY <3>1, ClosesTypes DEF TypeInv, ConnectsNumbered
    <3> QED BY <2>1, <2>2, <3>1, <3>2, ClosesTypes DEF TypeInv, TypeOK, Points
  <2>4. CASE engine # None
    <3>1. /\ engines' = [engines EXCEPT ![engine] = "closed"]
          /\ reader' = IF reader = engine THEN None ELSE reader
          /\ pc' = [Rejected(pc, engine) EXCEPT ![t] = "close engine"]
          /\ on' = [on EXCEPT ![t] = engine]
          /\ UNCHANGED process
      BY <1>5, <2>4 DEF CloseBegins
    <3>2. /\ pc' \in [Tasks -> Points] /\ on' \in [Tasks -> Numbers \cup {None}]
          /\ pc'[t] = "close engine"
          /\ \A u \in Tasks \ {t} : on'[u] = on[u] /\ (pc'[u] = "connect" => pc[u] = "connect")
      BY <3>1, RejectedTypes DEF TypeOK, Points
    <3>3. ConnectsNumbered'
      BY <3>2 DEF TypeInv, ConnectsNumbered
    <3> QED BY <2>1, <2>2, <3>1, <3>2, <3>3 DEF TypeInv, TypeOK, Points
  <2> QED BY <2>3, <2>4
<1>6. ASSUME NEW t \in Tasks, CloseEngineEnds(t) PROVE TypeInv'
  <2>1. ClosesTransport(t, pc)
    BY <1>6 DEF CloseEngineEnds
  <2>2. ConnectsNumbered'
    BY <2>1, ClosesTypes DEF TypeInv, ConnectsNumbered
  <2>3. UNCHANGED <<sessionId, engine, listeners, engines, reader, running, stdin, pipe, loaded,
                    call, calls, owed, lapse>>
    BY <1>6 DEF CloseEngineEnds, clientVars, droidVars
  <2> QED BY <2>1, <2>2, <2>3, ClosesTypes DEF TypeInv, TypeOK, Points
<1>7. ASSUME NEW t \in Tasks, NEW op \in Ops, Calls(t, op) PROVE TypeInv'
  <2>1. calls' \in Numbers /\ calls' \in 0..MaxCalls /\ owed' \subseteq Tasks
    BY <1>7, CalledTypes DEF Calls
  <2>2. [id |-> calls', op |-> op] \in Request
    BY <2>1 DEF Request
  <2>3. /\ pc' \in [Tasks -> Points] /\ on' \in [Tasks -> Numbers \cup {None}]
        /\ pc'[t] = "call" /\ \A u \in Tasks \ {t} : pc'[u] = pc[u] /\ on'[u] = on[u]
    BY <1>7, GoesTypes DEF Calls, Points, TypeOK
  <2>4. ConnectsNumbered'
    BY <2>3 DEF TypeInv, ConnectsNumbered
  <2>5. stdin' \in Seq(Request) /\ call' \in [Tasks -> Request \cup {NoCall}]
    <3>1. stdin \in Seq(Request) /\ call \in [Tasks -> Request \cup {NoCall}]
      BY DEF TypeOK
    <3>2. /\ stdin' = Append(stdin, [id |-> calls', op |-> op])
          /\ call' = [call EXCEPT ![t] = [id |-> calls', op |-> op]]
      BY <1>7 DEF Calls
    <3> QED BY <2>2, <3>1, <3>2
  <2>6. UNCHANGED <<sessionId, engine, listeners, process, engines, reader, running, pipe, loaded,
                    lapse>>
    BY <1>7 DEF Calls, clientVars, linkVars
  <2> QED BY <2>1, <2>3, <2>4, <2>5, <2>6 DEF TypeInv, TypeOK, Points
<1>14. ASSUME NEW t \in Tasks, NEW op \in Ops, CallRefused(t, op) PROVE TypeInv'
  <2>1. calls' \in 0..MaxCalls /\ owed' \subseteq Tasks
    BY <1>14, CalledTypes DEF CallRefused
  <2>2. UNCHANGED <<sessionId, engine, listeners, process, engines, reader, running, stdin, pipe,
                    loaded, pc, call, on, lapse>>
    BY <1>14 DEF CallRefused, clientVars, linkVars, droidVars
  <2> QED BY <2>1, <2>2 DEF TypeInv, TypeOK, ConnectsNumbered
<1>8. ASSUME NEW t \in Tasks, CallReturns(t) \/ CallFails(t) \/ ResultRefused(t) PROVE TypeInv'
  <2>1. /\ pc' \in [Tasks -> Points] /\ on' \in [Tasks -> Numbers \cup {None}]
        /\ pc'[t] = "idle" /\ \A u \in Tasks \ {t} : pc'[u] = pc[u] /\ on'[u] = on[u]
    BY <1>8, GoesTypes DEF CallReturns, CallFails, ResultRefused, Raises, Points
  <2>2. ConnectsNumbered'
    BY <2>1 DEF TypeInv, ConnectsNumbered
  <2>3. call[t].id \in Numbers \cup {None}
    <3>1. call[t] \in Request \cup {NoCall}
      BY DEF TypeOK
    <3> QED BY <3>1 DEF Request, NoCall
  <2>4. sessionId' \in Numbers \cup {None} /\ owed' \subseteq Tasks /\ lapse' \subseteq Lapses
    BY <1>8, <2>3 DEF CallReturns, CallFails, ResultRefused, Raises, SetsSession, clientVars, TypeOK, Lapses
  <2>5. /\ call' \in [Tasks -> Request \cup {NoCall}]
        /\ UNCHANGED <<engine, listeners, process, engines, reader, running, stdin, pipe, loaded,
                       calls>>
    BY <1>8 DEF CallReturns, CallFails, ResultRefused, Raises, clientVars, linkVars, droidVars, TypeOK
  <2> QED BY <2>1, <2>2, <2>4, <2>5 DEF TypeInv, TypeOK, Points
<1>9. ASSUME NEW t \in Tasks, ReceiveBegins(t) \/ ReceiveStops(t) PROVE TypeInv'
  <2>1. /\ pc' \in [Tasks -> Points] /\ on' \in [Tasks -> Numbers \cup {None}]
        /\ pc'[t] # "connect" /\ \A u \in Tasks \ {t} : pc'[u] = pc[u] /\ on'[u] = on[u]
    BY <1>9, GoesTypes DEF ReceiveBegins, ReceiveStops, Points
  <2>2. ConnectsNumbered'
    BY <2>1 DEF TypeInv, ConnectsNumbered
  <2>3. /\ UNCHANGED <<sessionId, engine, process, engines, reader, running, stdin, pipe, loaded,
                       call, lapse>>
        /\ listeners' \subseteq Tasks /\ owed' \subseteq Tasks
    BY <1>9 DEF ReceiveBegins, ReceiveStops, linkVars, droidVars, TypeOK
  <2>4. calls' \in 0..MaxCalls
    <3>1. calls \in 0..MaxCalls
      BY DEF TypeOK
    <3>2. calls' = calls \/ (calls < MaxCalls /\ calls' = calls + 1)
      BY <1>9 DEF ReceiveBegins, ReceiveStops
    <3> QED BY <3>1, <3>2, ClientAssumption
  <2> QED BY <2>1, <2>2, <2>3, <2>4 DEF TypeInv, TypeOK, Points
<1>10. CASE ReadChunk
  <2>1. PICK n \in 1..Len(pipe) : pipe' = SubSeq(pipe, n + 1, Len(pipe))
    BY <1>10 DEF ReadChunk
  <2>2. pipe' \in Seq(Message)
    <3>1. pipe \in Seq(Message)
      BY DEF TypeOK
    <3> QED BY <2>1, <3>1
  <2>3. /\ pc' \in [Tasks -> Points]
        /\ \A u \in Tasks : pc'[u] = "connect" => pc[u] = "connect"
    BY <1>10 DEF ReadChunk, TypeOK, Points
  <2>4. UNCHANGED <<sessionId, engine, listeners, process, engines, reader, running, stdin, loaded,
                    call, on, calls, owed, lapse>>
    BY <1>10 DEF ReadChunk, clientVars, linkVars
  <2>5. ConnectsNumbered'
    BY <2>3, <2>4 DEF TypeInv, ConnectsNumbered
  <2> QED BY <2>2, <2>3, <2>4, <2>5 DEF TypeInv, TypeOK, Points
<1>11. CASE Take \/ TurnEnds
  <2>1. UNCHANGED <<sessionId, engine, listeners, process, engines, reader, running, pc, call, on,
                    calls, owed, lapse>>
    BY <1>11 DEF Take, TurnEnds, clientVars, linkVars, taskVars
  <2>2. stdin' \in Seq(Request) /\ pipe' \in Seq(Message) /\ loaded' \in Numbers \cup {None}
    <3>1. CASE Take
      <4> DEFINE r == Head(stdin)
                 answer == [kind |-> "answer", id |-> r.id]
                 more == IF r.op = "add_user_message" THEN <<[kind |-> "busy"]>> ELSE <<>>
      <4>0. stdin \in Seq(Request) /\ pipe \in Seq(Message)
        BY DEF TypeOK
      <4>1. r \in Request /\ stdin' \in Seq(Request)
        BY <3>1, <4>0 DEF Take
      <4>2. answer \in Message /\ more \in Seq(Message)
        <5>1. r.id \in Numbers
          BY <4>1 DEF Request
        <5>2. answer \in Message /\ [kind |-> "busy"] \in Message
          BY <5>1 DEF Message
        <5> QED BY <5>2
      <4>3. pipe' = pipe \o <<answer>> \o more
        BY <3>1 DEF Take
      <4>4. loaded' \in Numbers \cup {None}
        BY <3>1, <4>1 DEF Take, TypeOK, Request
      <4> HIDE DEF r, answer, more
      <4>5. pipe' \in Seq(Message)
        BY <4>0, <4>2, <4>3
      <4> QED BY <4>1, <4>4, <4>5
    <3>2. CASE TurnEnds
      <4>1. stdin \in Seq(Request) /\ pipe \in Seq(Message) /\ loaded \in Numbers \cup {None}
        BY DEF TypeOK
      <4>2. [kind |-> "idle"] \in Message
        BY DEF Message
      <4> QED BY <3>2, <4>1, <4>2 DEF TurnEnds
    <3> QED BY <1>11, <3>1, <3>2
  <2>3. ConnectsNumbered'
    BY <2>1 DEF TypeInv, ConnectsNumbered
  <2> QED BY <2>1, <2>2, <2>3 DEF TypeInv, TypeOK
<1>12. CASE Dies
  <2>1. /\ pc' \in [Tasks -> Points]
        /\ \A u \in Tasks : pc'[u] = "connect" => pc[u] = "connect"
    BY <1>12, RejectedTypes DEF Dies
  <2>2. /\ UNCHANGED <<sessionId, engine, listeners, process, stdin, pipe, loaded, call, on, calls,
                       owed>>
        /\ reader' = None /\ running' \subseteq Numbers /\ lapse' \subseteq Lapses
        /\ engines' \in [Numbers -> {"none", "running", "closed", "broken"}]
    BY <1>12 DEF Dies, clientVars, droidVars, TypeOK, Lapses
  <2>3. ConnectsNumbered'
    BY <2>1, <2>2 DEF TypeInv, ConnectsNumbered
  <2> QED BY <2>1, <2>2, <2>3 DEF TypeInv, TypeOK, Points
<1>13. CASE UNCHANGED vars
  BY <1>13 DEF vars, clientVars, linkVars, droidVars, taskVars, receiveVars, TypeInv, TypeOK,
     ConnectsNumbered
<1> QED
  BY <1>1, <1>2, <1>3, <1>4, <1>5, <1>6, <1>7, <1>8, <1>9, <1>10, <1>11, <1>12, <1>13, <1>14
  DEF Next, ConnectStep, CloseStep

\* So they are to begin with.
LEMMA ClientInit == Init => TypeInv
<1> SUFFICES ASSUME Init PROVE TypeInv
  OBVIOUS
<1>1. FlagsOK /\ ReceiveOK
  BY DEF Init, FlagsOK, ReceiveOK
<1>2. ConnectsNumbered
  BY DEF Init, ConnectsNumbered
<1> QED BY <1>1, <1>2, ClientAssumption DEF Init, TypeInv, TypeOK

\* Every variable keeps its type, whatever the tasks and the process do.
THEOREM ClientTypeCorrect == Spec => []TypeOK
<1>1. TypeInv => TypeOK
  BY DEF TypeInv
<1> QED BY <1>1, ClientInit, TypeStep, PTL DEF Spec
-----------------------------------------------------------------------------
(* A closed client leaves nothing *)

\* A transport that is not connected has no process that runs.
RunningIsConnected == ~connected => process \notin running

\* Of connect() calls that overlap nothing one at most is under way, and until it
\* ends the transport is not connected.
OneConnects ==
  "connects" \notin lapse =>
    \A t \in Tasks : pc[t] = "connect" =>
      ~connected /\ \A u \in Tasks : pc[u] = "connect" => u = t

\* A process that runs is the transport's, or a close() of the transport waits for it.
RunningIsHeld ==
  "connects" \notin lapse =>
    \A p \in running : p = process \/ \E t \in Tasks : pc[t] = "close transport" /\ on[t] = p

\* While the process of a closed client runs, a close() has yet to come to the transport.
ClosedIsClosing ==
  closed /\ lapse \cap {"connects", "close cut", "closed meanwhile"} = {} =>
    process \notin running \/ At({"close engine"})

ClosedInv == RunningIsConnected /\ OneConnects /\ RunningIsHeld /\ ClosedIsClosing

\* What ran stays held as long as no close() leaves it, and the process that the
\* transport loses is taken by one.
LEMMA HeldFrame ==
  ASSUME RunningIsHeld, lapse \subseteq lapse', running' \subseteq running,
         \/ process' = process
         \/ process \notin running'
         \/ \E t \in Tasks : pc'[t] = "close transport" /\ on'[t] = process,
         \A u \in Tasks : pc[u] = "close transport" =>
           (pc'[u] = "close transport" /\ on'[u] = on[u]) \/ on[u] \notin running'
  PROVE  RunningIsHeld'
<1> SUFFICES ASSUME "connects" \notin lapse, NEW p \in running', p # process'
             PROVE  \E t \in Tasks : pc'[t] = "close transport" /\ on'[t] = p
  BY DEF RunningIsHeld
<1>1. CASE p = process
  BY <1>1
<1>2. CASE p # process
  <2>1. PICK u \in Tasks : pc[u] = "close transport" /\ on[u] = p
    BY <1>2 DEF RunningIsHeld
  <2> QED BY <2>1
<1> QED BY <1>1, <1>2

\* Steps that touch neither the process nor a task that connects or closes do not
\* disturb the invariant.
LEMMA ClosedInvFrame ==
  ASSUME ClosedInv, UNCHANGED <<process, connected, running>>, closed' => closed,
         lapse \subseteq lapse',
         \A u \in Tasks :
           /\ pc'[u] = "connect" => pc[u] = "connect"
           /\ pc[u] \in Closing => pc'[u] = pc[u] /\ on'[u] = on[u]
  PROVE  ClosedInv'
<1>1. RunningIsConnected' /\ OneConnects'
  BY DEF ClosedInv, RunningIsConnected, OneConnects
<1>2. RunningIsHeld'
  BY HeldFrame DEF ClosedInv, Closing
<1>3. At({"close engine"}) => At({"close engine"})'
  BY DEF At, Closing
<1>4. ClosedIsClosing'
  BY <1>3 DEF ClosedInv, ClosedIsClosing
<1> QED BY <1>1, <1>2, <1>4 DEF ClosedInv

\* transport.close() ends with no process: what ran is waited for.
LEMMA ClosedInvCloses ==
  ASSUME TypeOK, ClosedInv, NEW t \in Tasks, ClosesTransport(t, pc), UNCHANGED running,
         pc[t] \notin {"connect", "close transport"}, lapse \subseteq lapse'
  PROVE  ClosedInv'
<1>0. running \subseteq Numbers /\ pc \in [Tasks -> Points] /\ on \in [Tasks -> Numbers \cup {None}]
  BY DEF TypeOK, Points
<1>1. process' = None /\ connected' = FALSE /\ process' \notin running
  <2>1. process' = None /\ connected' = FALSE
    BY DEF ClosesTransport
  <2> QED BY <1>0, <2>1, NoneIsNoNumber
<1>2. /\ pc'[t] = IF process \in running THEN "close transport" ELSE "idle"
      /\ process \in running => on'[t] = process
      /\ \A u \in Tasks \ {t} : pc'[u] = pc[u] /\ on'[u] = on[u]
  BY <1>0 DEF ClosesTransport
<1>3. RunningIsConnected' /\ ClosedIsClosing'
  BY <1>1 DEF RunningIsConnected, ClosedIsClosing
<1>4. OneConnects'
  BY <1>1, <1>2 DEF ClosedInv, OneConnects
<1>5. RunningIsHeld'
  <2>1. process \notin running \/ (pc'[t] = "close transport" /\ on'[t] = process)
    BY <1>2
  <2> QED BY <1>2, <2>1, HeldFrame DEF ClosedInv
<1> QED BY <1>3, <1>4, <1>5 DEF ClosedInv

\* Every step keeps the invariant.
LEMMA ClosedInvStep == TypeInv /\ ClosedInv /\ [Next]_vars => ClosedInv'
<1> SUFFICES ASSUME TypeInv, ClosedInv, [Next]_vars PROVE ClosedInv'
  OBVIOUS
<1> TypeOK
  BY DEF TypeInv
<1>1. ASSUME NEW t \in Tasks, ConnectAgain(t) PROVE ClosedInv'
  <2>1. UNCHANGED <<process, connected, running, pc, on>> /\ closed' = FALSE /\ lapse \subseteq lapse'
    BY <1>1 DEF ConnectAgain
  <2> QED BY <2>1, ClosedInvFrame
<1>2. ASSUME NEW t \in Tasks, ConnectBegins(t) PROVE ClosedInv'
  <2>1. /\ ~connected /\ closed' = FALSE /\ pc[t] = "idle"
        /\ UNCHANGED <<process, connected, running>>
        /\ lapse' = IF At({"connect"} \cup Closing) THEN lapse \cup {"connects"} ELSE lapse
    BY <1>2 DEF ConnectBegins, Called, linkVars
  <2>2. /\ pc'[t] = "connect"
        /\ \A u \in Tasks \ {t} : pc'[u] = pc[u] /\ on'[u] = on[u]
    BY <1>2 DEF ConnectBegins, Goes, TypeOK
  <2>3. RunningIsConnected' /\ ClosedIsClosing'
    BY <2>1 DEF ClosedInv, RunningIsConnected, ClosedIsClosing
  <2>4. OneConnects'
    BY <2>1, <2>2 DEF ClosedInv, OneConnects, At
  <2>5. RunningIsHeld'
    BY <2>1, <2>2, HeldFrame DEF ClosedInv
  <2> QED BY <2>3, <2>4, <2>5 DEF ClosedInv
<1>3. ASSUME NEW t \in Tasks, ConnectEnds(t) PROVE ClosedInv'
  <2>1. /\ pc[t] = "connect" /\ process' = on[t] /\ connected' = TRUE
        /\ running' = running \cup {on[t]}
        /\ lapse \subseteq lapse' /\ (closed => "closed meanwhile" \in lapse')
        /\ UNCHANGED closed
    BY <1>3 DEF ConnectEnds
  <2>2. /\ pc'[t] = "idle"
        /\ \A u \in Tasks \ {t} : pc'[u] = pc[u] /\ on'[u] = on[u]
    BY <1>3 DEF ConnectEnds, Goes, TypeOK
  <2>3. RunningIsConnected' /\ ClosedIsClosing'
    BY <2>1 DEF RunningIsConnected, ClosedIsClosing
  <2>4. OneConnects'
    BY <2>1, <2>2 DEF ClosedInv, OneConnects
  <2>5. RunningIsHeld'
    <3> SUFFICES ASSUME "connects" \notin lapse, NEW p \in running, p # on[t]
                 PROVE  \E u \in Tasks : pc'[u] = "close transport" /\ on'[u] = p
      BY <2>1 DEF RunningIsHeld
    <3>1. process \notin running
      BY <2>1 DEF ClosedInv, OneConnects, RunningIsConnected
    <3> QED BY <2>1, <2>2, <3>1 DEF ClosedInv, RunningIsHeld
  <2> QED BY <2>3, <2>4, <2>5 DEF ClosedInv
<1>4. ASSUME NEW t \in Tasks, ConnectFails(t) PROVE ClosedInv'
  <2>1. UNCHANGED <<process, connected, running, closed, lapse>> /\ pc[t] = "connect"
    BY <1>4 DEF ConnectFails, clientVars, linkVars
  <2>2. pc'[t] = "idle" /\ \A u \in Tasks \ {t} : pc'[u] = pc[u] /\ on'[u] = on[u]
    BY <1>4 DEF ConnectFails, Goes, TypeOK
  <2> QED BY <2>1, <2>2, ClosedInvFrame DEF Closing
<1>5. ASSUME NEW t \in Tasks, CloseBegins(t) PROVE ClosedInv'
  <2>1. pc[t] = "idle" /\ UNCHANGED <<running, lapse>>
    BY <1>5 DEF CloseBegins, Called
  <2>2. CASE engine = None
    BY <1>5, <2>1, <2>2, ClosedInvCloses DEF CloseBegins
  <2>3. CASE engine # None
    <3>1. /\ pc' = [Rejected(pc, engine) EXCEPT ![t] = "close engine"]
          /\ on' = [on EXCEPT ![t] = engine]
          /\ UNCHANGED <<process, connected>>
      BY <1>5, <2>3 DEF CloseBegins
    <3>2. /\ pc'[t] = "close engine"
          /\ \A u \in Tasks \ {t} :
               /\ on'[u] = on[u]
               /\ pc'[u] = "connect" => pc[u] = "connect"
               /\ pc[u] = "close transport" => pc'[u] = "close transport"
      BY <3>1 DEF Rejected, TypeOK
    <3>3. ClosedIsClosing'
      BY <3>2 DEF ClosedIsClosing, At
    <3>4. OneConnects' /\ RunningIsConnected'
      BY <2>1, <3>1, <3>2 DEF ClosedInv, OneConnects, RunningIsConnected
    <3>5. RunningIsHeld'
      BY <2>1, <3>1, <3>2, HeldFrame DEF ClosedInv
    <3> QED BY <3>3, <3>4, <3>5 DEF ClosedInv
  <2> QED BY <2>2, <2>3
<1>6. ASSUME NEW t \in Tasks, CloseEngineEnds(t) PROVE ClosedInv'
  BY <1>6, ClosedInvCloses DEF CloseEngineEnds
<1>7. ASSUME NEW t \in Tasks, CancelClose(t) PROVE ClosedInv'
  <2>1. /\ UNCHANGED <<process, connected, running>> /\ pc[t] = "close engine"
        /\ lapse' = lapse \cup {"close cut"}
    BY <1>7 DEF CancelClose, linkVars
  <2>2. pc'[t] = "idle" /\ \A u \in Tasks \ {t} : pc'[u] = pc[u] /\ on'[u] = on[u]
    BY <1>7 DEF CancelClose, Goes, TypeOK
  <2>3. RunningIsConnected' /\ OneConnects' /\ ClosedIsClosing'
    BY <2>1, <2>2 DEF ClosedInv, RunningIsConnected, OneConnects, ClosedIsClosing
  <2>4. RunningIsHeld'
    BY <2>1, <2>2, HeldFrame DEF ClosedInv
  <2> QED BY <2>3, <2>4 DEF ClosedInv
<1>8. ASSUME NEW t \in Tasks, CloseTransportEnds(t) PROVE ClosedInv'
  <2>1. /\ UNCHANGED <<process, connected, closed, lapse>> /\ pc[t] = "close transport"
        /\ running' = running \ {on[t]}
    BY <1>8 DEF CloseTransportEnds, clientVars
  <2>2. pc'[t] = "idle" /\ \A u \in Tasks \ {t} : pc'[u] = pc[u] /\ on'[u] = on[u]
    BY <1>8 DEF CloseTransportEnds, Goes, TypeOK
  <2>3. RunningIsConnected' /\ OneConnects'
    BY <2>1, <2>2 DEF ClosedInv, RunningIsConnected, OneConnects
  <2>4. At({"close engine"}) => At({"close engine"})'
    BY <2>1, <2>2 DEF At
  <2>5. ClosedIsClosing'
    BY <2>1, <2>4 DEF ClosedInv, ClosedIsClosing
  <2>6. RunningIsHeld'
    BY <2>1, <2>2, HeldFrame DEF ClosedInv
  <2> QED BY <2>3, <2>5, <2>6 DEF ClosedInv
<1>9. ASSUME NEW t \in Tasks,
             (\E op \in Ops : Calls(t, op) \/ CallRefused(t, op)) \/ CallReturns(t) \/ CallFails(t)
               \/ ResultRefused(t) \/ ReceiveBegins(t) \/ ReceiveStops(t)
      PROVE  ClosedInv'
  <2>1. UNCHANGED <<process, connected, running, closed>> /\ lapse \subseteq lapse'
    BY <1>9 DEF Calls, CallRefused, CallReturns, CallFails, ResultRefused, Raises, ReceiveBegins,
       ReceiveStops, clientVars, linkVars
  <2>2. pc[t] \in {"idle", "call", "answered", "receive"}
    BY <1>9 DEF Calls, CallRefused, Called, CallReturns, CallFails, ResultRefused, Resumed,
       ReceiveBegins, ReceiveStops
  <2>3. /\ pc'[t] \in {"idle", "call", "receive"}
        /\ \A u \in Tasks \ {t} : pc'[u] = pc[u] /\ on'[u] = on[u]
    BY <1>9, <2>2 DEF Calls, CallRefused, Called, CallReturns, CallFails, ResultRefused, Raises,
       ReceiveBegins, ReceiveStops, Goes, TypeOK
  <2> QED BY <2>1, <2>2, <2>3, ClosedInvFrame DEF Closing
<1>10. CASE ReadChunk \/ Take \/ TurnEnds
  <2>1. UNCHANGED <<process, connected, running, closed, lapse, on>>
    BY <1>10 DEF ReadChunk, Take, TurnEnds, clientVars, linkVars, taskVars
  <2>2. \A u \in Tasks : pc'[u] = pc[u] \/ (pc[u] = "call" /\ pc'[u] = "answered")
    BY <1>10 DEF ReadChunk, Take, TurnEnds, taskVars
  <2> QED BY <2>1, <2>2, ClosedInvFrame DEF Closing
<1>11. CASE Dies
  <2>1. /\ UNCHANGED <<process, closed, on>> /\ running' = running \ {process}
        /\ lapse \subseteq lapse' /\ (connected' => connected)
    BY <1>11 DEF Dies, clientVars
  <2>2. \A u \in Tasks : pc'[u] = pc[u] \/ (pc[u] = "call" /\ pc'[u] = "idle")
    BY <1>11 DEF Dies, Rejected
  <2>3. RunningIsConnected' /\ OneConnects' /\ ClosedIsClosing'
    BY <2>1, <2>2 DEF ClosedInv, RunningIsConnected, OneConnects, ClosedIsClosing
  <2>4. RunningIsHeld'
    BY <2>1, <2>2, HeldFrame DEF ClosedInv
  <2> QED BY <2>3, <2>4 DEF ClosedInv
<1>12. CASE UNCHANGED vars
  BY <1>12, ClosedInvFrame DEF vars, clientVars, linkVars, taskVars
<1> QED
  BY <1>1, <1>2, <1>3, <1>4, <1>5, <1>6, <1>7, <1>8, <1>9, <1>10, <1>11, <1>12
  DEF Next, ConnectStep, CloseStep

\* No process runs after a close(), however the calls of the tasks interleave.
THEOREM ClientClosedLeavesNothing == Spec => []ClosedLeavesNothing
<1>1. Init => TypeInv /\ ClosedInv
  BY ClientInit DEF Init, ClosedInv, RunningIsConnected, OneConnects, RunningIsHeld, ClosedIsClosing
<1>2. ClosedInv => ClosedLeavesNothing
  BY DEF ClosedInv, RunningIsHeld, ClosedIsClosing, ClosedLeavesNothing, At, Closing
<1> QED BY <1>1, <1>2, TypeStep, ClosedInvStep, PTL DEF Spec
-----------------------------------------------------------------------------
(* The engine and the transport of the client *)

\* While nothing has lapsed, the engine that runs is the client's and reads the process.
RunningIsReader ==
  lapse = {} => \A n \in Numbers : engines[n] = "running" =>
                  engine = n /\ reader = n /\ connected /\ ~closed

\* A connected transport has an engine that runs, or one that is being closed.
ConnectedHasEngine ==
  lapse = {} /\ connected =>
    At({"close engine"}) \/ (engine \in Numbers /\ engines[engine] = "running")

\* A client is closed before close() waits for anything.
ClosingIsClosed == lapse = {} => \A t \in Tasks : pc[t] \in Closing => closed

\* A call waits for an engine that runs.
CallsOnRunning ==
  lapse = {} => \A t \in Tasks : pc[t] = "call" => on[t] \in Numbers /\ engines[on[t]] = "running"

LinkInv == RunningIsReader /\ ConnectedHasEngine /\ ClosingIsClosed /\ CallsOnRunning

\* What has lapsed is never undone.
LEMMA LapseGrows == [Next]_vars => lapse \subseteq lapse'
BY DEF Next, ConnectAgain, ConnectBegins, ConnectStep, ConnectEnds, ConnectFails, CloseBegins,
   CloseStep, CloseEngineEnds, CloseTransportEnds, CancelClose, Calls, CallRefused,
   CallReturns, CallFails, ResultRefused, Raises, ReceiveBegins, ReceiveStops, ReadChunk, Take, TurnEnds, Dies, vars

\* Steps that leave the engines alone, and in which no task comes to call or to close,
\* do not disturb the invariant.
LEMMA LinkFrame ==
  ASSUME LinkInv, UNCHANGED <<engines, engine, reader, connected, closed>>, lapse \subseteq lapse',
         \A u \in Tasks : /\ pc'[u] = "call" => pc[u] = "call" /\ on'[u] = on[u]
                          /\ pc'[u] \in Closing => pc[u] \in Closing
                          /\ pc[u] = "close engine" => pc'[u] = "close engine"
  PROVE  LinkInv'
<1>1. lapse' = {} => lapse = {}
  OBVIOUS
<1>2. At({"close engine"}) => At({"close engine"})'
  BY DEF At
<1>3. RunningIsReader' /\ ConnectedHasEngine'
  BY <1>1, <1>2 DEF LinkInv, RunningIsReader, ConnectedHasEngine
<1>4. ClosingIsClosed' /\ CallsOnRunning'
  BY <1>1 DEF LinkInv, ClosingIsClosed, CallsOnRunning
<1> QED BY <1>3, <1>4 DEF LinkInv

\* Without an engine that runs the invariant says only who is closing.
LEMMA LinkIdle ==
  ASSUME lapse' = {}, \A n \in Numbers : engines'[n] # "running",
         connected' => At({"close engine"})',
         \A u \in Tasks : pc'[u] # "call" /\ (pc'[u] \in Closing => closed')
  PROVE  LinkInv'
BY DEF LinkInv, RunningIsReader, ConnectedHasEngine, ClosingIsClosed, CallsOnRunning

\* Every step keeps the invariant.
LEMMA LinkStep == TypeInv /\ ClosedInv /\ LinkInv /\ [Next]_vars => LinkInv'
<1> SUFFICES ASSUME TypeInv, ClosedInv, LinkInv, [Next]_vars, lapse' = {}, lapse = {} PROVE LinkInv'
  BY LapseGrows DEF LinkInv, RunningIsReader, ConnectedHasEngine, ClosingIsClosed, CallsOnRunning
<1>t. /\ pc \in [Tasks -> Points] /\ on \in [Tasks -> Numbers \cup {None}]
      /\ engines \in [Numbers -> {"none", "running", "closed", "broken"}]
      /\ engine \in Numbers \cup {None}
  BY DEF TypeInv, TypeOK, Points
<1>r. ASSUME closed \/ ~connected \/ engine = None
      PROVE  (\A n \in Numbers : engines[n] # "running") /\ (\A u \in Tasks : pc[u] # "call")
  BY <1>r, NoneIsNoNumber DEF LinkInv, RunningIsReader, CallsOnRunning
<1>1. ASSUME NEW t \in Tasks, ConnectAgain(t) PROVE LinkInv'
  <2>1. connected /\ reader = None /\ ~At(Closing)
    BY <1>1 DEF ConnectAgain
  <2>2. engine \in Numbers /\ engines[engine] = "running"
    BY <2>1 DEF LinkInv, ConnectedHasEngine, At, Closing
  <2> QED BY <2>1, <2>2, NoneIsNoNumber DEF LinkInv, RunningIsReader
<1>2. ASSUME NEW t \in Tasks, ConnectBegins(t) PROVE LinkInv'
  <2>1. ~connected /\ UNCHANGED <<engines, connected>>
    BY <1>2 DEF ConnectBegins, linkVars
  <2>2. \A u \in Tasks : pc[u] \notin Closing
    BY <1>2 DEF ConnectBegins, At
  <2>3. pc'[t] = "connect" /\ \A u \in Tasks \ {t} : pc'[u] = pc[u]
    BY <1>2, <1>t DEF ConnectBegins, Goes
  <2>4. \A u \in Tasks : pc'[u] # "call" /\ pc'[u] \notin Closing
    BY <1>r, <2>1, <2>2, <2>3 DEF Closing
  <2> QED BY <1>r, <2>1, <2>4, LinkIdle
<1>3. ASSUME NEW t \in Tasks, ConnectEnds(t) PROVE LinkInv'
  <2>1. /\ pc[t] = "connect" /\ ~closed /\ UNCHANGED closed /\ connected' = TRUE
        /\ reader' = on[t] /\ engine' = on[t]
    BY <1>3 DEF ConnectEnds, NewEngine
  <2>2. ~connected /\ on[t] \in Numbers
    BY <2>1 DEF ClosedInv, OneConnects, TypeInv, ConnectsNumbered
  <2>3. engines'[on[t]] = "running" /\ \A n \in Numbers : engines'[n] = "running" => n = on[t]
    BY <1>3, <1>t, <1>r, <2>1, <2>2 DEF ConnectEnds, NewEngine
  <2>4. pc'[t] = "idle" /\ \A u \in Tasks \ {t} : pc'[u] = pc[u]
    BY <1>3, <1>t DEF ConnectEnds, Goes
  <2>5. \A u \in Tasks : pc'[u] # "call" /\ pc'[u] \notin Closing
    BY <1>r, <2>1, <2>2, <2>4 DEF LinkInv, ClosingIsClosed, Closing
  <2> QED BY <2>1, <2>2, <2>3, <2>5
          DEF LinkInv, RunningIsReader, ConnectedHasEngine, ClosingIsClosed, CallsOnRunning
<1>4. ASSUME NEW t \in Tasks, CloseBegins(t) PROVE LinkInv'
  <2>1. closed' = TRUE /\ UNCHANGED engine
    BY <1>4 DEF CloseBegins
  <2>2. CASE engine = None
    <3>1. ClosesTransport(t, pc) /\ UNCHANGED engines
      BY <1>4, <2>2 DEF CloseBegins
    <3>2. connected' = FALSE /\ \A u \in Tasks : pc'[u] # "call"
      BY <1>r, <1>t, <2>2, <3>1 DEF ClosesTransport
    <3> QED BY <1>r, <2>1, <2>2, <3>1, <3>2, LinkIdle
  <2>3. CASE engine # None
    <3>1. /\ engines' = [engines EXCEPT ![engine] = "closed"]
          /\ pc' = [Rejected(pc, engine) EXCEPT ![t] = "close engine"]
      BY <1>4, <2>3 DEF CloseBegins
    <3>2. \A n \in Numbers : engines'[n] # "running"
      BY <1>t, <3>1 DEF LinkInv, RunningIsReader
    <3>3. At({"close engine"})'
      BY <1>t, <3>1 DEF At, Rejected
    <3>4. \A u \in Tasks : pc'[u] # "call"
      BY <1>t, <3>1 DEF Rejected, LinkInv, RunningIsReader, CallsOnRunning
    <3> QED BY <2>1, <3>2, <3>3, <3>4, LinkIdle
  <2> QED BY <2>2, <2>3
<1>5. ASSUME NEW t \in Tasks, CloseEngineEnds(t) PROVE LinkInv'
  <2>1. pc[t] = "close engine" /\ ClosesTransport(t, pc) /\ UNCHANGED <<closed, engines>>
    BY <1>5 DEF CloseEngineEnds, clientVars
  <2>2. closed
    BY <2>1 DEF LinkInv, ClosingIsClosed, Closing
  <2>3. connected' = FALSE /\ \A u \in Tasks : pc'[u] # "call"
    BY <1>r, <1>t, <2>1, <2>2 DEF ClosesTransport
  <2> QED BY <1>r, <2>1, <2>2, <2>3, LinkIdle
<1>6. ASSUME NEW t \in Tasks, CloseTransportEnds(t) PROVE LinkInv'
  <2>1. pc[t] = "close transport" /\ UNCHANGED <<closed, connected, engines>>
    BY <1>6 DEF CloseTransportEnds, clientVars
  <2>2. pc'[t] = "idle" /\ \A u \in Tasks \ {t} : pc'[u] = pc[u]
    BY <1>6, <1>t DEF CloseTransportEnds, Goes
  <2>3. closed
    BY <2>1 DEF LinkInv, ClosingIsClosed, Closing
  <2>4. connected => At({"close engine"})
    BY <1>r, <2>3 DEF LinkInv, ConnectedHasEngine
  <2>5. connected => At({"close engine"})'
    BY <2>1, <2>2, <2>4 DEF At
  <2>6. \A u \in Tasks : pc'[u] # "call"
    BY <1>r, <2>2, <2>3
  <2> QED BY <1>r, <2>1, <2>3, <2>5, <2>6, LinkIdle
<1>7. ASSUME NEW t \in Tasks, NEW op \in Ops, Calls(t, op) PROVE LinkInv'
  <2>1. /\ UNCHANGED <<engines, engine, reader, connected, closed>>
        /\ engine # None /\ engines[engine] = "running" /\ pc[t] = "idle"
    BY <1>7 DEF Calls, Called, MayCall, clientVars, linkVars
  <2>2. /\ pc'[t] = "call" /\ on'[t] = engine
        /\ \A u \in Tasks \ {t} : pc'[u] = pc[u] /\ on'[u] = on[u]
    BY <1>7, <1>t DEF Calls, Goes
  <2>3. RunningIsReader' /\ ConnectedHasEngine'
    BY <1>t, <2>1 DEF LinkInv, RunningIsReader, ConnectedHasEngine
  <2>4. ClosingIsClosed' /\ CallsOnRunning'
    BY <1>t, <2>1, <2>2 DEF LinkInv, ClosingIsClosed, CallsOnRunning, Closing
  <2> QED BY <2>3, <2>4 DEF LinkInv
<1>8. ASSUME NEW t \in Tasks,
             \/ ConnectFails(t) \/ CallReturns(t) \/ CallFails(t) \/ ResultRefused(t)
             \/ (\E op \in Ops : CallRefused(t, op)) \/ ReceiveBegins(t) \/ ReceiveStops(t)
      PROVE  LinkInv'
  <2>1. UNCHANGED <<engines, engine, reader, connected, closed>>
    BY <1>8 DEF ConnectFails, CallRefused, CallReturns, CallFails, ResultRefused, Raises,
       ReceiveBegins, ReceiveStops, clientVars, linkVars
  <2>2. pc[t] \in {"idle", "connect", "call", "answered", "receive"}
    BY <1>8 DEF ConnectFails, CallRefused, Called, CallReturns, CallFails, ResultRefused, Resumed,
       ReceiveBegins, ReceiveStops
  <2>3. /\ pc'[t] \in {"idle", "receive"}
        /\ \A u \in Tasks \ {t} : pc'[u] = pc[u] /\ on'[u] = on[u]
    BY <1>8, <1>t DEF ConnectFails, CallRefused, Called, CallReturns, CallFails, ResultRefused,
       Raises, ReceiveBegins, ReceiveStops, Goes
  <2> QED BY <2>1, <2>2, <2>3, LinkFrame DEF Closing
<1>9. CASE ReadChunk \/ Take \/ TurnEnds
  <2>1. UNCHANGED <<engines, engine, reader, connected, closed, on>>
    BY <1>9 DEF ReadChunk, Take, TurnEnds, clientVars, linkVars, taskVars
  <2>2. \A u \in Tasks : pc'[u] = pc[u] \/ (pc[u] = "call" /\ pc'[u] = "answered")
    BY <1>9 DEF ReadChunk, Take, TurnEnds, taskVars
  <2> QED BY <2>1, <2>2, LinkFrame DEF Closing
<1>10. CASE UNCHANGED vars
  BY <1>10, LinkFrame DEF vars, clientVars, linkVars, taskVars
<1>11. ~Dies /\ \A t \in Tasks : ~CancelClose(t)
  BY DEF Dies, CancelClose
<1> QED
  BY <1>1, <1>2, <1>3, <1>4, <1>5, <1>6, <1>7, <1>8, <1>9, <1>10, <1>11
  DEF Next, ConnectStep, CloseStep

-----------------------------------------------------------------------------
(* What is in the pipes, and who waits for it *)

Changing  == OpeningOps \cup ClosingOps
Effect(r) == IF r.op \in OpeningOps THEN r.id ELSE None

\* No method both opens a session and ends it.
LEMMA OpeningIsNotClosing == OpeningOps \cap ClosingOps = {}
<1>1. OpeningOps = {"initialize_session", "load_session"}
  BY DEF OpeningOps, Openings
<1>2. ClosingOps = {"close_session"}
  BY DEF ClosingOps, Closings
<1> QED BY <1>1, <1>2

Live == lapse = {} /\ connected /\ ~closed

\* Requests the process has not taken, and numbers of those whose answers nobody has read.
Sent    == {stdin[i] : i \in 1..Len(stdin)}
Answers == {n \in Numbers : \E i \in 1..Len(pipe) : pipe[i].kind = "answer" /\ pipe[i].id = n}

Waiting(t) == pc[t] \in {"call", "answered"}

\* The process has carried out a request that changes the session, and the caller has
\* yet to hear of it.
Taken(t) == Waiting(t) /\ call[t].op \in Changing /\ call[t] \notin Sent

\* Both pipes keep the order in which the calls were made.
InOrder ==
  /\ \A i, j \in 1..Len(stdin) : i < j => stdin[i].id < stdin[j].id
  /\ \A i, j \in 1..Len(pipe) :
       i < j /\ pipe[i].kind = "answer" /\ pipe[j].kind = "answer" => pipe[i].id < pipe[j].id

\* What is answered came before what is still in the pipes, and answers in the pipe
\* before requests.
OlderFirst ==
  /\ \A r \in Sent : r.id <= calls /\ \A a \in Answers : a < r.id
  /\ \A a \in Answers : a <= calls
  /\ \A t \in Tasks : Waiting(t) => call[t] \in Request /\ call[t].id <= calls
  /\ \A t, u \in Tasks : Waiting(t) /\ Waiting(u) /\ t # u => call[t].id # call[u].id
  /\ \A t \in Tasks : pc[t] = "answered" =>
       (\A r \in Sent : call[t].id < r.id) /\ (\A a \in Answers : call[t].id < a)

\* A caller that waits finds its request or its answer in a pipe, and a request that
\* changes the session has its caller.
Accompanied ==
  /\ \A t \in Tasks : pc[t] = "call" => call[t] \in Sent \/ call[t].id \in Answers
  /\ \A r \in Sent : r.op \in Changing => \E t \in Tasks : pc[t] = "call" /\ call[t] = r

\* The session of the process is what the last request it took made it; the client names
\* it as soon as all of their callers know.
LastTakenLoaded ==
  /\ (\A t \in Tasks : ~Taken(t)) => loaded = sessionId
  /\ \A t \in Tasks :
       Taken(t) /\ (\A u \in Tasks : Taken(u) => call[u].id <= call[t].id) => loaded = Effect(call[t])

SessionInv == Live => InOrder /\ OlderFirst /\ Accompanied /\ LastTakenLoaded

\* Numbers of requests and of calls are integers.
LEMMA NumbersAreInts ==
  ASSUME TypeOK
  PROVE  /\ Numbers \subseteq Nat /\ calls \in Nat
         /\ Sent \subseteq Request /\ Answers \subseteq Numbers
         /\ \A r \in Request : r.id \in Nat
<1>1. stdin \in Seq(Request) /\ calls \in 0..MaxCalls
  BY DEF TypeOK
<1>2. Numbers \subseteq Nat
  BY ClientAssumption DEF Numbers
<1>3. calls \in Nat
  BY <1>1, ClientAssumption
<1>4. Sent \subseteq Request /\ Answers \subseteq Numbers
  BY <1>1 DEF Sent, Answers
<1>5. \A r \in Request : r.id \in Nat
  BY <1>2 DEF Request
<1> QED BY <1>2, <1>3, <1>4, <1>5

\* Steps that leave the pipes, both sessions and the tasks that wait alone do not disturb
\* the invariant.
LEMMA SessionFrame ==
  ASSUME TypeOK, SessionInv, lapse \subseteq lapse', UNCHANGED <<connected, closed>>,
         UNCHANGED <<stdin, pipe, sessionId, loaded, call>>,
         calls' \in Nat, calls <= calls',
         \A u \in Tasks : (Waiting(u) \/ Waiting(u)') => pc'[u] = pc[u]
  PROVE  SessionInv'
<1> SUFFICES ASSUME Live' PROVE (InOrder /\ OlderFirst /\ Accompanied /\ LastTakenLoaded)'
  BY DEF SessionInv
<1>1. Live
  BY DEF Live
<1>2. InOrder /\ OlderFirst /\ Accompanied /\ LastTakenLoaded
  BY <1>1 DEF SessionInv
<1>3. Sent' = Sent /\ Answers' = Answers
  BY DEF Sent, Answers
<1>3a. \A u \in Tasks : /\ Waiting(u)' <=> Waiting(u)
                        /\ pc'[u] = "call" <=> pc[u] = "call"
                        /\ pc'[u] = "answered" <=> pc[u] = "answered"
  BY DEF Waiting
<1>3b. \A u \in Tasks : Taken(u)' <=> Taken(u)
  BY <1>3, <1>3a DEF Taken
<1>4. InOrder'
  BY <1>2 DEF InOrder
<1>5. OlderFirst'
  <2>1. \A r \in Sent : r.id \in Nat /\ r.id <= calls
    BY <1>2, NumbersAreInts DEF OlderFirst
  <2>2. \A t \in Tasks : Waiting(t) => call[t] \in Request /\ call[t].id \in Nat /\ call[t].id <= calls
    BY <1>2, NumbersAreInts DEF OlderFirst
  <2>3. \A t \in Tasks : pc'[t] = "answered" => pc[t] = "answered"
    BY <1>3a
  <2>4. \A a \in Answers : a \in Nat /\ a <= calls
    BY <1>2, NumbersAreInts DEF OlderFirst
  <2> QED BY <1>2, <1>3, <1>3a, <2>1, <2>2, <2>3, <2>4, NumbersAreInts DEF OlderFirst
<1>6. Accompanied'
  BY <1>2, <1>3, <1>3a DEF Accompanied
<1>7. LastTakenLoaded'
  BY <1>2, <1>3, <1>3b DEF LastTakenLoaded
<1> QED BY <1>4, <1>5, <1>6, <1>7

\* A call adds the newest request, which is its caller's.
LEMMA CallsKeepSession ==
  ASSUME TypeInv, SessionInv, NEW t \in Tasks, NEW op \in Ops, Calls(t, op)
  PROVE  SessionInv'
<1> SUFFICES ASSUME Live' PROVE (InOrder /\ OlderFirst /\ Accompanied /\ LastTakenLoaded)'
  BY DEF SessionInv
<1> DEFINE r == [id |-> calls', op |-> op]
<1>t. TypeOK
  BY DEF TypeInv
<1>1. /\ UNCHANGED <<connected, closed, sessionId, pipe, loaded, lapse>>
      /\ stdin' = Append(stdin, r) /\ call' = [call EXCEPT ![t] = r] /\ pc[t] = "idle"
      /\ calls' = calls + 1
  BY DEF Calls, Called, clientVars, linkVars
<1>2. InOrder /\ OlderFirst /\ Accompanied /\ LastTakenLoaded
  BY <1>1 DEF SessionInv, Live
<1>3. pc'[t] = "call" /\ \A u \in Tasks \ {t} : pc'[u] = pc[u]
  BY <1>t DEF Calls, Goes, TypeOK
<1>4. call'[t] = r /\ \A u \in Tasks \ {t} : call'[u] = call[u]
  BY <1>t, <1>1 DEF TypeOK
<1>5. r \in Request /\ r.id = calls' /\ r.op = op /\ calls \in Nat
  BY <1>t, CalledTypes, NumbersAreInts DEF Calls, Request
<1>6. stdin \in Seq(Request)
  BY <1>t DEF TypeOK
<1> HIDE DEF r
<1>7. Sent' = Sent \cup {r} /\ Answers' = Answers
  <2>1. /\ Len(stdin') = Len(stdin) + 1 /\ stdin'[Len(stdin) + 1] = r
        /\ \A i \in 1..Len(stdin) : stdin'[i] = stdin[i]
    BY <1>1, <1>5, <1>6
  <2>2. Len(stdin) \in Nat
    BY <1>6
  <2>3. Sent' = Sent \cup {r}
    BY <2>1, <2>2 DEF Sent
  <2> QED BY <1>1, <2>3 DEF Answers
<1>8. \A q \in Sent : q.id \in Nat /\ q.id <= calls
  BY <1>t, <1>2, NumbersAreInts DEF OlderFirst
<1>9. \A u \in Tasks : Waiting(u) => u # t /\ call[u] \in Request /\ call[u].id \in Nat /\ call[u].id <= calls
  BY <1>t, <1>1, <1>2, NumbersAreInts DEF OlderFirst, Waiting
<1>10. \A u \in Tasks : Waiting(u)' <=> (Waiting(u) \/ u = t)
  BY <1>1, <1>3 DEF Waiting
<1>11. \A u \in Tasks : Taken(u)' <=> Taken(u)
  <2>1. \A u \in Tasks : Waiting(u) => call[u] # r
    BY <1>1, <1>5, <1>9
  <2> QED BY <1>1, <1>4, <1>7, <1>9, <1>10, <2>1 DEF Taken
<1>12. InOrder'
  <2>1. \A i \in 1..Len(stdin) : stdin[i].id \in Nat /\ stdin[i].id < r.id
    BY <1>1, <1>5, <1>8 DEF Sent
  <2>2. /\ Len(stdin') = Len(stdin) + 1 /\ stdin'[Len(stdin) + 1] = r
        /\ \A i \in 1..Len(stdin) : stdin'[i] = stdin[i]
    BY <1>1, <1>5, <1>6
  <2>3. \A i \in 1..Len(stdin') : i \in 1..Len(stdin) \/ i = Len(stdin')
    BY <1>6, <2>2
  <2>4. \A i, j \in 1..Len(stdin') : i < j => i \in 1..Len(stdin)
    BY <1>6, <2>2
  <2> QED BY <1>1, <1>2, <2>1, <2>2, <2>3, <2>4 DEF InOrder
<1>13. OlderFirst'
  <2>1. /\ \A q \in Sent' : q.id <= calls' /\ \A a \in Answers' : a < q.id
        /\ \A a \in Answers' : a <= calls'
    <3>1. \A a \in Answers : a \in Nat /\ a <= calls
      BY <1>t, <1>2, NumbersAreInts DEF OlderFirst
    <3> QED BY <1>1, <1>2, <1>5, <1>7, <1>8, <3>1 DEF OlderFirst
  <2>2. \A u \in Tasks : Waiting(u)' => call'[u] \in Request /\ call'[u].id <= calls'
    BY <1>1, <1>4, <1>5, <1>9, <1>10
  <2>3. \A u, v \in Tasks : Waiting(u)' /\ Waiting(v)' /\ u # v => call'[u].id # call'[v].id
    BY <1>1, <1>2, <1>4, <1>5, <1>9, <1>10 DEF OlderFirst
  <2>4. \A u \in Tasks : pc'[u] = "answered" =>
          (\A q \in Sent' : call'[u].id < q.id) /\ (\A a \in Answers' : call'[u].id < a)
    <3>1. \A u \in Tasks : pc'[u] = "answered" => u # t /\ pc[u] = "answered" /\ Waiting(u)
      BY <1>3 DEF Waiting
    <3> QED BY <1>1, <1>2, <1>4, <1>5, <1>7, <1>9, <3>1 DEF OlderFirst
  <2> QED BY <2>1, <2>2, <2>3, <2>4 DEF OlderFirst
<1>14. Accompanied'
  BY <1>1, <1>2, <1>3, <1>4, <1>7 DEF Accompanied
<1>15. LastTakenLoaded'
  BY <1>1, <1>2, <1>4, <1>9, <1>11 DEF LastTakenLoaded, Taken
<1> QED BY <1>12, <1>13, <1>14, <1>15

\* The first caller to be answered is the first to be resumed, and takes over what
\* its request made of the session.
LEMMA CallReturnsKeepsSession ==
  ASSUME TypeInv, SessionInv, NEW t \in Tasks, CallReturns(t)
  PROVE  SessionInv'
<1> SUFFICES ASSUME Live' PROVE (InOrder /\ OlderFirst /\ Accompanied /\ LastTakenLoaded)'
  BY DEF SessionInv
<1>t. TypeOK
  BY DEF TypeInv
<1>1. /\ UNCHANGED <<connected, closed, stdin, pipe, loaded, lapse, calls>>
      /\ pc[t] = "answered" /\ call' = [call EXCEPT ![t] = NoCall]
      /\ \A u \in Tasks : pc[u] = "answered" => call[u].id >= call[t].id
      /\ SetsSession(call[t].op, call[t].id)
  BY DEF CallReturns, Resumed, linkVars, droidVars
<1>2. InOrder /\ OlderFirst /\ Accompanied /\ LastTakenLoaded
  BY <1>1 DEF SessionInv, Live
<1>3. pc'[t] = "idle" /\ \A u \in Tasks \ {t} : pc'[u] = pc[u]
  BY <1>t DEF CallReturns, Goes, TypeOK
<1>4. \A u \in Tasks \ {t} : call'[u] = call[u]
  BY <1>t, <1>1 DEF TypeOK
<1>5. Sent' = Sent /\ Answers' = Answers
  BY <1>1 DEF Sent, Answers
<1>6. \A u \in Tasks : Waiting(u)' <=> (Waiting(u) /\ u # t)
  BY <1>3 DEF Waiting
<1>7. \A u \in Tasks : Taken(u)' <=> (Taken(u) /\ u # t)
  BY <1>4, <1>5, <1>6 DEF Taken
<1>8. InOrder'
  BY <1>1, <1>2 DEF InOrder
<1>9. OlderFirst'
  <2>1. \A u \in Tasks : pc'[u] = "answered" => u # t /\ pc[u] = "answered"
    BY <1>3
  <2> QED BY <1>1, <1>2, <1>4, <1>5, <1>6, <2>1 DEF OlderFirst
<1>10. Accompanied'
  <2>1. \A u \in Tasks : pc'[u] = "call" <=> pc[u] = "call"
    BY <1>1, <1>3
  <2>2. \A u \in Tasks : pc[u] = "call" => call'[u] = call[u]
    BY <1>1, <1>4
  <2> QED BY <1>2, <1>5, <2>1, <2>2 DEF Accompanied
<1>11. LastTakenLoaded'
  <2>1. /\ \A u \in Tasks : Waiting(u) => call[u].id \in Nat
        /\ \A q \in Sent : q.id \in Nat
    BY <1>t, <1>2, NumbersAreInts DEF OlderFirst
  <2>2. Waiting(t) /\ call[t] \notin Sent
    BY <1>1, <1>2, <2>1 DEF OlderFirst, Waiting
  <2>3. \A u \in Tasks : Taken(u) => call[t].id <= call[u].id
    <3> SUFFICES ASSUME NEW u \in Tasks, Taken(u) PROVE call[t].id <= call[u].id
      OBVIOUS
    <3>1. CASE pc[u] = "answered"
      BY <1>1, <2>1, <2>2, <3>1 DEF Taken
    <3>2. CASE pc[u] = "call"
      BY <1>1, <1>2, <2>1, <2>2, <3>2 DEF Taken, Accompanied, OlderFirst
    <3> QED BY <3>1, <3>2 DEF Taken, Waiting
  <2>4. CASE call[t].op \notin Changing
    <3>1. ~Taken(t) /\ sessionId' = sessionId
      BY <1>1, <2>4 DEF Taken, Changing, SetsSession
    <3> QED BY <1>1, <1>2, <1>4, <1>7, <3>1 DEF LastTakenLoaded, Taken
  <2>5. CASE call[t].op \in Changing
    <3>1. Taken(t)
      BY <2>2, <2>5 DEF Taken
    <3>2. sessionId' = Effect(call[t])
      BY <1>1, <2>5, OpeningIsNotClosing DEF Changing, SetsSession, Effect
    <3>3. (\A u \in Tasks : ~Taken(u)') => loaded' = sessionId'
      BY <1>1, <1>2, <1>7, <2>1, <2>2, <3>1, <3>2 DEF LastTakenLoaded
    <3>4. ASSUME NEW u \in Tasks, Taken(u)',
                 \A v \in Tasks : Taken(v)' => call'[v].id <= call'[u].id
          PROVE  loaded' = Effect(call'[u])
      <4>1. \A v \in Tasks : Taken(v) => call[v].id <= call[u].id
        BY <1>4, <1>7, <2>3, <3>4
      <4> QED BY <1>1, <1>2, <1>4, <1>7, <3>4, <4>1 DEF LastTakenLoaded
    <3>5. \A u \in Tasks : Effect(call[u])' = Effect(call'[u])
      BY DEF Effect
    <3> QED BY <3>3, <3>4, <3>5 DEF LastTakenLoaded
  <2> QED BY <2>4, <2>5
<1> QED BY <1>8, <1>9, <1>10, <1>11

\* A call raises: not one that changes the session, or the client would not know.
LEMMA CallFailsKeepsSession ==
  ASSUME TypeInv, SessionInv, NEW t \in Tasks, CallFails(t) \/ ResultRefused(t)
  PROVE  SessionInv'
<1> SUFFICES ASSUME Live' PROVE (InOrder /\ OlderFirst /\ Accompanied /\ LastTakenLoaded)'
  BY DEF SessionInv
<1>t. TypeOK
  BY DEF TypeInv
<1>1. /\ UNCHANGED <<connected, closed, sessionId, stdin, pipe, loaded, calls>>
      /\ pc[t] \in {"call", "answered"} /\ call' = [call EXCEPT ![t] = NoCall]
      /\ lapse = {} /\ call[t].op \notin Changing
  BY DEF CallFails, ResultRefused, Resumed, Raises, clientVars, linkVars, droidVars, Live, Changing
<1>2. InOrder /\ OlderFirst /\ Accompanied /\ LastTakenLoaded
  BY <1>1 DEF SessionInv, Live
<1>3. pc'[t] = "idle" /\ \A u \in Tasks \ {t} : pc'[u] = pc[u]
  BY <1>t DEF CallFails, ResultRefused, Raises, Goes, TypeOK
<1>4. \A u \in Tasks \ {t} : call'[u] = call[u]
  BY <1>t, <1>1 DEF TypeOK
<1>5. Sent' = Sent /\ Answers' = Answers
  BY <1>1 DEF Sent, Answers
<1>6. \A u \in Tasks : Waiting(u)' <=> (Waiting(u) /\ u # t)
  BY <1>3 DEF Waiting
<1>7. ~Taken(t) /\ \A u \in Tasks : Taken(u)' <=> (Taken(u) /\ u # t)
  BY <1>1, <1>4, <1>5, <1>6 DEF Taken
<1>8. InOrder'
  BY <1>1, <1>2 DEF InOrder
<1>9. OlderFirst'
  <2>1. \A u \in Tasks : pc'[u] = "answered" => u # t /\ pc[u] = "answered"
    BY <1>3
  <2> QED BY <1>1, <1>2, <1>4, <1>5, <1>6, <2>1 DEF OlderFirst
<1>10. Accompanied'
  BY <1>1, <1>2, <1>3, <1>4, <1>5 DEF Accompanied
<1>11. LastTakenLoaded'
  BY <1>1, <1>2, <1>4, <1>7 DEF LastTakenLoaded
<1> QED BY <1>8, <1>9, <1>10, <1>11

\* A new process has no session, and the client of which it is the first names none.
LEMMA ConnectEndsKeepsSession ==
  ASSUME TypeInv, ClosedInv, LinkInv, NEW t \in Tasks, ConnectEnds(t)
  PROVE  SessionInv'
<1> SUFFICES ASSUME Live' PROVE (InOrder /\ OlderFirst /\ Accompanied /\ LastTakenLoaded)'
  BY DEF SessionInv
<1>1. /\ lapse = {} /\ pc[t] = "connect" /\ sessionId' = None /\ loaded' = None
      /\ stdin' = <<>> /\ pipe' = <<>>
  BY DEF ConnectEnds, Live
<1>2. ~connected
  BY <1>1 DEF ClosedInv, OneConnects
<1>3. \A u \in Tasks : pc[u] \notin {"call", "answered"}
  BY <1>1, <1>2 DEF LinkInv, RunningIsReader, CallsOnRunning, ConnectEnds, At
<1>4. pc'[t] = "idle" /\ \A u \in Tasks \ {t} : pc'[u] = pc[u]
  BY DEF ConnectEnds, Goes, TypeInv, TypeOK
<1>5. \A u \in Tasks : pc'[u] \notin {"call", "answered"}
  BY <1>3, <1>4
<1>6. Sent' = {} /\ Answers' = {}
  BY <1>1 DEF Sent, Answers
<1>7. InOrder'
  BY <1>1 DEF InOrder
<1> QED BY <1>1, <1>5, <1>6, <1>7 DEF OlderFirst, Accompanied, LastTakenLoaded, Taken, Waiting

\* The process takes the oldest request.
LEMMA TakeKeepsSession ==
  ASSUME TypeInv, SessionInv, Take
  PROVE  SessionInv'
<1> SUFFICES ASSUME Live' PROVE (InOrder /\ OlderFirst /\ Accompanied /\ LastTakenLoaded)'
  BY DEF SessionInv
<1> DEFINE r == Head(stdin)
           answer == [kind |-> "answer", id |-> r.id]
           more == IF r.op = "add_user_message" THEN <<[kind |-> "busy"]>> ELSE <<>>
<1>t. TypeOK /\ stdin \in Seq(Request) /\ pipe \in Seq(Message) /\ stdin # <<>>
  BY DEF TypeInv, TypeOK, Take
<1>1. /\ UNCHANGED <<connected, closed, sessionId, lapse, pc, call, calls>>
      /\ stdin' = Tail(stdin) /\ pipe' = pipe \o <<answer>> \o more
      /\ loaded' = CASE r.op \in OpeningOps -> r.id [] r.op \in ClosingOps -> None
                     [] OTHER -> loaded
  BY DEF Take, clientVars, linkVars, taskVars
<1>2. InOrder /\ OlderFirst /\ Accompanied /\ LastTakenLoaded
  BY <1>1 DEF SessionInv, Live
<1>3. r \in Request /\ r.id \in Numbers /\ r.id \in Nat
  <2>1. r \in Request
    BY <1>t
  <2> QED BY <1>t, <2>1, NumbersAreInts DEF Request
<1>4. /\ answer.kind = "answer" /\ answer.id = r.id
      /\ more = <<>> \/ more = <<[kind |-> "busy"]>>
  OBVIOUS
<1>5. r.op \notin Changing => loaded' = loaded
  BY <1>1 DEF Changing
<1>6. r.op \in Changing => loaded' = Effect(r)
  BY <1>1, OpeningIsNotClosing DEF Changing, Effect
<1>7. r = stdin[1] /\ Len(stdin) \in Nat /\ Len(stdin) >= 1 /\ Len(stdin') = Len(stdin) - 1
      /\ \A i \in 1..Len(stdin') : stdin'[i] = stdin[i + 1]
  BY <1>t, <1>1
<1>8. /\ Len(pipe) \in Nat /\ Len(pipe') \in Nat /\ Len(pipe') >= Len(pipe) + 1
      /\ pipe'[Len(pipe) + 1] = answer
      /\ \A i \in 1..Len(pipe) : pipe'[i] = pipe[i]
      /\ \A i \in 1..Len(pipe') : i > Len(pipe) + 1 => pipe'[i] = [kind |-> "busy"]
  <2> HIDE DEF answer, more
  <2>1. CASE more = <<>>
    BY <1>t, <1>1, <2>1
  <2>2. CASE more = <<[kind |-> "busy"]>>
    BY <1>t, <1>1, <2>2
  <2> QED BY <1>4, <2>1, <2>2
<1> HIDE DEF r, answer, more
<1>9. Sent = Sent' \cup {r} /\ (\A q \in Sent' : r.id < q.id /\ q.id \in Nat)
  <2>1. \A i \in 1..Len(stdin) : i = 1 \/ (i - 1 \in 1..Len(stdin') /\ stdin[i] = stdin'[i - 1])
    BY <1>7
  <2>2. \A i \in 1..Len(stdin') : i + 1 \in 1..Len(stdin) /\ 1 < i + 1
    BY <1>7
  <2>3. 1 \in 1..Len(stdin)
    BY <1>7
  <2>4. Sent = Sent' \cup {r}
    BY <1>7, <2>1, <2>2, <2>3 DEF Sent
  <2>5. \A i \in 1..Len(stdin') : r.id < stdin'[i].id
    BY <1>2, <1>7, <2>2, <2>3 DEF InOrder
  <2> QED BY <1>t, <2>4, <2>5, NumbersAreInts DEF Sent
<1>10. r \in Sent /\ r \notin Sent'
  BY <1>3, <1>9
<1>11. Answers' = Answers \cup {r.id}
  <2>1. \A i \in 1..Len(pipe') : i \in 1..Len(pipe) \/ i = Len(pipe) + 1 \/ i > Len(pipe) + 1
    BY <1>8
  <2>2. Len(pipe) + 1 \in 1..Len(pipe') /\ \A i \in 1..Len(pipe) : i \in 1..Len(pipe')
    BY <1>8
  <2>3. \A i \in 1..Len(pipe') : i > Len(pipe) + 1 => pipe'[i].kind # "answer"
    BY <1>8
  <2>4. Answers \cup {r.id} \subseteq Answers'
    BY <1>3, <1>4, <1>8, <2>2 DEF Answers
  <2>5. Answers' \subseteq Answers \cup {r.id}
    BY <1>3, <1>4, <1>8, <2>1, <2>3 DEF Answers
  <2> QED BY <2>4, <2>5
<1>12. \A a \in Answers : a \in Nat /\ a < r.id
  BY <1>t, <1>2, <1>10, NumbersAreInts DEF OlderFirst
<1>13. InOrder'
  <2>1. \A i, j \in 1..Len(stdin') : i < j => stdin'[i].id < stdin'[j].id
    BY <1>2, <1>7 DEF InOrder
  <2>2. ASSUME NEW i \in 1..Len(pipe'), NEW j \in 1..Len(pipe'), i < j,
               pipe'[i].kind = "answer", pipe'[j].kind = "answer"
        PROVE  pipe'[i].id < pipe'[j].id
    <3>1. i \in 1..Len(pipe) /\ (j \in 1..Len(pipe) \/ j = Len(pipe) + 1)
      BY <1>8, <2>2
    <3>2. CASE j \in 1..Len(pipe)
      BY <1>2, <1>8, <2>2, <3>1, <3>2 DEF InOrder
    <3>3. CASE j = Len(pipe) + 1
      <4>1. pipe[i].kind = "answer" /\ pipe'[i].id = pipe[i].id /\ pipe'[j].id = r.id
        BY <1>4, <1>8, <2>2, <3>1, <3>3
      <4>2. pipe[i] \in Message /\ pipe[i].kind = "answer"
        BY <1>t, <3>1, <4>1
      <4>3. pipe[i].id \in Numbers
        BY <4>2 DEF Message
      <4>4. pipe[i].id \in Answers
        BY <3>1, <4>1, <4>3 DEF Answers
      <4> QED BY <1>12, <4>1, <4>4
    <3> QED BY <3>1, <3>2, <3>3
  <2> QED BY <2>1, <2>2 DEF InOrder
<1>14. OlderFirst'
  <2>1. /\ \A q \in Sent' : q.id <= calls' /\ \A a \in Answers' : a < q.id
        /\ \A a \in Answers' : a <= calls'
    BY <1>1, <1>2, <1>9, <1>10, <1>11 DEF OlderFirst
  <2>2. \A u \in Tasks : pc'[u] = "answered" =>
          (\A q \in Sent' : call'[u].id < q.id) /\ (\A a \in Answers' : call'[u].id < a)
    BY <1>1, <1>2, <1>9, <1>10, <1>11 DEF OlderFirst
  <2> QED BY <1>1, <1>2, <2>1, <2>2 DEF OlderFirst, Waiting
<1>15. Accompanied'
  BY <1>1, <1>2, <1>9, <1>11 DEF Accompanied
<1>16. LastTakenLoaded'
  <2>1. \A u \in Tasks : Taken(u)' <=> (Taken(u) \/ (Waiting(u) /\ r.op \in Changing /\ call[u] = r))
    BY <1>1, <1>9, <1>10 DEF Taken, Waiting
  <2>2. CASE r.op \notin Changing
    BY <1>1, <1>2, <1>5, <2>1, <2>2 DEF LastTakenLoaded, Effect
  <2>3. CASE r.op \in Changing
    <3>1. PICK t \in Tasks : pc[t] = "call" /\ call[t] = r
      BY <1>2, <1>10, <2>3 DEF Accompanied
    <3>2. Taken(t)'
      BY <2>1, <2>3, <3>1 DEF Waiting
    <3>3. ASSUME NEW u \in Tasks, Taken(u)', r.id <= call[u].id PROVE call[u] = r
      <4>1. Taken(u) => call[u].id \in Nat /\ call[u].id < r.id
        BY <1>t, <1>2, <1>10, <1>12, NumbersAreInts DEF Taken, Waiting, Accompanied, OlderFirst
      <4> QED BY <1>3, <2>1, <3>3, <4>1
    <3>4. ASSUME NEW u \in Tasks, Taken(u)',
                 \A v \in Tasks : Taken(v)' => call'[v].id <= call'[u].id
          PROVE  loaded' = Effect(call'[u])
      <4>1. r.id <= call[u].id
        BY <1>1, <3>1, <3>2, <3>4
      <4>2. call'[u] = r
        BY <1>1, <3>3, <3>4, <4>1
      <4> QED BY <1>6, <2>3, <4>2
    <3>5. \A u \in Tasks : Effect(call[u])' = Effect(call'[u])
      BY DEF Effect
    <3> QED BY <3>2, <3>4, <3>5 DEF LastTakenLoaded
  <2> QED BY <2>2, <2>3
<1> QED BY <1>13, <1>14, <1>15, <1>16

\* A turn that ends answers no request.
LEMMA TurnEndsKeepsSession ==
  ASSUME TypeInv, SessionInv, TurnEnds
  PROVE  SessionInv'
<1> SUFFICES ASSUME Live' PROVE (InOrder /\ OlderFirst /\ Accompanied /\ LastTakenLoaded)'
  BY DEF SessionInv
<1>1. /\ UNCHANGED <<connected, closed, sessionId, lapse, pc, call, calls, stdin, loaded>>
      /\ pipe' = Append(pipe, [kind |-> "idle"])
  BY DEF TurnEnds, clientVars, linkVars, taskVars
<1>2. InOrder /\ OlderFirst /\ Accompanied /\ LastTakenLoaded
  BY <1>1 DEF SessionInv, Live
<1>3. pipe \in Seq(Message)
  BY DEF TypeInv, TypeOK
<1>4. /\ Len(pipe) \in Nat /\ Len(pipe') = Len(pipe) + 1
      /\ pipe'[Len(pipe) + 1].kind = "idle" /\ \A i \in 1..Len(pipe) : pipe'[i] = pipe[i]
  BY <1>1, <1>3
<1>5. \A i \in 1..Len(pipe') : pipe'[i].kind = "answer" => i \in 1..Len(pipe)
  BY <1>4
<1>6. Sent' = Sent /\ Answers' = Answers
  BY <1>1, <1>4, <1>5 DEF Sent, Answers
<1>7. InOrder'
  <2>1. \A i, j \in 1..Len(stdin') : i < j => stdin'[i].id < stdin'[j].id
    BY <1>1, <1>2 DEF InOrder
  <2>2. \A i, j \in 1..Len(pipe') :
          i < j /\ pipe'[i].kind = "answer" /\ pipe'[j].kind = "answer" => pipe'[i].id < pipe'[j].id
    BY <1>2, <1>4, <1>5 DEF InOrder
  <2> QED BY <2>1, <2>2 DEF InOrder
<1>8. (\A u \in Tasks : Waiting(u)' <=> Waiting(u)) /\ (\A u \in Tasks : Taken(u)' <=> Taken(u))
  BY <1>1, <1>6 DEF Waiting, Taken
<1>9. OlderFirst' /\ Accompanied' /\ LastTakenLoaded'
  BY <1>1, <1>2, <1>6, <1>8 DEF OlderFirst, Accompanied, LastTakenLoaded, Effect
<1> QED BY <1>7, <1>9

\* Answers that are read together answer their callers together.
LEMMA ReadChunkKeepsSession ==
  ASSUME TypeInv, LinkInv, SessionInv, ReadChunk
  PROVE  SessionInv'
<1> SUFFICES ASSUME Live' PROVE (InOrder /\ OlderFirst /\ Accompanied /\ LastTakenLoaded)'
  BY DEF SessionInv
<1>1. PICK n \in 1..Len(pipe) :
        /\ pc' = [t \in Tasks |->
                    IF pc[t] = "call" /\ on[t] = reader
                       /\ \E i \in 1..n : pipe[i].kind = "answer" /\ pipe[i].id = call[t].id
                    THEN "answered" ELSE pc[t]]
        /\ pipe' = SubSeq(pipe, n + 1, Len(pipe))
        /\ reader # None /\ engines[reader] = "running"
        /\ UNCHANGED <<connected, closed, sessionId, lapse, stdin, loaded, call, calls>>
  BY DEF ReadChunk, clientVars, linkVars
<1>2. InOrder /\ OlderFirst /\ Accompanied /\ LastTakenLoaded
  BY <1>1 DEF SessionInv, Live
<1>t. TypeOK /\ pipe \in Seq(Message) /\ reader \in Numbers
  BY <1>1 DEF TypeInv, TypeOK
<1>3. \A u \in Tasks : pc[u] = "call" => on[u] = reader
  BY <1>1, <1>t DEF LinkInv, CallsOnRunning, RunningIsReader, Live
<1>4. /\ Len(pipe) \in Nat /\ Len(pipe') = Len(pipe) - n
      /\ \A i \in 1..Len(pipe') : i + n \in 1..Len(pipe) /\ pipe'[i] = pipe[i + n]
      /\ \A i \in 1..Len(pipe) : i \in 1..n \/ (i - n \in 1..Len(pipe') /\ pipe[i] = pipe'[i - n])
  BY <1>1, <1>t
<1> DEFINE Read == {a \in Numbers : \E i \in 1..n : pipe[i].kind = "answer" /\ pipe[i].id = a}
<1>5. Answers = Read \cup Answers'
  <2>1. \A i \in 1..n : i \in 1..Len(pipe)
    BY <1>4
  <2> QED BY <1>4, <2>1 DEF Answers
<1>6. \A a \in Read : \A b \in Answers' : a < b
  <2> SUFFICES ASSUME NEW i \in 1..n, NEW j \in 1..Len(pipe'),
                      pipe[i].kind = "answer", pipe'[j].kind = "answer"
               PROVE  pipe[i].id < pipe'[j].id
    BY DEF Answers
  <2>1. i \in 1..Len(pipe) /\ j + n \in 1..Len(pipe) /\ i < j + n
    BY <1>4
  <2> QED BY <1>2, <1>4, <2>1 DEF InOrder
<1>7. \A u \in Tasks : /\ pc'[u] = "answered" <=>
                            pc[u] = "answered" \/ (pc[u] = "call" /\ call[u].id \in Read)
                       /\ pc'[u] = "call" <=> pc[u] = "call" /\ call[u].id \notin Read
  <2>1. \A i \in 1..n : pipe[i].kind = "answer" => pipe[i].id \in Numbers
    <3>1. \A i \in 1..n : pipe[i] \in Message
      BY <1>4, <1>t
    <3> QED BY <3>1 DEF Message
  <2> QED BY <1>1, <1>3, <2>1
<1> HIDE DEF Read
<1>8. Sent' = Sent
  BY <1>1 DEF Sent
<1>9. (\A u \in Tasks : Waiting(u)' <=> Waiting(u)) /\ (\A u \in Tasks : Taken(u)' <=> Taken(u))
  BY <1>1, <1>7, <1>8 DEF Waiting, Taken
<1>10. InOrder'
  BY <1>1, <1>2, <1>4 DEF InOrder
<1>11. OlderFirst'
  <2>1. \A u \in Tasks : pc'[u] = "answered" =>
          (\A q \in Sent' : call'[u].id < q.id) /\ (\A a \in Answers' : call'[u].id < a)
    BY <1>1, <1>2, <1>5, <1>6, <1>7, <1>8 DEF OlderFirst
  <2> QED BY <1>1, <1>2, <1>5, <1>8, <1>9, <2>1 DEF OlderFirst
<1>12. Accompanied'
  <2>1. \A q \in Sent : q.id \notin Read
    BY <1>t, <1>2, <1>5, NumbersAreInts DEF OlderFirst
  <2> QED BY <1>1, <1>2, <1>5, <1>7, <1>8, <2>1 DEF Accompanied
<1>13. LastTakenLoaded'
  BY <1>1, <1>2, <1>9 DEF LastTakenLoaded, Effect
<1> QED BY <1>10, <1>11, <1>12, <1>13

\* Every step keeps the invariant.
LEMMA SessionStep == TypeInv /\ ClosedInv /\ LinkInv /\ SessionInv /\ [Next]_vars => SessionInv'
<1> SUFFICES ASSUME TypeInv, ClosedInv, LinkInv, SessionInv, [Next]_vars PROVE SessionInv'
  OBVIOUS
<1>t. TypeOK /\ pc \in [Tasks -> Points] /\ calls \in Nat /\ lapse \subseteq lapse'
  BY LapseGrows, NumbersAreInts DEF TypeInv, TypeOK, Points
<1>1. ASSUME NEW t \in Tasks,
             ConnectBegins(t) \/ CloseBegins(t) \/ CloseEngineEnds(t) \/ CancelClose(t)
      PROVE  ~Live'
  BY <1>1 DEF ConnectBegins, CloseBegins, CloseEngineEnds, CancelClose, ClosesTransport, linkVars,
     Live
<1>2. ASSUME NEW t \in Tasks, ConnectAgain(t) PROVE ~Live'
  <2> SUFFICES ASSUME Live' PROVE FALSE
    OBVIOUS
  <2>1. connected /\ reader = None /\ ~At(Closing) /\ lapse = {}
    BY <1>2 DEF ConnectAgain, Live
  <2>2. engine \in Numbers /\ engines[engine] = "running"
    BY <2>1 DEF LinkInv, ConnectedHasEngine, At, Closing
  <2> QED BY <2>1, <2>2, NoneIsNoNumber DEF LinkInv, RunningIsReader
<1>3. ASSUME NEW t \in Tasks, CloseTransportEnds(t) PROVE ~Live'
  BY <1>3, <1>t DEF CloseTransportEnds, clientVars, LinkInv, ClosingIsClosed, Closing, Live
<1>4. ASSUME Dies PROVE ~Live'
  BY <1>4 DEF Dies, Live
<1>5. ASSUME NEW t \in Tasks,
             \/ (\E op \in Ops : CallRefused(t, op))
             \/ ConnectFails(t) \/ ReceiveBegins(t) \/ ReceiveStops(t)
      PROVE  SessionInv'
  <2>1. /\ UNCHANGED <<connected, closed, stdin, pipe, sessionId, loaded, call>>
        /\ calls' = calls \/ calls' = calls + 1
        /\ pc[t] \in {"idle", "connect", "receive"}
    BY <1>5 DEF CallRefused, Called, ConnectFails, ReceiveBegins, ReceiveStops, clientVars,
       linkVars, droidVars
  <2>2. pc'[t] \in {"idle", "receive"} /\ \A u \in Tasks \ {t} : pc'[u] = pc[u]
    BY <1>5, <1>t DEF CallRefused, Called, ConnectFails, ReceiveBegins, ReceiveStops, Goes
  <2>3. \A u \in Tasks : (Waiting(u) \/ Waiting(u)') => pc'[u] = pc[u]
    BY <2>1, <2>2 DEF Waiting
  <2> QED BY <1>t, <2>1, <2>3, SessionFrame
<1>6. CASE UNCHANGED vars
  <2>1. \A u \in Tasks : (Waiting(u) \/ Waiting(u)') => pc'[u] = pc[u]
    BY <1>6 DEF vars, taskVars
  <2>2. UNCHANGED <<connected, closed, stdin, pipe, sessionId, loaded, call, calls>>
    BY <1>6 DEF vars, clientVars, linkVars, droidVars, taskVars
  <2> QED BY <1>t, <2>1, <2>2, SessionFrame
<1>7. ~Live' => SessionInv'
  BY DEF SessionInv
<1> QED
  BY <1>1, <1>2, <1>3, <1>4, <1>5, <1>6, <1>7, ConnectEndsKeepsSession, CallsKeepSession,
     CallReturnsKeepsSession, CallFailsKeepsSession, ReadChunkKeepsSession, TakeKeepsSession,
     TurnEndsKeepsSession
  DEF Next, ConnectStep, CloseStep

\* The client names the session its process has whenever no call that changes it is on its
\* way, however such calls of several tasks overlap.
THEOREM ClientSessionIsLoaded == Spec => []SessionIsLoaded
<1> DEFINE Inv == TypeInv /\ ClosedInv /\ LinkInv /\ SessionInv
<1>1. Init => Inv
  <2> SUFFICES ASSUME Init PROVE Inv
    OBVIOUS
  <2>1. TypeInv /\ ClosedInv
    BY ClientInit DEF Init, ClosedInv, RunningIsConnected, OneConnects, RunningIsHeld, ClosedIsClosing
  <2>2. LinkInv
    BY DEF Init, LinkInv, RunningIsReader, ConnectedHasEngine, ClosingIsClosed, CallsOnRunning, Closing
  <2>3. SessionInv
    BY DEF Init, SessionInv, Live
  <2> QED BY <2>1, <2>2, <2>3
<1>2. Inv /\ [Next]_vars => Inv'
  BY TypeStep, ClosedInvStep, LinkStep, SessionStep
<1>3. Inv => SessionIsLoaded
  BY DEF SessionInv, Live, LastTakenLoaded, Taken, Waiting, Changing, SessionIsLoaded
<1> QED BY <1>1, <1>2, <1>3, PTL DEF Spec
=============================================================================
