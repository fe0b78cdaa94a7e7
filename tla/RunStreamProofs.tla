--------------------------- MODULE RunStreamProofs ---------------------------
(***************************************************************************)
(* Theorems about RunStream for any number of streams and events.          *)
(***************************************************************************)
EXTENDS RunStream, SequenceTheorems, TLAPS

-----------------------------------------------------------------------------
(* The inductive invariant *)

Made(s)  == pc[s] # "none"
Ended(t) == turn[t] \in {"completed", "interrupted"}
Parted(s) == pc[s] \in {"releasing", "over"}

\* Who has the session: a stream that was made and has not been finished.
HoldInv ==
  /\ \A s \in Streams : pc[s] = "none" => release[s] = "held" /\ ~started[s]
  /\ \A s \in Streams : Made(s) /\ release[s] # "finished" => active = s \/ session = "closed"
  /\ active # NoStream => Made(active) /\ release[active] # "finished"
  /\ \A s \in Streams : Parted(s) => release[s] # "held"
  /\ session = "closed" => interrupts = {}
  /\ \A s \in interrupts : release[s] = "finished"

\* A stream released by its session while that is open has been left by its consumer.
PartedInv ==
  session = "open" /\ "start_released" \notin Liberties =>
    \A s \in Streams : release[s] # "held" => Parted(s)

\* Every stream sends its message once, and the process takes it once.
MessageInv ==
  /\ \A i \in DOMAIN stdin : stdin[i][1] = "message" =>
       started[stdin[i][2]] /\ turn[stdin[i][2]] = "none"
  /\ \A t \in Streams : turn[t] # "none" => started[t]
  /\ \A i, j \in DOMAIN stdin : stdin[i][1] = "message" /\ stdin[j] = stdin[i] => i = j
  /\ \A t, u \in Running : t = u

\* A completion and a result come after the end of the turn, and a stream is done for a reason.
ResultAt(s) ==
  /\ result[s] => Ended(s)
  /\ done[s] => result[s] \/ error[s] \/ outcome[s] = "timeout"
  /\ outcome[s] = "timeout" => Parted(s) /\ started[s]
  /\ outcome[s] = "stopped" => Parted(s) /\ result[s]
  /\ expired[s] => started[s]
ResultInv ==
  /\ \A i \in DOMAIN pipe : pipe[i].kind = "completed" => Ended(pipe[i].turn)
  /\ \A s \in Streams : ResultAt(s)

\* An interrupt written after the message of a stream that is held was overtaken by it.
OrderInv ==
  /\ \A t \in Streams : started[t] /\ release[t] = "held" => interrupts \subseteq overtaken[t]
  /\ \A i, j \in DOMAIN stdin :
       stdin[i][1] = "message" /\ release[stdin[i][2]] = "held" /\ i < j /\ stdin[j][1] = "interrupt"
         => stdin[j][2] \in overtaken[stdin[i][2]]
  /\ \A t \in Running : release[t] = "held" =>
       \A i \in DOMAIN stdin : stdin[i][1] = "interrupt" => stdin[i][2] \in overtaken[t]

\* While the session is open the interrupt of a stream comes after its message.
BehindInv ==
  /\ \A i \in DOMAIN stdin : stdin[i][1] = "interrupt" => release[stdin[i][2]] = "finished"
  /\ session = "open" /\ "start_released" \notin Liberties =>
       \A i, j \in DOMAIN stdin :
         stdin[i][1] = "interrupt" /\ stdin[j] = <<"message", stdin[i][2]>> => j < i

Unattended(s) ==
  /\ turn[s] \in {"none", "running"}
  /\ started[s] /\ Parted(s) /\ outcome[s] # "failed" /\ ~error[s]
Interrupting(s) ==
  \/ release[s] = "interrupt" \/ s \in interrupts
  \/ \E i \in DOMAIN stdin : stdin[i] = <<"interrupt", s>>
NeverTold(s) == turn[s] = "none" /\ \A i \in DOMAIN stdin : stdin[i] # <<"message", s>>

AttendedAt(s) == Unattended(s) => Interrupting(s) \/ NeverTold(s)
AttendedInv ==
  session = "open" /\ link = "up" /\ "start_released" \notin Liberties =>
    \A s \in Streams : AttendedAt(s)

-----------------------------------------------------------------------------
(* Types *)

LEMMA ReleaseFacts ==
  ASSUME ConsumersOK, NEW s \in Streams, NEW interrupt, NEW how \in Outcomes, Release(s, interrupt, how)
  PROVE  /\ pc' \in [Streams -> Points] /\ outcome' \in [Streams -> Outcomes]
         /\ release' \in [Streams -> Releases]
         /\ outcome'[s] = how
         /\ \/ /\ release[s] = "held" /\ pc'[s] = "releasing"
               /\ release'[s] = IF interrupt THEN "interrupt" ELSE "plain"
            \/ release[s] # "held" /\ pc'[s] = "over" /\ release'[s] = release[s]
         /\ \A r \in Streams : r # s =>
              outcome'[r] = outcome[r] /\ pc'[r] = pc[r] /\ release'[r] = release[r]
<1>1. outcome' = [outcome EXCEPT ![s] = how]
  BY DEF Release
<1>2. \/ /\ release[s] = "held" /\ pc' = [pc EXCEPT ![s] = "releasing"]
         /\ release' = [release EXCEPT ![s] = IF interrupt THEN "interrupt" ELSE "plain"]
      \/ release[s] # "held" /\ pc' = [pc EXCEPT ![s] = "over"] /\ release' = release
  BY DEF Release
<1> QED BY <1>1, <1>2 DEF ConsumersOK, Points, Releases

LEMMA WokenFacts ==
  ASSUME ConsumersOK, NEW S, pc' = Woken(S)
  PROVE  /\ pc' \in [Streams -> Points]
         /\ \A s \in Streams : pc'[s] = pc[s] \/ (pc[s] = "waiting" /\ pc'[s] = "woken")
BY DEF ConsumersOK, Woken, Points

\* What Deliver does to the buffers and the consumers, for an answer or a notification.
LEMMA DeliverFacts ==
  ASSUME ConsumersOK, FlagsOK, ProcessOK, Deliver
  PROVE  /\ pipe # <<>> /\ link = "up" /\ Head(pipe) \in Notices /\ pipe' = Tail(pipe)
         /\ UNCHANGED <<outcome, seen, overtaken, started, release, expired, session, active, sink,
                        subscribed, interrupts, stdin, turn, emitted, asking, link>>
         /\ pc' \in [Streams -> Points]
         /\ \A s \in Streams : \/ pc'[s] = pc[s]
                               \/ pc[s] = "waiting" /\ pc'[s] = "woken"
                               \/ pc[s] = "starting" /\ pc'[s] = "accepted"
         /\ queue' \in [Streams -> Seq(Notices)]
         /\ {done', result', error'} \subseteq [Streams -> BOOLEAN]
         /\ \A s \in Streams :
              /\ result'[s] = (result[s] \/ (/\ Head(pipe).kind = "completed" /\ Head(pipe).turn = s
                                             /\ Listens(s) /\ ~expired[s]))
              /\ done'[s] => done[s] \/ result'[s] \/ error'[s]
              /\ error[s] => error'[s]
<1>1. /\ pipe # <<>> /\ link = "up" /\ pipe' = Tail(pipe)
      /\ UNCHANGED <<outcome, seen, overtaken, started, release, expired, session, active, sink,
                     subscribed, interrupts, stdin, turn, emitted, asking, link>>
  BY DEF Deliver, sessionVars, processVars
<1>2. Head(pipe) \in Notices
  BY <1>1 DEF ProcessOK
<1>3. CASE Head(pipe).kind = "accepted"
  <2>1. /\ pc' = [pc EXCEPT ![Head(pipe).turn] = IF @ = "starting" THEN "accepted" ELSE @]
        /\ UNCHANGED <<queue, done, result, error>>
    BY <1>3 DEF Deliver, Accept, bufferVars
  <2>2. /\ pc' \in [Streams -> Points]
        /\ \A s \in Streams : pc'[s] = pc[s] \/ (pc[s] = "starting" /\ pc'[s] = "accepted")
    BY <1>2, <2>1 DEF ConsumersOK, Points, Notices
  <2>3. \A s \in Streams : result[s] \in BOOLEAN
    BY DEF FlagsOK
  <2> QED BY <1>1, <1>2, <1>3, <2>1, <2>2, <2>3 DEF ConsumersOK, FlagsOK
<1>4. CASE Head(pipe).kind # "accepted"
  <2> DEFINE m == Head(pipe)
             takes == {s \in Streams : Listens(s) /\ ~expired[s] /\ Mine(s, m)}
  <2>0. Feed(m)
    BY <1>4 DEF Deliver
  <2>1. /\ queue' = [s \in Streams |-> IF s \in takes /\ m.kind # "malformed"
                                         THEN Append(queue[s], m) ELSE queue[s]]
        /\ done' = [s \in Streams |->
                      done[s] \/ (s \in takes /\ m.kind \in {"completed", "malformed"})]
        /\ result' = [s \in Streams |-> result[s] \/ (s \in takes /\ m.kind = "completed")]
        /\ error' = [s \in Streams |-> error[s] \/ (s \in takes /\ m.kind = "malformed")]
        /\ \E S : pc' = Woken(S)
    BY <2>0 DEF Feed
  <2>2. queue' \in [Streams -> Seq(Notices)]
    <3>1. \A s \in Streams : queue[s] \in Seq(Notices) /\ Append(queue[s], m) \in Seq(Notices)
      BY <1>2 DEF ConsumersOK
    <3> HIDE DEF m, takes
    <3> QED BY <2>1, <3>1
  <2>3. {done', result', error'} \subseteq [Streams -> BOOLEAN]
    <3> HIDE DEF m, takes
    <3> QED BY <2>1 DEF FlagsOK
  <2>4. /\ pc' \in [Streams -> Points]
        /\ \A s \in Streams : pc'[s] = pc[s] \/ (pc[s] = "waiting" /\ pc'[s] = "woken")
    BY <2>1, WokenFacts
  <2>5. ASSUME NEW s \in Streams
        PROVE  /\ result'[s] = (result[s] \/ (m.kind = "completed" /\ m.turn = s
                                              /\ Listens(s) /\ ~expired[s]))
               /\ done'[s] => done[s] \/ result'[s] \/ error'[s]
               /\ error[s] => error'[s]
    <3>1. s \in takes /\ m.kind = "completed" <=>
            m.kind = "completed" /\ m.turn = s /\ Listens(s) /\ ~expired[s]
      BY DEF Mine
    <3>2. /\ result'[s] = (result[s] \/ (s \in takes /\ m.kind = "completed"))
          /\ done'[s] = (done[s] \/ (s \in takes /\ m.kind \in {"completed", "malformed"}))
          /\ error'[s] = (error[s] \/ (s \in takes /\ m.kind = "malformed"))
      BY <2>1
    <3> HIDE DEF m, takes
    <3> QED BY <3>1, <3>2
  <2> QED BY <1>1, <1>2, <2>2, <2>3, <2>4, <2>5
<1> QED BY <1>3, <1>4

LEMMA FlagsStep == ConsumersOK /\ FlagsOK /\ ProcessOK /\ [Next]_vars => FlagsOK'
<1> SUFFICES ASSUME ConsumersOK, FlagsOK, ProcessOK, [Next]_vars PROVE FlagsOK'
  OBVIOUS
<1> USE DEF vars, consumerVars, bufferVars, sessionVars, processVars
<1>1. ASSUME NEW s \in Streams, ConsumerNext(s) PROVE FlagsOK'
  BY <1>1 DEF FlagsOK, ConsumerNext, MakeStream, Start, StartTooLate, StartReturns, StartFails,
              StartTimesOut, RaiseTimeout, Poll, PollTimesOut, PollEvent, PollEnd, PollWaits, Cancel,
              Leave, LeaveRelease, CancelAgain, DeadlinePasses, Finish, WriteInterrupt, HandlerFails
<1>2. CASE Deliver
  BY <1>2, DeliverFacts DEF FlagsOK
<1>3. CASE LoseLink
  BY <1>3 DEF FlagsOK, LoseLink
<1>4. CASE CloseBegins \/ CloseUnsubscribes \/ CloseEnds
  BY <1>4 DEF FlagsOK, CloseBegins, CloseUnsubscribes, CloseEnds
<1>5. CASE ProcessNext
  BY <1>5 DEF FlagsOK, ProcessNext, TakeInterrupt, TakeMessage, EmitEvent, AskUser, EmitMalformed,
              CompleteTurn
<1>6. CASE UNCHANGED vars
  BY <1>6 DEF FlagsOK
<1> QED BY <1>1, <1>2, <1>3, <1>4, <1>5, <1>6 DEF Next

LEMMA SessionStep == SessionOK /\ ConsumersOK /\ FlagsOK /\ ProcessOK /\ [Next]_vars => SessionOK'
<1> SUFFICES ASSUME SessionOK, ConsumersOK, FlagsOK, ProcessOK, [Next]_vars PROVE SessionOK'
  OBVIOUS
<1> USE DEF vars, consumerVars, bufferVars, sessionVars, processVars
<1>1. ASSUME NEW s \in Streams, ConsumerNext(s) PROVE SessionOK'
  BY <1>1 DEF SessionOK, ConsumerNext, MakeStream, Start, StartTooLate, StartReturns, StartFails,
              StartTimesOut, Poll, PollTimesOut, PollEvent, PollEnd, PollWaits, Cancel,
              Leave, LeaveRelease, CancelAgain, DeadlinePasses, Finish, WriteInterrupt, HandlerFails
<1>2. CASE Deliver
  BY <1>2, DeliverFacts DEF SessionOK
<1>3. CASE LoseLink
  BY <1>3 DEF SessionOK, LoseLink
<1>4. CASE CloseBegins \/ CloseUnsubscribes \/ CloseEnds
  BY <1>4 DEF SessionOK, CloseBegins, CloseUnsubscribes, CloseEnds
<1>5. CASE ProcessNext
  BY <1>5 DEF SessionOK, ProcessNext, TakeInterrupt, TakeMessage, EmitEvent, AskUser, EmitMalformed,
              CompleteTurn
<1>6. CASE UNCHANGED vars
  BY <1>6 DEF SessionOK
<1> QED BY <1>1, <1>2, <1>3, <1>4, <1>5, <1>6 DEF Next

\* What the process has to read grows at its end and shrinks at its head.
StdinKept  == stdin' = stdin
StdinTaken == link = "up" /\ stdin # <<>> /\ stdin' = Tail(stdin)
StdinGrows(what, s) == stdin' = IF link = "up" THEN Append(stdin, <<what, s>>) ELSE stdin

LEMMA StdinTypes ==
  ASSUME ProcessOK, NEW s \in Streams, NEW what \in {"message", "interrupt"},
         StdinKept \/ StdinTaken \/ StdinGrows(what, s) \/ stdin' = <<>>
  PROVE  stdin' \in Seq({"message", "interrupt"} \X Streams)
<1> DEFINE M == {"message", "interrupt"} \X Streams
<1>1. stdin \in Seq(M) /\ <<what, s>> \in M
  BY DEF ProcessOK
<1>2. StdinTaken => stdin' \in Seq(M)
  <2> HIDE DEF M
  <2> QED BY <1>1 DEF StdinTaken
<1>3. StdinGrows(what, s) => stdin' \in Seq(M)
  <2> HIDE DEF M
  <2> QED BY <1>1 DEF StdinGrows
<1>4. stdin' = <<>> => stdin' \in Seq(M)
  OBVIOUS
<1> QED BY <1>1, <1>2, <1>3, <1>4 DEF StdinKept

LEMMA SendsTypes ==
  ASSUME ProcessOK, NEW t \in Streams, NEW kind \in Kinds, NEW n \in Nat, Sends(t, kind, n)
  PROVE  pipe' \in Seq(Notices)
<1>1. [turn |-> t, kind |-> kind, n |-> n] \in Notices
  BY DEF Notices
<1> QED BY <1>1 DEF Sends, ProcessOK

LEMMA ProcessStep == SessionOK /\ ConsumersOK /\ FlagsOK /\ ProcessOK /\ [Next]_vars => ProcessOK'
<1> SUFFICES ASSUME SessionOK, ConsumersOK, FlagsOK, ProcessOK, [Next]_vars PROVE ProcessOK'
  OBVIOUS
<1> USE DEF vars, consumerVars, bufferVars, sessionVars, processVars
<1>0. /\ 0 \in Nat
      /\ \A t \in Streams : emitted[t] < MaxEvents[t] => emitted[t] + 1 \in Nat
  BY StreamAssumption DEF ProcessOK
<1>1. ASSUME NEW s \in Streams, ConsumerNext(s) PROVE ProcessOK'
  <2>1. CASE Start(s) \/ WriteInterrupt(s)
    <3>1. UNCHANGED <<turn, emitted, asking, pipe, link>>
      BY <2>1 DEF Start, WriteInterrupt
    <3>2. \E what \in {"message", "interrupt"} : StdinGrows(what, s)
      BY <2>1 DEF Start, WriteInterrupt, StdinGrows
    <3>3. stdin' \in Seq({"message", "interrupt"} \X Streams)
      BY <3>2, StdinTypes
    <3> QED BY <3>1, <3>3 DEF ProcessOK
  <2>2. CASE HandlerFails(s)
    BY <2>2 DEF HandlerFails, ProcessOK
  <2>3. CASE ~Start(s) /\ ~WriteInterrupt(s) /\ ~HandlerFails(s)
    <3>1. UNCHANGED <<stdin, turn, emitted, asking, pipe, link>>
      BY <1>1, <2>3 DEF ConsumerNext, MakeStream, StartTooLate, StartReturns, StartFails, StartTimesOut,
                  Poll, PollTimesOut, PollEvent, PollEnd, PollWaits, Cancel, Leave, LeaveRelease,
                  CancelAgain, DeadlinePasses, Finish
    <3> QED BY <3>1 DEF ProcessOK
  <2> QED BY <2>1, <2>2, <2>3
<1>2. CASE Deliver
  <2>1. /\ pipe # <<>> /\ pipe' = Tail(pipe)
        /\ UNCHANGED <<stdin, turn, emitted, asking, link>>
    BY <1>2, DeliverFacts
  <2>2. pipe' \in Seq(Notices)
    BY <2>1 DEF ProcessOK
  <2> QED BY <2>1, <2>2 DEF ProcessOK
<1>3. CASE LoseLink
  BY <1>3 DEF ProcessOK, LoseLink
<1>4. CASE CloseBegins \/ CloseUnsubscribes \/ CloseEnds
  <2>1. /\ UNCHANGED <<turn, emitted, asking>>
        /\ UNCHANGED <<stdin, pipe, link>> \/ (stdin' = <<>> /\ pipe' = <<>> /\ link' = "closed")
    BY <1>4 DEF CloseBegins, CloseUnsubscribes, CloseEnds
  <2>2. \A S : <<>> \in Seq(S)
    OBVIOUS
  <2> QED BY <2>1, <2>2 DEF ProcessOK
<1>5. CASE ProcessNext
  <2>1. ASSUME NEW t \in Streams, TakeMessage(t) PROVE ProcessOK'
    <3>1. StdinTaken /\ Sends(t, "accepted", 0)
      BY <2>1 DEF TakeMessage, StdinTaken
    <3>2. stdin' \in Seq({"message", "interrupt"} \X Streams) /\ pipe' \in Seq(Notices)
      BY <1>0, <3>1, StdinTypes, SendsTypes DEF Kinds
    <3>3. turn' = [turn EXCEPT ![t] = "running"] /\ UNCHANGED <<emitted, asking, link>>
      BY <2>1 DEF TakeMessage
    <3> QED BY <3>2, <3>3 DEF ProcessOK
  <2>2. CASE TakeInterrupt
    <3>1. StdinTaken /\ UNCHANGED <<emitted, asking, link>>
      BY <2>2 DEF TakeInterrupt, StdinTaken
    <3>2. \/ UNCHANGED <<turn, pipe>>
          \/ \E t \in Streams : turn' = [turn EXCEPT ![t] = "interrupted"] /\ Sends(t, "completed", 0)
      BY <2>2 DEF TakeInterrupt, Running
    <3>3. stdin' \in Seq({"message", "interrupt"} \X Streams)
      <4>1. \E i \in DOMAIN stdin : stdin[i][2] \in Streams
        <5>1. 1 \in DOMAIN stdin /\ stdin[1] \in {"message", "interrupt"} \X Streams
          BY <3>1 DEF StdinTaken, ProcessOK
        <5> QED BY <5>1
      <4> QED BY <3>1, <4>1, StdinTypes
    <3>4. pipe' \in Seq(Notices) /\ turn' \in [Streams -> {"none", "running", "completed", "interrupted"}]
      BY <1>0, <3>2, SendsTypes DEF Kinds, ProcessOK
    <3> QED BY <3>1, <3>3, <3>4 DEF ProcessOK
  <2>3. ASSUME NEW t \in Streams, EmitEvent(t) \/ EmitMalformed(t) \/ AskUser(t) \/ CompleteTurn(t)
        PROVE  ProcessOK'
    <3>1. UNCHANGED <<stdin, link>>
      BY <2>3 DEF EmitEvent, EmitMalformed, AskUser, CompleteTurn
    <3>2. \/ pipe' = pipe
          \/ \E kind \in Kinds : Sends(t, kind, 0)
          \/ emitted[t] < MaxEvents[t] /\ \E kind \in Kinds : Sends(t, kind, emitted[t] + 1)
      BY <2>3 DEF EmitEvent, EmitMalformed, AskUser, CompleteTurn, Kinds
    <3>3. pipe' \in Seq(Notices)
      BY <1>0, <3>2, SendsTypes DEF ProcessOK
    <3>4. /\ turn' \in [Streams -> {"none", "running", "completed", "interrupted"}]
          /\ emitted' \in [Streams -> Nat]
          /\ asking' \in [Streams -> {"unasked", "asked", "failed"}]
      BY <1>0, <2>3 DEF EmitEvent, EmitMalformed, AskUser, CompleteTurn, ProcessOK
    <3> QED BY <3>1, <3>3, <3>4 DEF ProcessOK
  <2> QED BY <1>5, <2>1, <2>2, <2>3 DEF ProcessNext
<1>6. CASE UNCHANGED vars
  BY <1>6 DEF ProcessOK
<1> QED BY <1>1, <1>2, <1>3, <1>4, <1>5, <1>6 DEF Next

LEMMA ConsumersStep == ConsumersOK /\ FlagsOK /\ SessionOK /\ ProcessOK /\ [Next]_vars => ConsumersOK'
<1> SUFFICES ASSUME ConsumersOK, FlagsOK, SessionOK, ProcessOK, [Next]_vars PROVE ConsumersOK'
  OBVIOUS
<1> USE DEF vars, consumerVars, bufferVars, sessionVars, processVars
<1>0. <<>> \in Seq(Notices)
  OBVIOUS
<1>1. ASSUME NEW s \in Streams, ConsumerNext(s) PROVE ConsumersOK'
  <2>1. CASE MakeStream(s) \/ StartReturns(s) \/ PollWaits(s) \/ LeaveRelease(s)
             \/ CancelAgain(s) \/ DeadlinePasses(s) \/ Finish(s) \/ WriteInterrupt(s)
    BY <2>1 DEF ConsumersOK, Points, Outcomes, Releases, MakeStream, StartReturns, PollWaits,
                LeaveRelease, CancelAgain, DeadlinePasses, Finish, WriteInterrupt
  <2>5. CASE Start(s)
    <3>1. interrupts \in SUBSET Streams
      BY DEF SessionOK
    <3>2. overtaken' \in [Streams -> SUBSET Streams]
      BY <2>5, <3>1 DEF ConsumersOK, Start
    <3> QED BY <2>5, <3>2 DEF ConsumersOK, Points, Outcomes, Start
  <2>2. CASE PollEvent(s)
    <3>1. queue[s] \in Seq(Notices) /\ seen[s] \in Seq(Notices) /\ queue[s] # <<>>
      BY <2>2 DEF ConsumersOK, PollEvent
    <3>2. Append(seen[s], Head(queue[s])) \in Seq(Notices) /\ Tail(queue[s]) \in Seq(Notices)
      BY <3>1
    <3> QED BY <2>2, <3>2 DEF ConsumersOK, Points, PollEvent
  <2>3. CASE HandlerFails(s)
    <3>1. UNCHANGED <<outcome, seen, overtaken, release>>
      BY <2>3 DEF HandlerFails
    <3>2. \/ UNCHANGED <<queue, pc>>
          \/ /\ sink \in Streams /\ pc' = Woken({sink})
             /\ queue' = [queue EXCEPT ![sink] = Append(@, [turn |-> s, kind |-> "failure", n |-> 0])]
      BY <2>3 DEF HandlerFails, SessionOK
    <3>3. [turn |-> s, kind |-> "failure", n |-> 0] \in Notices
      BY StreamAssumption DEF Notices, Kinds
    <3>4. queue' \in [Streams -> Seq(Notices)]
      <4> DEFINE m == [turn |-> s, kind |-> "failure", n |-> 0]
      <4>1. m \in Notices
        BY <3>3
      <4>2. queue' = queue \/ (sink \in Streams /\ queue' = [queue EXCEPT ![sink] = Append(@, m)])
        BY <3>2
      <4>3. \A r \in Streams : Append(queue[r], m) \in Seq(Notices)
        BY <4>1 DEF ConsumersOK
      <4> HIDE DEF m
      <4> QED BY <4>2, <4>3 DEF ConsumersOK
    <3>5. pc' \in [Streams -> Points]
      BY <3>2, WokenFacts DEF ConsumersOK
    <3> QED BY <3>1, <3>4, <3>5 DEF ConsumersOK
  <2>4. CASE \/ StartTooLate(s) \/ StartTimesOut(s) \/ PollTimesOut(s)
             \/ StartFails(s) \/ PollEnd(s) \/ Cancel(s) \/ Leave(s)
    <3>1. /\ UNCHANGED <<seen, overtaken>>
          /\ queue' = queue \/ queue' = [queue EXCEPT ![s] = <<>>]
      BY <2>4 DEF StartTooLate, StartTimesOut, PollTimesOut, StartFails, PollEnd, Cancel, Leave,
                  RaiseTimeout
    <3>2. \E interrupt \in BOOLEAN, how \in Outcomes : Release(s, interrupt, how)
      BY <2>4 DEF StartTooLate, StartTimesOut, PollTimesOut, StartFails, PollEnd, Cancel, Leave,
                  RaiseTimeout, Outcomes
    <3>3. /\ pc' \in [Streams -> Points] /\ outcome' \in [Streams -> Outcomes]
          /\ release' \in [Streams -> Releases]
      BY <3>2, ReleaseFacts
    <3>4. queue' \in [Streams -> Seq(Notices)]
      BY <1>0, <3>1 DEF ConsumersOK
    <3> QED BY <3>1, <3>3, <3>4 DEF ConsumersOK
  <2> QED BY <1>1, <2>1, <2>2, <2>3, <2>4, <2>5 DEF ConsumerNext, Poll
<1>2. CASE Deliver
  BY <1>2, DeliverFacts DEF ConsumersOK
<1>3. CASE LoseLink
  BY <1>3, WokenFacts DEF ConsumersOK, LoseLink
<1>4. CASE CloseBegins \/ CloseUnsubscribes \/ CloseEnds
  BY <1>4 DEF ConsumersOK, Releases, CloseBegins, CloseUnsubscribes, CloseEnds
<1>5. CASE ProcessNext
  BY <1>5 DEF ConsumersOK, ProcessNext, TakeInterrupt, TakeMessage, EmitEvent, AskUser, EmitMalformed,
              CompleteTurn
<1>6. CASE UNCHANGED vars
  BY <1>6 DEF ConsumersOK
<1> QED BY <1>1, <1>2, <1>3, <1>4, <1>5, <1>6 DEF Next

-----------------------------------------------------------------------------
(* Who holds the session *)

\* The actions that release a stream, and those that only move its consumer.
Parts(s) == \/ StartTooLate(s) \/ StartFails(s) \/ StartTimesOut(s)
            \/ PollTimesOut(s) \/ PollEnd(s) \/ Cancel(s) \/ Leave(s)
Moves(s) == StartReturns(s) \/ PollEvent(s) \/ PollWaits(s) \/ DeadlinePasses(s)

LEMMA ConsumerSplit ==
  ASSUME NEW s \in Streams, ConsumerNext(s)
  PROVE  \/ MakeStream(s) \/ Start(s) \/ Parts(s) \/ Moves(s) \/ LeaveRelease(s) \/ CancelAgain(s)
         \/ Finish(s) \/ WriteInterrupt(s) \/ HandlerFails(s)
BY DEF ConsumerNext, Poll, Parts, Moves

LEMMA PartsFacts ==
  ASSUME ConsumersOK, NEW s \in Streams, Parts(s)
  PROVE  /\ pc[s] # "none" /\ (pc[s] = "over" => MayStart(s)) /\ pc[s] # "releasing"
         /\ \A r \in Streams : r # s => pc'[r] = pc[r] /\ release'[r] = release[r] /\ outcome'[r] = outcome[r]
         /\ outcome'[s] # "none" /\ release'[s] # "held"
         /\ \/ release[s] = "held" /\ pc'[s] = "releasing" /\ release'[s] \in {"interrupt", "plain"}
            \/ release[s] # "held" /\ pc'[s] = "over" /\ release'[s] = release[s]
         /\ UNCHANGED <<seen, overtaken, sessionVars, stdin, processVars, pipe, link>>
         /\ started' \in {started, [started EXCEPT ![s] = TRUE]}
<1>1. /\ pc[s] # "none" /\ (pc[s] = "over" => MayStart(s)) /\ pc[s] # "releasing"
      /\ UNCHANGED <<seen, overtaken, sessionVars, stdin, processVars, pipe, link>>
      /\ started' \in {started, [started EXCEPT ![s] = TRUE]}
  BY DEF Parts, StartTooLate, StartTimesOut, PollTimesOut, StartFails, PollEnd, Cancel, Leave,
         Runnable, MayStart
<1>2. \E interrupt \in BOOLEAN, how \in Outcomes : how # "none" /\ Release(s, interrupt, how)
  BY DEF Parts, StartTooLate, StartTimesOut, PollTimesOut, StartFails, PollEnd, Cancel, Leave,
         RaiseTimeout, Outcomes
<1>3. PICK interrupt \in BOOLEAN, how \in Outcomes : how # "none" /\ Release(s, interrupt, how)
  BY <1>2
<1>4. release[s] \in Releases
  BY DEF ConsumersOK
<1> QED BY <1>1, <1>3, <1>4, ReleaseFacts DEF Releases

LEMMA MovesFacts ==
  ASSUME ConsumersOK, NEW s \in Streams, Moves(s)
  PROVE  /\ UNCHANGED <<outcome, overtaken, started, release, done, result, error, sessionVars, stdin,
                        processVars, pipe, link>>
         /\ \A r \in Streams : r # s => pc'[r] = pc[r]
         /\ pc'[s] = pc[s] \/ (pc[s] \in {"accepted", "ready", "waiting", "woken"}
                               /\ pc'[s] \in {"ready", "waiting"})
BY DEF Moves, StartReturns, PollEvent, PollWaits, DeadlinePasses, ConsumersOK, consumerVars, bufferVars,
       Runnable

\* Nothing about the session changes, and no stream is made, released or left.
LEMMA HoldKept ==
  ASSUME SessionOK, HoldInv, PartedInv, UNCHANGED <<started, release, session, active, interrupts>>,
         \A s \in Streams : Made(s)' <=> Made(s),
         \A s \in Streams : Parted(s)' <=> Parted(s)
  PROVE  HoldInv' /\ PartedInv'
<1>1. \A s \in Streams : pc'[s] = "none" <=> pc[s] = "none"
  BY DEF Made
<1>2. PartedInv'
  BY DEF PartedInv
<1>3. active # NoStream => pc'[active] # "none" /\ release[active] # "finished"
  <2>1. active # NoStream => active \in Streams /\ Made(active) /\ release[active] # "finished"
    BY DEF HoldInv, SessionOK
  <2> QED BY <2>1 DEF Made
<1> QED BY <1>1, <1>2, <1>3 DEF HoldInv, Made

\* Waking a consumer, or accepting its start, makes, releases and leaves no stream.
LEMMA WakingKept ==
  ASSUME NEW s \in Streams,
         \/ pc'[s] = pc[s]
         \/ pc[s] = "waiting" /\ pc'[s] = "woken"
         \/ pc[s] = "starting" /\ pc'[s] = "accepted"
         \/ pc[s] \in {"accepted", "ready", "waiting", "woken"} /\ pc'[s] \in {"ready", "waiting"}
  PROVE  (Made(s)' <=> Made(s)) /\ (Parted(s)' <=> Parted(s))
BY DEF Made, Parted

LEMMA HoldConsumer ==
  ASSUME TypeOK, HoldInv, PartedInv, NEW s \in Streams, ConsumerNext(s)
  PROVE  HoldInv' /\ PartedInv'
<1>0. ConsumersOK /\ FlagsOK /\ SessionOK /\ ProcessOK
  BY DEF TypeOK
<1> USE DEF consumerVars, bufferVars, sessionVars, processVars
<1>h. /\ \A r \in Streams : pc[r] = "none" => release[r] = "held" /\ ~started[r]
      /\ \A r \in Streams : pc[r] # "none" /\ release[r] # "finished" => active = r \/ session = "closed"
      /\ active # NoStream => active \in Streams /\ pc[active] # "none" /\ release[active] # "finished"
      /\ \A r \in Streams : Parted(r) => release[r] # "held"
      /\ session = "closed" => interrupts = {}
      /\ \A r \in interrupts : r \in Streams /\ release[r] = "finished"
  BY <1>0 DEF HoldInv, Made, SessionOK
<1>1. CASE MakeStream(s)
  <2>1. /\ pc[s] = "none" /\ pc'[s] = "created" /\ \A r \in Streams : r # s => pc'[r] = pc[r]
        /\ session = "open" /\ active = NoStream /\ active' = s
        /\ UNCHANGED <<started, release, session, interrupts>>
    BY <1>0, <1>1 DEF MakeStream, ConsumersOK
  <2>2. s # NoStream /\ release[s] = "held"
    BY <1>h, <2>1, StreamAssumption
  <2>3. HoldInv'
    <3>1. \A r \in Streams : r # NoStream
      BY StreamAssumption
    <3>2. \A r \in Streams : pc'[r] # "none" /\ release[r] # "finished" => active' = r
      BY <1>h, <2>1, <3>1
    <3>3. /\ \A r \in Streams : pc'[r] = "none" => release[r] = "held" /\ ~started[r]
          /\ \A r \in Streams : Parted(r)' => release[r] # "held"
      BY <1>h, <2>1 DEF Parted
    <3>4. pc'[active'] # "none" /\ release[active'] # "finished"
      BY <2>1, <2>2
    <3> QED BY <1>h, <2>1, <3>2, <3>3, <3>4 DEF HoldInv, Made
  <2>4. PartedInv'
    BY <2>1, <2>2 DEF PartedInv, Parted
  <2> QED BY <2>3, <2>4
<1>2. CASE Start(s)
  <2>1. /\ pc[s] \in {"created", "over"} /\ pc'[s] = "starting"
        /\ \A r \in Streams : r # s => pc'[r] = pc[r]
        /\ started' = [started EXCEPT ![s] = TRUE]
        /\ pc[s] = "over" => "start_released" \in Liberties
        /\ UNCHANGED <<release, session, active, interrupts>>
    BY <1>0, <1>2 DEF Start, MayStart, ConsumersOK
  <2>2. \A r \in Streams : (Made(r)' <=> Made(r)) /\ (Parted(r)' => Parted(r))
    BY <2>1 DEF Made, Parted
  <2>3. HoldInv'
    BY <1>h, <2>1, <2>2 DEF HoldInv, Made, FlagsOK
  <2>4. PartedInv'
    BY <2>1 DEF PartedInv, Parted
  <2> QED BY <2>3, <2>4
<1>3. CASE Parts(s)
  <2>1. /\ pc[s] # "none" /\ pc[s] # "releasing" /\ pc'[s] \in {"releasing", "over"}
        /\ \A r \in Streams : r # s => pc'[r] = pc[r] /\ release'[r] = release[r]
        /\ release'[s] # "held" /\ (release'[s] = "finished" => release[s] = "finished")
        /\ release'[s] = release[s] \/ release[s] = "held"
        /\ started' \in {started, [started EXCEPT ![s] = TRUE]}
        /\ UNCHANGED <<session, active, interrupts>>
    BY <1>0, <1>3, PartsFacts
  <2>2. \A r \in Streams : r # s => started'[r] = started[r]
    BY <1>0, <2>1 DEF FlagsOK
  <2>3. /\ \A r \in Streams : pc'[r] = "none" => release'[r] = "held" /\ ~started'[r]
        /\ \A r \in Streams : pc'[r] # "none" /\ release'[r] # "finished" => active = r \/ session = "closed"
    BY <1>h, <2>1, <2>2
  <2>4. active # NoStream => pc'[active] # "none" /\ release'[active] # "finished"
    BY <1>h, <2>1
  <2>5. \A r \in Streams : Parted(r)' => release'[r] # "held"
    BY <1>h, <2>1 DEF Parted
  <2>6. \A r \in interrupts : release'[r] = "finished"
    BY <1>h, <2>1
  <2>7. HoldInv'
    BY <1>h, <2>1, <2>3, <2>4, <2>5, <2>6 DEF HoldInv, Made
  <2>8. PartedInv'
    BY <2>1 DEF PartedInv, Parted
  <2> QED BY <2>7, <2>8
<1>4. CASE Moves(s)
  <2>1. \A r \in Streams : (Made(r)' <=> Made(r)) /\ (Parted(r)' <=> Parted(r))
    BY <1>0, <1>4, MovesFacts, WakingKept
  <2>2. UNCHANGED <<started, release, session, active, interrupts>>
    BY <1>0, <1>4, MovesFacts
  <2> QED BY <1>0, <2>1, <2>2, HoldKept
<1>5. CASE LeaveRelease(s) \/ CancelAgain(s)
  <2>1. /\ UNCHANGED <<started, release, session, active, interrupts>>
        /\ pc[s] = "releasing" /\ pc'[s] = "over" /\ \A r \in Streams : r # s => pc'[r] = pc[r]
    BY <1>0, <1>5 DEF LeaveRelease, CancelAgain, ConsumersOK
  <2>2. \A r \in Streams : (Made(r)' <=> Made(r)) /\ (Parted(r)' <=> Parted(r))
    BY <2>1 DEF Made, Parted
  <2> QED BY <1>0, <2>1, <2>2, HoldKept
<1>6. CASE Finish(s)
  <2>1. /\ release[s] \in {"interrupt", "plain"} /\ release'[s] = "finished"
        /\ \A r \in Streams : r # s => release'[r] = release[r]
        /\ active' = IF active = s THEN NoStream ELSE active
        /\ interrupts' = IF release[s] = "interrupt" /\ session # "closed"
                           THEN interrupts \cup {s} ELSE interrupts
        /\ UNCHANGED <<pc, started, session>>
    BY <1>0, <1>6 DEF Finish, ConsumersOK
  <2>2. pc[s] # "none"
    BY <1>h, <2>1
  <2>3. /\ \A r \in Streams : pc[r] = "none" => release'[r] = "held" /\ ~started[r]
        /\ \A r \in Streams : pc[r] # "none" /\ release'[r] # "finished" => active' = r \/ session = "closed"
    BY <1>h, <2>1, <2>2
  <2>4. active' # NoStream => pc[active'] # "none" /\ release'[active'] # "finished"
    BY <1>h, <2>1
  <2>5. \A r \in Streams : Parted(r) => release'[r] # "held"
    BY <1>h, <2>1
  <2>6. (session = "closed" => interrupts' = {}) /\ \A r \in interrupts' : release'[r] = "finished"
    BY <1>h, <2>1
  <2>7. HoldInv'
    BY <2>1, <2>3, <2>4, <2>5, <2>6 DEF HoldInv, Made, Parted
  <2>8. PartedInv'
    BY <2>1 DEF PartedInv, Parted
  <2> QED BY <2>7, <2>8
<1>7. CASE WriteInterrupt(s)
  <2>1. /\ s \in interrupts /\ interrupts' = interrupts \ {s}
        /\ UNCHANGED <<pc, started, release, session, active>>
    BY <1>7 DEF WriteInterrupt
  <2>2. HoldInv'
    BY <1>h, <2>1 DEF HoldInv, Made, Parted
  <2>3. PartedInv'
    BY <2>1 DEF PartedInv, Parted
  <2> QED BY <2>2, <2>3
<1>8. CASE HandlerFails(s)
  <2>1. pc' = pc \/ \E S : pc' = Woken(S)
    BY <1>8 DEF HandlerFails
  <2>2. \A r \in Streams : (Made(r)' <=> Made(r)) /\ (Parted(r)' <=> Parted(r))
    BY <1>0, <2>1, WokenFacts, WakingKept
  <2>3. UNCHANGED <<started, release, session, active, interrupts>>
    BY <1>8 DEF HandlerFails
  <2> QED BY <1>0, <2>2, <2>3, HoldKept
<1> QED BY <1>1, <1>2, <1>3, <1>4, <1>5, <1>6, <1>7, <1>8, ConsumerSplit

LEMMA HoldStep == TypeOK /\ HoldInv /\ PartedInv /\ [Next]_vars => HoldInv' /\ PartedInv'
<1> SUFFICES ASSUME TypeOK, HoldInv, PartedInv, [Next]_vars PROVE HoldInv' /\ PartedInv'
  OBVIOUS
<1>0. ConsumersOK /\ FlagsOK /\ SessionOK /\ ProcessOK
  BY DEF TypeOK
<1> USE DEF vars, consumerVars, bufferVars, sessionVars, processVars
<1>1. ASSUME NEW s \in Streams, ConsumerNext(s) PROVE HoldInv' /\ PartedInv'
  BY <1>1, HoldConsumer
<1>2. CASE Deliver \/ LoseLink
  <2>1. \A r \in Streams : (Made(r)' <=> Made(r)) /\ (Parted(r)' <=> Parted(r))
    <3>1. CASE Deliver
      BY <1>0, <3>1, DeliverFacts, WakingKept
    <3>2. CASE LoseLink
      <4>1. \E S : pc' = Woken(S)
        BY <3>2 DEF LoseLink
      <4> QED BY <1>0, <4>1, WokenFacts, WakingKept
    <3> QED BY <1>2, <3>1, <3>2
  <2>2. UNCHANGED <<started, release, session, active, interrupts>>
    BY <1>0, <1>2, DeliverFacts DEF LoseLink
  <2> QED BY <1>0, <2>1, <2>2, HoldKept
<1>3. CASE CloseBegins
  <2>1. /\ UNCHANGED <<pc, started, active, interrupts>> /\ session' = "closing"
        /\ \A r \in Streams : \/ release'[r] = release[r]
                              \/ release[r] = "held" /\ r = active /\ release'[r] \in {"interrupt", "plain"}
        /\ session = "open"
    BY <1>0, <1>3 DEF CloseBegins, ConsumersOK, SessionOK
  <2>2. \A r \in Streams : pc[r] = "none" => release'[r] = "held" /\ ~started[r]
    <3>1. active # NoStream => pc[active] # "none"
      BY DEF HoldInv, Made
    <3>2. \A r \in Streams : r = active => pc[r] # "none"
      BY <3>1, StreamAssumption
    <3> QED BY <2>1, <3>2 DEF HoldInv
  <2>3. /\ \A r \in Streams : pc[r] # "none" /\ release'[r] # "finished" => active = r
        /\ active # NoStream => pc[active] # "none" /\ release'[active] # "finished"
        /\ \A r \in Streams : Parted(r) => release'[r] # "held"
        /\ \A r \in interrupts : release'[r] = "finished"
    BY <1>0, <2>1 DEF HoldInv, Made, SessionOK
  <2>4. HoldInv'
    BY <2>1, <2>2, <2>3 DEF HoldInv, Made, Parted
  <2> QED BY <2>1, <2>4 DEF PartedInv
<1>4. CASE CloseUnsubscribes \/ CloseEnds
  <2>1. /\ UNCHANGED <<pc, started, release>> /\ session' # "open"
        /\ \/ session' = "closed" /\ active' = NoStream /\ interrupts' = {}
           \/ session # "closed" /\ session' = "detached" /\ UNCHANGED <<active, interrupts>>
    BY <1>4 DEF CloseUnsubscribes, CloseEnds
  <2>2. CASE session' = "closed" /\ active' = NoStream /\ interrupts' = {}
    BY <2>1, <2>2 DEF HoldInv, PartedInv, Made, Parted
  <2>3. CASE session # "closed" /\ session' = "detached" /\ UNCHANGED <<active, interrupts>>
    BY <2>1, <2>3 DEF HoldInv, PartedInv, Made, Parted
  <2> QED BY <2>1, <2>2, <2>3
<1>5. CASE ProcessNext \/ UNCHANGED vars
  <2>1. UNCHANGED <<pc, started, release, session, active, interrupts>>
    BY <1>5 DEF ProcessNext, TakeInterrupt, TakeMessage, EmitEvent, AskUser, EmitMalformed, CompleteTurn
  <2>2. \A r \in Streams : (Made(r)' <=> Made(r)) /\ (Parted(r)' <=> Parted(r))
    BY <2>1 DEF Made, Parted
  <2> QED BY <1>0, <2>1, <2>2, HoldKept
<1> QED BY <1>1, <1>2, <1>3, <1>4, <1>5 DEF Next

-----------------------------------------------------------------------------
(* Who is attached to it *)

AttachedInv == "start_released" \notin Liberties => OneAttached

LEMMA AttachedStep ==
  TypeOK /\ HoldInv /\ PartedInv /\ AttachedInv /\ [Next]_vars => AttachedInv'
<1> SUFFICES ASSUME TypeOK, HoldInv, PartedInv, AttachedInv, [Next]_vars,
                    "start_released" \notin Liberties, session' = "open"
             PROVE  subscribed' \subseteq {active'} /\ sink' \in {active', NoStream}
  BY DEF AttachedInv, OneAttached
<1>0. ConsumersOK /\ FlagsOK /\ SessionOK /\ ProcessOK
  BY DEF TypeOK
<1> USE DEF vars, consumerVars, bufferVars, sessionVars, processVars
<1>a. session = "open" => subscribed \subseteq {active} /\ sink \in {active, NoStream}
  BY DEF AttachedInv, OneAttached
<1>1. ASSUME NEW s \in Streams, ConsumerNext(s)
      PROVE  subscribed' \subseteq {active'} /\ sink' \in {active', NoStream}
  <2>1. CASE MakeStream(s)
    <3>1. /\ session = "open" /\ active = NoStream /\ active' = s
          /\ subscribed' = subscribed /\ sink' = sink
      BY <2>1 DEF MakeStream
    <3>2. subscribed = {}
      BY <1>0, <1>a, <3>1, StreamAssumption DEF SessionOK
    <3> QED BY <1>a, <3>1, <3>2
  <2>2. CASE Start(s)
    <3>1. /\ pc[s] = "created" /\ sink' = s /\ subscribed' = subscribed \cup {s}
          /\ active' = active /\ session = "open"
      BY <2>2 DEF Start, MayStart
    <3>2. release[s] = "held"
      BY <3>1 DEF PartedInv, Parted
    <3>3. active = s
      BY <3>1, <3>2 DEF HoldInv, Made
    <3> QED BY <1>a, <3>1, <3>3
  <2>3. CASE Parts(s) \/ Moves(s)
    <3>1. UNCHANGED sessionVars
      BY <1>0, <2>3, PartsFacts, MovesFacts
    <3> QED BY <1>a, <3>1
  <2>4. CASE LeaveRelease(s) \/ CancelAgain(s) \/ WriteInterrupt(s) \/ HandlerFails(s)
    <3>1. UNCHANGED <<session, active, subscribed, sink>>
      BY <2>4 DEF LeaveRelease, CancelAgain, WriteInterrupt, HandlerFails
    <3> QED BY <1>a, <3>1
  <2>5. CASE Finish(s)
    BY <1>a, <2>5 DEF Finish
  <2> QED BY <1>1, <2>1, <2>2, <2>3, <2>4, <2>5, ConsumerSplit
<1>2. CASE Deliver
  BY <1>0, <1>a, <1>2, DeliverFacts
<1>3. CASE LoseLink \/ ProcessNext \/ UNCHANGED vars
  <2>1. UNCHANGED sessionVars
    BY <1>3 DEF LoseLink, ProcessNext, TakeInterrupt, TakeMessage, EmitEvent, AskUser, EmitMalformed,
                CompleteTurn
  <2> QED BY <1>a, <2>1
<1>4. ~CloseBegins /\ ~CloseUnsubscribes /\ ~CloseEnds
  BY DEF CloseBegins, CloseUnsubscribes, CloseEnds
<1> QED BY <1>1, <1>2, <1>3, <1>4 DEF Next

-----------------------------------------------------------------------------
(* What the process has to read *)

LEMMA StdinElement ==
  ASSUME ProcessOK, NEW i \in DOMAIN stdin
  PROVE  /\ i \in Nat /\ i >= 1 /\ i <= Len(stdin)
         /\ stdin[i][1] \in {"message", "interrupt"} /\ stdin[i][2] \in Streams
         /\ stdin[i] = <<stdin[i][1], stdin[i][2]>>
<1>1. stdin \in Seq({"message", "interrupt"} \X Streams)
  BY DEF ProcessOK
<1>2. stdin[i] \in {"message", "interrupt"} \X Streams /\ i \in Nat /\ i >= 1 /\ i <= Len(stdin)
  BY <1>1
<1> QED BY <1>2

LEMMA StdinTail ==
  ASSUME ProcessOK, StdinTaken
  PROVE  /\ link = "up" /\ 1 \in DOMAIN stdin /\ Head(stdin) = stdin[1]
         /\ \A i \in DOMAIN stdin' :
              i \in Nat /\ i + 1 # 1 /\ i + 1 \in DOMAIN stdin /\ stdin'[i] = stdin[i + 1]
         /\ \A i \in DOMAIN stdin : i # 1 => i - 1 \in DOMAIN stdin' /\ stdin'[i - 1] = stdin[i]
<1> DEFINE M == {"message", "interrupt"} \X Streams
<1>1. stdin \in Seq(M) /\ stdin # <<>> /\ stdin' = Tail(stdin) /\ link = "up"
  BY DEF ProcessOK, StdinTaken
<1> HIDE DEF M
<1> QED BY <1>1

LEMMA StdinAppend ==
  ASSUME ProcessOK, NEW what, NEW s, StdinGrows(what, s)
  PROVE  /\ \A i \in DOMAIN stdin' :
              \/ i \in DOMAIN stdin /\ stdin'[i] = stdin[i]
              \/ i = Len(stdin) + 1 /\ stdin'[i] = <<what, s>>
         /\ \A i \in DOMAIN stdin : i \in DOMAIN stdin' /\ stdin'[i] = stdin[i]
         /\ link = "up" => Len(stdin) + 1 \in DOMAIN stdin' /\ stdin'[Len(stdin) + 1] = <<what, s>>
         /\ Len(stdin) \in Nat
<1> DEFINE M == {"message", "interrupt"} \X Streams
           m == <<what, s>>
<1>1. stdin \in Seq(M) /\ stdin' = IF link = "up" THEN Append(stdin, m) ELSE stdin
  BY DEF ProcessOK, StdinGrows
<1> HIDE DEF M, m
<1>2. /\ \A i \in DOMAIN stdin' :
           \/ i \in DOMAIN stdin /\ stdin'[i] = stdin[i]
           \/ i = Len(stdin) + 1 /\ stdin'[i] = m
      /\ \A i \in DOMAIN stdin : i \in DOMAIN stdin' /\ stdin'[i] = stdin[i]
      /\ link = "up" => Len(stdin) + 1 \in DOMAIN stdin' /\ stdin'[Len(stdin) + 1] = m
      /\ Len(stdin) \in Nat
  BY <1>1
<1> QED BY <1>2 DEF m

LEMMA MessageKept ==
  ASSUME MessageInv, UNCHANGED turn, stdin' = stdin \/ stdin' = <<>>, link' = link \/ link' # "up",
         ProcessOK, \A s \in Streams : started[s] => started'[s]
  PROVE  MessageInv'
<1>1. \A i \in DOMAIN stdin' : i \in DOMAIN stdin /\ stdin' = stdin /\ stdin[i][2] \in Streams
  BY StdinElement
<1>2. \A i \in DOMAIN stdin' : stdin'[i][1] = "message" =>
        started'[stdin'[i][2]] /\ turn'[stdin'[i][2]] = "none"
  BY <1>1 DEF MessageInv
<1>3. \A i, j \in DOMAIN stdin' : stdin'[i][1] = "message" /\ stdin'[j] = stdin'[i] => i = j
  BY <1>1 DEF MessageInv
<1>4. (\A t \in Streams : turn'[t] # "none" => started'[t]) /\ \A t, u \in Running' : t = u
  BY DEF MessageInv, Running
<1> QED BY <1>2, <1>3, <1>4 DEF MessageInv

LEMMA MessageConsumer ==
  ASSUME TypeOK, MessageInv, NEW s \in Streams, ConsumerNext(s)
  PROVE  MessageInv'
<1>0. ConsumersOK /\ FlagsOK /\ SessionOK /\ ProcessOK
  BY DEF TypeOK
<1> USE DEF consumerVars, bufferVars, sessionVars, processVars
<1>1. CASE Start(s)
  <2>1. /\ ~started[s] /\ started'[s] /\ \A r \in Streams : started[r] => started'[r]
        /\ StdinGrows("message", s) /\ UNCHANGED <<turn, link>>
    BY <1>0, <1>1 DEF Start, MayStart, StdinGrows, FlagsOK
  <2>2. turn[s] = "none"
    BY <2>1 DEF MessageInv
  <2>3. \A i \in DOMAIN stdin' :
          \/ i \in DOMAIN stdin /\ stdin'[i] = stdin[i] /\ stdin[i][2] \in Streams
             /\ (stdin[i][1] = "message" => stdin[i][2] # s)
          \/ i = Len(stdin) + 1 /\ stdin'[i] = <<"message", s>>
    BY <1>0, <2>1, StdinAppend, StdinElement DEF MessageInv
  <2>4. \A i \in DOMAIN stdin' : stdin'[i][1] = "message" =>
          started'[stdin'[i][2]] /\ turn'[stdin'[i][2]] = "none"
    BY <2>1, <2>2, <2>3 DEF MessageInv
  <2>5. \A i, j \in DOMAIN stdin' : stdin'[i][1] = "message" /\ stdin'[j] = stdin'[i] => i = j
    BY <2>3 DEF MessageInv
  <2>6. (\A t \in Streams : turn'[t] # "none" => started'[t]) /\ \A t, u \in Running' : t = u
    BY <2>1 DEF MessageInv, Running
  <2> QED BY <2>4, <2>5, <2>6 DEF MessageInv
<1>2. CASE WriteInterrupt(s)
  <2>1. UNCHANGED <<started, turn, link>> /\ StdinGrows("interrupt", s)
    BY <1>2 DEF WriteInterrupt, StdinGrows
  <2>2. \A i \in DOMAIN stdin' :
          \/ i \in DOMAIN stdin /\ stdin'[i] = stdin[i]
          \/ stdin'[i] = <<"interrupt", s>>
    BY <1>0, <2>1, StdinAppend
  <2>3. \A i \in DOMAIN stdin' : stdin'[i][1] = "message" =>
          started'[stdin'[i][2]] /\ turn'[stdin'[i][2]] = "none"
    BY <2>1, <2>2 DEF MessageInv
  <2>4. \A i, j \in DOMAIN stdin' : stdin'[i][1] = "message" /\ stdin'[j] = stdin'[i] => i = j
    BY <2>2 DEF MessageInv
  <2>5. (\A t \in Streams : turn'[t] # "none" => started'[t]) /\ \A t, u \in Running' : t = u
    BY <2>1 DEF MessageInv, Running
  <2> QED BY <2>3, <2>4, <2>5 DEF MessageInv
<1>3. CASE ~Start(s) /\ ~WriteInterrupt(s)
  <2>1. UNCHANGED <<stdin, turn, link>> /\ started' \in {started, [started EXCEPT ![s] = TRUE]}
    <3>1. CASE Parts(s)
      BY <1>0, <3>1, PartsFacts
    <3>2. CASE Moves(s)
      BY <1>0, <3>2, MovesFacts
    <3>3. CASE ~Parts(s) /\ ~Moves(s)
      BY <1>3, <3>3, ConsumerSplit DEF MakeStream, LeaveRelease, CancelAgain, Finish, HandlerFails
    <3> QED BY <3>1, <3>2, <3>3
  <2>2. \A r \in Streams : started[r] => started'[r]
    BY <1>0, <2>1 DEF FlagsOK
  <2> QED BY <1>0, <2>1, <2>2, MessageKept
<1> QED BY <1>1, <1>2, <1>3

\* The head of stdin is taken, or the process ends its turn.
LEMMA MessageProcess ==
  ASSUME TypeOK, MessageInv, ProcessNext
  PROVE  MessageInv'
<1>0. ConsumersOK /\ FlagsOK /\ SessionOK /\ ProcessOK
  BY DEF TypeOK
<1> USE DEF consumerVars, bufferVars, sessionVars, processVars
<1>1. ASSUME NEW t \in Streams, TakeMessage(t) PROVE MessageInv'
  <2>1. /\ StdinTaken /\ Head(stdin) = <<"message", t>> /\ Running = {}
        /\ turn'[t] = "running" /\ \A u \in Streams : u # t => turn'[u] = turn[u]
        /\ UNCHANGED <<started, link>>
    BY <1>0, <1>1 DEF TakeMessage, StdinTaken, ProcessOK
  <2>2. /\ 1 \in DOMAIN stdin /\ stdin[1] = <<"message", t>>
        /\ \A i \in DOMAIN stdin' :
             i \in Nat /\ i + 1 # 1 /\ i + 1 \in DOMAIN stdin /\ stdin'[i] = stdin[i + 1]
    BY <1>0, <2>1, StdinTail
  <2>3. ASSUME NEW i \in DOMAIN stdin', stdin'[i][1] = "message"
        PROVE  started'[stdin'[i][2]] /\ turn'[stdin'[i][2]] = "none"
    <3>1. /\ i + 1 # 1 /\ i + 1 \in DOMAIN stdin /\ stdin'[i] = stdin[i + 1]
          /\ stdin[i + 1][2] \in Streams
          /\ stdin[i + 1] = <<"message", stdin[i + 1][2]>>
      BY <1>0, <2>2, <2>3, StdinElement
    <3>2. stdin[i + 1][2] # t
      BY <2>2, <3>1 DEF MessageInv
    <3> QED BY <2>1, <2>3, <3>1, <3>2 DEF MessageInv
  <2>4. \A i, j \in DOMAIN stdin' : stdin'[i][1] = "message" /\ stdin'[j] = stdin'[i] => i = j
    <3>1. \A i, j \in DOMAIN stdin' : stdin'[i][1] = "message" /\ stdin'[j] = stdin'[i] => i + 1 = j + 1
      BY <2>2 DEF MessageInv
    <3>2. \A i, j \in DOMAIN stdin' : i + 1 = j + 1 => i = j
      BY <2>2
    <3> QED BY <3>1, <3>2
  <2>5. started[t]
    BY <2>2 DEF MessageInv
  <2>6. (\A u \in Streams : turn'[u] # "none" => started'[u]) /\ \A u, v \in Running' : u = v
    BY <2>1, <2>5 DEF MessageInv, Running
  <2> QED BY <2>3, <2>4, <2>6 DEF MessageInv
<1>2. CASE TakeInterrupt
  <2>1. /\ StdinTaken /\ UNCHANGED <<started, link>>
        /\ \A u \in Streams : turn'[u] = turn[u] \/ (turn[u] = "running" /\ turn'[u] = "interrupted")
    BY <1>0, <1>2 DEF TakeInterrupt, StdinTaken, ProcessOK, Running
  <2>2. \A i \in DOMAIN stdin' : /\ i \in Nat /\ i + 1 \in DOMAIN stdin /\ stdin'[i] = stdin[i + 1]
                                 /\ stdin[i + 1][2] \in Streams
    BY <1>0, <2>1, StdinTail, StdinElement
  <2>3. \A i \in DOMAIN stdin' : stdin'[i][1] = "message" =>
          started'[stdin'[i][2]] /\ turn'[stdin'[i][2]] = "none"
    BY <2>1, <2>2 DEF MessageInv
  <2>4. \A i, j \in DOMAIN stdin' : stdin'[i][1] = "message" /\ stdin'[j] = stdin'[i] => i = j
    <3>1. \A i, j \in DOMAIN stdin' : stdin'[i][1] = "message" /\ stdin'[j] = stdin'[i] => i + 1 = j + 1
      BY <2>2 DEF MessageInv
    <3>2. \A i, j \in DOMAIN stdin' : i + 1 = j + 1 => i = j
      BY <2>2
    <3> QED BY <3>1, <3>2
  <2>5. (\A u \in Streams : turn'[u] # "none" => started'[u]) /\ \A u, v \in Running' : u = v
    BY <2>1 DEF MessageInv, Running
  <2> QED BY <2>3, <2>4, <2>5 DEF MessageInv
<1>3. ASSUME NEW t \in Streams, EmitEvent(t) \/ EmitMalformed(t) \/ AskUser(t) PROVE MessageInv'
  <2>1. UNCHANGED <<stdin, turn, link, started>>
    BY <1>3 DEF EmitEvent, EmitMalformed, AskUser
  <2> QED BY <1>0, <2>1, MessageKept
<1>4. ASSUME NEW t \in Streams, CompleteTurn(t) PROVE MessageInv'
  <2>1. /\ UNCHANGED <<started, stdin, link>> /\ turn[t] = "running" /\ turn'[t] = "completed"
        /\ \A u \in Streams : u # t => turn'[u] = turn[u]
    BY <1>0, <1>4 DEF CompleteTurn, ProcessOK, Running
  <2>2. \A i \in DOMAIN stdin : stdin[i][2] \in Streams
    BY <1>0, StdinElement
  <2>3. \A i \in DOMAIN stdin : stdin[i][1] = "message" =>
          started[stdin[i][2]] /\ turn'[stdin[i][2]] = "none"
    BY <2>1, <2>2 DEF MessageInv
  <2>4. (\A u \in Streams : turn'[u] # "none" => started'[u]) /\ \A u, v \in Running' : u = v
    BY <2>1 DEF MessageInv, Running
  <2> QED BY <2>1, <2>3, <2>4 DEF MessageInv
<1> QED BY <1>1, <1>2, <1>3, <1>4 DEF ProcessNext

LEMMA MessageStep == TypeOK /\ MessageInv /\ [Next]_vars => MessageInv'
<1> SUFFICES ASSUME TypeOK, MessageInv, [Next]_vars PROVE MessageInv'
  OBVIOUS
<1>0. ConsumersOK /\ FlagsOK /\ SessionOK /\ ProcessOK
  BY DEF TypeOK
<1> USE DEF vars, consumerVars, bufferVars, sessionVars, processVars
<1>1. ASSUME NEW s \in Streams, ConsumerNext(s) PROVE MessageInv'
  BY <1>1, MessageConsumer
<1>2. CASE \/ Deliver \/ LoseLink \/ CloseBegins \/ CloseUnsubscribes \/ CloseEnds \/ UNCHANGED vars
  <2>1. /\ UNCHANGED <<turn, started>>
        /\ stdin' = stdin \/ stdin' = <<>>
        /\ link' = link \/ link' # "up"
    BY <1>0, <1>2, DeliverFacts DEF LoseLink, CloseBegins, CloseUnsubscribes, CloseEnds
  <2> QED BY <1>0, <2>1, MessageKept
<1>3. CASE ProcessNext
  BY <1>3, MessageProcess
<1> QED BY <1>1, <1>2, <1>3 DEF Next
-----------------------------------------------------------------------------
(* Results *)

\* A turn that has ended stays so: its message is taken once.
LEMMA EndedStays ==
  ASSUME TypeOK, MessageInv, [Next]_vars, NEW t \in Streams, Ended(t)
  PROVE  Ended(t)'
<1>0. ConsumersOK /\ FlagsOK /\ SessionOK /\ ProcessOK
  BY DEF TypeOK
<1> USE DEF vars, consumerVars, bufferVars, sessionVars, processVars
<1>1. turn' = turn \/ ProcessNext
  <2>1. ASSUME NEW s \in Streams, ConsumerNext(s) PROVE turn' = turn
    <3>1. CASE Parts(s) \/ Moves(s)
      BY <1>0, <3>1, PartsFacts, MovesFacts
    <3>2. CASE ~Parts(s) /\ ~Moves(s)
      BY <2>1, <3>2, ConsumerSplit DEF MakeStream, Start, LeaveRelease, CancelAgain, Finish,
                                      WriteInterrupt, HandlerFails
    <3> QED BY <3>1, <3>2
  <2>2. CASE Deliver \/ LoseLink \/ CloseBegins \/ CloseUnsubscribes \/ CloseEnds
    BY <1>0, <2>2, DeliverFacts DEF LoseLink, CloseBegins, CloseUnsubscribes, CloseEnds
  <2> QED BY <2>1, <2>2 DEF Next
<1>2. ASSUME NEW u \in Streams, TakeMessage(u) PROVE Ended(t)'
  <2>1. /\ StdinTaken /\ Head(stdin) = <<"message", u>>
        /\ \A v \in Streams : v # u => turn'[v] = turn[v]
    BY <1>0, <1>2 DEF TakeMessage, StdinTaken, ProcessOK
  <2>2. 1 \in DOMAIN stdin /\ stdin[1] = <<"message", u>>
    BY <1>0, <2>1, StdinTail
  <2>3. u # t
    BY <2>2 DEF MessageInv, Ended
  <2> QED BY <2>1, <2>3 DEF Ended
<1>3. CASE ProcessNext /\ ~ \E u \in Streams : TakeMessage(u)
  BY <1>0, <1>3 DEF ProcessNext, TakeInterrupt, EmitEvent, AskUser, EmitMalformed, CompleteTurn,
                    Running, Ended, ProcessOK
<1> QED BY <1>1, <1>2, <1>3 DEF Ended

\* What is on its way to the reader was on its way before, or was just sent.
LEMMA PipeElements ==
  ASSUME ProcessOK, ConsumersOK, FlagsOK, [Next]_vars, NEW i \in DOMAIN pipe'
  PROVE  \/ \E j \in DOMAIN pipe : pipe'[i] = pipe[j] /\ pipe[j].turn \in Streams
         \/ pipe'[i].kind = "completed" => pipe'[i].turn \in Streams /\ turn'[pipe'[i].turn] \in {"completed", "interrupted"}
<1> USE DEF vars, consumerVars, bufferVars, sessionVars, processVars
<1>1. pipe \in Seq(Notices) /\ \A j \in DOMAIN pipe : pipe[j].turn \in Streams
  <2>1. \A m \in Notices : m.turn \in Streams
    BY DEF Notices
  <2> QED BY <2>1 DEF ProcessOK
<1>2. CASE pipe' = pipe \/ pipe' = <<>>
  BY <1>1, <1>2
<1>3. CASE pipe # <<>> /\ pipe' = Tail(pipe)
  <2>1. i + 1 \in DOMAIN pipe /\ pipe'[i] = pipe[i + 1]
    BY <1>1, <1>3
  <2> QED BY <1>1, <2>1
<1>4. ASSUME NEW m, pipe' = Append(pipe, m),
             m.kind = "completed" => m.turn \in Streams /\ turn'[m.turn] \in {"completed", "interrupted"}
      PROVE  \/ \E j \in DOMAIN pipe : pipe'[i] = pipe[j] /\ pipe[j].turn \in Streams
             \/ pipe'[i].kind = "completed" => pipe'[i].turn \in Streams /\ turn'[pipe'[i].turn] \in {"completed", "interrupted"}
  <2>1. pipe'[i] = m \/ (i \in DOMAIN pipe /\ pipe'[i] = pipe[i])
    BY <1>1, <1>4
  <2> QED BY <1>1, <1>4, <2>1
<1>5. \/ pipe' = pipe \/ pipe' = <<>> \/ (pipe # <<>> /\ pipe' = Tail(pipe))
      \/ \E m : pipe' = Append(pipe, m)
                /\ (m.kind = "completed" => m.turn \in Streams /\ turn'[m.turn] \in {"completed", "interrupted"})
  <2>1. ASSUME NEW s \in Streams, ConsumerNext(s) PROVE pipe' = pipe
    <3>1. CASE Parts(s) \/ Moves(s)
      BY <3>1, PartsFacts, MovesFacts
    <3>2. CASE ~Parts(s) /\ ~Moves(s)
      BY <2>1, <3>2, ConsumerSplit DEF MakeStream, Start, LeaveRelease, CancelAgain, Finish,
                                      WriteInterrupt, HandlerFails
    <3> QED BY <3>1, <3>2
  <2>2. CASE Deliver \/ LoseLink \/ CloseBegins \/ CloseUnsubscribes \/ CloseEnds
    BY <2>2, DeliverFacts DEF LoseLink, CloseBegins, CloseUnsubscribes, CloseEnds
  <2>3. CASE ProcessNext
    <3>1. ASSUME NEW t \in Streams, turn' = [turn EXCEPT ![t] = "interrupted"]
                                    \/ turn' = [turn EXCEPT ![t] = "completed"]
          PROVE  turn'[t] \in {"completed", "interrupted"}
      BY <3>1 DEF ProcessOK
    <3>2. \/ pipe' = pipe
          \/ \E t \in Streams : /\ Sends(t, "completed", 0)
                                /\ turn'[t] \in {"completed", "interrupted"}
          \/ \E t \in Streams, kind \in Kinds : kind # "completed" /\ \E n : Sends(t, kind, n)
      <4>1. CASE TakeInterrupt
        BY <3>1, <4>1 DEF TakeInterrupt, Running
      <4>2. ASSUME NEW t \in Streams, CompleteTurn(t)
            PROVE  Sends(t, "completed", 0) /\ turn'[t] \in {"completed", "interrupted"}
        BY <3>1, <4>2 DEF CompleteTurn
      <4>3. ASSUME NEW t \in Streams, TakeMessage(t) \/ EmitEvent(t) \/ EmitMalformed(t) \/ AskUser(t)
            PROVE  pipe' = pipe \/ \E kind \in Kinds : kind # "completed" /\ \E n : Sends(t, kind, n)
        BY <4>3 DEF TakeMessage, EmitEvent, EmitMalformed, AskUser, Kinds
      <4> QED BY <2>3, <4>1, <4>2, <4>3 DEF ProcessNext
    <3>3. ASSUME NEW t \in Streams, NEW kind, NEW n, Sends(t, kind, n)
          PROVE  \E m : pipe' = Append(pipe, m) /\ m.kind = kind /\ m.turn = t
      <4> WITNESS [turn |-> t, kind |-> kind, n |-> n]
      <4> QED BY <3>3 DEF Sends
    <3> QED BY <3>2, <3>3
  <2> QED BY <2>1, <2>2, <2>3 DEF Next
<1> QED BY <1>2, <1>3, <1>4, <1>5

\* The stream is not parted or started by the step, and gets a result only when its turn has ended.
LEMMA ResultKept ==
  ASSUME NEW s \in Streams, ResultAt(s), Ended(s) => Ended(s)', Parted(s) => Parted(s)',
         outcome'[s] = outcome[s], started[s] => started'[s],
         expired'[s] => expired[s] \/ started[s],
         result[s] => result'[s], error[s] => error'[s],
         result'[s] => result[s] \/ Ended(s)',
         done'[s] => done[s] \/ result'[s] \/ error'[s]
  PROVE  ResultAt(s)'
BY DEF ResultAt

\* How a release changes what the consumer is told.
LEMMA PartsResult ==
  ASSUME ConsumersOK, FlagsOK, NEW s \in Streams, Parts(s), ResultAt(s), Ended(s) => Ended(s)'
  PROVE  ResultAt(s)'
<1> USE DEF bufferVars
<1>0. Parted(s)' /\ (started[s] => started'[s]) /\ (outcome[s] # "timeout") /\ outcome[s] # "stopped"
  <2>1. Parted(s)' /\ (Parted(s) => outcome[s] = "left") /\ (started[s] => started'[s])
    BY PartsFacts DEF Parted, MayStart, FlagsOK
  <2> QED BY <2>1 DEF ResultAt
<1>1. CASE StartTooLate(s) \/ StartTimesOut(s) \/ PollTimesOut(s)
  <2>1. RaiseTimeout(s) /\ started'[s]
    BY <1>1 DEF StartTooLate, StartTimesOut, PollTimesOut, ResultAt, FlagsOK
  <2>2. outcome'[s] = "timeout" /\ ~result'[s]
    BY <2>1, ReleaseFacts DEF RaiseTimeout, FlagsOK, Outcomes, ConsumersOK
  <2> QED BY <1>0, <2>1, <2>2 DEF ResultAt
<1>2. CASE StartFails(s) \/ PollEnd(s) \/ Cancel(s) \/ Leave(s)
  <2>1. /\ UNCHANGED <<done, result, error, expired>>
        /\ outcome'[s] # "timeout"
        /\ outcome'[s] = "stopped" => done[s] /\ ~error[s]
    <3>1. \E interrupt \in BOOLEAN, how \in Outcomes \ {"timeout"} :
            Release(s, interrupt, how) /\ (how = "stopped" => done[s] /\ ~error[s])
      <4>1. CASE StartFails(s) \/ Cancel(s) \/ Leave(s)
        <5>1. \E interrupt \in BOOLEAN, how \in {"failed", "cancelled", "left"} : Release(s, interrupt, how)
          BY <4>1 DEF StartFails, Cancel, Leave, FlagsOK
        <5> QED BY <5>1 DEF Outcomes
      <4>2. CASE PollEnd(s)
        <5>1. Release(s, FALSE, IF error[s] THEN "failed" ELSE "stopped") /\ done[s]
          BY <4>2 DEF PollEnd
        <5>2. CASE error[s]
          <6>1. Release(s, FALSE, "failed")
            BY <5>1, <5>2
          <6>2. "failed" \in Outcomes \ {"timeout"} /\ "failed" # "stopped" /\ FALSE \in BOOLEAN
            BY DEF Outcomes
          <6> QED BY <6>1, <6>2
        <5>3. CASE ~error[s]
          BY <5>1, <5>3 DEF Outcomes
        <5> QED BY <5>2, <5>3
      <4> QED BY <1>2, <4>1, <4>2
    <3>2. UNCHANGED <<done, result, error, expired>>
      BY <1>2 DEF StartFails, PollEnd, Cancel, Leave
    <3> QED BY <3>1, <3>2, ReleaseFacts
  <2> QED BY <1>0, <2>1 DEF ResultAt
<1> QED BY <1>1, <1>2 DEF Parts

LEMMA ResultConsumer ==
  ASSUME TypeOK, ResultInv, NEW s \in Streams, ConsumerNext(s), NEW r \in Streams, Ended(r) => Ended(r)'
  PROVE  ResultAt(r)'
<1>0. ConsumersOK /\ FlagsOK /\ SessionOK /\ ProcessOK /\ ResultAt(r)
  BY DEF TypeOK, ResultInv
<1> USE DEF consumerVars, bufferVars, sessionVars, processVars
<1>1. CASE r = s /\ Parts(s)
  BY <1>0, <1>1, PartsResult
<1>2. CASE r = s /\ Start(s)
  <2>1. /\ outcome'[s] = "none" /\ started'[s] /\ UNCHANGED <<done, result, error>>
        /\ outcome[s] = "left" \/ ~Parted(s)
    BY <1>0, <1>2 DEF Start, MayStart, ConsumersOK, FlagsOK, Parted
  <2> QED BY <1>0, <1>2, <2>1 DEF ResultAt
<1>3. CASE r = s => ~Parts(s) /\ ~Start(s)
  <2>1. /\ outcome'[r] = outcome[r] /\ (started[r] => started'[r])
        /\ Parted(r) => Parted(r)'
    <3>1. CASE Parts(s)
      BY <1>0, <1>3, <3>1, PartsFacts DEF Parted, FlagsOK
    <3>2. CASE Moves(s)
      BY <1>0, <3>2, MovesFacts DEF Parted
    <3>3. CASE Start(s)
      BY <1>0, <1>3, <3>3 DEF Start, Parted, ConsumersOK, FlagsOK
    <3>4. CASE MakeStream(s) \/ LeaveRelease(s) \/ CancelAgain(s) \/ Finish(s) \/ WriteInterrupt(s)
      BY <1>0, <3>4 DEF MakeStream, LeaveRelease, CancelAgain, Finish, WriteInterrupt, Parted, ConsumersOK
    <3>5. CASE HandlerFails(s)
      <4>1. pc' = pc \/ \E S : pc' = Woken(S)
        BY <3>5 DEF HandlerFails
      <4>2. Parted(r) => Parted(r)'
        BY <1>0, <4>1, WokenFacts DEF Parted
      <4> QED BY <3>5, <4>2 DEF HandlerFails
    <3> QED BY <3>1, <3>2, <3>3, <3>4, <3>5, ConsumerSplit
  <2>2. /\ result'[r] = result[r] /\ error'[r] = error[r] /\ done'[r] = done[r]
        /\ expired'[r] => expired[r] \/ started[r]
    <3>1. CASE Parts(s)
      BY <1>0, <1>3, <3>1 DEF Parts, StartTooLate, StartTimesOut, PollTimesOut, StartFails, PollEnd, Cancel,
                              Leave, RaiseTimeout, FlagsOK
    <3>2. CASE Moves(s)
      BY <1>0, <3>2 DEF Moves, StartReturns, PollEvent, PollWaits, DeadlinePasses, FlagsOK
    <3>3. CASE ~Parts(s) /\ ~Moves(s)
      BY <3>3, ConsumerSplit DEF MakeStream, Start, LeaveRelease, CancelAgain, Finish, WriteInterrupt,
                                 HandlerFails
    <3> QED BY <3>1, <3>2, <3>3
  <2> QED BY <1>0, <2>1, <2>2, ResultKept
<1> QED BY <1>1, <1>2, <1>3

LEMMA ResultStep == TypeOK /\ MessageInv /\ ResultInv /\ [Next]_vars => ResultInv'
<1> SUFFICES ASSUME TypeOK, MessageInv, ResultInv, [Next]_vars PROVE ResultInv'
  OBVIOUS
<1>0. ConsumersOK /\ FlagsOK /\ SessionOK /\ ProcessOK
  BY DEF TypeOK
<1> USE DEF vars, consumerVars, bufferVars, sessionVars, processVars
<1>e. \A t \in Streams : Ended(t) => Ended(t)'
  BY EndedStays
<1>1. ASSUME NEW i \in DOMAIN pipe', pipe'[i].kind = "completed"
      PROVE  turn'[pipe'[i].turn] \in {"completed", "interrupted"}
  <2>1. \/ \E j \in DOMAIN pipe : pipe'[i] = pipe[j] /\ pipe[j].turn \in Streams
        \/ turn'[pipe'[i].turn] \in {"completed", "interrupted"}
    BY <1>0, <1>1, PipeElements
  <2>2. ASSUME NEW j \in DOMAIN pipe, pipe'[i] = pipe[j], pipe[j].turn \in Streams
        PROVE  turn'[pipe'[i].turn] \in {"completed", "interrupted"}
    <3>1. Ended(pipe[j].turn)
      BY <1>1, <2>2 DEF ResultInv
    <3>2. PICK t \in Streams : t = pipe[j].turn
      BY <2>2
    <3> QED BY <1>e, <2>2, <3>1, <3>2 DEF Ended
  <2> QED BY <2>1, <2>2
<1>2. ASSUME NEW r \in Streams PROVE ResultAt(r)'
  <2>0. ResultAt(r)
    BY DEF ResultInv
  <2>1. ASSUME NEW s \in Streams, ConsumerNext(s) PROVE ResultAt(r)'
    BY <1>e, <2>1, ResultConsumer
  <2>2. CASE Deliver
    <3>1. Head(pipe) = pipe[1] /\ 1 \in DOMAIN pipe
      BY <1>0, <2>2 DEF Deliver, ProcessOK
    <3>2. result'[r] => result[r] \/ Ended(r)
      BY <1>0, <2>2, <3>1, DeliverFacts DEF ResultInv
    <3>3. /\ outcome'[r] = outcome[r] /\ started'[r] = started[r] /\ expired'[r] = expired[r]
          /\ (error[r] => error'[r])
          /\ (result[r] => result'[r])
          /\ (done'[r] => done[r] \/ result'[r] \/ error'[r])
      BY <1>0, <2>2, DeliverFacts
    <3>4. Parted(r) => Parted(r)'
      BY <1>0, <2>2, DeliverFacts DEF Parted
    <3> QED BY <1>e, <2>0, <3>2, <3>3, <3>4, ResultKept
  <2>3. CASE LoseLink
    <3>1. \E S : pc' = Woken(S)
      BY <2>3 DEF LoseLink
    <3>2. Parted(r) => Parted(r)'
      BY <1>0, <3>1, WokenFacts DEF Parted
    <3>3. /\ UNCHANGED <<outcome, started, expired, result>>
          /\ (error[r] => error'[r])
          /\ (done'[r] => done[r] \/ error'[r])
      BY <2>3 DEF LoseLink
    <3> QED BY <1>e, <2>0, <3>2, <3>3, ResultKept
  <2>4. CASE CloseBegins \/ CloseUnsubscribes \/ CloseEnds \/ ProcessNext \/ UNCHANGED vars
    <3>1. UNCHANGED <<pc, outcome, started, expired, result, error, done>>
      BY <2>4 DEF CloseBegins, CloseUnsubscribes, CloseEnds, ProcessNext, TakeInterrupt, TakeMessage,
                  EmitEvent, AskUser, EmitMalformed, CompleteTurn
    <3> QED BY <1>e, <2>0, <3>1, ResultKept DEF Parted
  <2> QED BY <2>1, <2>2, <2>3, <2>4 DEF Next
<1> QED BY <1>1, <1>2 DEF ResultInv, Ended

-----------------------------------------------------------------------------
(* Interrupts and the turns they meet *)

\* No stream is started or taken back, no interrupt is added and no turn begins.
LEMMA OrderKept ==
  ASSUME ProcessOK, OrderInv, stdin' = stdin \/ stdin' = <<>>, interrupts' \subseteq interrupts,
         Running' \subseteq Running, UNCHANGED overtaken,
         \A s \in Streams : release'[s] = "held" => release[s] = "held" /\ (started'[s] => started[s])
  PROVE  OrderInv'
<1>1. \A i \in DOMAIN stdin' : i \in DOMAIN stdin /\ stdin' = stdin /\ stdin[i][2] \in Streams
  BY StdinElement
<1>2. \A t \in Streams : started'[t] /\ release'[t] = "held" => interrupts' \subseteq overtaken'[t]
  BY DEF OrderInv
<1>3. \A i, j \in DOMAIN stdin' :
        stdin'[i][1] = "message" /\ release'[stdin'[i][2]] = "held" /\ i < j /\ stdin'[j][1] = "interrupt"
          => stdin'[j][2] \in overtaken'[stdin'[i][2]]
  BY <1>1 DEF OrderInv
<1>4. \A t \in Running' : release'[t] = "held" =>
        \A i \in DOMAIN stdin' : stdin'[i][1] = "interrupt" => stdin'[i][2] \in overtaken'[t]
  <2>1. Running \subseteq Streams
    BY DEF Running
  <2> QED BY <1>1, <2>1 DEF OrderInv
<1> QED BY <1>2, <1>3, <1>4 DEF OrderInv

LEMMA OrderConsumer ==
  ASSUME TypeOK, HoldInv, MessageInv, OrderInv, NEW s \in Streams, ConsumerNext(s)
  PROVE  OrderInv'
<1>0. ConsumersOK /\ FlagsOK /\ SessionOK /\ ProcessOK
  BY DEF TypeOK
<1> USE DEF consumerVars, bufferVars, sessionVars, processVars
<1>m. \A i \in DOMAIN stdin : stdin[i][2] \in Streams
  BY <1>0, StdinElement
<1>r. Running \subseteq Streams
  BY DEF Running
<1>b. /\ \A i \in DOMAIN stdin : stdin[i][1] = "message" => started[stdin[i][2]]
      /\ \A t \in Running : started[t]
  BY DEF MessageInv, Running
<1>1. CASE Start(s)
  <2>1. /\ StdinGrows("message", s) /\ UNCHANGED <<release, interrupts, turn, link>>
        /\ ~started[s] /\ overtaken'[s] = interrupts
        /\ \A r \in Streams : r # s => overtaken'[r] = overtaken[r] /\ started'[r] = started[r]
    BY <1>0, <1>1 DEF Start, MayStart, StdinGrows, ConsumersOK, FlagsOK
  <2>2. Running' = Running
    BY <2>1 DEF Running
  <2>3. \A j \in DOMAIN stdin' : stdin'[j][1] = "interrupt" => j \in DOMAIN stdin /\ stdin'[j] = stdin[j]
    BY <1>0, <2>1, StdinAppend
  <2>4. \A i \in DOMAIN stdin', j \in DOMAIN stdin : i < j => i \in DOMAIN stdin /\ stdin'[i] = stdin[i]
    <3>1. \A i \in DOMAIN stdin', j \in DOMAIN stdin : i < j => i # Len(stdin) + 1
      BY <1>0, <2>1, StdinAppend, StdinElement
    <3> QED BY <1>0, <2>1, <3>1, StdinAppend
  <2>5. ASSUME NEW i \in DOMAIN stdin', NEW j \in DOMAIN stdin', i < j,
               stdin'[i][1] = "message", release[stdin'[i][2]] = "held", stdin'[j][1] = "interrupt"
        PROVE  stdin'[j][2] \in overtaken'[stdin'[i][2]]
    <3>1. /\ i \in DOMAIN stdin /\ stdin'[i] = stdin[i]
          /\ j \in DOMAIN stdin /\ stdin'[j] = stdin[j]
      BY <2>3, <2>4, <2>5
    <3>2. stdin[i][2] \in Streams /\ stdin[i][2] # s
      BY <1>b, <1>m, <2>1, <2>5, <3>1
    <3> QED BY <2>1, <2>5, <3>1, <3>2 DEF OrderInv
  <2>6. ASSUME NEW t \in Running, release[t] = "held", NEW i \in DOMAIN stdin', stdin'[i][1] = "interrupt"
        PROVE  stdin'[i][2] \in overtaken'[t]
    <3>1. t # s /\ t \in Streams
      BY <1>b, <1>r, <2>1
    <3> QED BY <2>1, <2>3, <2>6, <3>1 DEF OrderInv
  <2>7. \A t \in Streams : started'[t] /\ release[t] = "held" => interrupts \subseteq overtaken'[t]
    BY <2>1 DEF OrderInv
  <2> QED BY <2>1, <2>2, <2>5, <2>6, <2>7 DEF OrderInv
<1>2. CASE \/ MakeStream(s) \/ Parts(s) \/ Moves(s) \/ LeaveRelease(s) \/ CancelAgain(s)
           \/ HandlerFails(s)
  <2>1. UNCHANGED <<stdin, interrupts, turn, link, overtaken>>
    BY <1>0, <1>2, PartsFacts, MovesFacts DEF MakeStream, LeaveRelease, CancelAgain, HandlerFails
  <2>2. \A r \in Streams : release'[r] = "held" => release[r] = "held" /\ (started'[r] => started[r])
    <3>1. CASE Parts(s)
      BY <1>0, <3>1, PartsFacts DEF FlagsOK
    <3>2. CASE Moves(s)
      BY <1>0, <3>2, MovesFacts
    <3>3. CASE MakeStream(s) \/ LeaveRelease(s) \/ CancelAgain(s) \/ HandlerFails(s)
      BY <3>3 DEF MakeStream, LeaveRelease, CancelAgain, HandlerFails
    <3> QED BY <1>2, <3>1, <3>2, <3>3
  <2>3. Running' = Running
    BY <2>1 DEF Running
  <2> QED BY <1>0, <2>1, <2>2, <2>3, OrderKept
<1>3. CASE Finish(s)
  <2>1. /\ release[s] \in {"interrupt", "plain"} /\ UNCHANGED <<started, overtaken, stdin, turn, link>>
        /\ release'[s] = "finished" /\ \A r \in Streams : r # s => release'[r] = release[r]
        /\ interrupts' = interrupts \/ session # "closed"
    BY <1>0, <1>3 DEF Finish, ConsumersOK
  <2>2. Running' = Running /\ \A r \in Streams : release'[r] = "held" => release[r] = "held"
    BY <2>1 DEF Running
  <2>3. CASE interrupts' = interrupts
    BY <1>0, <2>1, <2>2, <2>3, OrderKept
  <2>4. CASE session # "closed"
    <3>1. active = s
      BY <2>1, <2>4 DEF HoldInv, Made
    <3>2. \A r \in Streams : started[r] => release'[r] # "held"
      BY <2>1, <2>4, <3>1 DEF HoldInv, Made
    <3> QED BY <1>b, <1>m, <1>r, <2>1, <2>2, <3>2 DEF OrderInv
  <2> QED BY <2>1, <2>3, <2>4
<1>4. CASE WriteInterrupt(s)
  <2>1. /\ s \in interrupts /\ interrupts' \subseteq interrupts /\ StdinGrows("interrupt", s)
        /\ UNCHANGED <<started, overtaken, release, turn, link>>
    BY <1>4 DEF WriteInterrupt, StdinGrows
  <2>2. Running' = Running
    BY <2>1 DEF Running
  <2>3. \A t \in Streams : started[t] /\ release[t] = "held" => s \in overtaken[t]
    BY <2>1 DEF OrderInv
  <2>4. \A j \in DOMAIN stdin' :
          \/ j \in DOMAIN stdin /\ stdin'[j] = stdin[j]
          \/ j = Len(stdin) + 1 /\ stdin'[j] = <<"interrupt", s>>
    BY <1>0, <2>1, StdinAppend
  <2>5. ASSUME NEW i \in DOMAIN stdin', NEW j \in DOMAIN stdin', i < j,
               stdin'[i][1] = "message", release[stdin'[i][2]] = "held", stdin'[j][1] = "interrupt"
        PROVE  stdin'[j][2] \in overtaken[stdin'[i][2]]
    <3>1. i \in DOMAIN stdin /\ stdin'[i] = stdin[i] /\ stdin[i][2] \in Streams /\ started[stdin[i][2]]
      BY <1>b, <1>m, <2>4, <2>5
    <3> QED BY <2>3, <2>4, <2>5, <3>1 DEF OrderInv
  <2>6. ASSUME NEW t \in Running, release[t] = "held", NEW i \in DOMAIN stdin', stdin'[i][1] = "interrupt"
        PROVE  stdin'[i][2] \in overtaken[t]
    BY <1>b, <1>r, <2>3, <2>4, <2>6 DEF OrderInv
  <2>7. \A t \in Streams : started[t] /\ release[t] = "held" => interrupts' \subseteq overtaken[t]
    BY <2>1 DEF OrderInv
  <2> QED BY <2>1, <2>2, <2>5, <2>6, <2>7 DEF OrderInv
<1> QED BY <1>1, <1>2, <1>3, <1>4, ConsumerSplit

LEMMA OrderProcess ==
  ASSUME TypeOK, MessageInv, OrderInv, ProcessNext
  PROVE  OrderInv'
<1>0. ConsumersOK /\ FlagsOK /\ SessionOK /\ ProcessOK
  BY DEF TypeOK
<1> USE DEF consumerVars, bufferVars, sessionVars, processVars
<1>1. CASE TakeInterrupt \/ \E t \in Streams : TakeMessage(t)
  <2>1. StdinTaken /\ UNCHANGED <<started, overtaken, release, interrupts, link>>
    BY <1>1 DEF TakeInterrupt, TakeMessage, StdinTaken
  <2>2. \A i \in DOMAIN stdin' :
          i \in Nat /\ 1 < i + 1 /\ i + 1 \in DOMAIN stdin /\ stdin'[i] = stdin[i + 1]
    BY <1>0, <2>1, StdinTail, StdinElement
  <2>3. \A t \in Streams : started[t] /\ release[t] = "held" => interrupts \subseteq overtaken[t]
    BY DEF OrderInv
  <2>4. ASSUME NEW i \in DOMAIN stdin', NEW j \in DOMAIN stdin', i < j,
               stdin'[i][1] = "message", release[stdin'[i][2]] = "held", stdin'[j][1] = "interrupt"
        PROVE  stdin'[j][2] \in overtaken[stdin'[i][2]]
    <3>1. /\ i + 1 \in DOMAIN stdin /\ j + 1 \in DOMAIN stdin /\ i + 1 < j + 1
          /\ stdin'[i] = stdin[i + 1] /\ stdin'[j] = stdin[j + 1]
      BY <2>2, <2>4
    <3> QED BY <2>4, <3>1 DEF OrderInv
  <2>5. ASSUME NEW t \in Running', release[t] = "held", NEW i \in DOMAIN stdin', stdin'[i][1] = "interrupt"
        PROVE  stdin'[i][2] \in overtaken[t]
    <3>1. CASE t \in Running
      BY <2>2, <2>5, <3>1 DEF OrderInv
    <3>2. CASE t \notin Running
      <4>1. TakeMessage(t) /\ t \in Streams
        <5>1. ASSUME TakeInterrupt PROVE FALSE
          BY <1>0, <2>1, <2>5, <3>2, <5>1 DEF TakeInterrupt, Running, ProcessOK
        <5>2. ASSUME NEW u \in Streams, TakeMessage(u) PROVE u = t
          BY <1>0, <2>1, <2>5, <3>2, <5>2 DEF TakeMessage, Running, ProcessOK
        <5> QED BY <1>1, <5>1, <5>2
      <4>2. 1 \in DOMAIN stdin /\ stdin[1][1] = "message" /\ stdin[1][2] = t
        BY <1>0, <2>1, <4>1, StdinTail DEF TakeMessage
      <4>3. 1 < i + 1 /\ i + 1 \in DOMAIN stdin /\ stdin'[i] = stdin[i + 1]
        BY <2>2, <2>5
      <4> QED BY <2>5, <4>2, <4>3 DEF OrderInv
    <3> QED BY <3>1, <3>2
  <2> QED BY <2>1, <2>3, <2>4, <2>5 DEF OrderInv
<1>2. ASSUME NEW t \in Streams, EmitEvent(t) \/ EmitMalformed(t) \/ AskUser(t) \/ CompleteTurn(t)
      PROVE  OrderInv'
  <2>1. /\ UNCHANGED <<started, overtaken, release, interrupts, stdin, link>>
        /\ turn' = turn \/ turn' = [turn EXCEPT ![t] = "completed"]
    BY <1>2 DEF EmitEvent, EmitMalformed, AskUser, CompleteTurn
  <2>2. Running' \subseteq Running
    BY <1>0, <2>1 DEF Running, ProcessOK
  <2> QED BY <1>0, <2>1, <2>2, OrderKept
<1> QED BY <1>1, <1>2 DEF ProcessNext

LEMMA OrderStep == TypeOK /\ HoldInv /\ MessageInv /\ OrderInv /\ [Next]_vars => OrderInv'
<1> SUFFICES ASSUME TypeOK, HoldInv, MessageInv, OrderInv, [Next]_vars PROVE OrderInv'
  OBVIOUS
<1>0. ConsumersOK /\ FlagsOK /\ SessionOK /\ ProcessOK
  BY DEF TypeOK
<1> USE DEF vars, consumerVars, bufferVars, sessionVars, processVars
<1>1. ASSUME NEW s \in Streams, ConsumerNext(s) PROVE OrderInv'
  BY <1>1, OrderConsumer
<1>2. CASE \/ Deliver \/ LoseLink \/ CloseBegins \/ CloseUnsubscribes \/ CloseEnds \/ UNCHANGED vars
  <2>1. /\ UNCHANGED <<turn, started, overtaken>> /\ interrupts' \subseteq interrupts
        /\ stdin' = stdin \/ stdin' = <<>>
        /\ link' = link \/ link' # "up"
    BY <1>0, <1>2, DeliverFacts DEF LoseLink, CloseBegins, CloseUnsubscribes, CloseEnds
  <2>2. \A s \in Streams : release'[s] = "held" => release[s] = "held"
    BY <1>0, <1>2, DeliverFacts DEF LoseLink, CloseBegins, CloseUnsubscribes, CloseEnds, ConsumersOK,
                                    SessionOK
  <2>3. Running' \subseteq Running
    BY <2>1 DEF Running
  <2> QED BY <1>0, <2>1, <2>2, <2>3, OrderKept
<1>3. CASE ProcessNext
  BY <1>3, OrderProcess
<1> QED BY <1>1, <1>2, <1>3 DEF Next

LEMMA BehindKept ==
  ASSUME ProcessOK, BehindInv, stdin' = stdin \/ stdin' = <<>>, session' = "open" => session = "open",
         \A s \in Streams : release[s] = "finished" => release'[s] = "finished"
  PROVE  BehindInv'
<1>1. \A i \in DOMAIN stdin' : i \in DOMAIN stdin /\ stdin' = stdin /\ stdin[i][2] \in Streams
  BY StdinElement
<1>2. \A i \in DOMAIN stdin' : stdin'[i][1] = "interrupt" => release'[stdin'[i][2]] = "finished"
  BY <1>1 DEF BehindInv
<1>3. ASSUME session' = "open", "start_released" \notin Liberties, NEW i \in DOMAIN stdin', NEW j \in DOMAIN stdin',
             stdin'[i][1] = "interrupt", stdin'[j] = <<"message", stdin'[i][2]>>
      PROVE  j < i
  BY <1>1, <1>3 DEF BehindInv
<1> QED BY <1>2, <1>3 DEF BehindInv

LEMMA BehindConsumer ==
  ASSUME TypeOK, HoldInv, PartedInv, BehindInv, NEW s \in Streams, ConsumerNext(s)
  PROVE  BehindInv'
<1>0. ConsumersOK /\ FlagsOK /\ SessionOK /\ ProcessOK
  BY DEF TypeOK
<1> USE DEF consumerVars, bufferVars, sessionVars, processVars
<1>m. \A i \in DOMAIN stdin : i \in Nat /\ i <= Len(stdin) /\ stdin[i][2] \in Streams /\ Len(stdin) \in Nat
  BY <1>0, StdinElement
<1>1. CASE Start(s)
  <2>1. /\ StdinGrows("message", s) /\ UNCHANGED <<release, session>>
        /\ "start_released" \notin Liberties => pc[s] = "created"
    BY <1>1 DEF Start, MayStart, StdinGrows
  <2>2. \A i \in DOMAIN stdin' :
          \/ i \in DOMAIN stdin /\ stdin'[i] = stdin[i]
          \/ i = Len(stdin) + 1 /\ stdin'[i] = <<"message", s>>
    BY <1>0, <2>1, StdinAppend
  <2>3. \A i \in DOMAIN stdin' : stdin'[i][1] = "interrupt" => release'[stdin'[i][2]] = "finished"
    BY <2>1, <2>2 DEF BehindInv
  <2>4. ASSUME session' = "open", "start_released" \notin Liberties,
               NEW i \in DOMAIN stdin', NEW j \in DOMAIN stdin',
               stdin'[i][1] = "interrupt", stdin'[j] = <<"message", stdin'[i][2]>>
        PROVE  j < i
    <3>1. i \in DOMAIN stdin /\ stdin'[i] = stdin[i] /\ release[stdin[i][2]] = "finished"
      BY <2>2, <2>4 DEF BehindInv
    <3>2. release[s] = "held"
      BY <2>1, <2>4 DEF PartedInv, Parted
    <3>3. j \in DOMAIN stdin /\ stdin'[j] = stdin[j]
      BY <2>2, <2>4, <3>1, <3>2
    <3> QED BY <2>1, <2>4, <3>1, <3>3 DEF BehindInv
  <2> QED BY <2>3, <2>4 DEF BehindInv
<1>2. CASE WriteInterrupt(s)
  <2>1. StdinGrows("interrupt", s) /\ UNCHANGED <<release, session>> /\ s \in interrupts
    BY <1>2 DEF WriteInterrupt, StdinGrows
  <2>2. \A i \in DOMAIN stdin' :
          \/ i \in DOMAIN stdin /\ stdin'[i] = stdin[i]
          \/ i = Len(stdin) + 1 /\ stdin'[i] = <<"interrupt", s>>
    BY <1>0, <2>1, StdinAppend
  <2>3. \A i \in DOMAIN stdin' : stdin'[i][1] = "interrupt" => release'[stdin'[i][2]] = "finished"
    BY <2>1, <2>2 DEF BehindInv, HoldInv
  <2>4. ASSUME session' = "open", "start_released" \notin Liberties,
               NEW i \in DOMAIN stdin', NEW j \in DOMAIN stdin',
               stdin'[i][1] = "interrupt", stdin'[j] = <<"message", stdin'[i][2]>>
        PROVE  j < i
    <3>1. j \in DOMAIN stdin /\ stdin'[j] = stdin[j]
      BY <2>2, <2>4
    <3>2. CASE i \in DOMAIN stdin /\ stdin'[i] = stdin[i]
      BY <2>1, <2>4, <3>1, <3>2 DEF BehindInv
    <3>3. CASE i = Len(stdin) + 1
      BY <1>m, <3>1, <3>3
    <3> QED BY <2>2, <3>2, <3>3
  <2> QED BY <2>3, <2>4 DEF BehindInv
<1>3. CASE ~Start(s) /\ ~WriteInterrupt(s)
  <2>1. UNCHANGED <<stdin, session>>
    BY <1>0, <1>3, ConsumerSplit, PartsFacts, MovesFacts DEF MakeStream, LeaveRelease, CancelAgain,
                                                             Finish, HandlerFails
  <2>2. \A r \in Streams : release[r] = "finished" => release'[r] = "finished"
    BY <1>0, <1>3, ConsumerSplit, PartsFacts, MovesFacts DEF MakeStream, LeaveRelease, CancelAgain,
                                                             Finish, HandlerFails, ConsumersOK
  <2> QED BY <1>0, <2>1, <2>2, BehindKept
<1> QED BY <1>1, <1>2, <1>3

LEMMA BehindStep == TypeOK /\ HoldInv /\ PartedInv /\ BehindInv /\ [Next]_vars => BehindInv'
<1> SUFFICES ASSUME TypeOK, HoldInv, PartedInv, BehindInv, [Next]_vars PROVE BehindInv'
  OBVIOUS
<1>0. ConsumersOK /\ FlagsOK /\ SessionOK /\ ProcessOK
  BY DEF TypeOK
<1> USE DEF vars, consumerVars, bufferVars, sessionVars, processVars
<1>1. ASSUME NEW s \in Streams, ConsumerNext(s) PROVE BehindInv'
  BY <1>1, BehindConsumer
<1>2. CASE \/ Deliver \/ LoseLink \/ CloseBegins \/ CloseUnsubscribes \/ CloseEnds \/ UNCHANGED vars
  <2>1. /\ stdin' = stdin \/ stdin' = <<>>
        /\ session' = session \/ session' # "open"
    BY <1>0, <1>2, DeliverFacts DEF LoseLink, CloseBegins, CloseUnsubscribes, CloseEnds
  <2>2. \A s \in Streams : release[s] = "finished" => release'[s] = "finished"
    BY <1>0, <1>2, DeliverFacts DEF LoseLink, CloseBegins, CloseUnsubscribes, CloseEnds, ConsumersOK,
                                    SessionOK
  <2> QED BY <1>0, <2>1, <2>2, BehindKept
<1>3. CASE ProcessNext
  <2>1. UNCHANGED <<release, session>> /\ (stdin' = stdin \/ StdinTaken)
    BY <1>3 DEF ProcessNext, TakeInterrupt, TakeMessage, EmitEvent, AskUser, EmitMalformed, CompleteTurn,
                StdinTaken
  <2>2. CASE stdin' = stdin
    BY <1>0, <2>1, <2>2, BehindKept
  <2>3. CASE StdinTaken
    <3>1. \A i \in DOMAIN stdin' : i \in Nat /\ i + 1 \in DOMAIN stdin /\ stdin'[i] = stdin[i + 1]
      BY <1>0, <2>3, StdinTail
    <3>2. \A i \in DOMAIN stdin' : stdin'[i][1] = "interrupt" => release'[stdin'[i][2]] = "finished"
      BY <2>1, <3>1 DEF BehindInv
    <3>3. ASSUME session' = "open", "start_released" \notin Liberties,
                 NEW i \in DOMAIN stdin', NEW j \in DOMAIN stdin',
                 stdin'[i][1] = "interrupt", stdin'[j] = <<"message", stdin'[i][2]>>
          PROVE  j < i
      <4>1. j + 1 < i + 1
        BY <2>1, <3>1, <3>3 DEF BehindInv
      <4> QED BY <3>1, <4>1
    <3> QED BY <3>2, <3>3 DEF BehindInv
  <2> QED BY <2>1, <2>2, <2>3
<1> QED BY <1>1, <1>2, <1>3 DEF Next

LEMMA AttendedKept ==
  ASSUME NEW s \in Streams, AttendedAt(s), Unattended(s)' => Unattended(s),
         Interrupting(s) => Interrupting(s)', NeverTold(s) => NeverTold(s)'
  PROVE  AttendedAt(s)'
BY DEF AttendedAt

\* The same when only the consumer may have been woken and the stream may have failed.
LEMMA AttendedFrame ==
  ASSUME NEW s \in Streams, AttendedAt(s), Parted(s)' => Parted(s), error[s] => error'[s],
         UNCHANGED <<outcome, started, release, interrupts, stdin, turn>>
  PROVE  AttendedAt(s)'
BY DEF AttendedAt, Unattended, Interrupting, NeverTold

\* A consumer that leaves a turn which has not ended has it interrupted.
LEMMA AttendedParts ==
  ASSUME TypeOK, PartedInv, ResultInv, NEW s \in Streams, Parts(s),
         session = "open", "start_released" \notin Liberties
  PROVE  AttendedAt(s)'
<1>0. ConsumersOK /\ FlagsOK /\ SessionOK /\ ProcessOK /\ ResultAt(s)
  BY DEF TypeOK, ResultInv
<1> USE DEF consumerVars, bufferVars, sessionVars, processVars
<1>1. ~Parted(s) /\ release[s] = "held" /\ UNCHANGED turn
  <2>1. ~Parted(s) /\ UNCHANGED turn
    BY <1>0, PartsFacts DEF Parted, MayStart
  <2> QED BY <2>1 DEF PartedInv
<1>2. done[s] /\ ~error[s] => Ended(s)
  BY <1>0, <1>1 DEF ResultAt
<1>3. CASE StartTooLate(s) \/ StartTimesOut(s) \/ PollTimesOut(s) \/ Cancel(s)
  <2>1. \E how \in Outcomes : Release(s, TRUE, how)
    BY <1>3 DEF StartTooLate, StartTimesOut, PollTimesOut, Cancel, RaiseTimeout, Outcomes
  <2>2. release'[s] = "interrupt"
    BY <1>0, <1>1, <2>1, ReleaseFacts
  <2> QED BY <2>2 DEF AttendedAt, Interrupting
<1>4. CASE StartFails(s)
  <2>1. Release(s, FALSE, "failed") /\ "failed" \in Outcomes
    BY <1>4 DEF StartFails, Outcomes
  <2>2. outcome'[s] = "failed"
    BY <1>0, <2>1, ReleaseFacts
  <2> QED BY <2>2 DEF AttendedAt, Unattended
<1>5. CASE PollEnd(s)
  <2>1. done[s] /\ error' = error
    BY <1>5 DEF PollEnd
  <2> QED BY <1>1, <1>2, <2>1 DEF AttendedAt, Unattended, Ended
<1>6. CASE Leave(s)
  <2>1. Release(s, ~done[s], "left") /\ "left" \in Outcomes /\ error' = error
    BY <1>6 DEF Leave, Outcomes
  <2>2. ~done[s] => release'[s] = "interrupt"
    BY <1>0, <1>1, <2>1, ReleaseFacts
  <2> QED BY <1>1, <1>2, <2>1, <2>2 DEF AttendedAt, Unattended, Interrupting, Ended
<1> QED BY <1>3, <1>4, <1>5, <1>6 DEF Parts

LEMMA AttendedConsumer ==
  ASSUME TypeOK, PartedInv, ResultInv, AttendedInv, NEW s \in Streams, ConsumerNext(s),
         session' = "open", link' = "up", "start_released" \notin Liberties, NEW r \in Streams
  PROVE  AttendedAt(r)'
<1>0. ConsumersOK /\ FlagsOK /\ SessionOK /\ ProcessOK
  BY DEF TypeOK
<1> USE DEF consumerVars, bufferVars, sessionVars, processVars
<1>1. session = "open" /\ link = "up"
  BY <1>0, ConsumerSplit, PartsFacts, MovesFacts DEF MakeStream, Start, LeaveRelease, CancelAgain,
                                                      Finish, WriteInterrupt, HandlerFails
<1>2. AttendedAt(r)
  BY <1>1 DEF AttendedInv
<1>3. CASE r = s /\ Parts(s)
  BY <1>1, <1>3, AttendedParts
<1>4. CASE r # s /\ Parts(s)
  <2>1. /\ outcome'[r] = outcome[r] /\ release'[r] = release[r] /\ pc'[r] = pc[r]
        /\ started'[r] = started[r] /\ UNCHANGED <<interrupts, stdin, turn>>
    BY <1>0, <1>4, PartsFacts DEF FlagsOK
  <2>2. error'[r] = error[r]
    <3>1. error' = error \/ error' = [error EXCEPT ![s] = FALSE]
      BY <1>4 DEF Parts, StartTooLate, StartTimesOut, PollTimesOut, StartFails, PollEnd, Cancel, Leave,
                  RaiseTimeout
    <3> QED BY <1>0, <1>4, <3>1 DEF FlagsOK
  <2> QED BY <1>2, <2>1, <2>2 DEF AttendedAt, Unattended, Interrupting, NeverTold, Parted
<1>5. CASE Start(s)
  <2>1. /\ StdinGrows("message", s) /\ UNCHANGED <<release, interrupts, turn, error>>
        /\ pc'[s] = "starting" /\ started'[s]
        /\ \A u \in Streams : u # s => /\ pc'[u] = pc[u] /\ outcome'[u] = outcome[u]
                                       /\ started'[u] = started[u]
    BY <1>0, <1>5 DEF Start, StdinGrows, ConsumersOK, FlagsOK
  <2>2. CASE r = s
    BY <2>1, <2>2 DEF AttendedAt, Unattended, Parted
  <2>3. CASE r # s
    <3>1. Interrupting(r) => Interrupting(r)'
      BY <1>0, <2>1, StdinAppend DEF Interrupting
    <3>2. NeverTold(r) => NeverTold(r)'
      BY <1>0, <2>1, <2>3, StdinAppend DEF NeverTold
    <3> QED BY <1>2, <2>1, <2>3, <3>1, <3>2, AttendedKept DEF Unattended, Parted
  <2> QED BY <2>2, <2>3
<1>6. CASE MakeStream(s) \/ Moves(s) \/ LeaveRelease(s) \/ CancelAgain(s) \/ HandlerFails(s)
  <2>1. UNCHANGED <<outcome, started, release, error, interrupts, stdin, turn>>
    BY <1>0, <1>6, MovesFacts DEF MakeStream, LeaveRelease, CancelAgain, HandlerFails
  <2>2. Parted(r)' => Parted(r)
    <3>1. CASE MakeStream(s) \/ LeaveRelease(s) \/ CancelAgain(s)
      BY <1>0, <3>1 DEF MakeStream, LeaveRelease, CancelAgain, Parted, ConsumersOK
    <3>2. CASE Moves(s)
      BY <1>0, <3>2, MovesFacts DEF Parted
    <3>3. CASE HandlerFails(s)
      <4>1. pc' = pc \/ \E S : pc' = Woken(S)
        BY <3>3 DEF HandlerFails
      <4> QED BY <1>0, <4>1, WokenFacts DEF Parted
    <3> QED BY <1>6, <3>1, <3>2, <3>3
  <2> QED BY <1>2, <2>1, <2>2, AttendedFrame
<1>7. CASE Finish(s)
  <2>1. /\ UNCHANGED <<pc, outcome, started, error, stdin, turn>>
        /\ \A u \in Streams : u # s => release'[u] = release[u]
        /\ interrupts \subseteq interrupts'
        /\ release[s] = "interrupt" => s \in interrupts'
    BY <1>0, <1>1, <1>7 DEF Finish, ConsumersOK
  <2>2. Interrupting(r) => Interrupting(r)'
    BY <2>1 DEF Interrupting
  <2> QED BY <1>2, <2>1, <2>2, AttendedKept DEF Unattended, NeverTold, Parted
<1>8. CASE WriteInterrupt(s)
  <2>1. /\ UNCHANGED <<pc, outcome, started, release, error, turn>>
        /\ StdinGrows("interrupt", s) /\ interrupts' = interrupts \ {s}
    BY <1>8 DEF WriteInterrupt, StdinGrows
  <2>2. Interrupting(r) => Interrupting(r)'
    BY <1>0, <1>1, <2>1, StdinAppend DEF Interrupting
  <2>3. NeverTold(r) => NeverTold(r)'
    BY <1>0, <2>1, StdinAppend DEF NeverTold
  <2> QED BY <1>2, <2>1, <2>2, <2>3, AttendedKept DEF Unattended, Parted
<1> QED BY <1>3, <1>4, <1>5, <1>6, <1>7, <1>8, ConsumerSplit

LEMMA AttendedProcess ==
  ASSUME TypeOK, MessageInv, BehindInv, AttendedInv, ProcessNext,
         session' = "open", link' = "up", "start_released" \notin Liberties, NEW r \in Streams
  PROVE  AttendedAt(r)'
<1>0. ConsumersOK /\ FlagsOK /\ SessionOK /\ ProcessOK
  BY DEF TypeOK
<1> USE DEF consumerVars, bufferVars, sessionVars, processVars
<1>1. UNCHANGED <<pc, outcome, started, release, error, session, interrupts, link>>
  BY DEF ProcessNext, TakeInterrupt, TakeMessage, EmitEvent, AskUser, EmitMalformed, CompleteTurn
<1>2. AttendedAt(r)
  BY <1>1 DEF AttendedInv
<1>3. CASE TakeInterrupt
  <2>1. /\ StdinTaken /\ Head(stdin)[1] = "interrupt"
        /\ turn'[r] = turn[r] \/ turn'[r] = "interrupted"
        /\ turn[r] = "running" => turn'[r] = "interrupted"
    <3>1. r \in Running <=> turn[r] = "running"
      BY <1>1 DEF Running
    <3> QED BY <1>0, <1>3, <3>1 DEF TakeInterrupt, StdinTaken, ProcessOK, MessageInv
  <2>2. /\ 1 \in DOMAIN stdin /\ stdin[1][1] = "interrupt" /\ stdin[1] = <<"interrupt", stdin[1][2]>>
        /\ \A i \in DOMAIN stdin' : i + 1 \in DOMAIN stdin /\ stdin'[i] = stdin[i + 1]
        /\ \A i \in DOMAIN stdin : i # 1 => i - 1 \in DOMAIN stdin' /\ stdin'[i - 1] = stdin[i]
    BY <1>0, <2>1, StdinTail, StdinElement
  <2>3. NeverTold(r) /\ turn'[r] = turn[r] => NeverTold(r)'
    BY <2>2 DEF NeverTold
  <2>4. CASE turn[r] = "none" /\ stdin[1] = <<"interrupt", r>>
    <3>1. \A j \in DOMAIN stdin : stdin[j] = <<"message", r>> => j < 1
      BY <1>1, <2>2, <2>4 DEF BehindInv
    <3>2. NeverTold(r)
      BY <1>0, <2>4, <3>1, StdinElement DEF NeverTold
    <3> QED BY <2>1, <2>3, <3>2 DEF AttendedAt, Unattended
  <2>5. CASE stdin[1] # <<"interrupt", r>>
    <3>1. Interrupting(r) => Interrupting(r)'
      BY <1>1, <2>2, <2>5 DEF Interrupting
    <3> QED BY <1>1, <1>2, <2>1, <2>3, <3>1 DEF AttendedAt, Unattended, Parted
  <2>6. CASE turn[r] # "none"
    BY <1>0, <2>1, <2>6 DEF AttendedAt, Unattended, ProcessOK
  <2> QED BY <2>4, <2>5, <2>6
<1>4. ASSUME NEW t \in Streams, TakeMessage(t) PROVE AttendedAt(r)'
  <2>1. /\ StdinTaken /\ Head(stdin) = <<"message", t>>
        /\ turn'[t] = "running" /\ \A u \in Streams : u # t => turn'[u] = turn[u]
    BY <1>0, <1>4 DEF TakeMessage, StdinTaken, ProcessOK
  <2>2. /\ 1 \in DOMAIN stdin /\ stdin[1] = <<"message", t>>
        /\ \A i \in DOMAIN stdin' : i + 1 \in DOMAIN stdin /\ stdin'[i] = stdin[i + 1]
        /\ \A i \in DOMAIN stdin : i # 1 => i - 1 \in DOMAIN stdin' /\ stdin'[i - 1] = stdin[i]
    BY <1>0, <2>1, StdinTail
  <2>3. Interrupting(r) => Interrupting(r)'
    BY <1>1, <2>2 DEF Interrupting
  <2>4. CASE r = t
    <3>1. turn[r] = "none" /\ ~NeverTold(r)
      BY <2>2, <2>4 DEF MessageInv, NeverTold
    <3> QED BY <1>1, <1>2, <2>3, <3>1 DEF AttendedAt, Unattended, Parted
  <2>5. CASE r # t
    <3>1. NeverTold(r) => NeverTold(r)'
      BY <2>1, <2>2, <2>5 DEF NeverTold
    <3> QED BY <1>1, <1>2, <2>1, <2>3, <2>5, <3>1, AttendedKept DEF Unattended, Parted
  <2> QED BY <2>4, <2>5
<1>5. ASSUME NEW t \in Streams, EmitEvent(t) \/ EmitMalformed(t) \/ AskUser(t) \/ CompleteTurn(t)
      PROVE  AttendedAt(r)'
  <2>1. /\ stdin' = stdin
        /\ turn' = turn \/ turn' = [turn EXCEPT ![t] = "completed"]
    BY <1>5 DEF EmitEvent, EmitMalformed, AskUser, CompleteTurn
  <2>2. turn'[r] = turn[r] \/ turn'[r] = "completed"
    BY <1>0, <2>1 DEF ProcessOK
  <2> QED BY <1>1, <1>2, <2>1, <2>2 DEF AttendedAt, Unattended, Interrupting, NeverTold, Parted
<1> QED BY <1>3, <1>4, <1>5 DEF ProcessNext

LEMMA AttendedStep ==
  TypeOK /\ PartedInv /\ MessageInv /\ ResultInv /\ BehindInv /\ AttendedInv /\ [Next]_vars => AttendedInv'
<1> SUFFICES ASSUME TypeOK, PartedInv, MessageInv, ResultInv, BehindInv, AttendedInv, [Next]_vars,
                    session' = "open", link' = "up", "start_released" \notin Liberties, NEW r \in Streams
             PROVE  AttendedAt(r)'
  BY DEF AttendedInv
<1>0. ConsumersOK /\ FlagsOK /\ SessionOK /\ ProcessOK
  BY DEF TypeOK
<1> USE DEF vars, consumerVars, bufferVars, sessionVars, processVars
<1>1. ASSUME NEW s \in Streams, ConsumerNext(s) PROVE AttendedAt(r)'
  BY <1>1, AttendedConsumer
<1>2. CASE Deliver \/ UNCHANGED vars
  <2>1. UNCHANGED <<outcome, started, release, session, link, interrupts, stdin, turn>>
    BY <1>0, <1>2, DeliverFacts
  <2>2. (Parted(r)' => Parted(r)) /\ (error[r] => error'[r])
    BY <1>0, <1>2, DeliverFacts DEF Parted
  <2>3. AttendedAt(r)
    BY <2>1 DEF AttendedInv
  <2> QED BY <2>1, <2>2, <2>3, AttendedFrame
<1>3. ~LoseLink /\ ~CloseBegins /\ ~CloseUnsubscribes /\ ~CloseEnds
  BY DEF LoseLink, CloseBegins, CloseUnsubscribes, CloseEnds
<1>4. CASE ProcessNext
  BY <1>4, AttendedProcess
<1> QED BY <1>1, <1>2, <1>3, <1>4 DEF Next

-----------------------------------------------------------------------------
(* What a stream is given of the events of its turn *)

Numbered(s, q) == {i \in DOMAIN q : q[i].turn = s /\ q[i].kind \in {"event", "malformed"}}

\* What was given, g: in order, without a gap, and sent by the process, which has sent e.
Sound(s, g, e) == (\A i \in OwnEvents(s, g) : g[i].n \in 1..e) /\ InOrder(s, g)

\* What is still to come, p: in order, sent by the process, and before the end of the turn.
Coming(s, p, e) ==
  /\ \A i \in Numbered(s, p) : p[i].n \in 1..e
  /\ \A i, j \in Numbered(s, p) : i < j => p[i].n < p[j].n
  /\ \A i \in DOMAIN p, j \in Numbered(s, p) : p[i].turn = s /\ p[i].kind = "completed" => j < i

\* Nothing is lost between the two, and nothing is in both.
Joined(s, g, p, e) ==
  /\ \A k \in 1..e : Has(s, g, k) \/ \E i \in Numbered(s, p) : p[i].n = k
  /\ \A i \in OwnEvents(s, g), j \in Numbered(s, p) : g[i].n < p[j].n

Whole(s, g, e) == \A k \in 1..e : Has(s, g, k)

\* The stream still takes what is delivered.
Taking(s) == link = "up" /\ Listens(s) /\ ~expired[s]

EventsAt(s) ==
  /\ turn[s] = "none" => emitted[s] = 0
  /\ Sound(s, Given(s), emitted[s])
  /\ Coming(s, pipe, emitted[s])
  /\ Taking(s) => Joined(s, Given(s), pipe, emitted[s])
  /\ result[s] => Whole(s, Given(s), emitted[s])
EventsInv == \A s \in Streams : EventsAt(s)

\* A notice appended, and the first one taken.
LEMMA AppendElements ==
  ASSUME NEW q \in Seq(Notices), NEW x \in Notices
  PROVE  /\ Append(q, x) \in Seq(Notices)
         /\ DOMAIN Append(q, x) = DOMAIN q \cup {Len(q) + 1}
         /\ \A i \in DOMAIN q : i \in Nat /\ i < Len(q) + 1 /\ Append(q, x)[i] = q[i]
         /\ Append(q, x)[Len(q) + 1] = x
         /\ Len(q) + 1 \in Nat
<1>1. Len(q) \in Nat /\ DOMAIN q = 1..Len(q)
  BY LenProperties
<1>2. /\ Append(q, x) \in Seq(Notices) /\ Len(Append(q, x)) = Len(q) + 1
      /\ \A i \in 1..Len(q) : Append(q, x)[i] = q[i]
      /\ Append(q, x)[Len(q) + 1] = x
  BY AppendProperties
<1>3. DOMAIN Append(q, x) = 1..(Len(q) + 1)
  BY <1>2, LenProperties
<1> QED BY <1>1, <1>2, <1>3

LEMMA TailElements ==
  ASSUME NEW p \in Seq(Notices), p # <<>>
  PROVE  /\ Tail(p) \in Seq(Notices) /\ Head(p) = p[1] /\ Head(p) \in Notices /\ 1 \in DOMAIN p
         /\ \A i \in DOMAIN p : i \in Nat /\ i >= 1
         /\ \A i \in DOMAIN Tail(p) : i \in Nat /\ i >= 1 /\ i + 1 \in DOMAIN p /\ Tail(p)[i] = p[i + 1]
         /\ \A i \in DOMAIN p : i # 1 => i - 1 \in DOMAIN Tail(p) /\ Tail(p)[i - 1] = p[i]
<1>1. Len(p) \in Nat /\ DOMAIN p = 1..Len(p) /\ Len(p) >= 1
  BY LenProperties, EmptySeq
<1>2. /\ Head(p) \in Notices /\ Tail(p) \in Seq(Notices) /\ Len(Tail(p)) = Len(p) - 1
      /\ \A i \in 1..Len(Tail(p)) : Tail(p)[i] = p[i + 1]
  BY HeadTailProperties
<1>3. DOMAIN Tail(p) = 1..(Len(p) - 1)
  BY <1>2, LenProperties
<1>4. Head(p) = p[1]
  OBVIOUS
<1> QED BY <1>1, <1>2, <1>3, <1>4

LEMMA NoticeNumbers ==
  ASSUME NEW q \in Seq(Notices), NEW i \in DOMAIN q
  PROVE  i \in Nat /\ q[i] \in Notices /\ q[i].n \in Nat
<1>1. i \in Nat /\ q[i] \in Notices
  BY LenProperties, ElementOfSeq
<1> QED BY <1>1, StreamAssumption DEF Notices

\* Anything but an event of the turn changes nothing of what the stream has of its turn.
LEMMA GivenOther ==
  ASSUME NEW g \in Seq(Notices), NEW x \in Notices, NEW s,
         ~(x.turn = s /\ x.kind = "event"), NEW e
  PROVE  /\ OwnEvents(s, Append(g, x)) = OwnEvents(s, g)
         /\ \A k : Has(s, Append(g, x), k) <=> Has(s, g, k)
         /\ Sound(s, g, e) => Sound(s, Append(g, x), e)
         /\ Whole(s, g, e) => Whole(s, Append(g, x), e)
         /\ \A p : Joined(s, g, p, e) => Joined(s, Append(g, x), p, e)
<1> DEFINE h == Append(g, x)
<1>1. /\ DOMAIN h = DOMAIN g \cup {Len(g) + 1}
      /\ \A i \in DOMAIN g : h[i] = g[i]
      /\ h[Len(g) + 1] = x
  BY AppendElements
<1> HIDE DEF h
<1>2. OwnEvents(s, h) = OwnEvents(s, g) /\ \A i \in OwnEvents(s, g) : h[i] = g[i]
  BY <1>1 DEF OwnEvents
<1>3. \A k : Has(s, h, k) <=> Has(s, g, k)
  BY <1>2 DEF Has
<1>4. Sound(s, g, e) => Sound(s, h, e)
  BY <1>2, <1>3 DEF Sound, InOrder
<1>5. Whole(s, g, e) => Whole(s, h, e)
  BY <1>3 DEF Whole
<1>6. \A p : Joined(s, g, p, e) => Joined(s, h, p, e)
  BY <1>2, <1>3 DEF Joined
<1> QED BY <1>2, <1>3, <1>4, <1>5, <1>6 DEF h

\* A beginning of what was given is sound as well.
LEMMA GivenBeginning ==
  ASSUME NEW a \in Seq(Notices), NEW b \in Seq(Notices), NEW s, NEW e \in Nat, Sound(s, a \o b, e)
  PROVE  Sound(s, a, e)
<1> DEFINE g == a \o b
<1>1. /\ g \in Seq(Notices) /\ Len(a) \in Nat /\ Len(b) \in Nat
      /\ Len(g) = Len(a) + Len(b)
      /\ \A i \in 1..(Len(a) + Len(b)) : g[i] = IF i <= Len(a) THEN a[i] ELSE b[i - Len(a)]
  BY ConcatProperties, LenProperties
<1>2. DOMAIN g = 1..(Len(a) + Len(b)) /\ DOMAIN a = 1..Len(a)
  BY <1>1, LenProperties
<1>3. Sound(s, g, e)
  OBVIOUS
<1> HIDE DEF g
<1>4. \A i \in DOMAIN a : i \in DOMAIN g /\ g[i] = a[i] /\ i \in Nat
  BY <1>1, <1>2
<1>5. \A i \in DOMAIN g : i \notin DOMAIN a => \A j \in DOMAIN a : j < i
  BY <1>1, <1>2
<1>6. \A i \in OwnEvents(s, a) : i \in OwnEvents(s, g) /\ g[i] = a[i]
  BY <1>4 DEF OwnEvents
<1>7. ASSUME NEW i \in OwnEvents(s, a), NEW k \in 1..(a[i].n - 1)
      PROVE  Has(s, a, k)
  <2>1. PICK j \in OwnEvents(s, g) : g[j].n = k
    BY <1>3, <1>6, <1>7 DEF Sound, InOrder, Has
  <2>2. a[i].n \in 1..e /\ k < a[i].n
    <3>1. a[i].n \in 1..e
      BY <1>3, <1>6 DEF Sound
    <3> QED BY <1>7, <3>1
  <2>3. j \in DOMAIN a
    <3>1. j \notin DOMAIN a => a[i].n < k
      BY <1>3, <1>5, <1>6, <2>1 DEF Sound, InOrder, OwnEvents
    <3> QED BY <2>2, <3>1
  <2>4. j \in OwnEvents(s, a) /\ a[j].n = k
    BY <1>4, <2>1, <2>3 DEF OwnEvents
  <2> QED BY <2>4 DEF Has
<1> QED BY <1>3, <1>6, <1>7 DEF Sound, InOrder

LEMMA TailNumbered ==
  ASSUME NEW p \in Seq(Notices), p # <<>>, NEW s
  PROVE  /\ \A i \in Numbered(s, Tail(p)) :
              i \in Nat /\ i >= 1 /\ i + 1 \in Numbered(s, p) /\ Tail(p)[i] = p[i + 1]
         /\ \A i \in Numbered(s, p) : i # 1 => i - 1 \in Numbered(s, Tail(p)) /\ Tail(p)[i - 1] = p[i]
         /\ Head(p) = p[1] /\ Head(p) \in Notices /\ 1 \in DOMAIN p
         /\ \A i \in DOMAIN p : i \in Nat /\ i >= 1
BY TailElements DEF Numbered

\* What is still to come stays so when the first of it is taken.
LEMMA ComingTail ==
  ASSUME NEW p \in Seq(Notices), p # <<>>, NEW s, NEW e \in Nat, Coming(s, p, e)
  PROVE  Coming(s, Tail(p), e)
<1> DEFINE t == Tail(p)
<1>0. t = Tail(p)
  OBVIOUS
<1> HIDE DEF t
<1>a. \A i \in Numbered(s, t) : i \in Nat /\ i + 1 \in Numbered(s, p) /\ t[i] = p[i + 1]
  BY <1>0, TailNumbered
<1>b. \A i \in DOMAIN t : i \in Nat /\ i + 1 \in DOMAIN p /\ t[i] = p[i + 1]
  BY <1>0, TailElements
<1>1. /\ \A i \in Numbered(s, t) : i \in Nat /\ i + 1 \in Numbered(s, p) /\ t[i] = p[i + 1]
      /\ \A i \in DOMAIN t : i \in Nat /\ i + 1 \in DOMAIN p /\ t[i] = p[i + 1]
  BY <1>a, <1>b
<1>2. \A i, j \in Numbered(s, t) : i < j => i + 1 < j + 1
  BY <1>1
<1>3. \A i \in DOMAIN t, j \in Numbered(s, t) : j + 1 < i + 1 => j < i
  BY <1>1
<1>4. Coming(s, t, e)
  BY <1>1, <1>2, <1>3 DEF Coming
<1> QED BY <1>4 DEF t

\* Taking anything but a numbered notice of the turn keeps the two joined.
LEMMA JoinedTail ==
  ASSUME NEW p \in Seq(Notices), p # <<>>, NEW s, NEW g, NEW e, Joined(s, g, p, e), 1 \notin Numbered(s, p)
  PROVE  Joined(s, g, Tail(p), e)
<1> DEFINE t == Tail(p)
<1>1. /\ \A i \in Numbered(s, t) : i + 1 \in Numbered(s, p) /\ t[i] = p[i + 1]
      /\ \A i \in Numbered(s, p) : i - 1 \in Numbered(s, t) /\ t[i - 1] = p[i]
  BY TailNumbered
<1> HIDE DEF t
<1>2. Joined(s, g, t, e)
  BY <1>1 DEF Joined
<1> QED BY <1>2 DEF t

\* The next event of the turn is given.
LEMMA EventGiven ==
  ASSUME NEW g \in Seq(Notices), NEW p \in Seq(Notices), p # <<>>, NEW s, NEW e \in Nat,
         Sound(s, g, e), Coming(s, p, e), Joined(s, g, p, e), 1 \in OwnEvents(s, p)
  PROVE  Sound(s, Append(g, Head(p)), e) /\ Joined(s, Append(g, Head(p)), Tail(p), e)
<1> DEFINE x == Head(p)
           h == Append(g, x)
           t == Tail(p)
           N == Len(g) + 1
<1>1. /\ \A i \in Numbered(s, t) : i \in Nat /\ i >= 1 /\ i + 1 \in Numbered(s, p) /\ t[i] = p[i + 1]
      /\ \A i \in Numbered(s, p) : i # 1 => i - 1 \in Numbered(s, t) /\ t[i - 1] = p[i]
      /\ x = p[1] /\ x \in Notices /\ \A i \in DOMAIN p : i \in Nat /\ i >= 1
  BY TailNumbered
<1>2. /\ DOMAIN h = DOMAIN g \cup {N} /\ N \in Nat
      /\ \A i \in DOMAIN g : i \in Nat /\ i < N /\ h[i] = g[i]
      /\ h[N] = x
  BY <1>1, AppendElements
<1>3. /\ 1 \in Numbered(s, p) /\ x.turn = s /\ x.kind = "event"
      /\ \A i \in Numbered(s, p) : i \in DOMAIN p
  BY <1>1 DEF OwnEvents, Numbered
<1>4. x.n \in 1..e
  BY <1>1, <1>3 DEF Coming
<1>5. \A i \in OwnEvents(s, g) : g[i].n \in 1..e
  BY DEF Sound
<1> HIDE DEF x, h, t, N
<1>6. /\ OwnEvents(s, h) = OwnEvents(s, g) \cup {N}
      /\ \A i \in OwnEvents(s, g) : i \in Nat /\ i < N /\ h[i] = g[i]
      /\ h[N] = x /\ N \in Nat /\ N \notin OwnEvents(s, g)
  BY <1>2, <1>3 DEF OwnEvents
<1>7. \A i \in OwnEvents(s, g) : g[i].n < x.n
  BY <1>1, <1>3 DEF Joined
<1>8. \A j \in Numbered(s, p) : j # 1 => x.n < p[j].n
  BY <1>1, <1>3 DEF Coming
<1>9. \A k : Has(s, g, k) => Has(s, h, k)
  BY <1>6 DEF Has
<1>10. Has(s, h, x.n)
  BY <1>6 DEF Has
<1>11. \A k \in 1..(x.n - 1) : Has(s, g, k)
  <2> SUFFICES ASSUME NEW k \in 1..(x.n - 1) PROVE Has(s, g, k)
    OBVIOUS
  <2>1. k \in 1..e /\ k < x.n
    BY <1>4
  <2>2. \A j \in Numbered(s, p) : p[j].n # k
    <3> SUFFICES ASSUME NEW j \in Numbered(s, p), p[j].n = k PROVE FALSE
      OBVIOUS
    <3>1. CASE j = 1
      BY <1>1, <1>4, <2>1, <3>1
    <3>2. CASE j # 1
      BY <1>4, <1>8, <2>1, <3>2
    <3> QED BY <3>1, <3>2
  <2> QED BY <2>1, <2>2 DEF Joined
<1>12. InOrder(s, h)
  <2>1. ASSUME NEW i \in OwnEvents(s, h), NEW j \in OwnEvents(s, h), i < j
        PROVE  h[i].n < h[j].n
    <3>1. i # N
      BY <1>6, <2>1
    <3>2. CASE j = N
      BY <1>6, <1>7, <3>1, <3>2
    <3>3. CASE j # N
      BY <1>6, <2>1, <3>1, <3>3 DEF Sound, InOrder
    <3> QED BY <3>2, <3>3
  <2>2. ASSUME NEW i \in OwnEvents(s, h), NEW k \in 1..(h[i].n - 1)
        PROVE  Has(s, h, k)
    <3>1. CASE i = N
      BY <1>6, <1>9, <1>11, <2>2, <3>1
    <3>2. CASE i # N
      BY <1>6, <1>9, <2>2, <3>2 DEF Sound, InOrder
    <3> QED BY <3>1, <3>2
  <2> QED BY <2>1, <2>2 DEF InOrder
<1>13. Sound(s, h, e)
  BY <1>4, <1>5, <1>6, <1>12 DEF Sound
<1>14. Joined(s, h, t, e)
  <2>1. ASSUME NEW k \in 1..e PROVE Has(s, h, k) \/ \E i \in Numbered(s, t) : t[i].n = k
    <3>1. CASE Has(s, g, k)
      BY <1>9, <3>1
    <3>2. ASSUME NEW j \in Numbered(s, p), p[j].n = k
          PROVE  Has(s, h, k) \/ \E i \in Numbered(s, t) : t[i].n = k
      <4>1. CASE j = 1
        BY <1>1, <1>10, <3>2, <4>1
      <4>2. CASE j # 1
        BY <1>1, <3>2, <4>2
      <4> QED BY <4>1, <4>2
    <3> QED BY <3>1, <3>2 DEF Joined
  <2>2. ASSUME NEW i \in OwnEvents(s, h), NEW j \in Numbered(s, t) PROVE h[i].n < t[j].n
    <3>1. j + 1 \in Numbered(s, p) /\ t[j] = p[j + 1] /\ j + 1 # 1
      BY <1>1
    <3>2. CASE i = N
      BY <1>6, <1>8, <3>1, <3>2
    <3>3. CASE i # N
      BY <1>6, <3>1, <3>3 DEF Joined
    <3> QED BY <3>2, <3>3
  <2> QED BY <2>1, <2>2 DEF Joined
<1> QED BY <1>13, <1>14 DEF h, t, x

\* The completion of the turn is delivered: nothing was missed.
LEMMA TurnComplete ==
  ASSUME NEW g \in Seq(Notices), NEW p \in Seq(Notices), p # <<>>, NEW s, NEW e \in Nat,
         Coming(s, p, e), Joined(s, g, p, e), Head(p).turn = s, Head(p).kind = "completed"
  PROVE  Whole(s, g, e)
<1>1. Head(p) = p[1] /\ 1 \in DOMAIN p /\ \A i \in Numbered(s, p) : i \in Nat /\ i >= 1
  BY TailElements DEF Numbered
<1>2. Numbered(s, p) = {}
  BY <1>1 DEF Coming
<1> QED BY <1>2 DEF Joined, Whole

\* The process sends something that is no numbered notice of the turn.
LEMMA OtherSent ==
  ASSUME NEW p \in Seq(Notices), NEW x \in Notices, NEW s, NEW e,
         ~(x.turn = s /\ x.kind \in {"event", "malformed"}), Coming(s, p, e)
  PROVE  /\ Coming(s, Append(p, x), e)
         /\ \A g : Joined(s, g, p, e) => Joined(s, g, Append(p, x), e)
<1> DEFINE q == Append(p, x)
<1>0. q = Append(p, x)
  OBVIOUS
<1> HIDE DEF q
<1>1. /\ DOMAIN q = DOMAIN p \cup {Len(p) + 1}
      /\ \A i \in DOMAIN p : i < Len(p) + 1 /\ q[i] = p[i]
      /\ q[Len(p) + 1] = x
  BY <1>0, AppendElements
<1>2. Numbered(s, q) = Numbered(s, p) /\ \A i \in Numbered(s, p) : i \in DOMAIN p /\ q[i] = p[i]
  BY <1>1 DEF Numbered
<1>3. Coming(s, q, e)
  BY <1>1, <1>2 DEF Coming
<1>4. \A g : Joined(s, g, p, e) => Joined(s, g, q, e)
  BY <1>2 DEF Joined
<1> QED BY <1>0, <1>3, <1>4

\* The process sends the next numbered notice of the turn, which has not ended.
LEMMA NextSent ==
  ASSUME NEW p \in Seq(Notices), NEW x \in Notices, NEW s, NEW e \in Nat,
         x.turn = s, x.kind \in {"event", "malformed"}, x.n = e + 1, Coming(s, p, e),
         \A i \in DOMAIN p : ~(p[i].turn = s /\ p[i].kind = "completed")
  PROVE  /\ Coming(s, Append(p, x), e + 1)
         /\ \A g : Sound(s, g, e) => Sound(s, g, e + 1)
         /\ \A g : Sound(s, g, e) /\ Joined(s, g, p, e) => Joined(s, g, Append(p, x), e + 1)
<1> DEFINE q == Append(p, x)
           N == Len(p) + 1
<1>0. q = Append(p, x) /\ N = Len(p) + 1
  OBVIOUS
<1> HIDE DEF q, N
<1>1. /\ DOMAIN q = DOMAIN p \cup {N} /\ N \in Nat
      /\ \A i \in DOMAIN p : i \in Nat /\ i < N /\ q[i] = p[i]
      /\ q[N] = x
  BY <1>0, AppendElements
<1>2. /\ Numbered(s, q) = Numbered(s, p) \cup {N}
      /\ \A i \in Numbered(s, p) : i \in DOMAIN p /\ i \in Nat /\ i < N /\ q[i] = p[i]
  BY <1>1 DEF Numbered
<1>3. \A i \in Numbered(s, p) : p[i].n \in 1..e
  BY DEF Coming
<1>4. Coming(s, q, e + 1)
  <2>1. \A i \in Numbered(s, q) : q[i].n \in 1..(e + 1)
    BY <1>1, <1>2, <1>3
  <2>2. ASSUME NEW i \in Numbered(s, q), NEW j \in Numbered(s, q), i < j PROVE q[i].n < q[j].n
    <3>1. i # N
      BY <1>1, <1>2, <2>2
    <3>2. CASE j = N
      <4>1. i \in Numbered(s, p) /\ q[i] = p[i] /\ q[j].n = e + 1
        BY <1>1, <1>2, <3>1, <3>2
      <4>2. q[i].n \in 1..e
        BY <1>3, <4>1
      <4> QED BY <4>1, <4>2
    <3>3. CASE j # N
      BY <1>2, <2>2, <3>1, <3>3 DEF Coming
    <3> QED BY <3>2, <3>3
  <2>3. \A i \in DOMAIN q : ~(q[i].turn = s /\ q[i].kind = "completed")
    BY <1>1
  <2> QED BY <2>1, <2>2, <2>3 DEF Coming
<1>5. \A g : Sound(s, g, e) => Sound(s, g, e + 1)
  BY DEF Sound
<1>6. ASSUME NEW g, Sound(s, g, e), Joined(s, g, p, e) PROVE Joined(s, g, q, e + 1)
  <2>1. ASSUME NEW k \in 1..(e + 1) PROVE Has(s, g, k) \/ \E i \in Numbered(s, q) : q[i].n = k
    <3>1. CASE k = e + 1
      BY <1>1, <1>2, <3>1
    <3>2. CASE k # e + 1
      <4>1. k \in 1..e
        BY <3>2
      <4> QED BY <1>2, <1>6, <4>1 DEF Joined
    <3> QED BY <3>1, <3>2
  <2>2. ASSUME NEW i \in OwnEvents(s, g), NEW j \in Numbered(s, q) PROVE g[i].n < q[j].n
    <3>1. g[i].n \in 1..e
      BY <1>6 DEF Sound
    <3>2. CASE j = N
      BY <1>1, <3>1, <3>2
    <3>3. CASE j # N
      BY <1>2, <1>6, <3>3 DEF Joined
    <3> QED BY <3>2, <3>3
  <2> QED BY <2>1, <2>2 DEF Joined
<1> QED BY <1>0, <1>4, <1>5, <1>6

LEMMA GivenTypes ==
  ASSUME ConsumersOK, NEW s \in Streams
  PROVE  seen[s] \in Seq(Notices) /\ queue[s] \in Seq(Notices) /\ Given(s) \in Seq(Notices)
<1>1. seen[s] \in Seq(Notices) /\ queue[s] \in Seq(Notices)
  BY DEF ConsumersOK
<1> QED BY <1>1, ConcatProperties DEF Given

\* What is queued comes after all that was given before.
LEMMA GivenQueued ==
  ASSUME ConsumersOK, NEW s \in Streams, NEW x \in Notices,
         seen'[s] = seen[s], queue'[s] = Append(queue[s], x)
  PROVE  Given(s)' = Append(Given(s), x)
<1> DEFINE a == seen[s]
           b == queue[s]
<1>1. a \in Seq(Notices) /\ b \in Seq(Notices) /\ a \o b \in Seq(Notices) /\ <<x>> \in Seq(Notices)
  BY GivenTypes DEF Given
<1>2. Given(s) = a \o b /\ Given(s)' = a \o Append(b, x)
  BY DEF Given
<1> HIDE DEF a, b
<1>3. Append(b, x) = b \o <<x>> /\ Append(a \o b, x) = (a \o b) \o <<x>>
  BY <1>1, AppendIsConcat
<1>4. (a \o b) \o <<x>> = a \o (b \o <<x>>)
  BY <1>1, ConcatAssociative
<1> QED BY <1>2, <1>3, <1>4

\* What the consumer takes from the queue was given before.
LEMMA GivenTaken ==
  ASSUME ConsumersOK, NEW s \in Streams, queue[s] # <<>>,
         seen'[s] = Append(seen[s], Head(queue[s])), queue'[s] = Tail(queue[s])
  PROVE  Given(s)' = Given(s)
<1> DEFINE a == seen[s]
           b == queue[s]
           x == Head(b)
           t == Tail(b)
<1>1. a \in Seq(Notices) /\ b \in Seq(Notices) /\ b # <<>>
  BY GivenTypes
<1>2. Given(s) = a \o b /\ Given(s)' = Append(a, x) \o t
  BY DEF Given
<1>3. x \in Notices /\ t \in Seq(Notices) /\ <<x>> \in Seq(Notices)
  BY <1>1, HeadTailProperties
<1>4. b = <<x>> \o t
  <2>1. /\ Len(b) \in Nat /\ Len(b) >= 1 /\ Len(t) = Len(b) - 1
        /\ \A i \in 1..Len(t) : t[i] = b[i + 1]
        /\ x = b[1]
    BY <1>1, HeadTailProperties, LenProperties, EmptySeq
  <2> HIDE DEF a, b, x, t
  <2>2. /\ <<x>> \o t \in Seq(Notices) /\ Len(<<x>> \o t) = Len(<<x>>) + Len(t)
        /\ \A i \in 1..(Len(<<x>>) + Len(t)) :
             (<<x>> \o t)[i] = IF i <= Len(<<x>>) THEN <<x>>[i] ELSE t[i - Len(<<x>>)]
    BY <1>3, ConcatProperties
  <2>3. Len(<<x>>) = 1 /\ <<x>>[1] = x
    OBVIOUS
  <2>4. Len(<<x>> \o t) = Len(b)
    BY <2>1, <2>2, <2>3
  <2>5. \A i \in 1..Len(b) : (<<x>> \o t)[i] = b[i]
    <3> SUFFICES ASSUME NEW i \in 1..Len(b) PROVE (<<x>> \o t)[i] = b[i]
      OBVIOUS
    <3>1. CASE i = 1
      BY <2>1, <2>2, <2>3, <3>1
    <3>2. CASE i # 1
      <4>1. i - 1 \in 1..Len(t) /\ (i - 1) + 1 = i
        BY <2>1, <3>2
      <4> QED BY <2>1, <2>2, <2>3, <3>2, <4>1
    <3> QED BY <3>1, <3>2
  <2> QED BY <1>1, <2>2, <2>4, <2>5, SeqEqual
<1> HIDE DEF a, b, x, t
<1>5. Append(a, x) = a \o <<x>>
  BY <1>1, <1>3, AppendIsConcat
<1>6. (a \o <<x>>) \o t = a \o (<<x>> \o t)
  BY <1>1, <1>3, ConcatAssociative
<1> QED BY <1>2, <1>4, <1>5, <1>6

LEMMA EventsKept ==
  ASSUME NEW s \in Streams, EventsAt(s), Given(s)' = Given(s), emitted'[s] = emitted[s],
         pipe' = pipe \/ (pipe' = <<>> /\ link' # "up"),
         turn'[s] = "none" => turn[s] = "none", Taking(s)' => Taking(s), result'[s] => result[s]
  PROVE  EventsAt(s)'
<1>1. Sound(s, Given(s)', emitted'[s]) /\ (turn'[s] = "none" => emitted'[s] = 0)
  BY DEF EventsAt
<1>2. Coming(s, pipe', emitted'[s])
  <2>1. CASE pipe' = pipe
    BY <2>1 DEF EventsAt
  <2>2. CASE pipe' = <<>>
    <3>1. DOMAIN pipe' = {}
      BY <2>2
    <3> QED BY <3>1 DEF Coming, Numbered
  <2> QED BY <2>1, <2>2
<1>3. Taking(s)' => Joined(s, Given(s)', pipe', emitted'[s])
  <2>1. Taking(s)' => link' = "up"
    BY DEF Taking
  <2> QED BY <2>1 DEF EventsAt
<1>4. result'[s] => Whole(s, Given(s)', emitted'[s])
  BY DEF EventsAt
<1> QED BY <1>1, <1>2, <1>3, <1>4 DEF EventsAt

\* The step of one consumer.
LEMMA EventsConsumer ==
  ASSUME TypeOK, MessageInv, EventsInv, NEW s \in Streams, ConsumerNext(s), NEW r \in Streams
  PROVE  EventsAt(r)'
<1>0. ConsumersOK /\ FlagsOK /\ SessionOK /\ ProcessOK /\ EventsAt(r)
  BY DEF TypeOK, EventsInv
<1> USE DEF consumerVars, bufferVars, sessionVars, processVars
<1>1. UNCHANGED <<turn, emitted, pipe, link>>
  <2>1. CASE Parts(s) \/ Moves(s)
    BY <1>0, <2>1, PartsFacts, MovesFacts
  <2>2. CASE ~Parts(s) /\ ~Moves(s)
    BY <2>2, ConsumerSplit DEF MakeStream, Start, LeaveRelease, CancelAgain, Finish, WriteInterrupt,
                                HandlerFails
  <2> QED BY <2>1, <2>2
<1>2. CASE Start(s)
  <2>1. /\ UNCHANGED <<seen, queue, done, result, expired>>
        /\ subscribed' = subscribed \cup {s} /\ ~started[s]
    BY <1>2 DEF Start, MayStart
  <2>2. Given(r)' = Given(r)
    BY <2>1 DEF Given
  <2>3. CASE r # s
    <3>1. Taking(r)' => Taking(r)
      BY <1>1, <2>1, <2>3 DEF Taking, Listens
    <3> QED BY <1>0, <1>1, <2>1, <2>2, <3>1, EventsKept
  <2>4. CASE r = s
    <3>1. emitted[s] = 0
      BY <1>0, <2>1, <2>4 DEF MessageInv, EventsAt
    <3>2. 1..0 = {}
      OBVIOUS
    <3>3. OwnEvents(s, Given(s)) = {} /\ Numbered(s, pipe) = {}
      BY <1>0, <2>4, <3>1, <3>2 DEF EventsAt, Sound, Coming
    <3>4. Joined(s, Given(s), pipe, emitted[s])
      BY <3>1, <3>2, <3>3 DEF Joined
    <3> QED BY <1>0, <1>1, <2>1, <2>2, <2>4, <3>4 DEF EventsAt
  <2> QED BY <2>3, <2>4
<1>3. CASE StartTooLate(s) \/ StartTimesOut(s) \/ PollTimesOut(s)
  <2>1. /\ UNCHANGED <<seen, subscribed>>
        /\ queue' = [queue EXCEPT ![s] = <<>>] /\ result' = [result EXCEPT ![s] = FALSE]
        /\ done' = [done EXCEPT ![s] = TRUE]
        /\ expired' = expired \/ expired' = [expired EXCEPT ![s] = TRUE]
    BY <1>3 DEF StartTooLate, StartTimesOut, PollTimesOut, RaiseTimeout
  <2>2. CASE r # s
    <3>1. queue'[r] = queue[r] /\ (result'[r] = result[r]) /\ (done'[r] = done[r])
          /\ (expired'[r] = expired[r])
      BY <1>0, <2>1, <2>2 DEF ConsumersOK, FlagsOK
    <3>2. Given(r)' = Given(r)
      BY <2>1, <3>1 DEF Given
    <3>3. Taking(r)' => Taking(r)
      BY <1>1, <2>1, <3>1 DEF Taking, Listens
    <3> QED BY <1>0, <1>1, <3>1, <3>2, <3>3, EventsKept
  <2>3. CASE r = s
    <3>1. queue'[s] = <<>> /\ ~result'[s] /\ done'[s]
      BY <1>0, <2>1 DEF ConsumersOK, FlagsOK
    <3>2. seen[s] \in Seq(Notices) /\ queue[s] \in Seq(Notices)
      BY <1>0, GivenTypes
    <3>3. Given(s)' = seen[s]
      <4>1. Given(s)' = seen[s] \o <<>>
        BY <2>1, <3>1 DEF Given
      <4> QED BY <3>2, <4>1, ConcatEmptySeq
    <3>4. emitted[s] \in Nat
      BY <1>0, StreamAssumption DEF ProcessOK
    <3>5. Sound(s, seen[s], emitted[s])
      <4>1. Sound(s, seen[s] \o queue[s], emitted[s])
        BY <1>0, <2>3 DEF EventsAt, Given
      <4> QED BY <3>2, <3>4, <4>1, GivenBeginning
    <3>6. ~Taking(s)'
      BY <3>1 DEF Taking, Listens
    <3> QED BY <1>0, <1>1, <2>3, <3>1, <3>3, <3>5, <3>6 DEF EventsAt
  <2> QED BY <2>2, <2>3
<1>4. CASE PollEvent(s)
  <2>1. /\ UNCHANGED <<done, result, expired, subscribed>>
        /\ queue[s] # <<>>
        /\ seen' = [seen EXCEPT ![s] = Append(@, Head(queue[s]))]
        /\ queue' = [queue EXCEPT ![s] = Tail(@)]
    BY <1>4 DEF PollEvent
  <2>2. Given(r)' = Given(r)
    <3>1. CASE r = s
      <4>1. seen'[s] = Append(seen[s], Head(queue[s])) /\ queue'[s] = Tail(queue[s])
        BY <1>0, <2>1 DEF ConsumersOK
      <4> QED BY <1>0, <2>1, <3>1, <4>1, GivenTaken
    <3>2. CASE r # s
      BY <1>0, <2>1, <3>2 DEF ConsumersOK, Given
    <3> QED BY <3>1, <3>2
  <2>3. Taking(r)' => Taking(r)
    BY <1>1, <2>1 DEF Taking, Listens
  <2> QED BY <1>0, <1>1, <2>1, <2>2, <2>3, EventsKept
<1>5. CASE HandlerFails(s)
  <2> DEFINE x == [turn |-> s, kind |-> "failure", n |-> 0]
  <2>1. /\ UNCHANGED <<seen, done, result, expired, subscribed>>
        /\ queue' = queue \/ (sink \in Streams /\ queue' = [queue EXCEPT ![sink] = Append(@, x)])
    BY <1>0, <1>5 DEF HandlerFails, SessionOK
  <2>2. x \in Notices /\ x.kind = "failure"
    BY StreamAssumption DEF Notices, Kinds
  <2> HIDE DEF x
  <2>3. Taking(r)' <=> Taking(r)
    BY <1>1, <2>1 DEF Taking, Listens
  <2>4. CASE queue'[r] = queue[r]
    <3>1. Given(r)' = Given(r)
      BY <2>1, <2>4 DEF Given
    <3> QED BY <1>0, <1>1, <2>1, <2>3, <3>1, EventsKept
  <2>5. CASE queue'[r] # queue[r]
    <3>1. queue'[r] = Append(queue[r], x)
      BY <1>0, <2>1, <2>5 DEF ConsumersOK
    <3>2. Given(r)' = Append(Given(r), x) /\ Given(r) \in Seq(Notices)
      BY <1>0, <2>1, <2>2, <3>1, GivenQueued, GivenTypes
    <3>3. /\ Sound(r, Given(r), emitted[r]) => Sound(r, Append(Given(r), x), emitted[r])
          /\ Whole(r, Given(r), emitted[r]) => Whole(r, Append(Given(r), x), emitted[r])
          /\ Joined(r, Given(r), pipe, emitted[r]) => Joined(r, Append(Given(r), x), pipe, emitted[r])
      BY <2>2, <3>2, GivenOther
    <3> QED BY <1>0, <1>1, <2>1, <2>3, <3>2, <3>3 DEF EventsAt
  <2> QED BY <2>4, <2>5
<1>6. CASE \/ MakeStream(s) \/ StartFails(s) \/ PollEnd(s) \/ Cancel(s) \/ Leave(s) \/ StartReturns(s)
           \/ PollWaits(s) \/ DeadlinePasses(s) \/ LeaveRelease(s) \/ CancelAgain(s) \/ Finish(s)
           \/ WriteInterrupt(s)
  <2>1. /\ UNCHANGED <<seen, queue, done, result>>
        /\ subscribed' \subseteq subscribed
        /\ expired' = expired \/ expired' = [expired EXCEPT ![s] = TRUE]
    BY <1>6 DEF MakeStream, StartFails, PollEnd, Cancel, Leave, StartReturns, PollWaits, DeadlinePasses,
                LeaveRelease, CancelAgain, Finish, WriteInterrupt
  <2>2. expired[r] => expired'[r]
    BY <1>0, <2>1 DEF FlagsOK
  <2>3. Given(r)' = Given(r) /\ (Taking(r)' => Taking(r))
    BY <1>1, <2>1, <2>2 DEF Given, Taking, Listens
  <2> QED BY <1>0, <1>1, <2>1, <2>3, EventsKept
<1> QED BY <1>2, <1>3, <1>4, <1>5, <1>6 DEF ConsumerNext, Poll

\* What delivering a notification does to the buffers of one stream.
LEMMA FeedFacts ==
  ASSUME ConsumersOK, FlagsOK, NEW x \in Notices, Feed(x), NEW r \in Streams
  PROVE  /\ \/ queue'[r] = queue[r]
            \/ /\ Listens(r) /\ ~expired[r] /\ Mine(r, x) /\ x.kind # "malformed"
               /\ queue'[r] = Append(queue[r], x)
         /\ Listens(r) /\ ~expired[r] /\ Mine(r, x) /\ x.kind # "malformed" =>
              queue'[r] = Append(queue[r], x)
         /\ Listens(r) /\ ~expired[r] /\ x.kind = "malformed" => done'[r]
         /\ Listens(r) /\ ~expired[r] /\ x.kind = "completed" /\ x.turn = r => done'[r]
         /\ done[r] => done'[r]
<1> DEFINE takes == {s \in Streams : Listens(s) /\ ~expired[s] /\ Mine(s, x)}
<1>1. /\ queue' = [s \in Streams |-> IF s \in takes /\ x.kind # "malformed"
                                       THEN Append(queue[s], x) ELSE queue[s]]
      /\ done' = [s \in Streams |->
                    done[s] \/ (s \in takes /\ x.kind \in {"completed", "malformed"})]
  BY DEF Feed
<1>2. r \in takes <=> Listens(r) /\ ~expired[r] /\ Mine(r, x)
  OBVIOUS
<1> HIDE DEF takes
<1>3. queue'[r] = IF r \in takes /\ x.kind # "malformed" THEN Append(queue[r], x) ELSE queue[r]
  BY <1>1
<1>4. done'[r] = (done[r] \/ (r \in takes /\ x.kind \in {"completed", "malformed"}))
  BY <1>1
<1>5. x.kind = "malformed" => Mine(r, x)
  BY DEF Mine
<1>6. x.turn = r => Mine(r, x)
  BY DEF Mine
<1> QED BY <1>2, <1>3, <1>4, <1>5, <1>6

LEMMA EventsDeliver ==
  ASSUME TypeOK, EventsInv, Deliver, NEW r \in Streams
  PROVE  EventsAt(r)'
<1>0. ConsumersOK /\ FlagsOK /\ SessionOK /\ ProcessOK /\ EventsAt(r)
  BY DEF TypeOK, EventsInv
<1> DEFINE x == Head(pipe)
           g == Given(r)
           e == emitted[r]
<1>1. /\ pipe # <<>> /\ link = "up" /\ x \in Notices /\ pipe' = Tail(pipe)
      /\ UNCHANGED <<seen, expired, subscribed, turn, emitted, link>>
      /\ result'[r] = (result[r] \/ (x.kind = "completed" /\ x.turn = r /\ Listens(r) /\ ~expired[r]))
  BY <1>0, DeliverFacts
<1>2. pipe \in Seq(Notices) /\ e \in Nat /\ g \in Seq(Notices)
  BY <1>0, GivenTypes, StreamAssumption DEF ProcessOK
<1>3. /\ turn[r] = "none" => e = 0
      /\ Sound(r, g, e) /\ Coming(r, pipe, e) /\ Coming(r, Tail(pipe), e)
      /\ Taking(r) => Joined(r, g, pipe, e)
      /\ result[r] => Whole(r, g, e)
  BY <1>0, <1>1, <1>2, ComingTail DEF EventsAt
<1>4. /\ 1 \in DOMAIN pipe /\ x = pipe[1]
  BY <1>1, <1>2, TailElements
<1> HIDE DEF x, g, e
<1>5. SUFFICES /\ Sound(r, Given(r)', e)
               /\ Taking(r)' => Joined(r, Given(r)', Tail(pipe), e)
               /\ result'[r] => Whole(r, Given(r)', e)
  BY <1>1, <1>3 DEF EventsAt, e
<1>6. Taking(r) <=> Listens(r) /\ ~expired[r]
  BY <1>1 DEF Taking
<1>7. CASE x.kind = "accepted"
  <2>1. UNCHANGED <<queue, done>>
    BY <1>7 DEF Deliver, Accept, bufferVars, x
  <2>2. Given(r)' = g /\ (Taking(r)' <=> Taking(r))
    BY <1>1, <2>1 DEF Given, Taking, Listens, g
  <2>3. 1 \notin Numbered(r, pipe)
    BY <1>4, <1>7 DEF Numbered
  <2>4. Joined(r, g, pipe, e) => Joined(r, g, Tail(pipe), e)
    BY <1>1, <1>2, <2>3, JoinedTail
  <2> QED BY <1>1, <1>3, <1>7, <2>2, <2>4
<1>8. CASE x.kind # "accepted"
  <2>1. Feed(x)
    BY <1>8 DEF Deliver, x
  <2>2. /\ \/ queue'[r] = queue[r]
           \/ /\ Listens(r) /\ ~expired[r] /\ Mine(r, x) /\ x.kind # "malformed"
              /\ queue'[r] = Append(queue[r], x)
        /\ Listens(r) /\ ~expired[r] /\ Mine(r, x) /\ x.kind # "malformed" =>
             queue'[r] = Append(queue[r], x)
        /\ Listens(r) /\ ~expired[r] /\ x.kind = "malformed" => done'[r]
        /\ Listens(r) /\ ~expired[r] /\ x.kind = "completed" /\ x.turn = r => done'[r]
        /\ done[r] => done'[r]
    BY <1>0, <1>1, <2>1, FeedFacts
  <2>3. Taking(r)' => Taking(r) /\ ~done'[r]
    BY <1>1, <2>2 DEF Taking, Listens
  <2>4. queue'[r] = queue[r] => Given(r)' = g
    BY <1>1 DEF Given, g
  <2>5. queue'[r] = Append(queue[r], x) => Given(r)' = Append(g, x)
    BY <1>0, <1>1, GivenQueued DEF g
  <2>6. CASE x.turn = r /\ x.kind = "event"
    <3>1. 1 \in OwnEvents(r, pipe) /\ Mine(r, x)
      BY <1>4, <2>6 DEF OwnEvents, Mine
    <3>2. CASE Taking(r)
      <4>1. Given(r)' = Append(g, x)
        BY <1>6, <2>2, <2>5, <2>6, <3>1, <3>2
      <4>2. Sound(r, Append(g, x), e) /\ Joined(r, Append(g, x), Tail(pipe), e)
        BY <1>1, <1>2, <1>3, <3>1, <3>2, EventGiven DEF x
      <4>3. result'[r] => Whole(r, Append(g, x), e)
        <5>1. result[r] => Whole(r, g, e)
          BY <1>3
        <5>2. Whole(r, g, e) => Whole(r, Append(g, x), e)
          <6>1. \A k : Has(r, g, k) => Has(r, Append(g, x), k)
            <7>1. /\ DOMAIN Append(g, x) = DOMAIN g \cup {Len(g) + 1}
                  /\ \A i \in DOMAIN g : Append(g, x)[i] = g[i]
              BY <1>1, <1>2, AppendElements
            <7>2. \A i \in OwnEvents(r, g) : i \in OwnEvents(r, Append(g, x)) /\ Append(g, x)[i] = g[i]
              BY <7>1 DEF OwnEvents
            <7> QED BY <7>2 DEF Has
          <6> QED BY <6>1 DEF Whole
        <5>3. result'[r] = result[r]
          BY <1>0, <1>1, <2>6 DEF FlagsOK
        <5> QED BY <5>1, <5>2, <5>3
      <4> QED BY <4>1, <4>2, <4>3
    <3>3. CASE ~Taking(r)
      <4>1. Given(r)' = g
        BY <1>6, <2>2, <2>4, <3>3
      <4>2. result'[r] = result[r]
        BY <1>0, <1>1, <2>6 DEF FlagsOK
      <4> QED BY <1>3, <2>3, <3>3, <4>1, <4>2
    <3> QED BY <3>2, <3>3
  <2>7. CASE ~(x.turn = r /\ x.kind = "event")
    <3>1. /\ Sound(r, Given(r)', e)
          /\ Whole(r, g, e) => Whole(r, Given(r)', e)
          /\ \A p : Joined(r, g, p, e) => Joined(r, Given(r)', p, e)
      <4>1. /\ Sound(r, g, e) => Sound(r, Append(g, x), e)
            /\ Whole(r, g, e) => Whole(r, Append(g, x), e)
            /\ \A p : Joined(r, g, p, e) => Joined(r, Append(g, x), p, e)
        BY <1>1, <1>2, <2>7, GivenOther
      <4> QED BY <1>3, <2>2, <2>4, <2>5, <4>1
    <3>2. Taking(r)' => Joined(r, Given(r)', Tail(pipe), e)
      <4> SUFFICES ASSUME Taking(r)' PROVE Joined(r, Given(r)', Tail(pipe), e)
        OBVIOUS
      <4>1. ~(x.turn = r /\ x.kind = "malformed")
        BY <1>6, <2>2, <2>3
      <4>2. 1 \notin Numbered(r, pipe)
        BY <1>4, <2>7, <4>1 DEF Numbered
      <4>3. Joined(r, g, Tail(pipe), e)
        BY <1>1, <1>2, <1>3, <2>3, <4>2, JoinedTail
      <4> QED BY <3>1, <4>3
    <3>3. result'[r] => Whole(r, Given(r)', e)
      <4>1. x.kind = "completed" /\ x.turn = r /\ Taking(r) => Whole(r, g, e)
        BY <1>1, <1>2, <1>3, TurnComplete DEF x
      <4>2. result'[r] => Whole(r, g, e)
        BY <1>1, <1>3, <1>6, <4>1
      <4> QED BY <3>1, <4>2
    <3> QED BY <3>1, <3>2, <3>3
  <2> QED BY <2>6, <2>7
<1> QED BY <1>7, <1>8

\* The process takes a message or an interrupt, or sends something.
LEMMA EventsProcess ==
  ASSUME TypeOK, ResultInv, EventsInv, ProcessNext, NEW r \in Streams
  PROVE  EventsAt(r)'
<1>0. ConsumersOK /\ FlagsOK /\ SessionOK /\ ProcessOK /\ EventsAt(r)
  BY DEF TypeOK, EventsInv
<1> USE DEF consumerVars, bufferVars, sessionVars, processVars
<1>1. UNCHANGED <<seen, queue, done, result, expired, subscribed, link>>
  BY DEF ProcessNext, TakeInterrupt, TakeMessage, EmitEvent, AskUser, EmitMalformed, CompleteTurn
<1>2. Given(r)' = Given(r) /\ (Taking(r)' <=> Taking(r))
  BY <1>1 DEF Given, Taking, Listens
<1>3. pipe \in Seq(Notices) /\ emitted[r] \in Nat
  BY <1>0, StreamAssumption DEF ProcessOK
\* What has no number, from a turn that now runs or has ended.
<1>4. ASSUME emitted' = emitted, turn'[r] = "none" => turn[r] = "none",
             \/ pipe' = pipe
             \/ \E t \in Streams, kind \in {"accepted", "completed"} : Sends(t, kind, 0)
      PROVE  EventsAt(r)'
  <2>1. CASE pipe' = pipe
    BY <1>0, <1>1, <1>2, <1>4, <2>1, EventsKept
  <2>2. ASSUME NEW t \in Streams, NEW kind \in {"accepted", "completed"}, Sends(t, kind, 0)
        PROVE  EventsAt(r)'
    <3> DEFINE x == [turn |-> t, kind |-> kind, n |-> 0]
    <3>1. x \in Notices /\ ~(x.turn = r /\ x.kind \in {"event", "malformed"}) /\ pipe' = Append(pipe, x)
      BY <2>2, StreamAssumption DEF Notices, Kinds, Sends
    <3> HIDE DEF x
    <3>2. /\ Coming(r, pipe', emitted[r])
          /\ Joined(r, Given(r), pipe, emitted[r]) => Joined(r, Given(r), pipe', emitted[r])
      BY <1>0, <1>3, <3>1, OtherSent DEF EventsAt
    <3> QED BY <1>0, <1>1, <1>2, <1>4, <3>2 DEF EventsAt
  <2> QED BY <1>4, <2>1, <2>2
<1>5. ASSUME NEW t \in Streams, EmitEvent(t) \/ EmitMalformed(t) PROVE EventsAt(r)'
  <2>1. /\ t \in Running /\ turn' = turn
        /\ emitted' = [emitted EXCEPT ![t] = @ + 1]
        /\ emitted[t] < MaxEvents[t]
        /\ \E kind \in {"event", "malformed"} : Sends(t, kind, emitted[t] + 1)
    BY <1>5 DEF EmitEvent, EmitMalformed
  <2>2. PICK kind \in {"event", "malformed"} : Sends(t, kind, emitted[t] + 1)
    BY <2>1
  <2> DEFINE x == [turn |-> t, kind |-> kind, n |-> emitted[t] + 1]
  <2>3. /\ x \in Notices /\ x.turn = t /\ x.kind \in {"event", "malformed"} /\ x.n = emitted[t] + 1
        /\ pipe' = Append(pipe, x)
    <3>1. emitted[t] + 1 \in Nat
      BY <1>0, <2>1, StreamAssumption DEF ProcessOK
    <3> QED BY <2>2, <3>1 DEF Notices, Kinds, Sends
  <2> HIDE DEF x
  <2>4. CASE r # t
    <3>1. emitted'[r] = emitted[r]
      BY <1>0, <2>1, <2>4 DEF ProcessOK
    <3>2. /\ Coming(r, pipe', emitted[r])
          /\ Joined(r, Given(r), pipe, emitted[r]) => Joined(r, Given(r), pipe', emitted[r])
      BY <1>0, <1>3, <2>3, <2>4, OtherSent DEF EventsAt
    <3> QED BY <1>0, <1>1, <1>2, <2>1, <3>1, <3>2 DEF EventsAt
  <2>5. CASE r = t
    <3>1. emitted'[t] = emitted[t] + 1 /\ turn[t] = "running"
      BY <1>0, <2>1 DEF ProcessOK, Running
    <3>2. /\ \A i \in DOMAIN pipe : ~(pipe[i].turn = t /\ pipe[i].kind = "completed")
          /\ ~result[t]
      BY <3>1 DEF ResultInv, ResultAt, Ended
    <3>3. /\ Coming(t, pipe', emitted[t] + 1)
          /\ Sound(t, Given(t), emitted[t] + 1)
          /\ Joined(t, Given(t), pipe, emitted[t]) => Joined(t, Given(t), pipe', emitted[t] + 1)
      BY <1>0, <1>3, <2>3, <2>5, <3>2, NextSent DEF EventsAt
    <3> QED BY <1>0, <1>1, <1>2, <2>1, <2>5, <3>1, <3>2, <3>3 DEF EventsAt
  <2> QED BY <2>4, <2>5
<1>6. CASE TakeInterrupt
  <2>1. /\ emitted' = emitted
        /\ turn' = turn \/ \E t \in Streams : turn' = [turn EXCEPT ![t] = "interrupted"]
        /\ pipe' = pipe \/ \E t \in Streams : Sends(t, "completed", 0)
    BY <1>6 DEF TakeInterrupt, Running
  <2>2. turn'[r] = "none" => turn[r] = "none"
    BY <1>0, <2>1 DEF ProcessOK
  <2> QED BY <1>4, <2>1, <2>2
<1>7. ASSUME NEW t \in Streams, TakeMessage(t) \/ AskUser(t) \/ CompleteTurn(t) PROVE EventsAt(r)'
  <2>1. /\ emitted' = emitted
        /\ turn' \in {turn, [turn EXCEPT ![t] = "running"], [turn EXCEPT ![t] = "completed"]}
        /\ pipe' = pipe \/ \E kind \in {"accepted", "completed"} : Sends(t, kind, 0)
    BY <1>7 DEF TakeMessage, AskUser, CompleteTurn
  <2>2. turn'[r] = "none" => turn[r] = "none"
    BY <1>0, <2>1 DEF ProcessOK
  <2> QED BY <1>4, <2>1, <2>2
<1> QED BY <1>5, <1>6, <1>7 DEF ProcessNext

LEMMA EventsStep == TypeOK /\ MessageInv /\ ResultInv /\ EventsInv /\ [Next]_vars => EventsInv'
<1> SUFFICES ASSUME TypeOK, MessageInv, ResultInv, EventsInv, [Next]_vars, NEW r \in Streams
             PROVE  EventsAt(r)'
  BY DEF EventsInv
<1>0. ConsumersOK /\ FlagsOK /\ SessionOK /\ ProcessOK /\ EventsAt(r)
  BY DEF TypeOK, EventsInv
<1> USE DEF vars, consumerVars, bufferVars, sessionVars, processVars
<1>1. ASSUME NEW s \in Streams, ConsumerNext(s) PROVE EventsAt(r)'
  BY <1>1, EventsConsumer
<1>2. CASE Deliver
  BY <1>2, EventsDeliver
<1>3. CASE LoseLink \/ CloseBegins \/ CloseUnsubscribes \/ CloseEnds \/ UNCHANGED vars
  <2>1. /\ UNCHANGED <<seen, queue, result, expired, turn, emitted>>
        /\ UNCHANGED <<pipe, link>> \/ (pipe' = <<>> /\ link' # "up")
        /\ subscribed' \subseteq subscribed
        /\ done' = done \/ link' # "up"
    BY <1>3 DEF LoseLink, CloseBegins, CloseUnsubscribes, CloseEnds
  <2>2. Given(r)' = Given(r) /\ (Taking(r)' => Taking(r))
    BY <2>1 DEF Given, Taking, Listens
  <2> QED BY <1>0, <2>1, <2>2, EventsKept
<1>4. CASE ProcessNext
  BY <1>4, EventsProcess
<1> QED BY <1>1, <1>2, <1>3, <1>4 DEF Next

-----------------------------------------------------------------------------
(* The theorems *)

Inv == /\ TypeOK
       /\ HoldInv /\ PartedInv /\ AttachedInv
       /\ MessageInv /\ ResultInv /\ OrderInv /\ BehindInv /\ AttendedInv /\ EventsInv

LEMMA InitInv == Init => Inv
<1> SUFFICES ASSUME Init PROVE Inv
  OBVIOUS
<1> USE DEF Init
<1>1. TypeOK
  <2>1. \A S : <<>> \in Seq(S)
    OBVIOUS
  <2>2. 0 \in Nat
    BY StreamAssumption
  <2> QED BY <2>1, <2>2 DEF TypeOK, ConsumersOK, FlagsOK, SessionOK, ProcessOK, Points, Outcomes, Releases
<1>2. HoldInv /\ PartedInv /\ AttachedInv
  BY DEF HoldInv, PartedInv, AttachedInv, OneAttached, Made, Parted
<1>3. DOMAIN stdin = {} /\ DOMAIN pipe = {} /\ Running = {}
  BY DEF Running
<1>4. MessageInv /\ OrderInv /\ BehindInv
  BY <1>3 DEF MessageInv, OrderInv, BehindInv
<1>5. ResultInv /\ AttendedInv
  BY <1>3 DEF ResultInv, ResultAt, AttendedInv, AttendedAt, Unattended
<1>6. EventsInv
  <2> SUFFICES ASSUME NEW s \in Streams PROVE EventsAt(s)
    BY DEF EventsInv
  <2>1. Given(s) = <<>> /\ ~Listens(s) /\ ~result[s] /\ emitted[s] = 0
    BY DEF Given, Listens
  <2>2. OwnEvents(s, Given(s)) = {} /\ Numbered(s, pipe) = {}
    BY <1>3, <2>1 DEF OwnEvents, Numbered
  <2> QED BY <1>3, <2>1, <2>2 DEF EventsAt, Sound, InOrder, Coming, Taking
<1> QED BY <1>1, <1>2, <1>4, <1>5, <1>6 DEF Inv

LEMMA NextInv == Inv /\ [Next]_vars => Inv'
<1> SUFFICES ASSUME Inv, [Next]_vars PROVE Inv'
  OBVIOUS
<1>1. TypeOK'
  BY ConsumersStep, FlagsStep, SessionStep, ProcessStep DEF Inv, TypeOK
<1>2. HoldInv' /\ PartedInv' /\ AttachedInv'
  BY HoldStep, AttachedStep DEF Inv
<1>3. MessageInv' /\ ResultInv' /\ OrderInv' /\ BehindInv' /\ AttendedInv'
  BY MessageStep, ResultStep, OrderStep, BehindStep, AttendedStep DEF Inv
<1>4. EventsInv'
  BY EventsStep DEF Inv
<1> QED BY <1>1, <1>2, <1>3, <1>4 DEF Inv

\* The invariants above hold together, of any number of streams and whatever else happens.
THEOREM Invariance == Spec => []Inv
<1> QED BY InitInv, NextInv, PTL DEF Spec

\* Every buffer, flag and message of a stream keeps its type, whatever happens beside the loop.
THEOREM StreamTypeCorrect == Spec => []TypeOK
<1>1. Inv => TypeOK
  BY DEF Inv
<1> QED BY <1>1, Invariance, PTL

\* While the session is open only the active stream listens to notifications and is told of
\* interaction errors (README.md:54), if no program starts a stream it has closed before.
THEOREM StreamOneAttached == "start_released" \notin Liberties => (Spec => []OneAttached)
<1> SUFFICES ASSUME "start_released" \notin Liberties PROVE Spec => []OneAttached
  OBVIOUS
<1>1. Inv => OneAttached
  BY DEF Inv, AttachedInv
<1> QED BY <1>1, Invariance, PTL

\* A result comes from the end of the stream's own turn, and a loop that just ends has one.
THEOREM StreamResultIsOwn == Spec => []ResultIsOwn
<1>1. Inv => ResultIsOwn
  BY DEF Inv, ResultInv, ResultAt, ResultIsOwn, Ended
<1> QED BY <1>1, Invariance, PTL

\* The consumer is given the events of its turn in the order they were sent and without a gap,
\* and all of them before the loop stops, whatever happens beside the loop.
THEOREM StreamNothingMissed == Spec => []NothingMissed
<1>1. Inv => NothingMissed
  <2> SUFFICES ASSUME Inv, NEW s \in Streams
               PROVE  /\ \A i \in OwnEvents(s, Given(s)) : Given(s)[i].n \in 1..emitted[s]
                      /\ InOrder(s, Given(s))
                      /\ outcome[s] = "stopped" => \A k \in 1..emitted[s] : Has(s, Given(s), k)
    BY DEF NothingMissed
  <2>1. EventsAt(s) /\ ResultAt(s)
    BY DEF Inv, EventsInv, ResultInv
  <2> QED BY <2>1 DEF EventsAt, Sound, Whole, ResultAt
<1> QED BY <1>1, Invariance, PTL

\* A consumer that timed out, was cancelled or broke off has its turn interrupted
\* (README.md:55-57), if no program starts a stream it has closed before.
THEOREM StreamTurnAttended == "start_released" \notin Liberties => (Spec => []TurnAttended)
<1> SUFFICES ASSUME "start_released" \notin Liberties PROVE Spec => []TurnAttended
  OBVIOUS
<1>1. Inv => TurnAttended
  BY DEF Inv, AttendedInv, AttendedAt, Unattended, Interrupting, NeverTold, Parted, TurnAttended
<1> QED BY <1>1, Invariance, PTL

\* An interrupt ends its own turn, one whose consumer is gone, or one whose message was written
\* while the interrupt was still to be written; for any number of streams, and whatever else happens.
THEOREM StreamInterruptsOwnTurn == Spec => InterruptsOwnTurn
<1> DEFINE Step == \A t \in Streams : turn[t] = "running" /\ turn'[t] = "interrupted" => Meets(t)
<1>1. Inv /\ [Next]_vars => [Step]_vars
  <2> SUFFICES ASSUME Inv, Next, NEW t \in Streams, turn[t] = "running", turn'[t] = "interrupted",
                      release[t] = "held"
               PROVE  Head(stdin)[2] \in overtaken[t]
    BY DEF vars, Meets
  <2> USE DEF consumerVars, bufferVars, sessionVars, processVars
  <2>0. ConsumersOK /\ FlagsOK /\ SessionOK /\ ProcessOK
    BY DEF Inv, TypeOK
  <2>1. TakeInterrupt
    <3>1. ASSUME NEW s \in Streams, ConsumerNext(s) PROVE FALSE
      BY <2>0, <3>1, ConsumerSplit, PartsFacts, MovesFacts
         DEF MakeStream, Start, LeaveRelease, CancelAgain, Finish, WriteInterrupt, HandlerFails
    <3>2. CASE Deliver \/ LoseLink \/ CloseBegins \/ CloseUnsubscribes \/ CloseEnds
      BY <2>0, <3>2, DeliverFacts DEF LoseLink, CloseBegins, CloseUnsubscribes, CloseEnds
    <3>3. ASSUME NEW u \in Streams, \/ TakeMessage(u) \/ EmitEvent(u) \/ AskUser(u)
                                    \/ EmitMalformed(u) \/ CompleteTurn(u)
          PROVE  FALSE
      BY <2>0, <3>3 DEF TakeMessage, EmitEvent, AskUser, EmitMalformed, CompleteTurn, ProcessOK
    <3> QED BY <3>1, <3>2, <3>3 DEF Next, ProcessNext
  <2>2. 1 \in DOMAIN stdin /\ Head(stdin) = stdin[1] /\ stdin[1][1] = "interrupt" /\ t \in Running
    BY <2>0, <2>1 DEF TakeInterrupt, ProcessOK, Running
  <2> QED BY <2>2 DEF Inv, OrderInv
<1> QED BY <1>1, Invariance, PTL DEF Spec, InterruptsOwnTurn

=============================================================================
