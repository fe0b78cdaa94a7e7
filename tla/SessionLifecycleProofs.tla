----------------------- MODULE SessionLifecycleProofs -----------------------
(***************************************************************************)
(* Theorems about SessionLifecycle for any number of callers and of calls. *)
(***************************************************************************)
EXTENDS SessionLifecycle, FiniteSetTheorems, TLAPS

-----------------------------------------------------------------------------
(* The inductive invariant *)

\* The callers inside open(), and those inside close().
Waiting == {c \in Callers : pc[c] \in {"opening", "opened", "open_failed"}}
CloseAsked ==
  \A c \in Callers : pc[c] = "closing" => awaits[c] \in Closers /\ closeRequested[Of(awaits[c])]

\* The steps of _close_impl().
Impl == {"asking", "ending", "tools", "bare"}

\* What each task and caller counts on, whatever is cancelled when.
ReplacementOK ==
  replacement \in Replacing =>
    /\ state[Source] \in {"REPLACING", "CLOSING"}
    /\ closing[Source] \in {"none", "after_replacement"}

ClosersOK ==
  /\ closing[Source] = "after_replacement" =>
       closeReplaced /\ closeRequested[Source] /\ (replacement = "replaced" => state[Source] = "RETIRED")
  /\ closing[Source] = "after_open" => state[Source] = "CLOSING"
  /\ closing[Source] = "successor" => state[Source] = "RETIRED"
  /\ closing[Source] \in Impl => state[Source] # "RETIRED"
  /\ closing[Source] = "done" => state[Source] \in {"CLOSED", "RETIRED"}
  /\ state[Source] \in {"LAZY", "OPENING", "REPLACING"} => closing[Source] = "none"
  /\ state[Source] = "OPEN" /\ closing[Source] # "none" =>
       closeRequested[Source] /\ replacement = "failed"
  /\ state[Source] = "RETIRED" =>
       replacement = "replaced" /\ (closeReplaced \/ closing[Source] = "none")

\* The second close task of a source that was restored.
AgainOK ==
  closing[Again] # "none" =>
    /\ closing[Again] \in Impl \cup {"done"}
    /\ closeRequested[Source] /\ replacement = "failed"
    /\ state[Source] \in {"CLOSING", "CLOSED"}
    /\ closing[Again] = "done" => state[Source] = "CLOSED"
    /\ closing[Source] \in Impl \cup {"after_replacement", "done"}

SuccessorOK ==
  state[Successor] = "OPEN" =>
    replacement \in {"checkpoint", "restoring", "giving_up"} \/ state[Source] = "RETIRED"

\* One caller at most is replacing the session, or has a replacement to take or to undo.
Replacers == {c \in Callers : pc[c] \in {"replacing", "abandoning", "replaced", "restoring"}}
ReplacersOK ==
  /\ \A c, d \in Replacers : c = d
  /\ \A c \in Callers :
       /\ pc[c] \in {"replacing", "abandoning"} => replacement \in Replacing
       /\ pc[c] \in {"replaced", "restoring"} => state[Source] = "RETIRED"
       /\ pc[c] = "restoring" => ~closeReplaced

ControlInv == ReplacementOK /\ ClosersOK /\ AgainOK /\ SuccessorOK /\ ReplacersOK

\* Who has the process and its client, as long as no cancellation has undone a
\* replacement or cut a _close_impl() short.
OpeningOwns ==
  /\ state[Source] = "LAZY" => opening \in {"none", "failed"}
  /\ state[Source] = "OPENING" => opening \in Opening \cup {"failed"}
  /\ opening # "opened" => ~client[Source]
  /\ opening \in {"none", "failed", "starting", "serving", "unserving"} => process = "down"
  /\ opening \in {"connected", "unwinding"} => process = "up"
  /\ opening \in Opening => state[Source] = "OPENING" \/ closing[Source] = "after_open"
  /\ closing[Source] = "after_open" => opening # "none" /\ (opening = "opened" => client[Source])

SourceOwns ==
  /\ state[Source] \in {"OPEN", "REPLACING"} \/ replacement \in Replacing => client[Source]
  /\ replacement \in Replacing \/ (state[Source] = "OPEN" /\ closing[Source] = "none") =>
       process = "up"
  /\ state[Source] = "CLOSING" =>
       replacement = "giving_up" \/ closing[Source] \in Impl \cup {"after_open", "after_replacement"}
  /\ closing[Source] = "after_replacement" =>
       \/ client[Source] /\ state[Source] \in {"OPEN", "CLOSING"}
       \/ state[Source] = "RETIRED"
       \/ state[Source] = "CLOSED" /\ replacement = "failed"
  /\ \A t \in {Source, Again} :
       /\ closing[t] \in Impl => (closing[t] # "bare" /\ client[Source]) \/ state[Source] = "CLOSED"
       /\ closing[t] \in {"tools", "bare"} => process # "up"
  /\ state[Source] = "CLOSED" => process # "up" /\ ~client[Source]

\* Before it is made, while the source is given up for it, and once it has taken over.
SuccessorOwns ==
  /\ replacement \in Replacing \cup {"replaced"} => opening = "opened"
  /\ replacement # "replaced" => closing[Successor] = "none"
  /\ replacement \in {"none", "operation", "loading", "rollback", "failed"} =>
       state[Successor] = "RETIRED" /\ ~client[Successor]
  /\ replacement \in {"checkpoint", "restoring"} => state[Successor] = "OPEN" /\ client[Successor]
  /\ replacement = "giving_up" => state[Successor] \in {"OPEN", "RETIRED"}
  /\ replacement = "replaced" =>
       /\ state[Source] = "RETIRED" /\ ~client[Source]
       /\ closeReplaced => closing[Source] # "none"
       /\ closing[Source] \in {"none", "after_replacement", "successor", "done"}
       /\ closing[Successor] \in Impl \cup {"none", "done"}
       /\ closing[Successor] = "none" =>
            /\ state[Successor] = "OPEN" /\ client[Successor]
            /\ closing[Source] \in {"none", "after_replacement"}
       /\ closing[Successor] \in Impl => state[Successor] \in {"CLOSING", "RETIRED"}
       /\ closing[Successor] = "done" => state[Successor] \in {"CLOSED", "RETIRED"} /\ ~client[Successor]
       /\ closing[Successor] \in {"tools", "bare", "done"} => process # "up"
       /\ closing[Source] = "after_replacement" => closing[Successor] = "none"
       /\ closing[Source] = "done" => closing[Successor] = "done"
  /\ returned => replacement = "replaced" /\ closing[Source] # "after_replacement"
  /\ replacement \in Replacing /\ closeReplaced => closing[Source] = "after_replacement"

\* One close task ends the process.
EndingOwns ==
  /\ process = "ending" => \E t \in Closers : closing[t] = "ending"
  /\ \A t \in Closers : closing[t] = "ending" => process = "ending"
  /\ \A t, u \in Closers : closing[t] = "ending" /\ closing[u] = "ending" => t = u

\* A session that a close() has returned for stays closed.
ClosedStays ==
  /\ Source \in closed =>
       /\ closeRequested[Source]
       /\ \/ /\ state[Source] = "CLOSED"
             /\ closing[Source] \in {"none", "done"} \/ closing[Again] = "done"
          \/ state[Source] = "RETIRED" /\ closing[Source] = "done"
  /\ Successor \in closed => replacement = "replaced" /\ closing[Successor] = "done"

Owned == OpeningOwns /\ SourceOwns /\ SuccessorOwns /\ EndingOwns /\ ClosedStays
NotUndoing == \A c \in Callers : pc[c] # "restoring"
Safe == lapses \cap {"undone", "cut"} = {}
OwnedInv == Safe => Owned /\ NotUndoing

\* Who has the tool servers, as long as in addition no session was detached that was about
\* to close them.
Served ==
  /\ opening \in {"none", "failed", "starting"} => servers = "down"
  /\ state[Source] = "CLOSED" => servers = "down"
  /\ closing[Successor] \in {"asking", "ending"} => client[Successor]
  /\ closing[Successor] # "bare"
  /\ closing[Successor] = "done" => servers = "down"
ServedInv == lapses = {} => Served

-----------------------------------------------------------------------------
(* Types *)

LEMMA SessionsTwo ==
  /\ Source \in Sessions /\ Successor \in Sessions /\ Source # Successor
  /\ \A s \in Sessions : s = Source \/ s = Successor
BY DEF Sessions, Source, Successor

LEMMA ClosersThree ==
  /\ Source \in Closers /\ Successor \in Closers /\ Again \in Closers
  /\ Again # Source /\ Again # Successor
  /\ \A t \in Closers : t = Source \/ t = Successor \/ t = Again
  /\ Of(Source) = Source /\ Of(Successor) = Successor /\ Of(Again) = Source
  /\ Closers \subseteq Nat
BY DEF Closers, Sessions, Source, Successor, Again, Of

\* Where a close task begins, and which one.
LEMMA CloserFacts ==
  ASSUME NEW s \in Sessions
  PROVE  /\ Gathers(s) \in {"tools", "bare"} /\ CloseImpl(s) \in {"asking", "bare"}
         /\ NewCloser(s) \in Closers /\ Of(NewCloser(s)) = s
         /\ Closer(s) \in Closers /\ Of(Closer(s)) = s
BY SessionsTwo, ClosersThree DEF Gathers, CloseImpl, NewCloser, Closer

LEMMA GoesFacts ==
  ASSUME CallersOK, NEW c \in Callers, NEW p \in Points, Goes(c, p)
  PROVE  /\ pc' \in [Callers -> Points] /\ pc'[c] = p
         /\ \A d \in Callers : d # c => pc'[d] = pc[d]
BY DEF CallersOK, Goes

LEMMA ResolvedFacts ==
  ASSUME CallersOK, NEW to \in {"opened", "open_failed"}, pc' = Resolved("opening", to)
  PROVE  /\ pc' \in [Callers -> Points]
         /\ \A c \in Callers : pc'[c] = IF pc[c] = "opening" THEN to ELSE pc[c]
BY DEF CallersOK, Resolved, Points

LEMMA EndsFacts ==
  ASSUME CallersOK, NEW outcome \in {"replaced", "failed"}, ReplacementEnds(outcome)
  PROVE  /\ replacement' = outcome /\ pc' \in [Callers -> Points]
         /\ \A c \in Callers :
              pc'[c] = IF pc[c] = "replacing"
                         THEN (IF outcome = "replaced" THEN "replaced" ELSE "replace_failed")
                       ELSE IF pc[c] = "abandoning" THEN "idle" ELSE pc[c]
<1>1. /\ replacement' = outcome
      /\ pc' = [c \in Callers |->
              IF pc[c] = "replacing" THEN (IF outcome = "replaced" THEN "replaced" ELSE "replace_failed")
              ELSE IF pc[c] = "abandoning" THEN "idle" ELSE pc[c]]
  BY DEF ReplacementEnds
<1> QED BY <1>1 DEF CallersOK, Points

\* The steps of the callers that only move one of them.
LEMMA CallsFacts ==
  ASSUME CallersOK, NEW c \in Callers, Calls(c)
  PROVE  pc[c] = "idle" /\ calls' \in [Callers -> 0..MaxCalls]
<1>1. calls[c] + 1 \in 0..MaxCalls
  <2>1. calls[c] \in 0..MaxCalls /\ calls[c] < MaxCalls
    BY DEF CallersOK, Calls
  <2> QED BY <2>1, SessionAssumption
<1> QED BY <1>1 DEF CallersOK, Calls

LEMMA FlagsStep == FlagsOK /\ [Next]_vars => FlagsOK'
<1> SUFFICES ASSUME FlagsOK, [Next]_vars PROVE FlagsOK'
  OBVIOUS
<1> USE DEF FlagsOK, Lapses, vars, sessionVars, openVars, replaceVars, callerVars, connection, Unchanged
<1>1. CASE OpenTask \/ CleanupTask
  BY <1>1 DEF OpenTask, OpenServes, OpenConnects, OpenSucceeds, OpenFails, OpenDisconnects,
              OpenUnwinds, CleanupTask,
              CleanupCancels, CleanupDrains, CleanupEnds, StartsClose
<1>2. ASSUME NEW t \in Closers, CloseTask(t) PROVE FlagsOK'
  BY <1>2 DEF CloseTask, ClientCloses, ClientClosed, CloseImplEnds, CloseAfterOpen,
              CloseAfterFailure, CloseAfterReplacement, CloseSuccessorEnds
<1>3. CASE ReplacementTask
  BY <1>3 DEF ReplacementTask, OperationSucceeds, OperationFails, LoadSucceeds, LoadFails,
              RollbackSucceeds, GiveUp, GiveUpEnds, GiveUpCut, Retire, CheckpointCancelled,
              RestoreSucceeds
<1>4. ASSUME NEW c \in Callers,
             \/ OpenReturnsAtOnce(c) \/ OpenWaits(c) \/ OpenBehindCleanup(c) \/ OpenReturns(c)
             \/ CancelOpen(c) \/ LeaveCleanup(c)
      PROVE  FlagsOK'
  BY <1>4 DEF OpenReturnsAtOnce, OpenWaits, OpenBehindCleanup, OpenReturns, CancelOpen, LeaveCleanup
<1>5. ASSUME NEW c \in Callers, Close(c) \/ CloseReturns(c) \/ CancelClose(c)
      PROVE  FlagsOK'
  BY <1>5 DEF Close, CloseIsNoOp, CloseAtOnce, CloseWaits, StartsClose, CloseReturns, CancelClose
<1>6. ASSUME NEW c \in Callers,
             \/ ReplaceStarts(c) \/ ReplaceReturns(c) \/ CancelReplace(c) \/ CancelReplaced(c)
             \/ UndoEnds(c)
      PROVE  FlagsOK'
  BY <1>6 DEF ReplaceStarts, ReplaceReturns, CancelReplace, CancelReplaced, UndoEnds
<1>7. CASE UNCHANGED vars
  BY <1>7
<1> QED BY <1>1, <1>2, <1>3, <1>4, <1>5, <1>6, <1>7 DEF Next, Tasks

LEMMA SessionsStep == SessionsOK /\ [Next]_vars => SessionsOK'
<1> SUFFICES ASSUME SessionsOK, [Next]_vars PROVE SessionsOK'
  OBVIOUS
<1> USE SessionsTwo, ClosersThree DEF SessionsOK, States, Closing, vars, sessionVars, openVars, replaceVars, callerVars, connection, Unchanged
<1>0. /\ \A s \in Sessions : CloseImpl(s) \in Closing /\ Gathers(s) \in Closing
      /\ \A s \in Sessions : NewCloser(s) \in Closers
      /\ \A t \in Closers : Of(t) \in Sessions
  BY CloserFacts
<1>1. CASE OpenTask \/ CleanupTask
  <2>1. CASE OpenTask
    BY <2>1 DEF OpenTask, OpenServes, OpenConnects, OpenSucceeds, OpenFails, OpenDisconnects,
              OpenUnwinds
  <2>2. CASE CleanupTask
    BY <1>0, <2>2 DEF CleanupTask, CleanupCancels, CleanupDrains, CleanupEnds, StartsClose
  <2> QED BY <1>1, <2>1, <2>2
<1>2. ASSUME NEW t \in Closers, CloseTask(t) PROVE SessionsOK'
  <2>1. CASE ClientCloses(t) \/ ClientClosed(t)
    BY <1>0, <2>1 DEF ClientCloses, ClientClosed
  <2>2. CASE CloseImplEnds(t)
    BY <1>0, <2>2 DEF CloseImplEnds
  <2>3. CASE CloseAfterOpen \/ CloseAfterFailure \/ CloseSuccessorEnds
    BY <1>0, <2>3 DEF CloseAfterOpen, CloseAfterFailure, CloseSuccessorEnds, Closes
  <2>4. CASE CloseAfterReplacement
    BY <1>0, <2>4 DEF CloseAfterReplacement
  <2> QED BY <1>2, <2>1, <2>2, <2>3, <2>4 DEF CloseTask
<1>3. CASE ReplacementTask
  BY <1>3 DEF ReplacementTask, OperationSucceeds, OperationFails, LoadSucceeds, LoadFails,
              RollbackSucceeds, GiveUp, GiveUpEnds, GiveUpCut, Retire, CheckpointCancelled,
              RestoreSucceeds, Detached
<1>4. ASSUME NEW c \in Callers,
             \/ OpenReturnsAtOnce(c) \/ OpenWaits(c) \/ OpenBehindCleanup(c) \/ OpenReturns(c)
             \/ CancelOpen(c) \/ LeaveCleanup(c)
      PROVE  SessionsOK'
  BY <1>4 DEF OpenReturnsAtOnce, OpenWaits, OpenBehindCleanup, OpenReturns, CancelOpen, LeaveCleanup
<1>5. ASSUME NEW c \in Callers, Close(c) \/ CloseReturns(c) \/ CancelClose(c)
      PROVE  SessionsOK'
  <2>1. ASSUME NEW s \in Sessions, CloseWaits(c, s) PROVE SessionsOK'
    BY <1>0, <2>1 DEF CloseWaits, StartsClose
  <2>2. ASSUME NEW s \in Sessions, CloseIsNoOp(c, s) \/ CloseAtOnce(c, s) PROVE SessionsOK'
    BY <2>2 DEF CloseIsNoOp, CloseAtOnce
  <2> QED BY <1>5, <2>1, <2>2 DEF Close, CloseReturns, CancelClose
<1>6. ASSUME NEW c \in Callers,
             \/ ReplaceStarts(c) \/ ReplaceReturns(c) \/ CancelReplace(c) \/ CancelReplaced(c)
             \/ UndoEnds(c)
      PROVE  SessionsOK'
  BY <1>6 DEF ReplaceStarts, ReplaceReturns, CancelReplace, CancelReplaced, UndoEnds, Detached
<1>7. CASE UNCHANGED vars
  BY <1>7
<1> QED BY <1>1, <1>2, <1>3, <1>4, <1>5, <1>6, <1>7 DEF Next, Tasks

LEMMA TasksStep == TasksOK /\ waiters' \in Nat /\ [Next]_vars => TasksOK'
<1> SUFFICES ASSUME TasksOK, waiters' \in Nat, [Next]_vars PROVE TasksOK'
  OBVIOUS
<1> USE DEF TasksOK, Opening, Replacing, vars, sessionVars, openVars, replaceVars, callerVars, connection, Unchanged
<1>1. CASE OpenTask \/ CleanupTask
  BY <1>1 DEF OpenTask, OpenServes, OpenConnects, OpenSucceeds, OpenFails, OpenDisconnects,
              OpenUnwinds, CleanupTask,
              CleanupCancels, CleanupDrains, CleanupEnds,
              Awaiting, Unwinding
<1>2. ASSUME NEW t \in Closers, CloseTask(t) PROVE TasksOK'
  BY <1>2 DEF CloseTask, ClientCloses, ClientClosed, CloseImplEnds, CloseAfterOpen,
              CloseAfterFailure, CloseAfterReplacement, CloseSuccessorEnds
<1>3. CASE ReplacementTask
  BY <1>3 DEF ReplacementTask, OperationSucceeds, OperationFails, LoadSucceeds, LoadFails,
              RollbackSucceeds, GiveUp, GiveUpEnds, GiveUpCut, Retire, CheckpointCancelled,
              RestoreSucceeds, ReplacementEnds
<1>4. ASSUME NEW c \in Callers,
             \/ OpenReturnsAtOnce(c) \/ OpenWaits(c) \/ OpenBehindCleanup(c) \/ OpenReturns(c)
             \/ CancelOpen(c) \/ LeaveCleanup(c)
      PROVE  TasksOK'
  BY <1>4 DEF OpenReturnsAtOnce, OpenWaits, OpenBehindCleanup, OpenReturns, CancelOpen, LeaveCleanup
<1>5. ASSUME NEW c \in Callers, Close(c) \/ CloseReturns(c) \/ CancelClose(c)
      PROVE  TasksOK'
  BY <1>5 DEF Close, CloseIsNoOp, CloseAtOnce, CloseWaits, CloseReturns, CancelClose
<1>6. ASSUME NEW c \in Callers,
             \/ ReplaceStarts(c) \/ ReplaceReturns(c) \/ CancelReplace(c) \/ CancelReplaced(c)
             \/ UndoEnds(c)
      PROVE  TasksOK'
  BY <1>6 DEF ReplaceStarts, ReplaceReturns, CancelReplace, CancelReplaced, UndoEnds
<1>7. CASE UNCHANGED vars
  BY <1>7
<1> QED BY <1>1, <1>2, <1>3, <1>4, <1>5, <1>6, <1>7 DEF Next, Tasks

LEMMA CallersStep == CallersOK /\ TasksOK /\ CloseAsked /\ [Next]_vars => CallersOK'
<1> SUFFICES ASSUME CallersOK, TasksOK, CloseAsked, [Next]_vars PROVE CallersOK'
  OBVIOUS
<1> USE SessionsTwo, ClosersThree DEF vars, sessionVars, openVars, replaceVars, callerVars, connection, Unchanged
<1>p. \A p \in {"idle", "opening", "opened", "open_failed", "retrying", "abandoning_open", "closing",
                "replacing", "replaced", "replace_failed", "abandoning", "restoring"} : p \in Points
  BY DEF Points
<1>1. CASE OpenTask \/ CleanupTask
  <2>1. pc' \in [Callers -> Points]
    <3>1. pc' = pc \/ pc' = Resolved("opening", "opened") \/ pc' = Resolved("opening", "open_failed")
      BY <1>1 DEF OpenTask, OpenServes, OpenConnects, OpenSucceeds, OpenFails, OpenDisconnects,
              OpenUnwinds, CleanupTask,
                  CleanupCancels, CleanupDrains, CleanupEnds
    <3> QED BY <3>1, ResolvedFacts DEF CallersOK
  <2>2. UNCHANGED <<awaits, calls, closed>>
    BY <1>1 DEF OpenTask, OpenServes, OpenConnects, OpenSucceeds, OpenFails, OpenDisconnects,
              OpenUnwinds, CleanupTask,
                CleanupCancels, CleanupDrains, CleanupEnds
  <2> QED BY <2>1, <2>2 DEF CallersOK
<1>2. ASSUME NEW t \in Closers, CloseTask(t) PROVE CallersOK'
  BY <1>2 DEF CloseTask, ClientCloses, ClientClosed, CloseImplEnds, CloseAfterOpen,
              CloseAfterFailure, CloseAfterReplacement, CloseSuccessorEnds, CallersOK
<1>3. CASE ReplacementTask
  <2>1. pc' \in [Callers -> Points]
    <3>1. pc' = pc \/ ReplacementEnds("failed") \/ ReplacementEnds("replaced")
      BY <1>3 DEF ReplacementTask, OperationSucceeds, OperationFails, LoadSucceeds, LoadFails,
                  RollbackSucceeds, GiveUp, GiveUpEnds, GiveUpCut, Retire, CheckpointCancelled,
                  RestoreSucceeds
    <3> QED BY <3>1, EndsFacts DEF CallersOK
  <2>2. UNCHANGED <<awaits, calls, closed>>
    BY <1>3 DEF ReplacementTask, OperationSucceeds, OperationFails, LoadSucceeds, LoadFails,
                RollbackSucceeds, GiveUp, GiveUpEnds, GiveUpCut, Retire, CheckpointCancelled,
                RestoreSucceeds
  <2> QED BY <2>1, <2>2 DEF CallersOK
<1>4. ASSUME NEW c \in Callers,
             \/ OpenReturnsAtOnce(c) \/ OpenWaits(c) \/ OpenBehindCleanup(c) \/ OpenReturns(c)
             \/ CancelOpen(c) \/ LeaveCleanup(c)
      PROVE  CallersOK'
  <2>1. CASE OpenWaits(c)
    <3>1. /\ generation' \in Nat /\ awaits' = [awaits EXCEPT ![c] = generation'] /\ closed' = closed
          /\ Calls(c) \/ calls' = calls
      BY <2>1 DEF OpenWaits, TasksOK
    <3>2. calls' \in [Callers -> 0..MaxCalls]
      BY <3>1, CallsFacts DEF CallersOK
    <3>3. Goes(c, "opened") \/ Goes(c, "open_failed") \/ Goes(c, "opening")
      BY <2>1 DEF OpenWaits
    <3>4. pc' \in [Callers -> Points]
      BY <1>p, <3>3, GoesFacts
    <3> QED BY <3>1, <3>2, <3>4 DEF CallersOK
  <2>2. CASE ~OpenWaits(c)
    <3>1. pc' = pc \/ Goes(c, "idle") \/ Goes(c, "retrying") \/ Goes(c, "abandoning_open")
      BY <1>4, <2>2 DEF OpenReturnsAtOnce, OpenBehindCleanup, OpenReturns, CancelOpen, LeaveCleanup
    <3>2. pc' \in [Callers -> Points]
      BY <1>p, <3>1, GoesFacts DEF CallersOK
    <3>3. (Calls(c) \/ calls' = calls) /\ awaits' = awaits /\ closed' = closed
      BY <1>4, <2>2 DEF OpenReturnsAtOnce, OpenBehindCleanup, OpenReturns, CancelOpen, LeaveCleanup
    <3>4. calls' \in [Callers -> 0..MaxCalls]
      BY <3>3, CallsFacts DEF CallersOK
    <3> QED BY <3>2, <3>3, <3>4 DEF CallersOK
  <2> QED BY <2>1, <2>2
<1>5. ASSUME NEW c \in Callers, Close(c) \/ CloseReturns(c) \/ CancelClose(c)
      PROVE  CallersOK'
  <2>1. ASSUME NEW s \in Sessions, CloseIsNoOp(c, s) \/ CloseAtOnce(c, s) \/ CloseWaits(c, s)
        PROVE  CallersOK'
    <3>1. /\ Calls(c) /\ (pc' = pc \/ Goes(c, "closing"))
          /\ awaits' = awaits \/ \E t \in Closers : awaits' = [awaits EXCEPT ![c] = t]
          /\ closed' = closed \/ closed' = closed \cup {s}
      BY <2>1, CloserFacts DEF CloseIsNoOp, CloseAtOnce, CloseWaits
    <3>2. pc' \in [Callers -> Points] /\ calls' \in [Callers -> 0..MaxCalls]
      BY <1>p, <3>1, GoesFacts, CallsFacts DEF CallersOK
    <3> QED BY <3>1, <3>2 DEF CallersOK
  <2>2. CASE CancelClose(c)
    BY <1>p, <2>2, GoesFacts DEF CancelClose, CallersOK
  <2>3. CASE CloseReturns(c)
    <3>1. pc' \in [Callers -> Points]
      BY <1>p, <2>3, GoesFacts DEF CloseReturns
    <3>2. closed' \subseteq Sessions
      <4>1. \A t \in Closers : Of(t) \in Sessions
        OBVIOUS
      <4> QED BY <2>3, <4>1 DEF CloseReturns, CallersOK, CloseAsked
    <3> QED BY <2>3, <3>1, <3>2 DEF CloseReturns, CallersOK
  <2> QED BY <1>5, <2>1, <2>2, <2>3 DEF Close
<1>6. ASSUME NEW c \in Callers,
             \/ ReplaceStarts(c) \/ ReplaceReturns(c) \/ CancelReplace(c) \/ CancelReplaced(c)
             \/ UndoEnds(c)
      PROVE  CallersOK'
  <2>1. \E p \in Points : Goes(c, p)
    BY <1>6, <1>p DEF ReplaceStarts, ReplaceReturns, CancelReplace, CancelReplaced, UndoEnds
  <2>2. (Calls(c) \/ calls' = calls) /\ awaits' = awaits /\ closed' = closed
    BY <1>6 DEF ReplaceStarts, ReplaceReturns, CancelReplace, CancelReplaced, UndoEnds
  <2>3. pc' \in [Callers -> Points] /\ calls' \in [Callers -> 0..MaxCalls]
    BY <2>1, <2>2, GoesFacts, CallsFacts DEF CallersOK
  <2> QED BY <2>2, <2>3 DEF CallersOK
<1>7. CASE UNCHANGED vars
  BY <1>7 DEF CallersOK
<1> QED BY <1>1, <1>2, <1>3, <1>4, <1>5, <1>6, <1>7 DEF Next, Tasks

LEMMA CloseAskedStep ==
  CallersOK /\ SessionsOK /\ CloseAsked /\ [Next]_vars => CloseAsked'
<1> SUFFICES ASSUME CallersOK, SessionsOK, CloseAsked, [Next]_vars PROVE CloseAsked'
  OBVIOUS
<1> USE SessionsTwo, ClosersThree DEF vars, sessionVars, openVars, replaceVars, callerVars, connection, Unchanged
<1>p. \A p \in {"idle", "opening", "opened", "open_failed", "retrying", "abandoning_open", "closing",
                "replacing", "replaced", "replace_failed", "abandoning", "restoring"} : p \in Points
  BY DEF Points
<1>a. ASSUME \A c \in Callers : pc'[c] = "closing" => pc[c] = "closing" /\ awaits'[c] = awaits[c],
             closeRequested' = closeRequested \/ \E s \in Sessions : closeRequested' = [closeRequested EXCEPT ![s] = TRUE]
      PROVE  CloseAsked'
  BY <1>a DEF CloseAsked, SessionsOK
<1>1. CASE OpenTask \/ CleanupTask
  <2>1. /\ pc' = pc \/ pc' = Resolved("opening", "opened") \/ pc' = Resolved("opening", "open_failed")
        /\ awaits' = awaits /\ closeRequested' = closeRequested
    BY <1>1 DEF OpenTask, OpenServes, OpenConnects, OpenSucceeds, OpenFails, OpenDisconnects,
              OpenUnwinds, CleanupTask,
                CleanupCancels, CleanupDrains, CleanupEnds
  <2> QED BY <1>a, <2>1, ResolvedFacts
<1>2. ASSUME NEW t \in Closers, CloseTask(t) PROVE CloseAsked'
  BY <1>2, <1>a DEF CloseTask, ClientCloses, ClientClosed, CloseImplEnds, CloseAfterOpen,
              CloseAfterFailure, CloseAfterReplacement, CloseSuccessorEnds
<1>3. CASE ReplacementTask
  <2>1. /\ pc' = pc \/ ReplacementEnds("failed") \/ ReplacementEnds("replaced")
        /\ awaits' = awaits /\ closeRequested' = closeRequested
    BY <1>3 DEF ReplacementTask, OperationSucceeds, OperationFails, LoadSucceeds, LoadFails,
                RollbackSucceeds, GiveUp, GiveUpEnds, GiveUpCut, Retire, CheckpointCancelled,
                RestoreSucceeds
  <2> QED BY <1>a, <2>1, EndsFacts
<1>4. ASSUME NEW c \in Callers,
             \/ OpenReturnsAtOnce(c) \/ OpenWaits(c) \/ OpenBehindCleanup(c) \/ OpenReturns(c)
             \/ CancelOpen(c) \/ LeaveCleanup(c)
      PROVE  CloseAsked'
  <2>1. CASE OpenWaits(c)
    <3>1. Goes(c, "opened") \/ Goes(c, "open_failed") \/ Goes(c, "opening")
      BY <2>1 DEF OpenWaits
    <3>2. closeRequested' = closeRequested /\ \A d \in Callers : d # c => awaits'[d] = awaits[d]
      BY <2>1 DEF OpenWaits, CallersOK
    <3> QED BY <1>a, <1>p, <3>1, <3>2, GoesFacts
  <2>2. CASE ~OpenWaits(c)
    <3>1. pc' = pc \/ Goes(c, "idle") \/ Goes(c, "retrying") \/ Goes(c, "abandoning_open")
      BY <1>4, <2>2 DEF OpenReturnsAtOnce, OpenBehindCleanup, OpenReturns, CancelOpen, LeaveCleanup
    <3>2. awaits' = awaits /\ closeRequested' = closeRequested
      BY <1>4, <2>2 DEF OpenReturnsAtOnce, OpenBehindCleanup, OpenReturns, CancelOpen, LeaveCleanup
    <3> QED BY <1>a, <1>p, <3>1, <3>2, GoesFacts
  <2> QED BY <2>1, <2>2
<1>5. ASSUME NEW c \in Callers, Close(c) \/ CloseReturns(c) \/ CancelClose(c)
      PROVE  CloseAsked'
  <2>1. ASSUME NEW s \in Sessions, CloseWaits(c, s) PROVE CloseAsked'
    <3>1. /\ awaits'[c] \in Closers /\ Of(awaits'[c]) = s /\ closeRequested'[s]
          /\ \A r \in Sessions : closeRequested[r] => closeRequested'[r]
          /\ \A d \in Callers : d # c => pc'[d] = pc[d] /\ awaits'[d] = awaits[d]
      BY <1>p, <2>1, GoesFacts, CloserFacts DEF CloseWaits, CallersOK, SessionsOK
    <3>2. \A t \in Closers : Of(t) \in Sessions
      OBVIOUS
    <3> QED BY <3>1, <3>2 DEF CloseAsked
  <2>2. ASSUME NEW s \in Sessions, CloseIsNoOp(c, s) \/ CloseAtOnce(c, s) PROVE CloseAsked'
    BY <1>a, <2>2 DEF CloseIsNoOp, CloseAtOnce
  <2>3. CASE CloseReturns(c) \/ CancelClose(c)
    BY <1>a, <1>p, <2>3, GoesFacts DEF CloseReturns, CancelClose
  <2> QED BY <1>5, <2>1, <2>2, <2>3 DEF Close
<1>6. ASSUME NEW c \in Callers,
             \/ ReplaceStarts(c) \/ ReplaceReturns(c) \/ CancelReplace(c) \/ CancelReplaced(c)
             \/ UndoEnds(c)
      PROVE  CloseAsked'
  <2>1. /\ \E p \in Points : p # "closing" /\ Goes(c, p)
        /\ awaits' = awaits /\ closeRequested' = closeRequested
    BY <1>6, <1>p DEF ReplaceStarts, ReplaceReturns, CancelReplace, CancelReplaced, UndoEnds
  <2> QED BY <1>a, <2>1, GoesFacts
<1>7. CASE UNCHANGED vars
  BY <1>a, <1>7
<1> QED BY <1>1, <1>2, <1>3, <1>4, <1>5, <1>6, <1>7 DEF Next, Tasks

-----------------------------------------------------------------------------
(* The count of those inside open() *)

LEMMA WaitingFinite == IsFiniteSet(Waiting) /\ Cardinality(Waiting) \in Nat
<1>1. Waiting \subseteq Callers /\ IsFiniteSet(Callers)
  BY SessionAssumption DEF Waiting
<1> QED BY <1>1, FS_Subset, FS_CardinalityType

LEMMA CountKept ==
  ASSUME WaitersCounted, waiters' = waiters,
         \A c \in Callers : pc'[c] \in {"opening", "opened", "open_failed"}
                              <=> pc[c] \in {"opening", "opened", "open_failed"}
  PROVE  WaitersCounted' /\ waiters' \in Nat
<1>1. Waiting' = Waiting
  BY DEF Waiting
<1> QED BY <1>1, WaitingFinite DEF WaitersCounted, Waiting

LEMMA CountMoves ==
  ASSUME WaitersCounted, NEW c \in Callers, \A d \in Callers : d # c => pc'[d] = pc[d],
         \/ /\ pc[c] \notin {"opening", "opened", "open_failed"}
            /\ pc'[c] \in {"opening", "opened", "open_failed"} /\ waiters' = waiters + 1
         \/ /\ pc[c] \in {"opening", "opened", "open_failed"}
            /\ pc'[c] \notin {"opening", "opened", "open_failed"} /\ waiters' = waiters - 1
  PROVE  WaitersCounted' /\ waiters' \in Nat
<1>0. waiters = Cardinality(Waiting) /\ (WaitersCounted' <=> waiters' = Cardinality(Waiting'))
  BY DEF WaitersCounted, Waiting
<1>1. CASE pc[c] \notin {"opening", "opened", "open_failed"}
  <2>1. Waiting' = Waiting \cup {c} /\ c \notin Waiting
    BY <1>1 DEF Waiting
  <2>2. Cardinality(Waiting') = Cardinality(Waiting) + 1
    BY <2>1, WaitingFinite, FS_AddElement
  <2> QED BY <1>0, <1>1, <2>2, WaitingFinite
<1>2. CASE pc[c] \in {"opening", "opened", "open_failed"}
  <2>1. Waiting' = Waiting \ {c} /\ c \in Waiting
    BY <1>2 DEF Waiting
  <2>2. Cardinality(Waiting') = Cardinality(Waiting) - 1 /\ IsFiniteSet(Waiting')
    BY <2>1, WaitingFinite, FS_RemoveElement
  <2>3. Cardinality(Waiting') \in Nat
    BY <2>2, FS_CardinalityType
  <2> QED BY <1>0, <1>2, <2>2, <2>3
<1> QED BY <1>1, <1>2

LEMMA CountStep ==
  CallersOK /\ WaitersCounted /\ [Next]_vars => WaitersCounted' /\ waiters' \in Nat
<1> SUFFICES ASSUME CallersOK, WaitersCounted, [Next]_vars
             PROVE  WaitersCounted' /\ waiters' \in Nat
  OBVIOUS
<1> USE DEF vars, sessionVars, openVars, replaceVars, callerVars, connection, Unchanged
<1>p. \A p \in {"idle", "opening", "opened", "open_failed", "retrying", "abandoning_open", "closing",
                "replacing", "replaced", "replace_failed", "abandoning", "restoring"} : p \in Points
  BY DEF Points
<1>1. CASE OpenTask \/ CleanupTask
  <2>1. /\ pc' = pc \/ pc' = Resolved("opening", "opened") \/ pc' = Resolved("opening", "open_failed")
        /\ waiters' = waiters
    BY <1>1 DEF OpenTask, OpenServes, OpenConnects, OpenSucceeds, OpenFails, OpenDisconnects,
              OpenUnwinds, CleanupTask,
                CleanupCancels, CleanupDrains, CleanupEnds
  <2> QED BY <2>1, ResolvedFacts, CountKept
<1>2. ASSUME NEW t \in Closers, CloseTask(t) PROVE WaitersCounted' /\ waiters' \in Nat
  BY <1>2, CountKept DEF CloseTask, ClientCloses, ClientClosed, CloseImplEnds, CloseAfterOpen, CloseAfterFailure,
                         CloseAfterReplacement, CloseSuccessorEnds
<1>3. CASE ReplacementTask
  <2>1. /\ pc' = pc \/ ReplacementEnds("failed") \/ ReplacementEnds("replaced")
        /\ waiters' = waiters
    BY <1>3 DEF ReplacementTask, OperationSucceeds, OperationFails, LoadSucceeds, LoadFails,
                RollbackSucceeds, GiveUp, GiveUpEnds, GiveUpCut, Retire, CheckpointCancelled,
                RestoreSucceeds
  <2> QED BY <2>1, EndsFacts, CountKept
<1>4. ASSUME NEW c \in Callers, OpenWaits(c) PROVE WaitersCounted' /\ waiters' \in Nat
  <2>1. /\ Goes(c, "opened") \/ Goes(c, "open_failed") \/ Goes(c, "opening")
        /\ pc[c] \in {"idle", "retrying"} /\ waiters' = waiters + 1
    BY <1>4 DEF OpenWaits, Calls
  <2> QED BY <1>p, <2>1, GoesFacts, CountMoves
<1>5. ASSUME NEW c \in Callers, OpenReturns(c) \/ CancelOpen(c)
      PROVE  WaitersCounted' /\ waiters' \in Nat
  <2>1. /\ Goes(c, "idle") \/ Goes(c, "abandoning_open")
        /\ pc[c] \in {"opening", "opened", "open_failed"} /\ waiters' = waiters - 1
    BY <1>5 DEF OpenReturns, CancelOpen
  <2> QED BY <1>p, <2>1, GoesFacts, CountMoves
<1>6. ASSUME NEW c \in Callers,
             \/ OpenReturnsAtOnce(c) \/ OpenBehindCleanup(c) \/ LeaveCleanup(c)
             \/ Close(c) \/ CloseReturns(c) \/ CancelClose(c)
             \/ ReplaceStarts(c) \/ ReplaceReturns(c) \/ CancelReplace(c) \/ CancelReplaced(c)
             \/ UndoEnds(c)
      PROVE  WaitersCounted' /\ waiters' \in Nat
  <2>1. /\ waiters' = waiters
        /\ \/ pc' = pc
           \/ /\ pc[c] \notin {"opening", "opened", "open_failed"}
              /\ \E p \in {"idle", "retrying", "closing", "replacing", "abandoning", "restoring"} :
                   Goes(c, p)
    BY <1>6 DEF OpenReturnsAtOnce, OpenBehindCleanup, LeaveCleanup, Close, CloseIsNoOp, CloseAtOnce,
                CloseWaits, CloseReturns, CancelClose, ReplaceStarts, ReplaceReturns, CancelReplace,
                CancelReplaced, UndoEnds, Calls, Resumes
  <2> QED BY <1>p, <2>1, GoesFacts, CountKept
<1>7. CASE UNCHANGED vars
  BY <1>7, CountKept
<1> QED BY <1>1, <1>2, <1>3, <1>4, <1>5, <1>6, <1>7 DEF Next, Tasks

-----------------------------------------------------------------------------
(* The invariant that holds whatever is cancelled *)

LEMMA ReplacersKept ==
  ASSUME ReplacersOK, ClosersOK,
         replacement \in Replacing => replacement' \in Replacing,
         state[Source] = "RETIRED" => state'[Source] = "RETIRED",
         closeReplaced' => closeReplaced \/ replacement \in Replacing,
         \A c \in Callers : \/ pc'[c] = pc[c]
                            \/ pc'[c] \notin {"replacing", "abandoning", "replaced", "restoring"}
  PROVE  ReplacersOK'
<1>1. \A c \in Replacers' : c \in Replacers
  BY DEF Replacers
<1>2. \A c, d \in Replacers' : c = d
  BY <1>1 DEF ReplacersOK
<1>3. state[Source] = "RETIRED" => replacement \notin Replacing
  BY DEF ClosersOK, Replacing
<1>4. \A c \in Callers :
        /\ pc'[c] \in {"replacing", "abandoning"} => replacement' \in Replacing
        /\ pc'[c] \in {"replaced", "restoring"} => state'[Source] = "RETIRED"
        /\ pc'[c] = "restoring" => ~closeReplaced'
  BY <1>3 DEF ReplacersOK
<1> QED BY <1>2, <1>4 DEF ReplacersOK

\* A new close task: the session's own, or a second one of a source that has one under way.
LEMMA StartsCloseFacts ==
  ASSUME SessionsOK, NEW s \in Sessions, StartsClose(s)
  PROVE  /\ state'[s] = "CLOSING" /\ \A r \in Sessions : r # s => state'[r] = state[r]
         /\ closing'[NewCloser(s)] = CloseImpl(s)
         /\ \A t \in Closers : t # NewCloser(s) => closing'[t] = closing[t]
BY CloserFacts DEF SessionsOK, StartsClose

\* What the cleanup of a cancelled opening does to the source.
LEMMA CleanupFacts ==
  ASSUME SessionsOK, ClosersOK, AgainOK, CleanupTask
  PROVE  /\ UNCHANGED <<client, closeRequested, generation, waiters, replacement, cancelling>>
         /\ UNCHANGED <<closeReplaced, process, awaits, calls, returned, closed, lapses>>
         /\ state'[Successor] = state[Successor] /\ closing'[Successor] = closing[Successor]
         /\ \/ UNCHANGED <<state, closing>>
            \/ /\ state[Source] = "OPEN" /\ state'[Source] = "CLOSING"
               /\ closing[Again] = "none"
               /\ \/ /\ closing[Source] = "none" /\ closing'[Source] = CloseImpl(Source)
                     /\ closing'[Again] = "none"
                  \/ /\ closing[Source] \in Closing /\ closing'[Source] = closing[Source]
                     /\ closing'[Again] = CloseImpl(Source)
               /\ UNCHANGED <<opening, servers, pc>>
            \/ /\ state[Source] = "CLOSED" /\ state'[Source] = "LAZY" /\ ~closeRequested[Source]
               /\ closing[Again] = "none" /\ closing'[Again] = "none"
               /\ closing[Source] = "done" /\ closing'[Source] = "none"
               /\ opening' = "none" /\ UNCHANGED <<servers, pc>>
         /\ \/ UNCHANGED <<opening, servers, pc>>
            \/ /\ \/ opening = "connected" /\ opening' = "unwinding"
                  \/ opening \in {"starting", "serving"} /\ opening' = "unserving"
               /\ UNCHANGED <<state, closing, servers, pc>>
            \/ /\ opening = "unserving" /\ opening' = "failed" /\ servers' = "down"
               /\ UNCHANGED <<state, closing>> /\ pc' = Resolved("opening", "open_failed")
            \/ /\ state[Source] = "CLOSED" /\ state'[Source] = "LAZY" /\ opening' = "none"
               /\ UNCHANGED <<servers, pc>>
<1> USE SessionsTwo, ClosersThree DEF sessionVars, openVars, replaceVars, connection, callerVars
<1>1. CASE CleanupCancels
  BY <1>1 DEF CleanupCancels, Unwinding, Opening
<1>2. CASE CleanupDrains /\ state[Source] = "OPEN"
  <2>1. StartsClose(Source) /\ state[Source] = "OPEN"
    BY <1>2 DEF CleanupDrains
  <2>2. closing[Again] = "none" /\ closing[Source] # "done"
    BY <2>1 DEF AgainOK, ClosersOK
  <2>3. closing[Source] = "none" \/ closing[Source] \in Closing
    BY <2>2 DEF SessionsOK
  <2>4. NewCloser(Source) = IF closing[Source] \in Closing THEN Again ELSE Source
    BY DEF NewCloser
  <2>5. closing[Source] = "none" => closing[Source] \notin Closing
    BY DEF Closing
  <2> QED BY <1>2, <2>1, <2>2, <2>3, <2>4, <2>5, StartsCloseFacts DEF CleanupDrains
<1>3. CASE CleanupDrains /\ state[Source] # "OPEN"
  BY <1>3 DEF CleanupDrains
<1>4. CASE CleanupEnds
  <2>1. CASE UNCHANGED <<state, closing, opening>>
    BY <1>4, <2>1 DEF CleanupEnds
  <2>2. CASE ~UNCHANGED <<state, closing, opening>>
    <3>1. /\ state[Source] = "CLOSED" /\ ~closeRequested[Source]
          /\ cleanup = Awaiting(Closer(Source)) /\ CleanupMayEnd
          /\ state' = [state EXCEPT ![Source] = "LAZY"] /\ closing' = [closing EXCEPT ![Source] = "none"]
          /\ opening' = "none"
      BY <1>4, <2>2 DEF CleanupEnds
    <3>2. closing[Again] = "none"
      BY <3>1 DEF AgainOK
    <3>3. closing[Source] = "done"
      BY <3>1, <3>2 DEF CleanupMayEnd, Awaiting, Closer
    <3> QED BY <1>4, <3>1, <3>2, <3>3 DEF CleanupEnds, SessionsOK
  <2> QED BY <2>1, <2>2
<1> QED BY <1>1, <1>2, <1>3, <1>4 DEF CleanupTask

\* What the opening task does.
LEMMA OpenTaskFacts ==
  ASSUME SessionsOK, OpenTask
  PROVE  /\ UNCHANGED <<closeRequested, closing, generation, waiters, cleanup, replacement>>
         /\ UNCHANGED <<cancelling, closeReplaced, awaits, calls, returned, closed, lapses>>
         /\ state'[Successor] = state[Successor] /\ client'[Successor] = client[Successor]
         /\ \/ /\ opening = "starting" /\ opening' = "serving" /\ servers' = "up"
               /\ UNCHANGED <<state, client, process, pc>>
            \/ /\ opening = "serving" /\ opening' = "connected" /\ process' = "up"
               /\ UNCHANGED <<state, client, servers, pc>>
            \/ /\ opening = "connected" /\ opening' = "opened" /\ client'[Source]
               /\ state'[Source] = IF state[Source] = "OPENING" THEN "OPEN" ELSE state[Source]
               /\ pc' = Resolved("opening", "opened") /\ UNCHANGED <<process, servers>>
            \/ /\ \/ opening = "connected" /\ opening' = "unwinding"
                  \/ opening \in {"starting", "serving"} /\ opening' = "unserving"
               /\ UNCHANGED <<state, client, process, servers, pc>>
            \/ /\ opening = "unwinding" /\ opening' = "unserving" /\ process' = "down"
               /\ UNCHANGED <<state, client, servers, pc>>
            \/ /\ opening = "unserving" /\ opening' = "failed" /\ servers' = "down"
               /\ state'[Source] = IF state[Source] = "OPENING" THEN "LAZY" ELSE state[Source]
               /\ pc' = Resolved("opening", "open_failed") /\ UNCHANGED <<client, process>>
<1> USE SessionsTwo DEF sessionVars, openVars, replaceVars, connection, callerVars
<1>1. CASE OpenServes
  BY <1>1 DEF OpenServes
<1>2. CASE OpenConnects
  BY <1>2 DEF OpenConnects
<1>3. CASE OpenSucceeds
  BY <1>3 DEF OpenSucceeds, SessionsOK
<1>4. CASE OpenFails
  BY <1>4 DEF OpenFails, Unwinding
<1>5. CASE OpenDisconnects
  BY <1>5 DEF OpenDisconnects
<1>6. CASE OpenUnwinds
  BY <1>6 DEF OpenUnwinds, SessionsOK
<1> QED BY <1>1, <1>2, <1>3, <1>4, <1>5, <1>6 DEF OpenTask

\* What every close task leaves alone.
LEMMA CloseTaskKeeps ==
  ASSUME SessionsOK, NEW t \in Closers, CloseTask(t)
  PROVE  /\ UNCHANGED <<opening, generation, waiters, cleanup, replacement, cancelling, closeReplaced>>
         /\ UNCHANGED <<pc, awaits, calls, returned, closed, lapses>>
         /\ closeRequested'[Source] = closeRequested[Source]
<1> USE SessionsTwo DEF sessionVars, openVars, replaceVars, connection, callerVars
<1>1. CASE ClientCloses(t) \/ ClientClosed(t) \/ CloseImplEnds(t)
  BY <1>1 DEF ClientCloses, ClientClosed, CloseImplEnds
<1>2. CASE CloseAfterOpen \/ CloseAfterFailure \/ CloseAfterReplacement \/ CloseSuccessorEnds
  BY <1>2 DEF CloseAfterOpen, CloseAfterFailure, CloseAfterReplacement, CloseSuccessorEnds, SessionsOK
<1> QED BY <1>1, <1>2 DEF CloseTask

\* The steps of _close_impl().
LEMMA ImplFacts ==
  ASSUME SessionsOK, NEW t \in Closers, ClientCloses(t) \/ ClientClosed(t) \/ CloseImplEnds(t)
  PROVE  /\ closeRequested' = closeRequested
         /\ \A u \in Closers : u # t => closing'[u] = closing[u]
         /\ \/ /\ closing[t] = "asking" /\ UNCHANGED <<state, client, servers>>
               /\ \/ process = "up" /\ process' = "ending" /\ closing'[t] = "ending"
                  \/ process # "up" /\ process' = process /\ closing'[t] = Gathers(Of(t))
            \/ /\ closing[t] = "ending" /\ UNCHANGED <<state, client, servers>>
               /\ process' = "down" /\ closing'[t] = Gathers(Of(t))
            \/ /\ closing[t] \in {"tools", "bare"} /\ closing'[t] = "done" /\ process' = process
               /\ servers' = IF closing[t] = "tools" THEN "down" ELSE servers
               /\ state'[Of(t)] = "CLOSED" /\ ~client'[Of(t)]
               /\ \A s \in Sessions : s # Of(t) => state'[s] = state[s] /\ client'[s] = client[s]
<1> USE SessionsTwo, ClosersThree DEF connection
<1>0. Of(t) \in Sessions
  OBVIOUS
<1>1. CASE ClientCloses(t)
  BY <1>1 DEF ClientCloses, SessionsOK
<1>2. CASE ClientClosed(t)
  BY <1>2 DEF ClientClosed, SessionsOK
<1>3. CASE CloseImplEnds(t)
  BY <1>0, <1>3 DEF CloseImplEnds, SessionsOK
<1> QED BY <1>1, <1>2, <1>3

\* What the close task of the source does before and after.
LEMMA CloserSteps ==
  ASSUME SessionsOK,
         CloseAfterOpen \/ CloseAfterFailure \/ CloseAfterReplacement \/ CloseSuccessorEnds
  PROVE  /\ UNCHANGED <<client, process, servers>> /\ closing'[Again] = closing[Again]
         /\ \/ /\ closing[Source] = "after_open" /\ opening = "opened"
               /\ closing'[Source] = CloseImpl(Source) /\ state' = state
               /\ closing'[Successor] = closing[Successor]
            \/ /\ \/ closing[Source] = "after_open" /\ opening = "failed"
                  \/ closing[Source] = "after_replacement" /\ replacement = "failed" /\ ~client[Source]
               /\ closing'[Source] = "done" /\ state'[Source] = "CLOSED"
               /\ closing'[Successor] = closing[Successor] /\ state'[Successor] = state[Successor]
            \/ /\ closing[Source] = "after_replacement" /\ replacement = "failed" /\ client[Source]
               /\ closing'[Source] = "asking" /\ state' = state
               /\ closing'[Successor] = closing[Successor]
            \/ /\ closing[Source] = "after_replacement" /\ replacement = "replaced"
               /\ closing'[Source] = "successor" /\ state'[Source] = state[Source]
               /\ closing'[Successor] = CloseImpl(Successor) /\ state'[Successor] = "CLOSING"
            \/ /\ closing[Source] = "successor" /\ closing[Successor] = "done"
               /\ closing'[Source] = "done" /\ state'[Source] = "RETIRED"
               /\ closing'[Successor] = closing[Successor] /\ state'[Successor] = state[Successor]
<1> USE SessionsTwo, ClosersThree DEF SessionsOK, connection, Closes
<1>1. CASE CloseAfterOpen
  BY <1>1 DEF CloseAfterOpen
<1>2. CASE CloseAfterFailure
  BY <1>2 DEF CloseAfterFailure
<1>3. CASE CloseAfterReplacement
  BY <1>3 DEF CloseAfterReplacement
<1>4. CASE CloseSuccessorEnds
  BY <1>4 DEF CloseSuccessorEnds
<1> QED BY <1>1, <1>2, <1>3, <1>4

\* A close() that waits.
LEMMA CloseWaitsFacts ==
  ASSUME SessionsOK, FlagsOK, NEW c \in Callers, NEW s \in Sessions, CloseWaits(c, s)
  PROVE  /\ UNCHANGED <<client, opening, replacement, process, servers, returned, closed, lapses>>
         /\ closeRequested'[s] /\ \A r \in Sessions : r # s => closeRequested'[r] = closeRequested[r]
         /\ closeReplaced' <=> closeReplaced \/ BeingReplaced(s)
         /\ Goes(c, "closing")
         /\ \A r \in Sessions : r # s => state'[r] = state[r]
         /\ \/ /\ closing[s] # "none" /\ (BeingReplaced(s) \/ state[s] \in {"CLOSING", "CLOSED"})
               /\ UNCHANGED <<state, closing>>
            \/ /\ BeingReplaced(s) /\ closing[s] = "none"
               /\ state'[s] = "CLOSING" /\ closing'[s] = "after_replacement"
               /\ \A t \in Closers : t # s => closing'[t] = closing[t]
            \/ /\ ~BeingReplaced(s) /\ state[s] = "OPENING"
               /\ state'[s] = "CLOSING" /\ closing'[s] = "after_open"
               /\ \A t \in Closers : t # s => closing'[t] = closing[t]
            \/ /\ ~BeingReplaced(s) /\ state[s] = "OPEN"
               /\ state'[s] = "CLOSING" /\ closing'[NewCloser(s)] = CloseImpl(s)
               /\ \A t \in Closers : t # NewCloser(s) => closing'[t] = closing[t]
<1> USE SessionsTwo, ClosersThree
<1>1. /\ UNCHANGED <<client, opening, replacement, process, servers, returned, closed, lapses>>
      /\ closeRequested'[s] /\ \A r \in Sessions : r # s => closeRequested'[r] = closeRequested[r]
      /\ Goes(c, "closing")
  BY DEF CloseWaits, SessionsOK, openVars, connection
<1>2. closeReplaced' <=> closeReplaced \/ BeingReplaced(s)
  <2>1. closeReplaced' = (closeReplaced \/ BeingReplaced(s)) /\ closeReplaced \in BOOLEAN
    BY DEF CloseWaits, FlagsOK
  <2>2. BeingReplaced(s) \in BOOLEAN
    BY DEF BeingReplaced
  <2> QED BY <2>1, <2>2
<1>3. s \in Closers
  OBVIOUS
<1>4. CASE StartsClose(s) /\ ~BeingReplaced(s) /\ state[s] = "OPEN"
  BY <1>1, <1>2, <1>4, StartsCloseFacts
<1>5. CASE ~(StartsClose(s) /\ ~BeingReplaced(s) /\ state[s] = "OPEN")
  BY <1>1, <1>2, <1>3, <1>5 DEF CloseWaits, SessionsOK
<1> QED BY <1>4, <1>5

LEMMA ControlOpenTask ==
  ASSUME TypeOK, ControlInv, OpenTask \/ CleanupTask
  PROVE  ControlInv'
<1> USE SessionsTwo, ClosersThree
<1>0. /\ SessionsOK /\ CallersOK /\ ReplacementOK /\ ClosersOK /\ AgainOK /\ SuccessorOK
      /\ ReplacersOK
  BY DEF TypeOK, ControlInv
<1>1. /\ pc' = pc \/ pc' = Resolved("opening", "opened") \/ pc' = Resolved("opening", "open_failed")
      /\ UNCHANGED <<replacement, closeReplaced, closeRequested>>
      /\ state'[Successor] = state[Successor]
  <2>1. CASE OpenTask
    BY <1>0, <2>1, OpenTaskFacts
  <2>2. CASE CleanupTask
    BY <1>0, <2>2, CleanupFacts
  <2> QED BY <2>1, <2>2
<1>2. \/ UNCHANGED <<state, closing>>
      \/ /\ state[Source] = "OPENING" /\ state'[Source] \in {"OPEN", "LAZY"}
         /\ closing' = closing
      \/ state'[Source] = state[Source] /\ closing' = closing
      \/ /\ state[Source] = "OPEN" /\ state'[Source] = "CLOSING" /\ closing[Again] = "none"
         /\ \/ /\ closing[Source] = "none" /\ closing'[Source] \in Impl
               /\ closing'[Again] = "none"
            \/ /\ closing[Source] \in Closing /\ closing'[Source] = closing[Source]
               /\ closing'[Again] \in Impl \ {"done"}
      \/ /\ state[Source] = "CLOSED" /\ state'[Source] = "LAZY"
         /\ closing'[Source] = "none" /\ closing[Again] = "none" /\ closing'[Again] = "none"
  <2>1. CASE OpenTask
    BY <1>0, <2>1, OpenTaskFacts
  <2>2. CASE CleanupTask
    <3>1. CloseImpl(Source) \in Impl \ {"done"}
      BY CloserFacts DEF Impl
    <3> QED BY <1>0, <2>2, <3>1, CleanupFacts
  <2> QED BY <2>1, <2>2
<1>3. AgainOK'
  <2>1. CASE closing' = closing
    BY <1>0, <1>1, <1>2, <2>1 DEF AgainOK
  <2>2. CASE closing' # closing
    <3>1. state[Source] = "OPEN" /\ closing[Source] \in Closing =>
            /\ closing[Source] \in Impl \cup {"after_replacement", "done"}
            /\ closeRequested[Source] /\ replacement = "failed"
      BY <1>0 DEF ClosersOK, Closing, Impl
    <3> QED BY <1>0, <1>1, <1>2, <2>2, <3>1 DEF AgainOK
  <2> QED BY <2>1, <2>2
<1>4. ReplacementOK' /\ SuccessorOK'
  BY <1>0, <1>1, <1>2 DEF ReplacementOK, ClosersOK, SuccessorOK, Replacing
<1>5. ClosersOK'
  BY <1>0, <1>1, <1>2 DEF ReplacementOK, ClosersOK, Closing, Impl
<1>6. ReplacersOK'
  <2>1. \A c \in Callers : \/ pc'[c] = pc[c]
                           \/ pc'[c] \notin {"replacing", "abandoning", "replaced", "restoring"}
    BY <1>0, <1>1, ResolvedFacts
  <2>2. state[Source] = "RETIRED" => state'[Source] = "RETIRED"
    BY <1>2
  <2> QED BY <1>0, <1>1, <2>1, <2>2, ReplacersKept
<1> QED BY <1>3, <1>4, <1>5, <1>6 DEF ControlInv

LEMMA ControlCloseTask ==
  ASSUME TypeOK, ControlInv, NEW t \in Closers, CloseTask(t)
  PROVE  ControlInv'
<1> USE SessionsTwo, ClosersThree
<1>0. /\ SessionsOK /\ CallersOK /\ ReplacementOK /\ ClosersOK /\ AgainOK /\ SuccessorOK
      /\ ReplacersOK
  BY DEF TypeOK, ControlInv
<1>1. /\ UNCHANGED <<pc, replacement, closeReplaced>>
      /\ closeRequested'[Source] = closeRequested[Source]
  BY <1>0, CloseTaskKeeps
<1>2. \/ /\ closing[Source] \in Impl /\ closing'[Source] \in Impl
         /\ state'[Source] = state[Source] /\ closing'[Again] = closing[Again]
      \/ /\ closing[Source] \in Impl /\ closing'[Source] = "done"
         /\ state'[Source] = "CLOSED" /\ closing'[Again] = closing[Again]
      \/ /\ closing[Again] \in Impl /\ closing'[Again] \in Impl
         /\ state'[Source] = state[Source] /\ closing'[Source] = closing[Source]
      \/ /\ closing[Again] \in Impl /\ closing'[Again] = "done"
         /\ state'[Source] = "CLOSED" /\ closing'[Source] = closing[Source]
      \/ /\ closing[Source] = "after_open" /\ closing'[Source] \in Impl
         /\ state'[Source] = state[Source] /\ closing'[Again] = closing[Again]
      \/ /\ closing[Source] = "after_open"
         /\ state'[Source] = "CLOSED" /\ closing'[Source] = "done" /\ closing'[Again] = closing[Again]
      \/ /\ closing[Source] = "after_replacement" /\ replacement = "failed"
         /\ closing'[Source] \in Impl
         /\ state'[Source] = state[Source] /\ closing'[Again] = closing[Again]
      \/ /\ closing[Source] = "after_replacement" /\ replacement = "failed"
         /\ state'[Source] = "CLOSED" /\ closing'[Source] = "done" /\ closing'[Again] = closing[Again]
      \/ /\ closing[Source] = "after_replacement" /\ replacement = "replaced"
         /\ state'[Source] = state[Source] /\ closing'[Source] = "successor"
         /\ closing'[Again] = closing[Again]
      \/ /\ closing[Source] = "successor"
         /\ state'[Source] = "RETIRED" /\ closing'[Source] = "done" /\ closing'[Again] = closing[Again]
      \/ /\ state'[Source] = state[Source] /\ closing'[Source] = closing[Source]
         /\ closing'[Again] = closing[Again]
  <2>1. /\ Gathers(Of(t)) \in Impl /\ CloseImpl(Source) \in Impl
        /\ "asking" \in Impl /\ "ending" \in Impl /\ "tools" \in Impl /\ "bare" \in Impl
    BY CloserFacts DEF Impl
  <2>2. CASE ClientCloses(t) \/ ClientClosed(t) \/ CloseImplEnds(t)
    BY <1>0, <2>1, <2>2, ImplFacts
  <2>3. CASE CloseAfterOpen \/ CloseAfterFailure \/ CloseAfterReplacement \/ CloseSuccessorEnds
    BY <1>0, <2>1, <2>3, CloserSteps
  <2> QED BY <2>2, <2>3 DEF CloseTask
<1>3. state'[Successor] = "OPEN" => state[Successor] = "OPEN"
  <2>2. CASE ClientCloses(t) \/ ClientClosed(t) \/ CloseImplEnds(t)
    BY <1>0, <2>2, ImplFacts
  <2>3. CASE CloseAfterOpen \/ CloseAfterFailure \/ CloseAfterReplacement \/ CloseSuccessorEnds
    BY <1>0, <2>3, CloserSteps
  <2> QED BY <2>2, <2>3 DEF CloseTask
<1>4. ReplacementOK'
  BY <1>0, <1>1, <1>2 DEF ReplacementOK, ClosersOK, AgainOK, Replacing, Impl
<1>5. ClosersOK'
  BY <1>0, <1>1, <1>2 DEF ClosersOK, AgainOK, Impl
<1>a. AgainOK'
  BY <1>0, <1>1, <1>2 DEF ClosersOK, AgainOK, Impl
<1>6. state[Source] = "RETIRED" => state'[Source] = "RETIRED"
  BY <1>0, <1>2 DEF ClosersOK, AgainOK, Impl
<1>7. SuccessorOK'
  BY <1>0, <1>1, <1>3, <1>6 DEF SuccessorOK
<1>8. ReplacersOK'
  BY <1>0, <1>1, <1>6, ReplacersKept
<1> QED BY <1>4, <1>5, <1>a, <1>7, <1>8 DEF ControlInv

LEMMA ControlReplacementTask ==
  ASSUME TypeOK, ControlInv, ReplacementTask
  PROVE  ControlInv'
<1> USE SessionsTwo DEF sessionVars, openVars, replaceVars, callerVars, connection, Unchanged
<1>0. SessionsOK /\ CallersOK /\ ReplacementOK /\ ClosersOK /\ AgainOK /\ SuccessorOK /\ ReplacersOK
  BY DEF TypeOK, ControlInv
<1>1. UNCHANGED <<closing, closeRequested, closeReplaced>> /\ replacement \in Replacing
  BY DEF Replacing, ReplacementTask, OperationSucceeds, OperationFails, LoadSucceeds, LoadFails,
         RollbackSucceeds, GiveUp, GiveUpEnds, GiveUpCut, Retire, CheckpointCancelled, RestoreSucceeds
<1>2. \/ /\ replacement \notin {"checkpoint", "restoring", "giving_up"}
         /\ replacement' \in Replacing /\ pc' = pc /\ state' = state
      \/ /\ replacement' = "checkpoint" /\ pc' = pc /\ state'[Source] = state[Source]
      \/ /\ replacement' \in {"restoring", "giving_up"} /\ pc' = pc
         /\ state'[Source] \in {state[Source], "CLOSING"}
      \/ /\ replacement \in {"operation", "rollback"} /\ ReplacementEnds("failed")
         /\ state'[Source] = IF state[Source] = "REPLACING" THEN "OPEN" ELSE state[Source]
         /\ state'[Successor] = state[Successor]
      \/ /\ ReplacementEnds("failed") /\ state'[Source] \in {"CLOSED", "OPEN", state[Source]}
         /\ state'[Successor] = "RETIRED"
      \/ /\ ReplacementEnds("replaced") /\ state'[Source] = "RETIRED"
  BY <1>0 DEF SessionsOK, Replacing, ReplacementTask, OperationSucceeds, OperationFails, LoadSucceeds,
         LoadFails, RollbackSucceeds, GiveUp, GiveUpEnds, GiveUpCut, Retire, CheckpointCancelled,
         RestoreSucceeds, Detached
<1>3. \/ /\ replacement' \in Replacing /\ pc' = pc
         /\ replacement' \in {"checkpoint", "restoring", "giving_up"} \/ state' = state
         /\ state'[Source] \in {state[Source], "CLOSING"}
      \/ /\ ReplacementEnds("failed") /\ state'[Source] \in {"CLOSED", "OPEN", state[Source]}
         /\ state'[Source] = "REPLACING" => state[Source] = "REPLACING"
         /\ state'[Successor] # "OPEN"
      \/ /\ ReplacementEnds("replaced") /\ state'[Source] = "RETIRED"
  BY <1>0, <1>1, <1>2 DEF ReplacementOK, SuccessorOK, Replacing
<1>7. AgainOK'
  BY <1>0, <1>1 DEF AgainOK, Replacing
<1>4. ReplacementOK' /\ SuccessorOK'
  BY <1>0, <1>1, <1>2, <1>3, EndsFacts DEF ReplacementOK, SuccessorOK, Replacing
<1>5. ClosersOK'
  <2>1. /\ closing'[Source] = closing[Source] /\ closing[Source] \in {"none", "after_replacement"}
        /\ state[Source] \in {"REPLACING", "CLOSING"}
        /\ closing[Source] = "after_replacement" =>
             state[Source] = "CLOSING" /\ closeReplaced' /\ closeRequested'[Source]
    BY <1>0, <1>1 DEF ReplacementOK, ClosersOK
  <2>2. \/ /\ replacement' \in Replacing /\ state'[Source] \in {state[Source], "CLOSING"}
        \/ /\ replacement' = "failed" /\ state'[Source] \in {"CLOSED", "OPEN", state[Source]}
           /\ state'[Source] = "REPLACING" => state[Source] = "REPLACING"
        \/ replacement' = "replaced" /\ state'[Source] = "RETIRED"
    BY <1>3 DEF ReplacementEnds
  <2> QED BY <2>1, <2>2 DEF ClosersOK, Replacing, Impl
<1>6. ReplacersOK'
  <2>1. \A c \in Callers : pc[c] \notin {"replaced", "restoring"}
    BY <1>0, <1>1 DEF ReplacersOK, ReplacementOK
  <2>2. Replacers' \subseteq Replacers
    BY <1>0, <1>3, <2>1, EndsFacts DEF Replacers
  <2>3. \A c, d \in Replacers' : c = d
    BY <1>0, <2>2 DEF ReplacersOK
  <2>4. \A c \in Callers :
          /\ pc'[c] \in {"replacing", "abandoning"} => replacement' \in Replacing
          /\ pc'[c] \in {"replaced", "restoring"} => state'[Source] = "RETIRED"
          /\ pc'[c] = "restoring" => ~closeReplaced'
    BY <1>0, <1>3, <2>1, EndsFacts DEF Replacers
  <2> QED BY <2>3, <2>4 DEF ReplacersOK
<1> QED BY <1>4, <1>5, <1>6, <1>7 DEF ControlInv



LEMMA ControlOpen ==
  ASSUME TypeOK, ControlInv, NEW c \in Callers,
         \/ OpenReturnsAtOnce(c) \/ OpenWaits(c) \/ OpenBehindCleanup(c) \/ OpenReturns(c)
         \/ CancelOpen(c) \/ LeaveCleanup(c)
  PROVE  ControlInv'
<1> USE SessionsTwo DEF sessionVars, openVars, replaceVars, callerVars, connection
<1>0. SessionsOK /\ CallersOK /\ ReplacementOK /\ ClosersOK /\ AgainOK /\ SuccessorOK /\ ReplacersOK
  BY DEF TypeOK, ControlInv
<1>1. /\ UNCHANGED <<replacement, closeReplaced, closing, closeRequested>>
      /\ \/ pc' = pc
         \/ \E p \in {"idle", "opening", "opened", "open_failed", "retrying", "abandoning_open"} : Goes(c, p)
  BY DEF OpenReturnsAtOnce, OpenWaits, OpenBehindCleanup, OpenReturns, CancelOpen, LeaveCleanup
<1>2. /\ \/ state'[Source] = state[Source]
         \/ state[Source] = "LAZY" /\ state'[Source] = "OPENING"
      /\ state'[Successor] = state[Successor]
  BY <1>0 DEF SessionsOK, OpenReturnsAtOnce, OpenWaits, OpenBehindCleanup, OpenReturns, CancelOpen,
         LeaveCleanup
<1>3. ReplacementOK' /\ SuccessorOK'
  BY <1>0, <1>1, <1>2 DEF ReplacementOK, SuccessorOK
<1>4. ClosersOK' /\ AgainOK'
  BY <1>0, <1>1, <1>2 DEF ClosersOK, AgainOK
<1>5. ReplacersOK'
  <2>1. \A d \in Callers : \/ pc'[d] = pc[d]
                           \/ pc'[d] \notin {"replacing", "abandoning", "replaced", "restoring"}
    BY <1>0, <1>1, GoesFacts DEF Points
  <2>2. state[Source] = "RETIRED" => state'[Source] = "RETIRED"
    BY <1>2
  <2> QED BY <1>0, <1>1, <2>1, <2>2, ReplacersKept
<1> QED BY <1>3, <1>4, <1>5 DEF ControlInv

LEMMA ControlClose ==
  ASSUME TypeOK, ControlInv, NEW c \in Callers, Close(c) \/ CloseReturns(c) \/ CancelClose(c)
  PROVE  ControlInv'
<1> USE SessionsTwo, ClosersThree DEF sessionVars, openVars, replaceVars, callerVars, connection
<1>0. /\ SessionsOK /\ CallersOK /\ FlagsOK /\ ReplacementOK /\ ClosersOK /\ AgainOK
      /\ SuccessorOK /\ ReplacersOK
  BY DEF TypeOK, ControlInv
<1> DEFINE Kept ==
        /\ replacement' = replacement /\ (pc' = pc \/ Goes(c, "idle") \/ Goes(c, "closing"))
        /\ closeReplaced => closeReplaced'
        /\ closeReplaced' => closeReplaced \/ replacement \in Replacing
        /\ closeRequested[Source] => closeRequested'[Source]
        /\ state'[Successor] = "OPEN" => state[Successor] = "OPEN"
<1>1. Kept
  <2>1. ASSUME NEW s \in Sessions, CloseWaits(c, s) PROVE Kept
    BY <1>0, <2>1, CloseWaitsFacts DEF BeingReplaced
  <2>2. ASSUME NEW s \in Sessions, CloseIsNoOp(c, s) \/ CloseAtOnce(c, s) PROVE Kept
    BY <1>0, <2>2 DEF SessionsOK, CloseIsNoOp, CloseAtOnce
  <2>3. CASE CloseReturns(c) \/ CancelClose(c)
    BY <2>3 DEF CloseReturns, CancelClose
  <2> QED BY <2>1, <2>2, <2>3 DEF Close
<1>2. \/ /\ state'[Source] = state[Source] /\ closing'[Source] = closing[Source]
         /\ closing'[Again] = closing[Again]
      \/ /\ state[Source] = "LAZY" /\ state'[Source] = "CLOSED"
         /\ closing'[Source] = closing[Source] /\ closing'[Again] = closing[Again]
      \/ /\ replacement \in Replacing /\ closing[Source] = "none"
         /\ state'[Source] = "CLOSING" /\ closing'[Source] = "after_replacement"
         /\ closeReplaced' /\ closeRequested'[Source] /\ closing'[Again] = closing[Again]
      \/ /\ state[Source] = "OPENING" /\ state'[Source] = "CLOSING"
         /\ closing'[Source] = "after_open" /\ closing'[Again] = closing[Again]
      \/ /\ state[Source] = "OPEN" /\ state'[Source] = "CLOSING" /\ closeRequested'[Source]
         /\ \/ /\ closing[Source] = "none"
               /\ closing'[Source] \in {"asking", "bare"} /\ closing'[Again] = closing[Again]
            \/ /\ closing[Source] \in Closing /\ closing'[Source] = closing[Source]
               /\ closing'[Again] \in {"asking", "bare"}
  <2>1. CASE CloseWaits(c, Source)
    <3>1. state[Source] = "OPEN" => closing[Source] = "none" \/ closing[Source] \in Closing
      BY <1>0 DEF ClosersOK, SessionsOK
    <3>2. /\ NewCloser(Source) = IF closing[Source] \in Closing THEN Again ELSE Source
          /\ CloseImpl(Source) \in {"asking", "bare"}
      BY CloserFacts DEF NewCloser
    <3>3. "none" \notin Closing
      BY DEF Closing
    <3>4. BeingReplaced(Source) <=> replacement \in Replacing
      BY DEF BeingReplaced
    <3> QED BY <1>0, <2>1, <3>1, <3>2, <3>3, <3>4, CloseWaitsFacts
  <2>2. CASE CloseWaits(c, Successor)
    <3>1. NewCloser(Successor) = Successor /\ ~BeingReplaced(Successor)
      BY DEF NewCloser, BeingReplaced
    <3> QED BY <1>0, <2>2, <3>1, CloseWaitsFacts
  <2>3. ASSUME NEW s \in Sessions, CloseIsNoOp(c, s) \/ CloseAtOnce(c, s)
        PROVE  /\ closing' = closing
               /\ \/ state'[Source] = state[Source]
                  \/ state[Source] = "LAZY" /\ state'[Source] = "CLOSED"
    BY <1>0, <2>3 DEF SessionsOK, CloseIsNoOp, CloseAtOnce
  <2> QED BY <2>1, <2>2, <2>3 DEF Close, CloseReturns, CancelClose
<1>4. state[Source] = "RETIRED" => state'[Source] = "RETIRED"
  BY <1>0, <1>2 DEF ReplacementOK
<1>5. ReplacementOK'
  BY <1>0, <1>1, <1>2 DEF ReplacementOK, ClosersOK
<1>6. SuccessorOK'
  BY <1>0, <1>1, <1>4 DEF SuccessorOK
<1>7. ClosersOK'
  BY <1>0, <1>1, <1>2 DEF ReplacementOK, ClosersOK, Replacing, Closing, Impl
<1>a. AgainOK'
  <2>1. closing[Again] # "none" => replacement \notin Replacing /\ state[Source] \in {"CLOSING", "CLOSED"}
    BY <1>0 DEF AgainOK, Replacing
  <2>2. CASE closing'[Again] = closing[Again]
    BY <1>0, <1>1, <1>2, <2>1, <2>2 DEF AgainOK
  <2>3. CASE closing'[Again] # closing[Again]
    BY <1>0, <1>1, <1>2, <2>3 DEF AgainOK, ClosersOK, Closing, Impl
  <2> QED BY <2>2, <2>3
<1>8. ReplacersOK'
  <2>1. \A d \in Callers : \/ pc'[d] = pc[d]
                           \/ pc'[d] \notin {"replacing", "abandoning", "replaced", "restoring"}
    BY <1>0, <1>1, GoesFacts DEF Points
  <2> QED BY <1>0, <1>1, <1>4, <2>1, ReplacersKept
<1> QED BY <1>5, <1>6, <1>7, <1>a, <1>8 DEF ControlInv

LEMMA ControlReplaceStarts ==
  ASSUME TypeOK, ControlInv, NEW c \in Callers, ReplaceStarts(c)
  PROVE  ControlInv'
<1> USE SessionsTwo
<1>0. SessionsOK /\ CallersOK /\ ReplacementOK /\ ClosersOK /\ AgainOK /\ SuccessorOK /\ ReplacersOK
  BY DEF TypeOK, ControlInv
<1>1. /\ state[Source] = "OPEN" /\ closing[Source] = "none" /\ closing[Again] = "none"
      /\ state'[Source] = "REPLACING" /\ closing' = closing
      /\ state'[Successor] = state[Successor] /\ replacement \notin Replacing
      /\ replacement' = "operation" /\ ~closeReplaced'
  BY <1>0 DEF ReplaceStarts, SessionsOK, ClosersOK, AgainOK, ReplacementOK
<1>2. ReplacementOK' /\ ClosersOK' /\ AgainOK' /\ SuccessorOK'
  BY <1>0, <1>1 DEF ReplacementOK, ClosersOK, AgainOK, SuccessorOK, Replacing
<1>3. Goes(c, "replacing") /\ "replacing" \in Points
  BY DEF ReplaceStarts, Points
<1>4. pc'[c] = "replacing" /\ \A d \in Callers : d # c => pc'[d] = pc[d]
  BY <1>0, <1>3, GoesFacts
<1>5. \A d \in Callers : pc[d] \notin {"replacing", "abandoning", "replaced", "restoring"}
  BY <1>0, <1>1 DEF ReplacersOK
<1>6. ReplacersOK'
  <2>1. \A d \in Replacers' : d = c
    BY <1>4, <1>5 DEF Replacers
  <2> QED BY <1>1, <1>4, <1>5, <2>1 DEF ReplacersOK, Replacing
<1> QED BY <1>2, <1>6 DEF ControlInv

LEMMA ControlReplaceReturns ==
  ASSUME TypeOK, ControlInv, NEW c \in Callers,
         ReplaceReturns(c) \/ CancelReplace(c) \/ CancelReplaced(c)
  PROVE  ControlInv'
<1> USE SessionsTwo DEF sessionVars, openVars, replaceVars, callerVars, connection
<1>0. SessionsOK /\ CallersOK /\ ReplacementOK /\ ClosersOK /\ AgainOK /\ SuccessorOK /\ ReplacersOK
  BY DEF TypeOK, ControlInv
<1>1. /\ UNCHANGED <<closing, closeRequested, replacement, closeReplaced>>
      /\ state'[Source] = state[Source] /\ state'[Successor] \in {"RETIRED", state[Successor]}
  BY <1>0 DEF SessionsOK, ReplaceReturns, CancelReplace, CancelReplaced, Detached
<1>2. ReplacementOK' /\ ClosersOK' /\ AgainOK' /\ SuccessorOK'
  BY <1>0, <1>1 DEF ReplacementOK, ClosersOK, AgainOK, SuccessorOK
<1>3. \/ Goes(c, "idle")
      \/ pc[c] \in {"replacing", "abandoning"} /\ Goes(c, "abandoning")
      \/ pc[c] = "replaced" /\ ~closeReplaced /\ Goes(c, "restoring")
  BY DEF ReplaceReturns, CancelReplace, CancelReplaced
<1>4. /\ \A d \in Callers : d # c => pc'[d] = pc[d]
      /\ \/ pc'[c] = "idle"
         \/ pc[c] \in {"replacing", "abandoning"} /\ pc'[c] = "abandoning"
         \/ pc[c] = "replaced" /\ ~closeReplaced /\ pc'[c] = "restoring"
  BY <1>0, <1>3, GoesFacts DEF Points
<1>5. ReplacersOK'
  <2>1. Replacers' \subseteq Replacers
    BY <1>4 DEF Replacers
  <2>2. \A d, e \in Replacers' : d = e
    BY <1>0, <2>1 DEF ReplacersOK
  <2> QED BY <1>0, <1>1, <1>4, <2>2 DEF ReplacersOK
<1> QED BY <1>2, <1>5 DEF ControlInv

LEMMA ControlUndoEnds ==
  ASSUME TypeOK, ControlInv, NEW c \in Callers, UndoEnds(c)
  PROVE  ControlInv'
<1> USE SessionsTwo
<1>0. SessionsOK /\ CallersOK /\ ReplacementOK /\ ClosersOK /\ AgainOK /\ SuccessorOK /\ ReplacersOK
  BY DEF TypeOK, ControlInv
<1>1. /\ UNCHANGED <<closing, closeRequested, replacement, closeReplaced>>
      /\ pc[c] = "restoring" /\ Goes(c, "idle")
      /\ state'[Source] \in {"OPEN", "CLOSED"} /\ state'[Successor] = "RETIRED"
  BY <1>0 DEF UndoEnds, SessionsOK, Detached, replaceVars
<1>2. state[Source] = "RETIRED" /\ ~closeReplaced
  BY <1>0, <1>1 DEF ReplacersOK
<1>3. replacement = "replaced" /\ closing[Source] = "none" /\ closing[Again] = "none"
  BY <1>0, <1>2 DEF ClosersOK, AgainOK
<1>4. ReplacementOK' /\ ClosersOK' /\ AgainOK' /\ SuccessorOK'
  BY <1>1, <1>3 DEF ReplacementOK, ClosersOK, AgainOK, SuccessorOK, Replacing, Impl
<1>5. pc'[c] = "idle" /\ \A d \in Callers : d # c => pc'[d] = pc[d]
  BY <1>0, <1>1, GoesFacts DEF Points
<1>6. \A d \in Callers : pc'[d] \notin {"replacing", "abandoning", "replaced", "restoring"}
  BY <1>0, <1>1, <1>5 DEF ReplacersOK, Replacers
<1>7. ReplacersOK'
  BY <1>6 DEF ReplacersOK, Replacers
<1> QED BY <1>4, <1>7 DEF ControlInv

LEMMA ControlStep == TypeOK /\ ControlInv /\ [Next]_vars => ControlInv'
<1> SUFFICES ASSUME TypeOK, ControlInv, [Next]_vars PROVE ControlInv'
  OBVIOUS
<1>1. CASE OpenTask \/ CleanupTask
  BY <1>1, ControlOpenTask
<1>2. ASSUME NEW t \in Closers, CloseTask(t) PROVE ControlInv'
  BY <1>2, ControlCloseTask
<1>3. CASE ReplacementTask
  BY <1>3, ControlReplacementTask
<1>4. ASSUME NEW c \in Callers,
             \/ OpenReturnsAtOnce(c) \/ OpenWaits(c) \/ OpenBehindCleanup(c) \/ OpenReturns(c)
             \/ CancelOpen(c) \/ LeaveCleanup(c)
      PROVE  ControlInv'
  BY <1>4, ControlOpen
<1>5. ASSUME NEW c \in Callers, Close(c) \/ CloseReturns(c) \/ CancelClose(c)
      PROVE  ControlInv'
  BY <1>5, ControlClose
<1>6. ASSUME NEW c \in Callers,
             \/ ReplaceStarts(c) \/ ReplaceReturns(c) \/ CancelReplace(c) \/ CancelReplaced(c)
             \/ UndoEnds(c)
      PROVE  ControlInv'
  BY <1>6, ControlReplaceStarts, ControlReplaceReturns, ControlUndoEnds
<1>7. CASE UNCHANGED vars
  BY <1>7 DEF vars, sessionVars, openVars, replaceVars, callerVars, ControlInv, ReplacementOK, AgainOK,
              ClosersOK, SuccessorOK, ReplacersOK, Replacers
<1> QED BY <1>1, <1>2, <1>3, <1>4, <1>5, <1>6, <1>7 DEF Next, Tasks

-----------------------------------------------------------------------------
(* The invariant of the process *)

LEMMA OwnedKept ==
  ASSUME Owned, UNCHANGED <<state, client, closeRequested, closing, opening, replacement,
                            closeReplaced, process, returned, closed>>
  PROVE  Owned'
BY DEF Owned, OpeningOwns, SourceOwns, SuccessorOwns, EndingOwns, ClosedStays

LEMMA EndingKept ==
  ASSUME EndingOwns, process' = "ending" <=> process = "ending",
         \A t \in Closers : closing'[t] = "ending" <=> closing[t] = "ending"
  PROVE  EndingOwns'
BY DEF EndingOwns

\* Where Owned leaves a source that is being opened, and a session that is being replaced.
LEMMA WhileOpening ==
  ASSUME ClosersOK, AgainOK, Owned, opening \in Opening
  PROVE  /\ replacement \notin Replacing /\ replacement # "replaced" /\ ~client[Source]
         /\ \/ state[Source] = "OPENING" /\ closing[Source] = "none"
            \/ state[Source] = "CLOSING" /\ closing[Source] = "after_open"
         /\ closing[Again] = "none" /\ closing[Successor] = "none" /\ process # "ending"
<1>1. OpeningOwns /\ SuccessorOwns /\ EndingOwns /\ opening # "opened"
  BY DEF Owned, Opening
<1>2. replacement \notin Replacing \cup {"replaced"}
  BY <1>1 DEF SuccessorOwns
<1>3. ~client[Source] /\ (state[Source] = "OPENING" \/ closing[Source] = "after_open")
  BY <1>1 DEF OpeningOwns
<1>4. closing[Source] = "after_open" => state[Source] = "CLOSING"
  BY DEF ClosersOK
<1>5. state[Source] = "OPENING" => closing[Source] = "none"
  BY DEF ClosersOK
<1>6. closing[Again] = "none"
  BY <1>3, <1>4, <1>5 DEF AgainOK, Impl
<1>7. closing[Successor] = "none"
  BY <1>1, <1>2 DEF SuccessorOwns
<1>8. process # "ending"
  BY <1>1, <1>3, <1>5, <1>6, <1>7, ClosersThree DEF EndingOwns
<1> QED BY <1>2, <1>3, <1>4, <1>5, <1>6, <1>7, <1>8

LEMMA WhileReplacing ==
  ASSUME ReplacementOK, AgainOK, Owned, replacement \in Replacing
  PROVE  /\ opening = "opened" /\ client[Source] /\ ~returned /\ process = "up"
         /\ closing[Source] \in {"none", "after_replacement"} /\ closing[Successor] = "none"
         /\ closing[Again] = "none"
         /\ state[Source] \in {"REPLACING", "CLOSING"}
         /\ state[Source] = "CLOSING" =>
              replacement = "giving_up" \/ closing[Source] = "after_replacement"
         /\ closeReplaced => closing[Source] = "after_replacement"
         /\ closed \cap Sessions = {}
<1>1. SourceOwns /\ SuccessorOwns /\ ClosedStays /\ replacement # "replaced"
  BY DEF Owned, Replacing
<1>2. opening = "opened" /\ closing[Successor] = "none" /\ ~returned
  BY <1>1 DEF SuccessorOwns
<1>3. /\ state[Source] \in {"REPLACING", "CLOSING"}
      /\ closing[Source] \in {"none", "after_replacement"}
  BY DEF ReplacementOK
<1>4. client[Source] /\ process = "up"
  BY <1>1 DEF SourceOwns
<1>5. state[Source] = "CLOSING" =>
        replacement = "giving_up" \/ closing[Source] = "after_replacement"
  BY <1>1, <1>3 DEF SourceOwns, Impl
<1>6. closeReplaced => closing[Source] = "after_replacement"
  BY <1>1 DEF SuccessorOwns
<1>7. Source \notin closed /\ Successor \notin closed
  BY <1>1, <1>3 DEF ClosedStays
<1>8. closing[Again] = "none"
  BY DEF AgainOK, Replacing
<1> QED BY <1>2, <1>3, <1>4, <1>5, <1>6, <1>7, <1>8, SessionsTwo

LEMMA OwnedOpenTask ==
  ASSUME TypeOK, ControlInv, Owned, OpenTask
  PROVE  Owned'
<1> USE SessionsTwo, ClosersThree DEF Opening
<1>0. /\ SessionsOK /\ ClosersOK /\ AgainOK
      /\ OpeningOwns /\ SourceOwns /\ SuccessorOwns /\ EndingOwns /\ ClosedStays
  BY DEF TypeOK, ControlInv, Owned
<1>1. UNCHANGED <<closeRequested, closing, replacement, closeReplaced, returned, closed>>
  BY <1>0, OpenTaskFacts
<1>2. /\ opening \in Opening
      /\ state'[Successor] = state[Successor] /\ client'[Successor] = client[Successor]
      /\ \/ /\ state' = state /\ client' = client
            /\ \/ opening = "starting" /\ opening' \in {"serving", "unserving"} /\ process' = process
               \/ opening = "serving" /\ opening' = "connected" /\ process' = "up"
               \/ opening = "serving" /\ opening' = "unserving" /\ process' = process
               \/ opening = "connected" /\ opening' = "unwinding" /\ process' = process
               \/ opening = "unwinding" /\ opening' = "unserving" /\ process' = "down"
         \/ /\ opening = "connected" /\ opening' = "opened" /\ client'[Source] /\ process' = process
            /\ state'[Source] = IF state[Source] = "OPENING" THEN "OPEN" ELSE state[Source]
         \/ /\ opening = "unserving" /\ opening' = "failed" /\ client' = client /\ process' = process
            /\ state'[Source] = IF state[Source] = "OPENING" THEN "LAZY" ELSE state[Source]
  BY <1>0, OpenTaskFacts
<1>3. /\ replacement \notin Replacing /\ replacement # "replaced" /\ ~client[Source]
      /\ \/ state[Source] = "OPENING" /\ closing[Source] = "none"
         \/ state[Source] = "CLOSING" /\ closing[Source] = "after_open"
      /\ closing[Again] = "none" /\ closing[Successor] = "none" /\ process # "ending"
  BY <1>0, <1>2, WhileOpening
<1>4. OpeningOwns'
  BY <1>0, <1>1, <1>2, <1>3 DEF OpeningOwns
<1>5. SourceOwns'
  <2>1. \A t \in {Source, Again} : closing'[t] \notin Impl
    BY <1>1, <1>3 DEF Impl
  <2>2. "tools" \in Impl /\ "bare" \in Impl
    BY DEF Impl
  <2>3. state'[Source] = "OPEN" => process' = "up"
    BY <1>0, <1>2, <1>3 DEF OpeningOwns
  <2> QED BY <1>0, <1>1, <1>2, <1>3, <2>1, <2>2, <2>3 DEF SourceOwns
<1>6. SuccessorOwns'
  BY <1>0, <1>1, <1>2, <1>3 DEF SuccessorOwns
<1>7. ClosedStays'
  BY <1>0, <1>1, <1>2, <1>3 DEF ClosedStays
<1>8. EndingOwns'
  BY <1>0, <1>1, <1>2, <1>3, EndingKept
<1> QED BY <1>4, <1>5, <1>6, <1>7, <1>8 DEF Owned

LEMMA OwnedCleanupTask ==
  ASSUME TypeOK, ControlInv, Owned, CleanupTask
  PROVE  Owned'
<1> USE SessionsTwo, ClosersThree
<1>0. /\ SessionsOK /\ ReplacementOK /\ ClosersOK /\ AgainOK
      /\ OpeningOwns /\ SourceOwns /\ SuccessorOwns /\ EndingOwns /\ ClosedStays
  BY DEF TypeOK, ControlInv, Owned
<1>1. /\ UNCHANGED <<client, closeRequested, replacement, closeReplaced, process, returned, closed>>
      /\ state'[Successor] = state[Successor] /\ closing'[Successor] = closing[Successor]
  BY <1>0, CleanupFacts
<1>2. \/ UNCHANGED <<state, closing, opening>>
      \/ /\ state' = state /\ closing' = closing /\ opening \in Opening
         /\ \/ opening = "connected" /\ opening' = "unwinding"
            \/ opening \in {"starting", "serving"} /\ opening' = "unserving"
            \/ opening = "unserving" /\ opening' = "failed"
      \/ /\ state[Source] = "OPEN" /\ state'[Source] = "CLOSING" /\ opening' = opening
         /\ closing[Again] = "none"
         /\ \/ /\ closing[Source] = "none" /\ closing'[Source] = "asking"
               /\ closing'[Again] = "none"
            \/ /\ closing[Source] \in Closing /\ closing'[Source] = closing[Source]
               /\ closing'[Again] = "asking"
      \/ /\ state[Source] = "CLOSED" /\ state'[Source] = "LAZY" /\ ~closeRequested[Source]
         /\ closing[Again] = "none" /\ closing'[Again] = "none"
         /\ closing[Source] = "done" /\ closing'[Source] = "none"
         /\ opening' = "none"
  <2>1. state[Source] = "OPEN" => CloseImpl(Source) = "asking"
    BY <1>0 DEF SourceOwns, CloseImpl
  <2> QED BY <1>0, <2>1, CleanupFacts DEF Opening
<1>3. CASE UNCHANGED <<state, closing, opening>>
  BY <1>1, <1>3, OwnedKept
<1>4. CASE /\ state' = state /\ closing' = closing /\ opening \in Opening
           /\ \/ opening = "connected" /\ opening' = "unwinding"
              \/ opening \in {"starting", "serving"} /\ opening' = "unserving"
              \/ opening = "unserving" /\ opening' = "failed"
  <2>1. /\ replacement \notin Replacing /\ replacement # "replaced" /\ ~client[Source]
        /\ \/ state[Source] = "OPENING" /\ closing[Source] = "none"
           \/ state[Source] = "CLOSING" /\ closing[Source] = "after_open"
    BY <1>0, <1>4, WhileOpening
  <2>2. OpeningOwns'
    BY <1>0, <1>1, <1>4, <2>1 DEF OpeningOwns, Opening
  <2>3. SourceOwns' /\ ClosedStays' /\ EndingOwns'
    BY <1>0, <1>1, <1>4 DEF SourceOwns, ClosedStays, EndingOwns
  <2>4. SuccessorOwns'
    BY <1>0, <1>1, <1>4, <2>1 DEF SuccessorOwns
  <2> QED BY <2>2, <2>3, <2>4 DEF Owned
<1>5. CASE /\ state[Source] = "OPEN" /\ state'[Source] = "CLOSING" /\ opening' = opening
           /\ closing[Again] = "none"
           /\ \/ /\ closing[Source] = "none" /\ closing'[Source] = "asking"
                 /\ closing'[Again] = "none"
              \/ /\ closing[Source] \in Closing /\ closing'[Source] = closing[Source]
                 /\ closing'[Again] = "asking"
  <2>1. client[Source] /\ replacement \notin Replacing /\ replacement # "replaced"
    BY <1>0, <1>5 DEF SourceOwns, ReplacementOK, SuccessorOwns
  <2>2. opening \notin Opening /\ closing[Source] # "after_open"
    BY <1>0, <1>5 DEF OpeningOwns, ClosersOK
  <2>3. OpeningOwns'
    BY <1>0, <1>1, <1>5, <2>2 DEF OpeningOwns
  <2>4. SourceOwns'
    <3>1. closing[Source] \in Closing => closing[Source] \in Impl \cup {"after_replacement"}
      BY <1>0, <1>5, <2>2 DEF ClosersOK, Closing, Impl
    <3>2. "asking" \in Impl
      BY DEF Impl
    <3> QED BY <1>0, <1>1, <1>5, <2>1, <2>2, <3>1, <3>2 DEF SourceOwns
  <2>5. SuccessorOwns'
    BY <1>0, <1>1, <1>5, <2>1 DEF SuccessorOwns
  <2>6. ClosedStays'
    BY <1>0, <1>1, <1>5 DEF ClosedStays
  <2>7. EndingOwns'
    BY <1>0, <1>1, <1>5, EndingKept
  <2> QED BY <2>3, <2>4, <2>5, <2>6, <2>7 DEF Owned
<1>6. CASE /\ state[Source] = "CLOSED" /\ state'[Source] = "LAZY" /\ ~closeRequested[Source]
           /\ closing[Again] = "none" /\ closing'[Again] = "none"
           /\ closing[Source] = "done" /\ closing'[Source] = "none"
           /\ opening' = "none"
  <2>1. process # "up" /\ ~client[Source] /\ replacement \notin Replacing /\ replacement # "replaced"
    BY <1>0, <1>6 DEF SourceOwns, ReplacementOK, SuccessorOwns
  <2>2. process = "down"
    <3>1. closing[Successor] # "ending"
      BY <1>0, <2>1 DEF SuccessorOwns
    <3>2. process # "ending"
      BY <1>0, <1>6, <3>1 DEF EndingOwns
    <3> QED BY <2>1, <3>2 DEF TypeOK, TasksOK
  <2>3. OpeningOwns'
    BY <1>0, <1>1, <1>6, <2>1, <2>2 DEF OpeningOwns, Opening
  <2>4. SourceOwns'
    <3>1. "none" \notin Impl
      BY DEF Impl
    <3> QED BY <1>0, <1>1, <1>6, <2>1, <3>1 DEF SourceOwns
  <2>5. SuccessorOwns'
    BY <1>0, <1>1, <1>6, <2>1 DEF SuccessorOwns
  <2>6. ClosedStays'
    BY <1>0, <1>1, <1>6 DEF ClosedStays
  <2>7. EndingOwns'
    BY <1>0, <1>1, <1>6, EndingKept
  <2> QED BY <2>3, <2>4, <2>5, <2>6, <2>7 DEF Owned
<1> QED BY <1>2, <1>3, <1>4, <1>5, <1>6

\* A step of a close task of the source.
LEMMA OwnedSourceImpl ==
  ASSUME TypeOK, ControlInv, Owned, NEW t \in {Source, Again},
         ClientCloses(t) \/ ClientClosed(t) \/ CloseImplEnds(t)
  PROVE  Owned'
<1> USE SessionsTwo, ClosersThree
<1>0. /\ SessionsOK /\ ReplacementOK /\ ClosersOK /\ AgainOK
      /\ OpeningOwns /\ SourceOwns /\ SuccessorOwns /\ EndingOwns /\ ClosedStays
  BY DEF TypeOK, ControlInv, Owned
<1>t. t \in Closers /\ t # Successor /\ Of(t) = Source
  OBVIOUS
<1>1. UNCHANGED <<opening, replacement, closeReplaced, returned, closed, closeRequested>>
  <2>1. CloseTask(t)
    BY DEF CloseTask
  <2> QED BY <1>0, <1>t, <2>1, CloseTaskKeeps, ImplFacts
<1>2. closing[t] \in Impl
  BY <1>0, <1>t, ImplFacts DEF Impl
<1>3. /\ replacement \notin Replacing /\ replacement # "replaced" /\ closing[Source] # "after_open"
      /\ opening \notin Opening /\ state[Source] \in {"OPEN", "CLOSING", "CLOSED"}
      /\ closing[Successor] = "none"
  <2>1. closing[Source] # "none" /\ closing[Source] # "after_open" /\ state[Source] # "RETIRED"
    BY <1>0, <1>2 DEF ClosersOK, AgainOK, Impl
  <2>2. replacement \notin Replacing /\ state[Source] \notin {"LAZY", "OPENING", "REPLACING"}
    BY <1>0, <1>2, <2>1 DEF ReplacementOK, ClosersOK, AgainOK, Replacing, Impl
  <2>3. replacement # "replaced"
    BY <1>0, <2>1 DEF SuccessorOwns
  <2>4. opening \notin Opening
    BY <1>0, <2>1, <2>2 DEF OpeningOwns
  <2>5. closing[Successor] = "none"
    BY <1>0, <2>3 DEF SuccessorOwns
  <2> QED BY <1>0, <2>1, <2>2, <2>3, <2>4, <2>5 DEF SessionsOK, States
<1>4. \A u \in Closers : u # t => closing'[u] = closing[u]
  BY <1>0, <1>t, ImplFacts
<1>5. CASE closing[t] \in {"asking", "ending"}
  <2>1. /\ UNCHANGED <<state, client>>
        /\ \/ /\ closing[t] = "asking" /\ process = "up" /\ process' = "ending"
              /\ closing'[t] = "ending"
           \/ /\ closing[t] = "asking" /\ process # "up" /\ process' = process
              /\ closing'[t] = Gathers(Source)
           \/ closing[t] = "ending" /\ process' = "down" /\ closing'[t] = Gathers(Source)
    BY <1>0, <1>t, <1>5, ImplFacts
  <2>2. /\ process' # "up" /\ closing'[t] \in Impl \ {"asking"}
        /\ closing'[t] = "bare" => state[Source] = "CLOSED"
    <3>1. closing[t] \in Impl => client[Source] \/ state[Source] = "CLOSED"
      BY <1>0 DEF SourceOwns
    <3>2. Gathers(Source) \in {"tools", "bare"} /\ (Gathers(Source) = "bare" => ~client[Source])
      BY DEF Gathers
    <3> QED BY <1>2, <2>1, <3>1, <3>2 DEF Impl
  <2>3. OpeningOwns'
    <3>1. /\ closing'[Source] # "after_open"
          /\ process' = "down" \/ process = "up" \/ process' = process
      BY <1>3, <1>4, <2>1, <2>2 DEF Impl
    <3>2. opening \in {"connected", "unwinding", "starting", "serving", "unserving"} => opening \in Opening
      BY DEF Opening
    <3> QED BY <1>0, <1>1, <1>3, <2>1, <3>1, <3>2 DEF OpeningOwns
  <2>4. SourceOwns'
    <3>1. \A u \in {Source, Again} : closing'[u] \in Impl => closing[u] \in Impl
      BY <1>2, <1>4
    <3>2. \A u \in {Source, Again} :
            closing'[u] \in Impl => (closing'[u] # "bare" /\ client[Source]) \/ state[Source] = "CLOSED"
      <4>1. \A u \in {Source, Again} :
              closing[u] \in Impl => (closing[u] # "bare" /\ client[Source]) \/ state[Source] = "CLOSED"
        BY <1>0 DEF SourceOwns
      <4> QED BY <1>2, <1>4, <2>2, <4>1
    <3>3. closing'[Source] = closing[Source] \/ (closing[Source] \in Impl /\ closing'[Source] \in Impl)
      BY <1>2, <1>4, <2>2
    <3>4. "after_replacement" \notin Impl
      BY DEF Impl
    <3>5. state[Source] = "OPEN" => closing'[Source] # "none"
      BY <1>0, <1>2, <1>4, <2>2 DEF AgainOK, Impl
    <3> QED BY <1>0, <1>1, <1>3, <2>1, <2>2, <3>2, <3>3, <3>4, <3>5 DEF SourceOwns
  <2>5. SuccessorOwns'
    BY <1>0, <1>1, <1>3, <1>4, <2>1, <2>2 DEF SuccessorOwns
  <2>6. ClosedStays'
    <3>1. closing[t] # "done" /\ closing[t] # "none"
      BY <1>5
    <3> QED BY <1>0, <1>1, <1>4, <1>5, <2>1, <3>1 DEF ClosedStays
  <2>7. EndingOwns'
    <3>1. closing[t] = "ending" => \A u \in Closers : u # t => closing[u] # "ending"
      BY <1>0, <1>t DEF EndingOwns
    <3>2. Gathers(Source) # "ending"
      BY DEF Gathers
    <3> QED BY <1>0, <1>t, <1>4, <2>1, <3>1, <3>2 DEF EndingOwns
  <2> QED BY <2>3, <2>4, <2>5, <2>6, <2>7 DEF Owned
<1>6. CASE closing[t] \in {"tools", "bare"}
  <2>1. /\ closing'[t] = "done" /\ process' = process
        /\ state'[Source] = "CLOSED" /\ ~client'[Source]
        /\ state'[Successor] = state[Successor] /\ client'[Successor] = client[Successor]
    BY <1>0, <1>t, <1>6, ImplFacts
  <2>2. process # "up"
    BY <1>0, <1>6 DEF SourceOwns
  <2>3. OpeningOwns'
    <3>1. closing'[Source] # "after_open"
      BY <1>3, <1>4, <2>1
    <3> QED BY <1>0, <1>1, <1>3, <2>1, <3>1 DEF OpeningOwns
  <2>4. SourceOwns'
    <3>1. \A u \in {Source, Again} : closing'[u] \in {"tools", "bare"} => process' # "up"
      BY <2>1, <2>2
    <3>2. closing'[Source] = "after_replacement" => replacement = "failed"
      BY <1>0, <1>2, <1>4, <2>1 DEF AgainOK, Impl
    <3> QED BY <1>1, <1>3, <2>1, <2>2, <3>1, <3>2 DEF SourceOwns
  <2>5. SuccessorOwns'
    BY <1>0, <1>1, <1>3, <1>4, <2>1 DEF SuccessorOwns
  <2>6. ClosedStays'
    BY <1>0, <1>1, <1>3, <1>4, <2>1 DEF ClosedStays
  <2>7. EndingOwns'
    BY <1>0, <1>4, <1>6, <2>1, EndingKept
  <2> QED BY <2>3, <2>4, <2>5, <2>6, <2>7 DEF Owned
<1> QED BY <1>2, <1>5, <1>6 DEF Impl

LEMMA OwnedSuccessorImpl ==
  ASSUME TypeOK, ControlInv, Owned,
         ClientCloses(Successor) \/ ClientClosed(Successor) \/ CloseImplEnds(Successor)
  PROVE  Owned'
<1> USE SessionsTwo, ClosersThree
<1>0. /\ SessionsOK /\ ReplacementOK /\ ClosersOK /\ AgainOK
      /\ OpeningOwns /\ SourceOwns /\ SuccessorOwns /\ EndingOwns /\ ClosedStays
  BY DEF TypeOK, ControlInv, Owned
<1>1. UNCHANGED <<opening, replacement, closeReplaced, returned, closed, closeRequested>>
  <2>1. CloseTask(Successor)
    BY DEF CloseTask
  <2> QED BY <1>0, <2>1, CloseTaskKeeps, ImplFacts
<1>2. closing[Successor] \in Impl
  BY <1>0, ImplFacts DEF Impl
<1>3. /\ replacement = "replaced" /\ opening = "opened" /\ state[Source] = "RETIRED"
      /\ ~client[Source] /\ closing[Again] = "none"
      /\ closing[Source] \in {"none", "successor"}
  <2>1. replacement = "replaced"
    BY <1>0, <1>2 DEF SuccessorOwns, Impl
  <2>2. closing[Source] \in {"none", "successor"} /\ state[Source] = "RETIRED" /\ ~client[Source]
    BY <1>0, <1>2, <2>1 DEF SuccessorOwns, Impl
  <2>3. opening = "opened" /\ closing[Again] = "none"
    BY <1>0, <2>1 DEF SuccessorOwns, AgainOK
  <2> QED BY <2>1, <2>2, <2>3
<1>4. closing'[Source] = closing[Source] /\ closing'[Again] = closing[Again]
  BY <1>0, ImplFacts
<1>5. /\ state'[Source] = state[Source] /\ client'[Source] = client[Source]
      /\ \/ /\ state'[Successor] = state[Successor] /\ client'[Successor] = client[Successor]
            /\ closing[Successor] = "asking" /\ process = "up" /\ process' = "ending"
            /\ closing'[Successor] = "ending"
         \/ /\ state'[Successor] = state[Successor] /\ client'[Successor] = client[Successor]
            /\ closing[Successor] = "asking" /\ process # "up" /\ process' = process
            /\ closing'[Successor] \in {"tools", "bare"}
         \/ /\ state'[Successor] = state[Successor] /\ client'[Successor] = client[Successor]
            /\ closing[Successor] = "ending" /\ process' = "down"
            /\ closing'[Successor] \in {"tools", "bare"}
         \/ /\ closing[Successor] \in {"tools", "bare"} /\ closing'[Successor] = "done"
            /\ process' = process /\ state'[Successor] = "CLOSED" /\ ~client'[Successor]
  BY <1>0, ImplFacts, CloserFacts
<1>6. process' # "up" /\ (process = "up" \/ process' = "down" \/ process' = process)
  <2>1. closing[Successor] \in {"tools", "bare"} => process # "up"
    BY <1>0, <1>3 DEF SuccessorOwns
  <2> QED BY <1>5, <2>1
<1>7. OpeningOwns'
  BY <1>0, <1>1, <1>3, <1>4, <1>5 DEF OpeningOwns, Opening
<1>8. SourceOwns'
  <2>1. "none" \notin Impl /\ "successor" \notin Impl
    BY DEF Impl
  <2> QED BY <1>1, <1>3, <1>4, <1>5, <1>6, <2>1 DEF SourceOwns, Replacing
<1>9. SuccessorOwns'
  <2>1. /\ closing'[Successor] \in Impl \cup {"done"} /\ closing'[Successor] # "none"
        /\ closing'[Successor] \in Impl => state'[Successor] = state[Successor]
        /\ closing'[Successor] = "done" => state'[Successor] = "CLOSED" /\ ~client'[Successor]
    BY <1>5 DEF Impl
  <2> QED BY <1>0, <1>1, <1>2, <1>3, <1>4, <1>5, <1>6, <2>1 DEF SuccessorOwns, Replacing
<1>10. ClosedStays'
  BY <1>0, <1>1, <1>2, <1>3, <1>4, <1>5 DEF ClosedStays, Impl
<1>11. EndingOwns'
  BY <1>0, <1>3, <1>4, <1>5 DEF EndingOwns
<1> QED BY <1>7, <1>8, <1>9, <1>10, <1>11 DEF Owned

LEMMA OwnedCloserSteps ==
  ASSUME TypeOK, ControlInv, Owned,
         CloseAfterOpen \/ CloseAfterFailure \/ CloseAfterReplacement \/ CloseSuccessorEnds
  PROVE  Owned'
<1> USE SessionsTwo, ClosersThree
<1>0. /\ SessionsOK /\ ReplacementOK /\ ClosersOK /\ AgainOK
      /\ OpeningOwns /\ SourceOwns /\ SuccessorOwns /\ EndingOwns /\ ClosedStays
  BY DEF TypeOK, ControlInv, Owned
<1>1. /\ UNCHANGED <<opening, replacement, closeReplaced, returned, closed>>
      /\ closeRequested'[Source] = closeRequested[Source]
  <2>1. CloseTask(Source)
    BY DEF CloseTask
  <2> QED BY <1>0, <2>1, CloseTaskKeeps
<1>2. UNCHANGED <<client, process>> /\ closing'[Again] = closing[Again]
  BY <1>0, CloserSteps
<1>3. CASE /\ closing[Source] = "after_open" /\ opening = "opened"
           /\ closing'[Source] = CloseImpl(Source) /\ state' = state
           /\ closing'[Successor] = closing[Successor]
  <2>1. closing'[Source] = "asking" /\ client[Source]
    BY <1>0, <1>3 DEF OpeningOwns, CloseImpl
  <2>2. state[Source] = "CLOSING" /\ closing[Again] = "none"
    BY <1>0, <1>3 DEF ClosersOK, AgainOK, Impl
  <2>3. replacement \notin Replacing /\ replacement # "replaced"
    BY <1>0, <1>3, <2>2 DEF ReplacementOK, SuccessorOwns
  <2>4. "asking" \in Impl /\ "none" \notin Impl
    BY DEF Impl
  <2>5. OpeningOwns'
    BY <1>0, <1>1, <1>2, <1>3, <2>1 DEF OpeningOwns, Opening
  <2>6. SourceOwns'
    BY <1>0, <1>1, <1>2, <1>3, <2>1, <2>2, <2>3, <2>4 DEF SourceOwns
  <2>7. SuccessorOwns' /\ ClosedStays'
    BY <1>0, <1>1, <1>2, <1>3, <2>1, <2>2, <2>3 DEF SuccessorOwns, ClosedStays
  <2>8. EndingOwns'
    BY <1>0, <1>2, <1>3, <2>1, EndingKept
  <2> QED BY <2>5, <2>6, <2>7, <2>8 DEF Owned
<1>4. CASE /\ \/ closing[Source] = "after_open" /\ opening = "failed"
              \/ closing[Source] = "after_replacement" /\ replacement = "failed" /\ ~client[Source]
           /\ closing'[Source] = "done" /\ state'[Source] = "CLOSED"
           /\ closing'[Successor] = closing[Successor] /\ state'[Successor] = state[Successor]
  <2>1. ~client[Source] /\ process # "up" /\ replacement \notin Replacing /\ replacement # "replaced"
    <3>1. CASE closing[Source] = "after_open" /\ opening = "failed"
      BY <1>0, <3>1 DEF OpeningOwns, SuccessorOwns
    <3>2. CASE closing[Source] = "after_replacement" /\ replacement = "failed" /\ ~client[Source]
      <4>1. state[Source] = "CLOSED"
        BY <1>0, <3>2 DEF SourceOwns, ClosersOK
      <4> QED BY <1>0, <3>2, <4>1 DEF SourceOwns, Replacing
    <3> QED BY <1>4, <3>1, <3>2
  <2>2. opening \notin Opening \/ closing[Source] = "after_replacement"
    BY <1>4 DEF Opening
  <2>3. closing[Source] = "after_replacement" => opening \notin Opening
    BY <1>0 DEF OpeningOwns, ClosersOK
  <2>4. "done" \notin Impl
    BY DEF Impl
  <2>5. OpeningOwns'
    BY <1>0, <1>1, <1>2, <1>4, <2>1, <2>2, <2>3 DEF OpeningOwns
  <2>6. SourceOwns'
    BY <1>0, <1>1, <1>2, <1>4, <2>1, <2>4 DEF SourceOwns
  <2>7. SuccessorOwns' /\ ClosedStays'
    BY <1>0, <1>1, <1>2, <1>4, <2>1 DEF SuccessorOwns, ClosedStays
  <2>8. EndingOwns'
    BY <1>0, <1>2, <1>4, EndingKept
  <2> QED BY <2>5, <2>6, <2>7, <2>8 DEF Owned
<1>5. CASE /\ closing[Source] = "after_replacement" /\ replacement = "failed" /\ client[Source]
           /\ closing'[Source] = "asking" /\ state' = state
           /\ closing'[Successor] = closing[Successor]
  <2>1. /\ replacement \notin Replacing /\ replacement # "replaced" /\ opening = "opened"
        /\ state[Source] \in {"OPEN", "CLOSING"}
    BY <1>0, <1>5 DEF SourceOwns, OpeningOwns, ClosersOK, Replacing
  <2>4. "asking" \in Impl
    BY DEF Impl
  <2>5. OpeningOwns'
    BY <1>0, <1>1, <1>2, <1>5, <2>1 DEF OpeningOwns, Opening
  <2>6. SourceOwns'
    BY <1>0, <1>1, <1>2, <1>5, <2>1, <2>4 DEF SourceOwns
  <2>7. SuccessorOwns' /\ ClosedStays'
    BY <1>0, <1>1, <1>2, <1>5, <2>1 DEF SuccessorOwns, ClosedStays
  <2>8. EndingOwns'
    BY <1>0, <1>2, <1>5, EndingKept
  <2> QED BY <2>5, <2>6, <2>7, <2>8 DEF Owned
<1>6. CASE /\ closing[Source] = "after_replacement" /\ replacement = "replaced"
           /\ closing'[Source] = "successor" /\ state'[Source] = state[Source]
           /\ closing'[Successor] = CloseImpl(Successor) /\ state'[Successor] = "CLOSING"
  <2>1. /\ closing[Successor] = "none" /\ state[Source] = "RETIRED" /\ closing'[Successor] = "asking"
        /\ ~returned /\ closing[Again] = "none"
    <3>1. closing[Successor] = "none" /\ state[Source] = "RETIRED" /\ client[Successor] /\ ~returned
      BY <1>0, <1>6 DEF SuccessorOwns
    <3> QED BY <1>0, <1>6, <3>1 DEF AgainOK, CloseImpl
  <2>4. "asking" \in Impl /\ "successor" \notin Impl /\ "none" \notin Impl
    BY DEF Impl
  <2>5. OpeningOwns'
    BY <1>0, <1>1, <1>2, <1>6, <2>1 DEF OpeningOwns
  <2>6. SourceOwns'
    BY <1>0, <1>1, <1>2, <1>6, <2>1, <2>4 DEF SourceOwns
  <2>7. SuccessorOwns'
    BY <1>0, <1>1, <1>2, <1>6, <2>1, <2>4 DEF SuccessorOwns, Replacing
  <2>8. ClosedStays'
    BY <1>0, <1>1, <1>2, <1>6, <2>1 DEF ClosedStays
  <2>9. EndingOwns'
    BY <1>0, <1>2, <1>6, <2>1, EndingKept
  <2> QED BY <2>5, <2>6, <2>7, <2>8, <2>9 DEF Owned
<1>7. CASE /\ closing[Source] = "successor" /\ closing[Successor] = "done"
           /\ closing'[Source] = "done" /\ state'[Source] = "RETIRED"
           /\ closing'[Successor] = closing[Successor] /\ state'[Successor] = state[Successor]
  <2>1. state[Source] = "RETIRED" /\ replacement = "replaced" /\ closing[Again] = "none"
    BY <1>0, <1>7 DEF ClosersOK, AgainOK
  <2>4. "done" \notin Impl
    BY DEF Impl
  <2>5. OpeningOwns'
    BY <1>0, <1>1, <1>2, <1>7, <2>1 DEF OpeningOwns
  <2>6. SourceOwns'
    BY <1>0, <1>1, <1>2, <1>7, <2>1, <2>4 DEF SourceOwns
  <2>7. SuccessorOwns'
    BY <1>0, <1>1, <1>2, <1>7, <2>1 DEF SuccessorOwns, Replacing
  <2>8. ClosedStays'
    BY <1>0, <1>1, <1>2, <1>7, <2>1 DEF ClosedStays
  <2>9. EndingOwns'
    BY <1>0, <1>2, <1>7, EndingKept
  <2> QED BY <2>5, <2>6, <2>7, <2>8, <2>9 DEF Owned
<1> QED BY <1>0, <1>3, <1>4, <1>5, <1>6, <1>7, CloserSteps

LEMMA OwnedCloseTask ==
  ASSUME TypeOK, ControlInv, Owned, NEW t \in Closers, CloseTask(t)
  PROVE  Owned'
<1>1. CASE ClientCloses(t) \/ ClientClosed(t) \/ CloseImplEnds(t)
  <2>1. t \in {Source, Again} \/ t = Successor
    BY ClosersThree
  <2> QED BY <1>1, <2>1, OwnedSourceImpl, OwnedSuccessorImpl
<1> QED BY <1>1, OwnedCloserSteps DEF CloseTask

LEMMA OwnedReplacementTask ==
  ASSUME TypeOK, ControlInv, Owned, Safe', ReplacementTask
  PROVE  Owned'
<1> USE SessionsTwo, ClosersThree DEF sessionVars, openVars, replaceVars, callerVars, connection, Unchanged
<1>0. /\ SessionsOK /\ CallersOK /\ ReplacementOK /\ ClosersOK /\ AgainOK
      /\ OpeningOwns /\ SourceOwns /\ SuccessorOwns /\ EndingOwns /\ ClosedStays
  BY DEF TypeOK, ControlInv, Owned
<1>1. /\ UNCHANGED <<closing, closeRequested, closeReplaced, opening, returned, closed>>
      /\ replacement \in Replacing
  BY DEF Replacing, ReplacementTask, OperationSucceeds, OperationFails, LoadSucceeds, LoadFails,
         RollbackSucceeds, GiveUp, GiveUpEnds, GiveUpCut, Retire, CheckpointCancelled, RestoreSucceeds
<1>2. /\ opening = "opened" /\ client[Source] /\ ~returned /\ process = "up"
      /\ closing[Source] \in {"none", "after_replacement"} /\ closing[Successor] = "none"
      /\ closing[Again] = "none"
      /\ state[Source] \in {"REPLACING", "CLOSING"}
      /\ state[Source] = "CLOSING" =>
           replacement = "giving_up" \/ closing[Source] = "after_replacement"
      /\ closeReplaced => closing[Source] = "after_replacement"
      /\ closed \cap Sessions = {}
  BY <1>0, <1>1, WhileReplacing
<1>3. state[Source] = "REPLACING" => closing[Source] = "none"
  BY <1>0 DEF ClosersOK
<1>4. /\ replacement \in {"operation", "loading", "rollback"} => state[Successor] = "RETIRED" /\ ~client[Successor]
      /\ replacement \in {"checkpoint", "restoring"} => state[Successor] = "OPEN" /\ client[Successor]
  BY <1>0 DEF SuccessorOwns
<1>5. ClosedStays'
  BY <1>1, <1>2 DEF ClosedStays
<1>14. ~GiveUpCut
  BY DEF GiveUpCut, Safe
<1>i. "none" \notin Impl /\ "after_replacement" \notin Impl
  BY DEF Impl
<1>e. EndingOwns'
  <2>1. process' # "ending"
    BY <1>2, <1>14 DEF ReplacementTask, OperationSucceeds, OperationFails, LoadSucceeds, LoadFails,
       RollbackSucceeds, GiveUp, GiveUpEnds, Retire, CheckpointCancelled, RestoreSucceeds
  <2> QED BY <1>0, <1>1, <1>2, <2>1, EndingKept
<1>6. ASSUME client'[Source], process' = process, state'[Source] \in {"OPEN", "REPLACING", "CLOSING"}
      PROVE  OpeningOwns'
  BY <1>1, <1>2, <1>6 DEF OpeningOwns, Opening
<1>7. CASE replacement' \in {"loading", "rollback"}
  <2>1. UNCHANGED <<state, client, process>> /\ replacement \in {"operation", "loading"}
    BY <1>7 DEF ReplacementTask, OperationSucceeds, OperationFails, LoadSucceeds, LoadFails, ReplacementEnds,
         RollbackSucceeds, GiveUp, GiveUpEnds, GiveUpCut, Retire, CheckpointCancelled, RestoreSucceeds
  <2>2. SourceOwns'
    BY <1>i, <1>0, <1>1, <1>2, <1>3, <1>7, <2>1 DEF SourceOwns
  <2>3. SuccessorOwns'
    BY <1>1, <1>2, <1>4, <1>7, <2>1 DEF SuccessorOwns
  <2> QED BY <1>e, <1>2, <1>5, <1>6, <2>1, <2>2, <2>3 DEF Owned
<1>8. CASE LoadSucceeds \/ (CheckpointCancelled /\ ~closeReplaced)
  <2>1. /\ state'[Source] = state[Source] /\ client'[Source] = client[Source] /\ process' = process
        /\ state'[Successor] = "OPEN" /\ client'[Successor] /\ replacement # "giving_up"
        /\ replacement' \in {"checkpoint", "restoring"}
    <3>1. CASE LoadSucceeds
      BY <1>0, <1>2, <3>1 DEF SessionsOK, LoadSucceeds
    <3>2. CASE CheckpointCancelled /\ ~closeReplaced
      BY <1>4, <3>2 DEF CheckpointCancelled
    <3> QED BY <1>8, <3>1, <3>2
  <2>2. SourceOwns'
    BY <1>i, <1>0, <1>1, <1>2, <1>3, <2>1 DEF SourceOwns
  <2>3. SuccessorOwns'
    BY <1>1, <1>2, <2>1 DEF SuccessorOwns
  <2> QED BY <1>e, <1>2, <1>5, <1>6, <2>1, <2>2, <2>3 DEF Owned
<1>9. CASE GiveUp
  <2>1. /\ state'[Source] = "CLOSING" /\ client' = client /\ process' = process
        /\ state'[Successor] \in {"OPEN", "RETIRED"} /\ replacement' = "giving_up"
    BY <1>0, <1>4, <1>9 DEF SessionsOK, GiveUp
  <2>2. SourceOwns'
    BY <1>i, <1>0, <1>1, <1>2, <1>3, <2>1 DEF SourceOwns
  <2>3. SuccessorOwns'
    BY <1>1, <1>2, <2>1 DEF SuccessorOwns
  <2> QED BY <1>e, <1>2, <1>5, <1>6, <2>1, <2>2, <2>3 DEF Owned
<1>10. CASE OperationFails \/ RollbackSucceeds
  <2>1. /\ state'[Source] = (IF state[Source] = "REPLACING" THEN "OPEN" ELSE "CLOSING")
        /\ client' = client /\ process' = process
        /\ state'[Successor] = "RETIRED" /\ ~client'[Successor]
        /\ replacement' = "failed" /\ replacement # "giving_up"
    BY <1>0, <1>2, <1>4, <1>10 DEF SessionsOK, OperationFails, RollbackSucceeds, ReplacementEnds
  <2>2. SourceOwns'
    BY <1>i, <1>1, <1>2, <1>3, <2>1 DEF SourceOwns, Replacing
  <2>3. SuccessorOwns'
    BY <1>1, <1>2, <2>1 DEF SuccessorOwns, Replacing
  <2> QED BY <1>e, <1>2, <1>5, <1>6, <2>1, <2>2, <2>3 DEF Owned
<1>11. CASE RestoreSucceeds \/ (CheckpointCancelled /\ closeReplaced)
  <2>1. /\ client'[Source] = client[Source] /\ process' = process
        /\ \/ state'[Source] = "OPEN"
           \/ state'[Source] = state[Source] /\ closeReplaced
        /\ replacement # "giving_up"
        /\ state'[Successor] = "RETIRED" /\ ~client'[Successor] /\ replacement' = "failed"
    BY <1>0, <1>11 DEF SessionsOK, RestoreSucceeds, CheckpointCancelled, ReplacementEnds, Detached
  <2>2. \/ state'[Source] = "OPEN"
        \/ state'[Source] = "CLOSING" /\ closing[Source] = "after_replacement"
    BY <1>2, <1>3, <2>1
  <2>3. SourceOwns'
    BY <1>i, <1>1, <1>2, <2>1, <2>2 DEF SourceOwns, Replacing
  <2>4. SuccessorOwns'
    BY <1>1, <1>2, <2>1 DEF SuccessorOwns, Replacing
  <2> QED BY <1>e, <1>2, <1>5, <1>6, <2>1, <2>2, <2>3, <2>4 DEF Owned
<1>12. CASE GiveUpEnds
  <2>1. /\ state'[Source] = "CLOSED" /\ state'[Successor] = "RETIRED" /\ process' = "down"
        /\ ~client'[Source] /\ ~client'[Successor] /\ replacement' = "failed"
    BY <1>0, <1>12 DEF SessionsOK, GiveUpEnds, ReplacementEnds, Detached
  <2>2. OpeningOwns'
    BY <1>1, <1>2, <2>1 DEF OpeningOwns, Opening
  <2>3. SourceOwns'
    BY <1>i, <1>1, <1>2, <2>1 DEF SourceOwns, Replacing
  <2>4. SuccessorOwns'
    BY <1>1, <1>2, <2>1 DEF SuccessorOwns, Replacing
  <2> QED BY <1>e, <1>5, <2>2, <2>3, <2>4 DEF Owned
<1>13. CASE Retire
  <2>1. /\ state'[Source] = "RETIRED" /\ state'[Successor] = "OPEN" /\ process' = process
        /\ ~client'[Source] /\ client'[Successor] /\ replacement' = "replaced"
    BY <1>0, <1>4, <1>13 DEF SessionsOK, Retire, ReplacementEnds
  <2>2. OpeningOwns'
    BY <1>1, <1>2, <2>1 DEF OpeningOwns, Opening
  <2>3. SourceOwns'
    BY <1>i, <1>1, <1>2, <2>1 DEF SourceOwns, Replacing
  <2>4. SuccessorOwns'
    <3>1. /\ closing'[Successor] = "none" /\ closing'[Source] \in {"none", "after_replacement"}
          /\ closeReplaced' => closing'[Source] # "none"
          /\ opening' = "opened" /\ ~returned' /\ replacement' = "replaced"
      BY <1>1, <1>2, <2>1
    <3> QED BY <1>i, <2>1, <3>1 DEF SuccessorOwns, Replacing
  <2> QED BY <1>e, <1>5, <2>2, <2>3, <2>4 DEF Owned
<1>15. OperationSucceeds \/ LoadFails => replacement' \in {"loading", "rollback"}
  BY DEF OperationSucceeds, LoadFails
<1>16. LoadSucceeds \/ CheckpointCancelled \/ RestoreSucceeds => Owned'
  BY <1>8, <1>11
<1>17. OperationSucceeds \/ LoadFails \/ GiveUp \/ OperationFails \/ RollbackSucceeds => Owned'
  BY <1>7, <1>9, <1>10, <1>15
<1> QED BY <1>12, <1>13, <1>14, <1>16, <1>17 DEF ReplacementTask

LEMMA OwnedOpen ==
  ASSUME TypeOK, ControlInv, Owned, NEW c \in Callers,
         \/ OpenReturnsAtOnce(c) \/ OpenWaits(c) \/ OpenBehindCleanup(c) \/ OpenReturns(c)
         \/ CancelOpen(c) \/ LeaveCleanup(c)
  PROVE  Owned'
<1> USE SessionsTwo, ClosersThree DEF sessionVars, openVars, replaceVars, callerVars, connection
<1>0. /\ SessionsOK /\ ClosersOK /\ AgainOK
      /\ OpeningOwns /\ SourceOwns /\ SuccessorOwns /\ EndingOwns /\ ClosedStays
  BY DEF TypeOK, ControlInv, Owned
<1>1. /\ UNCHANGED <<client, closing, closeRequested, replacement, closeReplaced, process>>
      /\ UNCHANGED <<returned, closed>>
  BY DEF OpenReturnsAtOnce, OpenWaits, OpenBehindCleanup, OpenReturns, CancelOpen, LeaveCleanup
<1>2. \/ UNCHANGED <<state, opening>>
      \/ /\ state[Source] = "LAZY" /\ state'[Source] = "OPENING" /\ opening' = "starting"
         /\ state'[Successor] = state[Successor]
  BY <1>0 DEF SessionsOK, OpenReturnsAtOnce, OpenWaits, OpenBehindCleanup, OpenReturns, CancelOpen,
         LeaveCleanup
<1>3. CASE UNCHANGED <<state, opening>>
  BY <1>1, <1>3, OwnedKept
<1>4. CASE /\ state[Source] = "LAZY" /\ state'[Source] = "OPENING" /\ opening' = "starting"
           /\ state'[Successor] = state[Successor]
  <2>1. /\ opening \in {"none", "failed"} /\ process = "down" /\ ~client[Source]
        /\ closing[Source] = "none" /\ closing[Again] = "none"
    BY <1>0, <1>4 DEF OpeningOwns, ClosersOK, AgainOK
  <2>2. replacement \notin Replacing /\ replacement # "replaced"
    BY <1>0, <2>1 DEF SuccessorOwns
  <2>3. "none" \notin Impl
    BY DEF Impl
  <2>4. OpeningOwns'
    BY <1>1, <1>4, <2>1 DEF OpeningOwns, Opening
  <2>5. SourceOwns'
    BY <1>1, <1>4, <2>1, <2>2, <2>3 DEF SourceOwns
  <2>6. SuccessorOwns' /\ ClosedStays' /\ EndingOwns'
    BY <1>0, <1>1, <1>4, <2>1, <2>2 DEF SuccessorOwns, ClosedStays, EndingOwns
  <2> QED BY <2>4, <2>5, <2>6 DEF Owned
<1> QED BY <1>2, <1>3, <1>4

LEMMA OwnedCloseAtOnce ==
  ASSUME TypeOK, ControlInv, Owned, NEW c \in Callers, NEW s \in Sessions, Reachable(s), CloseAtOnce(c, s)
  PROVE  Owned'
<1> USE SessionsTwo, ClosersThree DEF sessionVars, openVars, replaceVars, callerVars, connection
<1>0. /\ SessionsOK /\ ClosersOK /\ AgainOK
      /\ OpeningOwns /\ SourceOwns /\ SuccessorOwns /\ EndingOwns /\ ClosedStays
  BY DEF TypeOK, ControlInv, Owned
<1>1. UNCHANGED <<client, closing, opening, replacement, closeReplaced, process, returned>>
  BY DEF CloseAtOnce
<1>2. s = Source
  <2>1. SUFFICES ASSUME s = Successor PROVE FALSE
    OBVIOUS
  <2>2. returned /\ closing[Successor] = "none" /\ state[Successor] # "OPEN"
    BY <2>1 DEF Reachable, CloseAtOnce
  <2> QED BY <1>0, <2>2 DEF SuccessorOwns
<1>3. /\ state[Source] \in {"LAZY", "CLOSED", "CLOSING"} /\ closing[Source] = "none"
      /\ replacement \notin Replacing /\ closeRequested'[Source]
      /\ state'[Source] = (IF state[Source] = "LAZY" THEN "CLOSED" ELSE state[Source])
      /\ state'[Successor] = state[Successor] /\ closed' = closed \cup {Source}
  BY <1>0, <1>2 DEF SessionsOK, CloseAtOnce, BeingReplaced
<1>i. "none" \notin Impl
  BY DEF Impl
<1>4. state[Source] # "CLOSING" /\ closing[Again] = "none"
  BY <1>0, <1>3, <1>i DEF SourceOwns, AgainOK, Replacing
<1>5. state'[Source] = "CLOSED" /\ process # "up" /\ ~client[Source]
  BY <1>0, <1>3, <1>4 DEF SourceOwns, OpeningOwns
<1>6. opening \notin Opening
  BY <1>0, <1>3, <1>4 DEF OpeningOwns
<1>7. OpeningOwns'
  BY <1>0, <1>1, <1>3, <1>5, <1>6 DEF OpeningOwns
<1>8. SourceOwns'
  BY <1>1, <1>3, <1>4, <1>5, <1>i DEF SourceOwns
<1>9. replacement # "replaced"
  BY <1>0, <1>3 DEF SuccessorOwns
<1>10. SuccessorOwns'
  BY <1>0, <1>1, <1>3, <1>9 DEF SuccessorOwns
<1>11. ClosedStays' /\ EndingOwns'
  BY <1>0, <1>1, <1>3, <1>5 DEF ClosedStays, EndingOwns
<1> QED BY <1>7, <1>8, <1>10, <1>11 DEF Owned

LEMMA OwnedCloseWaits ==
  ASSUME TypeOK, ControlInv, Owned, NEW c \in Callers, NEW s \in Sessions, Reachable(s), CloseWaits(c, s)
  PROVE  Owned'
<1> USE SessionsTwo, ClosersThree
<1>0. /\ SessionsOK /\ FlagsOK /\ ReplacementOK /\ ClosersOK /\ AgainOK
      /\ OpeningOwns /\ SourceOwns /\ SuccessorOwns /\ EndingOwns /\ ClosedStays
  BY DEF TypeOK, ControlInv, Owned
<1>1. /\ UNCHANGED <<client, opening, replacement, process, returned, closed>>
      /\ closeRequested'[s] /\ \A r \in Sessions : r # s => closeRequested'[r] = closeRequested[r]
      /\ closeReplaced' <=> closeReplaced \/ BeingReplaced(s)
      /\ \A r \in Sessions : r # s => state'[r] = state[r]
  BY <1>0, CloseWaitsFacts
<1>i. "asking" \in Impl /\ "none" \notin Impl
  BY DEF Impl
<1>2. CASE s = Successor
  <2>1. returned /\ replacement = "replaced" /\ state[Source] = "RETIRED" /\ closing[Again] = "none"
    BY <1>0, <1>2 DEF Reachable, SuccessorOwns, AgainOK
  <2>2. ~BeingReplaced(s)
    BY <1>2 DEF BeingReplaced
  <2>3. /\ closing[Successor] \in Impl \cup {"none", "done"}
        /\ closing[Successor] = "none" => state[Successor] = "OPEN" /\ client[Successor]
        /\ closing[Successor] # "none" => state[Successor] # "OPEN"
    BY <1>0, <2>1 DEF SuccessorOwns
  <2>4. /\ state[Successor] # "OPENING"
        /\ state[Successor] = "OPEN" => NewCloser(Successor) = Successor /\ CloseImpl(Successor) = "asking"
    BY <1>0, <2>1, <2>3, <1>i DEF SuccessorOwns, NewCloser, CloseImpl, Closing
  <2>5. /\ \A t \in Closers : t # Successor => closing'[t] = closing[t]
        /\ closing[Successor] \notin {"none", "done"} => closing'[Successor] = closing[Successor]
        /\ \/ state'[Successor] = state[Successor] /\ closing'[Successor] = closing[Successor]
           \/ /\ closing[Successor] = "none"
              /\ state'[Successor] = "CLOSING" /\ closing'[Successor] = "asking"
    BY <1>0, <1>2, <2>2, <2>3, <2>4, CloseWaitsFacts
  <2>6. OpeningOwns' /\ SourceOwns'
    BY <1>0, <1>1, <1>2, <2>5 DEF OpeningOwns, SourceOwns
  <2>7. closeReplaced' <=> closeReplaced
    BY <1>1, <2>2
  <2>8. SuccessorOwns'
    <3>1. CASE state'[Successor] = state[Successor] /\ closing'[Successor] = closing[Successor]
      BY <1>0, <1>1, <1>2, <2>1, <2>5, <2>7, <3>1 DEF SuccessorOwns, Replacing
    <3>2. CASE /\ closing[Successor] = "none"
               /\ state'[Successor] = "CLOSING" /\ closing'[Successor] = "asking"
      BY <1>0, <1>1, <1>2, <2>1, <2>5, <2>7, <3>2, <1>i DEF SuccessorOwns, Replacing
    <3> QED BY <2>5, <3>1, <3>2
  <2>9. ClosedStays'
    BY <1>0, <1>1, <1>2, <2>5 DEF ClosedStays
  <2>10. EndingOwns'
    BY <1>0, <1>1, <2>5, EndingKept
  <2> QED BY <2>6, <2>8, <2>9, <2>10 DEF Owned
<1>3. CASE s = Source /\ replacement \in Replacing
  <2>1. /\ client[Source] /\ ~returned /\ opening = "opened" /\ process = "up"
        /\ closing[Source] \in {"none", "after_replacement"} /\ closing[Successor] = "none"
        /\ closing[Again] = "none"
        /\ state[Source] \in {"REPLACING", "CLOSING"} /\ closed \cap Sessions = {}
    BY <1>0, <1>3, WhileReplacing
  <2>2. BeingReplaced(Source)
    BY <1>3 DEF BeingReplaced
  <2>3. state[Source] = "REPLACING" => closing[Source] = "none"
    BY <1>0 DEF ClosersOK
  <2>4. /\ closing'[Source] = "after_replacement" /\ state'[Source] = "CLOSING"
        /\ \A t \in Closers : t # Source => closing'[t] = closing[t]
    BY <1>0, <1>3, <2>1, <2>2, <2>3, CloseWaitsFacts
  <2>5. OpeningOwns'
    BY <1>1, <2>1, <2>4 DEF OpeningOwns, Opening
  <2>6. SourceOwns'
    <3>1. "after_replacement" \notin Impl
      BY DEF Impl
    <3> QED BY <1>1, <1>i, <2>1, <2>4, <3>1 DEF SourceOwns
  <2>7. SuccessorOwns'
    BY <1>0, <1>1, <1>3, <2>1, <2>4 DEF SuccessorOwns, Replacing
  <2>8. ClosedStays'
    BY <1>1, <2>1 DEF ClosedStays
  <2>9. EndingOwns'
    BY <1>0, <1>1, <2>1, <2>4, EndingKept
  <2> QED BY <2>5, <2>6, <2>7, <2>8, <2>9 DEF Owned
<1>4. CASE s = Source /\ replacement \notin Replacing
  <2>1. ~BeingReplaced(s) /\ (closeReplaced' <=> closeReplaced)
    BY <1>1, <1>4 DEF BeingReplaced
  <2>0. \/ UNCHANGED <<state, closing>>
        \/ /\ state[Source] = "OPENING"
           /\ state'[Source] = "CLOSING" /\ closing'[Source] = "after_open"
           /\ \A t \in Closers : t # Source => closing'[t] = closing[t]
        \/ /\ state[Source] = "OPEN"
           /\ state'[Source] = "CLOSING" /\ closing'[NewCloser(Source)] = CloseImpl(Source)
           /\ \A t \in Closers : t # NewCloser(Source) => closing'[t] = closing[t]
    BY <1>0, <1>4, <2>1, CloseWaitsFacts
  <2>2. CASE UNCHANGED <<state, closing>>
    <3>1. OpeningOwns' /\ SourceOwns' /\ ClosedStays' /\ EndingOwns'
      BY <1>0, <1>1, <1>4, <2>2 DEF OpeningOwns, SourceOwns, ClosedStays, EndingOwns
    <3>2. SuccessorOwns'
      BY <1>0, <1>1, <2>1, <2>2 DEF SuccessorOwns
    <3> QED BY <3>1, <3>2 DEF Owned
  <2>3. CASE state[Source] = "OPENING" /\ ~UNCHANGED <<state, closing>>
    <3>1. closing[Source] = "none" /\ closing[Again] = "none"
      BY <1>0, <2>3 DEF ClosersOK, AgainOK
    <3>2. /\ state'[Source] = "CLOSING" /\ closing'[Source] = "after_open"
          /\ \A t \in Closers : t # Source => closing'[t] = closing[t]
      BY <2>0, <2>3
    <3>3. replacement # "replaced" /\ Source \notin closed /\ opening # "opened" /\ opening # "none"
      BY <1>0, <2>3 DEF SuccessorOwns, ClosedStays, OpeningOwns, Opening
    <3>4. OpeningOwns'
      BY <1>0, <1>1, <3>1, <3>2, <3>3 DEF OpeningOwns, Opening
    <3>5. SourceOwns'
      <4>1. "after_open" \notin Impl
        BY DEF Impl
      <4> QED BY <1>1, <1>4, <1>i, <3>1, <3>2, <4>1 DEF SourceOwns
    <3>6. SuccessorOwns' /\ ClosedStays'
      BY <1>0, <1>1, <1>4, <2>1, <3>1, <3>2, <3>3 DEF SuccessorOwns, ClosedStays
    <3>7. EndingOwns'
      BY <1>0, <1>1, <3>1, <3>2, EndingKept
    <3> QED BY <3>4, <3>5, <3>6, <3>7 DEF Owned
  <2>4. CASE state[Source] = "OPEN" /\ ~UNCHANGED <<state, closing>>
    <3>1. client[Source] /\ closing[Again] = "none" /\ CloseImpl(Source) = "asking"
      BY <1>0, <2>4 DEF SourceOwns, AgainOK, CloseImpl
    <3>2. closing[Source] \in Closing \cup {"none", "done"} /\ closing[Source] # "done"
      BY <1>0, <2>4 DEF ClosersOK, SessionsOK
    <3>3. NewCloser(Source) = IF closing[Source] = "none" THEN Source ELSE Again
      BY <3>2 DEF NewCloser, Closing
    <3>4. /\ state'[Source] = "CLOSING"
          /\ closing'[NewCloser(Source)] = "asking"
          /\ \A t \in Closers : t # NewCloser(Source) => closing'[t] = closing[t]
      BY <2>0, <2>4, <3>1
    <3>5. /\ closing[Source] = "none" => closing'[Source] = "asking" /\ closing'[Again] = "none"
          /\ closing[Source] # "none" => closing'[Source] = closing[Source] /\ closing'[Again] = "asking"
          /\ closing'[Successor] = closing[Successor]
      BY <3>1, <3>3, <3>4
    <3>6. /\ closing[Source] # "after_open" /\ replacement # "replaced" /\ Source \notin closed
          /\ closing[Source] # "none" => closing[Source] \in Impl \cup {"after_replacement"}
      BY <1>0, <2>4, <3>2 DEF ClosersOK, SuccessorOwns, ClosedStays, Closing, Impl
    <3>7. OpeningOwns'
      <4>1. opening \notin Opening
        BY <1>0, <2>4, <3>6 DEF OpeningOwns
      <4> QED BY <1>0, <1>1, <3>4, <3>5, <3>6, <4>1 DEF OpeningOwns
    <3>8. SourceOwns'
      BY <1>0, <1>1, <1>4, <1>i, <2>4, <3>1, <3>4, <3>5, <3>6 DEF SourceOwns
    <3>9. SuccessorOwns' /\ ClosedStays'
      BY <1>0, <1>1, <1>4, <2>1, <3>5, <3>6 DEF SuccessorOwns, ClosedStays
    <3>10. EndingOwns'
      BY <1>0, <1>1, <3>1, <3>5, EndingKept
    <3> QED BY <3>7, <3>8, <3>9, <3>10 DEF Owned
  <2> QED BY <2>0, <2>2, <2>3, <2>4
<1> QED BY <1>2, <1>3, <1>4

LEMMA OwnedClose ==
  ASSUME TypeOK, CloseAsked, ControlInv, Owned, NEW c \in Callers,
         Close(c) \/ CloseReturns(c) \/ CancelClose(c)
  PROVE  Owned'
<1> USE SessionsTwo, ClosersThree DEF sessionVars, openVars, replaceVars, callerVars, connection
<1>1. ASSUME NEW s \in Sessions, CloseIsNoOp(c, s) PROVE Owned'
  BY <1>1, OwnedKept DEF CloseIsNoOp
<1>2. CASE CancelClose(c)
  BY <1>2, OwnedKept DEF CancelClose
<1>3. CASE CloseReturns(c)
  <2>0. /\ ClosersOK /\ AgainOK
        /\ OpeningOwns /\ SourceOwns /\ SuccessorOwns /\ EndingOwns /\ ClosedStays
    BY DEF Owned, ControlInv
  <2>1. /\ awaits[c] \in Closers /\ closeRequested[Of(awaits[c])] /\ closing[awaits[c]] = "done"
        /\ closed' = closed \cup {Of(awaits[c])}
        /\ UNCHANGED <<state, client, closeRequested, closing, opening, replacement, closeReplaced,
                       process, returned>>
    BY <1>3 DEF CloseReturns, CloseAsked
  <2>2. OpeningOwns' /\ SourceOwns' /\ SuccessorOwns' /\ EndingOwns'
    BY <2>0, <2>1 DEF OpeningOwns, SourceOwns, SuccessorOwns, EndingOwns
  <2>3. /\ closing[Source] = "done" => state[Source] \in {"CLOSED", "RETIRED"}
        /\ closing[Again] = "done" => state[Source] = "CLOSED"
        /\ closing[Successor] = "done" => replacement = "replaced"
    BY <2>0 DEF ClosersOK, AgainOK, SuccessorOwns
  <2>4. awaits[c] = Source \/ awaits[c] = Successor \/ awaits[c] = Again
    BY <2>1
  <2>5. ClosedStays'
    BY <2>0, <2>1, <2>3, <2>4 DEF ClosedStays
  <2> QED BY <2>2, <2>5 DEF Owned
<1> QED BY <1>1, <1>2, <1>3, OwnedCloseAtOnce, OwnedCloseWaits DEF Close

LEMMA OwnedReplaceStarts ==
  ASSUME TypeOK, ControlInv, Owned, NEW c \in Callers, ReplaceStarts(c)
  PROVE  Owned'
<1> USE SessionsTwo, ClosersThree DEF openVars, connection
<1>0. /\ SessionsOK /\ TasksOK /\ ReplacementOK /\ ClosersOK /\ AgainOK
      /\ OpeningOwns /\ SourceOwns /\ SuccessorOwns /\ EndingOwns /\ ClosedStays
  BY DEF TypeOK, ControlInv, Owned
<1>1. /\ UNCHANGED <<client, closing, opening, process, returned, closed, closeRequested>>
      /\ state[Source] = "OPEN" /\ state'[Source] = "REPLACING" /\ state'[Successor] = state[Successor]
      /\ ~closeRequested[Source] /\ ~closeReplaced' /\ replacement' = "operation"
  BY <1>0 DEF SessionsOK, ReplaceStarts
<1>2. /\ closing[Source] = "none" /\ closing[Again] = "none"
      /\ replacement \notin Replacing /\ Source \notin closed
  BY <1>0, <1>1 DEF ClosersOK, AgainOK, ReplacementOK, ClosedStays
<1>3. client[Source] /\ process = "up" /\ replacement # "replaced"
  BY <1>0, <1>1, <1>2 DEF SourceOwns, SuccessorOwns
<1>4. opening = "opened"
  BY <1>0, <1>3 DEF OpeningOwns, TasksOK
<1>5. replacement \in {"none", "failed"}
  BY <1>0, <1>2, <1>3 DEF TasksOK
<1>6. /\ state[Successor] = "RETIRED" /\ ~client[Successor] /\ closing[Successor] = "none"
      /\ ~returned /\ Successor \notin closed
  BY <1>0, <1>3, <1>5 DEF SuccessorOwns, ClosedStays
<1>7. OpeningOwns'
  BY <1>1, <1>2, <1>3, <1>4 DEF OpeningOwns, Opening
<1>8. SourceOwns'
  <2>1. "none" \notin Impl
    BY DEF Impl
  <2> QED BY <1>1, <1>2, <1>3, <2>1 DEF SourceOwns
<1>9. SuccessorOwns'
  BY <1>1, <1>4, <1>6 DEF SuccessorOwns, Replacing
<1>10. ClosedStays'
  BY <1>1, <1>2, <1>6 DEF ClosedStays
<1>11. EndingOwns'
  BY <1>0, <1>1, EndingKept
<1> QED BY <1>7, <1>8, <1>9, <1>10, <1>11 DEF Owned

LEMMA OwnedReplaceReturns ==
  ASSUME TypeOK, ControlInv, Owned, Safe', NEW c \in Callers,
         ReplaceReturns(c) \/ CancelReplace(c) \/ CancelReplaced(c)
  PROVE  Owned'
<1> USE SessionsTwo, ClosersThree DEF sessionVars, openVars, replaceVars, callerVars, connection
<1>0. /\ SessionsOK /\ ClosersOK /\ AgainOK /\ ReplacersOK
      /\ OpeningOwns /\ SourceOwns /\ SuccessorOwns /\ EndingOwns /\ ClosedStays
  BY DEF TypeOK, ControlInv, Owned
<1>1. CASE ReplaceReturns(c)
  <2>1. /\ UNCHANGED <<state, client, closeRequested, closing, opening, replacement, closeReplaced,
                       process, closed>>
        /\ closing[Source] # "after_replacement"
    BY <1>1 DEF ReplaceReturns, Resumes
  <2>2. CASE pc[c] # "replaced"
    <3>1. returned' = returned
      <4>1. returned' = (returned \/ pc[c] = "replaced") /\ returned \in BOOLEAN
        BY <1>1 DEF ReplaceReturns, TypeOK, FlagsOK
      <4> QED BY <2>2, <4>1
    <3> QED BY <2>1, <3>1, OwnedKept
  <2>3. CASE pc[c] = "replaced"
    <3>1. replacement = "replaced"
      BY <1>0, <2>3 DEF ReplacersOK, ClosersOK
    <3>2. OpeningOwns' /\ SourceOwns' /\ ClosedStays' /\ EndingOwns'
      BY <1>0, <2>1 DEF OpeningOwns, SourceOwns, ClosedStays, EndingOwns
    <3>3. SuccessorOwns'
      BY <1>0, <2>1, <3>1 DEF SuccessorOwns
    <3> QED BY <3>2, <3>3 DEF Owned
  <2> QED BY <2>2, <2>3
<1>2. CASE CancelReplace(c)
  BY <1>2, OwnedKept DEF CancelReplace
<1>3. CASE CancelReplaced(c)
  <2>0. closeReplaced
    BY <1>3 DEF CancelReplaced, Safe
  <2>1. /\ UNCHANGED <<closeRequested, closing, opening, replacement, closeReplaced, process>>
        /\ UNCHANGED <<returned, closed>>
        /\ pc[c] = "replaced" /\ closing[Source] # "after_replacement"
        /\ state'[Source] = state[Source] /\ state'[Successor] = "RETIRED"
        /\ client'[Source] = client[Source] /\ ~client'[Successor]
    BY <1>0, <1>3, <2>0 DEF SessionsOK, CancelReplaced, Resumes, Detached
  <2>2. replacement = "replaced" /\ state[Source] = "RETIRED"
    BY <1>0, <2>1 DEF ReplacersOK, ClosersOK
  <2>3. closing[Source] # "none" /\ closing[Successor] # "none"
    BY <1>0, <2>0, <2>1, <2>2 DEF SuccessorOwns
  <2>4. OpeningOwns'
    BY <1>0, <2>1 DEF OpeningOwns
  <2>5. SourceOwns'
    BY <1>0, <2>1 DEF SourceOwns
  <2>6. SuccessorOwns'
    BY <1>0, <2>0, <2>1, <2>2, <2>3 DEF SuccessorOwns, Replacing
  <2>7. ClosedStays' /\ EndingOwns'
    BY <1>0, <2>1 DEF ClosedStays, EndingOwns
  <2> QED BY <2>4, <2>5, <2>6, <2>7 DEF Owned
<1> QED BY <1>1, <1>2, <1>3

\* A lapse is remembered, and only a lapse has a caller undo a replacement itself.
LEMMA UndoingIsLapse ==
  ASSUME TypeOK, [Next]_vars
  PROVE  /\ lapses \subseteq lapses'
         /\ Safe' /\ NotUndoing => NotUndoing'
<1> USE DEF vars, sessionVars, openVars, replaceVars, callerVars, connection, Unchanged
<1>p. /\ \A p \in {"idle", "opening", "opened", "open_failed", "retrying", "abandoning_open", "closing",
                   "replacing", "replaced", "replace_failed", "abandoning", "restoring"} : p \in Points
      /\ CallersOK
  BY DEF Points, TypeOK
<1>a. SUFFICES /\ lapses \subseteq lapses'
               /\ Safe' => \A c \in Callers : pc'[c] = "restoring" => pc[c] = "restoring"
  BY DEF NotUndoing
<1>1. CASE OpenTask \/ CleanupTask
  <2>1. /\ pc' = pc \/ pc' = Resolved("opening", "opened") \/ pc' = Resolved("opening", "open_failed")
        /\ lapses' = lapses
    BY <1>1 DEF OpenTask, OpenServes, OpenConnects, OpenSucceeds, OpenFails, OpenDisconnects,
                OpenUnwinds, CleanupTask, CleanupCancels, CleanupDrains, StartsClose, CleanupEnds
  <2> QED BY <1>p, <2>1, ResolvedFacts
<1>2. ASSUME NEW t \in Closers, CloseTask(t)
      PROVE  lapses' = lapses /\ pc' = pc
  BY <1>2 DEF CloseTask, ClientCloses, ClientClosed, CloseImplEnds, CloseAfterOpen,
              CloseAfterFailure, CloseAfterReplacement, CloseSuccessorEnds
<1>3. CASE ReplacementTask
  <2>1. /\ pc' = pc \/ ReplacementEnds("failed") \/ ReplacementEnds("replaced")
        /\ lapses \subseteq lapses'
    BY <1>3 DEF ReplacementTask, OperationSucceeds, OperationFails, LoadSucceeds, LoadFails,
                RollbackSucceeds, GiveUp, GiveUpEnds, GiveUpCut, Retire, CheckpointCancelled,
                RestoreSucceeds
  <2> QED BY <1>p, <2>1, EndsFacts
<1>4. ASSUME NEW c \in Callers,
             \/ OpenReturnsAtOnce(c) \/ OpenWaits(c) \/ OpenBehindCleanup(c) \/ OpenReturns(c)
             \/ CancelOpen(c) \/ LeaveCleanup(c)
             \/ Close(c) \/ CloseReturns(c) \/ CancelClose(c)
             \/ ReplaceStarts(c) \/ ReplaceReturns(c) \/ CancelReplace(c) \/ CancelReplaced(c)
             \/ UndoEnds(c)
      PROVE  /\ lapses \subseteq lapses'
             /\ Safe' => \A d \in Callers : pc'[d] = "restoring" => pc[d] = "restoring"
  <2>1. CASE ~CancelReplaced(c)
    <3>1. /\ lapses' = lapses
          /\ \/ pc' = pc
             \/ \E p \in {"idle", "opening", "opened", "open_failed", "retrying", "abandoning_open",
                          "closing", "replacing", "abandoning"} : Goes(c, p)
      BY <1>4, <2>1 DEF OpenReturnsAtOnce, OpenWaits, OpenBehindCleanup, OpenReturns, CancelOpen,
                  LeaveCleanup, Close, CloseIsNoOp, CloseAtOnce, CloseWaits, CloseReturns, CancelClose,
                  ReplaceStarts, ReplaceReturns, CancelReplace, UndoEnds
    <3> QED BY <1>p, <3>1, GoesFacts
  <2>2. CASE CancelReplaced(c)
    <3>1. lapses \subseteq lapses' /\ (Safe' => Goes(c, "idle"))
      BY <2>2 DEF CancelReplaced, Safe
    <3> QED BY <1>p, <3>1, GoesFacts
  <2> QED BY <2>1, <2>2
<1>5. CASE UNCHANGED vars
  BY <1>5
<1> QED BY <1>1, <1>2, <1>3, <1>4, <1>5 DEF Next, Tasks

LEMMA OwnedStep ==
  TypeOK /\ CloseAsked /\ ControlInv /\ OwnedInv /\ [Next]_vars => OwnedInv'
<1> SUFFICES ASSUME TypeOK, CloseAsked, ControlInv, OwnedInv, [Next]_vars, Safe'
             PROVE  Owned' /\ NotUndoing'
  BY DEF OwnedInv
<1>0. Safe
  BY UndoingIsLapse DEF Safe
<1>a. Owned /\ NotUndoing
  BY <1>0 DEF OwnedInv
<1>b. NotUndoing'
  BY <1>a, UndoingIsLapse
<1> SUFFICES Owned'
  BY <1>b
<1>1. CASE OpenTask \/ CleanupTask
  BY <1>a, <1>1, OwnedOpenTask, OwnedCleanupTask
<1>2. ASSUME NEW t \in Closers, CloseTask(t) PROVE Owned'
  BY <1>a, <1>2, OwnedCloseTask
<1>3. CASE ReplacementTask
  BY <1>a, <1>3, OwnedReplacementTask
<1>4. ASSUME NEW c \in Callers,
             \/ OpenReturnsAtOnce(c) \/ OpenWaits(c) \/ OpenBehindCleanup(c) \/ OpenReturns(c)
             \/ CancelOpen(c) \/ LeaveCleanup(c)
      PROVE  Owned'
  BY <1>a, <1>4, OwnedOpen
<1>5. ASSUME NEW c \in Callers, Close(c) \/ CloseReturns(c) \/ CancelClose(c)
      PROVE  Owned'
  BY <1>a, <1>5, OwnedClose
<1>6. ASSUME NEW c \in Callers,
             \/ ReplaceStarts(c) \/ ReplaceReturns(c) \/ CancelReplace(c) \/ CancelReplaced(c)
             \/ UndoEnds(c)
      PROVE  Owned'
  <2>1. ~UndoEnds(c)
    BY <1>a DEF NotUndoing, UndoEnds
  <2> QED BY <1>a, <1>6, <2>1, OwnedReplaceStarts, OwnedReplaceReturns
<1>7. CASE UNCHANGED vars
  BY <1>a, <1>7, OwnedKept DEF vars, sessionVars, openVars, replaceVars, callerVars, connection
<1> QED BY <1>1, <1>2, <1>3, <1>4, <1>5, <1>6, <1>7 DEF Next, Tasks

-----------------------------------------------------------------------------
(* The invariant of the tool servers *)

LEMMA ServedKept ==
  ASSUME Served, UNCHANGED <<opening, servers>>,
         state'[Source] = "CLOSED" => state[Source] = "CLOSED",
         closing'[Successor] = closing[Successor],
         closing[Successor] \in {"asking", "ending"} => client'[Successor] = client[Successor]
  PROVE  Served'
BY DEF Served

LEMMA ServedTasks ==
  ASSUME TypeOK, ControlInv, Owned, Served, OpenTask \/ CleanupTask
  PROVE  Served'
<1> USE SessionsTwo, ClosersThree
<1>0. SessionsOK /\ ClosersOK /\ AgainOK
  BY DEF TypeOK, ControlInv
<1>1. CASE OpenTask
  <2>1. opening \in Opening
    BY <1>0, <1>1, OpenTaskFacts DEF Opening
  <2>2. closing[Successor] = "none" /\ state[Source] \in {"OPENING", "CLOSING"}
    BY <1>0, <2>1, WhileOpening
  <2>3. /\ closing'[Successor] = "none" /\ state'[Source] # "CLOSED"
        /\ opening' \in {"none", "failed", "starting"} => servers' = "down"
    BY <1>0, <1>1, <2>2, OpenTaskFacts
  <2> QED BY <2>3 DEF Served
<1>2. CASE CleanupTask
  <2>1. /\ client' = client /\ closing'[Successor] = closing[Successor]
        /\ servers' = servers \/ servers' = "down"
        /\ state'[Source] = "CLOSED" => state[Source] = "CLOSED"
        /\ \/ opening' = opening \/ opening' \in {"unwinding", "unserving"} \/ servers' = "down"
           \/ state[Source] = "CLOSED" /\ servers' = servers
    BY <1>0, <1>2, CleanupFacts
  <2> QED BY <2>1 DEF Served
<1> QED BY <1>1, <1>2

LEMMA ServedCloseTask ==
  ASSUME TypeOK, ControlInv, Owned, Served, NEW t \in Closers, CloseTask(t)
  PROVE  Served'
<1> USE SessionsTwo, ClosersThree
<1>0. SessionsOK /\ ClosersOK /\ SourceOwns /\ SuccessorOwns
  BY DEF TypeOK, ControlInv, Owned
<1>1. opening' = opening
  BY <1>0, CloseTaskKeeps
<1>2. CASE (ClientCloses(t) \/ ClientClosed(t) \/ CloseImplEnds(t)) /\ t # Successor
  <2>1. /\ closing'[Successor] = closing[Successor] /\ client'[Successor] = client[Successor]
        /\ \/ UNCHANGED <<state, servers>>
           \/ closing[t] = "tools" /\ servers' = "down"
           \/ closing[t] = "bare" /\ servers' = servers
    BY <1>0, <1>2, ImplFacts
  <2>2. closing[t] = "bare" => state[Source] = "CLOSED"
    BY <1>0, <1>2 DEF SourceOwns, Impl
  <2> QED BY <1>1, <2>1, <2>2 DEF Served
<1>3. CASE (ClientCloses(t) \/ ClientClosed(t) \/ CloseImplEnds(t)) /\ t = Successor
  <2>1. /\ state'[Source] = state[Source]
        /\ \/ /\ closing[Successor] \in {"asking", "ending"} /\ UNCHANGED <<client, servers>>
              /\ closing'[Successor] = "ending" \/ closing'[Successor] = Gathers(Successor)
           \/ closing[Successor] = "tools" /\ closing'[Successor] = "done" /\ servers' = "down"
    BY <1>0, <1>3, ImplFacts DEF Served
  <2>2. closing[Successor] \in {"asking", "ending"} => Gathers(Successor) = "tools"
    BY DEF Served, Gathers
  <2> QED BY <1>1, <2>1, <2>2 DEF Served
<1>4. CASE CloseAfterOpen \/ CloseAfterFailure \/ CloseAfterReplacement \/ CloseSuccessorEnds
  <2>1. closing[Source] = "after_replacement" /\ replacement = "failed" /\ ~client[Source] =>
          state[Source] = "CLOSED"
    BY <1>0 DEF SourceOwns, ClosersOK
  <2>2. closing[Source] = "after_replacement" /\ replacement = "replaced" =>
          client[Successor] /\ CloseImpl(Successor) = "asking"
    BY <1>0 DEF SuccessorOwns, CloseImpl
  <2>3. /\ UNCHANGED <<client, servers>>
        /\ \/ closing'[Successor] = closing[Successor]
           \/ closing'[Successor] = "asking" /\ client[Successor]
        /\ state'[Source] = "CLOSED" => state[Source] = "CLOSED" \/ opening = "failed"
    BY <1>0, <1>4, <2>1, <2>2, CloserSteps
  <2> QED BY <1>1, <2>3 DEF Served
<1> QED BY <1>2, <1>3, <1>4 DEF CloseTask

LEMMA ServedReplacementTask ==
  ASSUME TypeOK, ControlInv, Owned, Served, Safe', ReplacementTask
  PROVE  Served'
<1> USE SessionsTwo DEF sessionVars, openVars, replaceVars, callerVars, connection, Unchanged
<1>1. /\ UNCHANGED <<closing, opening>> /\ replacement \in Replacing
  BY DEF Replacing, ReplacementTask, OperationSucceeds, OperationFails, LoadSucceeds, LoadFails,
         RollbackSucceeds, GiveUp, GiveUpEnds, GiveUpCut, Retire, CheckpointCancelled, RestoreSucceeds
<1>2. /\ closing[Successor] = "none" /\ opening = "opened"
      /\ SessionsOK /\ state[Source] \in {"REPLACING", "CLOSING"}
  BY <1>1, WhileReplacing DEF ControlInv, TypeOK
<1>3. ~GiveUpCut
  BY DEF GiveUpCut, Safe
<1>4. state'[Source] = "CLOSED" => servers' = "down"
  BY <1>2, <1>3 DEF SessionsOK, ReplacementTask, OperationSucceeds, OperationFails, LoadSucceeds,
     LoadFails, RollbackSucceeds, GiveUp, GiveUpEnds, Retire, CheckpointCancelled, RestoreSucceeds,
     Detached
<1> QED BY <1>1, <1>2, <1>4 DEF Served

LEMMA ServedCallers ==
  ASSUME TypeOK, ControlInv, Owned, Served, NotUndoing, lapses' = {}, NEW c \in Callers,
         \/ OpenReturnsAtOnce(c) \/ OpenWaits(c) \/ OpenBehindCleanup(c) \/ OpenReturns(c)
         \/ CancelOpen(c) \/ LeaveCleanup(c)
         \/ Close(c) \/ CloseReturns(c) \/ CancelClose(c)
         \/ ReplaceStarts(c) \/ ReplaceReturns(c) \/ CancelReplace(c) \/ CancelReplaced(c)
         \/ UndoEnds(c)
  PROVE  Served'
<1> USE SessionsTwo, ClosersThree DEF sessionVars, openVars, replaceVars, callerVars, connection
<1>0. SessionsOK /\ FlagsOK /\ OpeningOwns /\ SuccessorOwns
  BY DEF TypeOK, Owned
<1>1. CASE OpenWaits(c)
  <2>1. /\ UNCHANGED <<client, closing, servers>>
        /\ \/ UNCHANGED <<state, opening>>
           \/ state[Source] = "LAZY" /\ state'[Source] = "OPENING"
    BY <1>0, <1>1 DEF OpenWaits, SessionsOK
  <2>2. state[Source] = "LAZY" => servers = "down"
    BY <1>0 DEF OpeningOwns, Served
  <2> QED BY <2>1, <2>2 DEF Served
<1>2. ASSUME NEW s \in Sessions, CloseAtOnce(c, s) PROVE Served'
  <2>1. /\ UNCHANGED <<client, closing, opening, servers>>
        /\ state'[Source] = "CLOSED" => state[Source] \in {"LAZY", "CLOSED"}
    BY <1>0, <1>2 DEF CloseAtOnce, SessionsOK
  <2>2. state[Source] = "LAZY" => servers = "down"
    BY <1>0 DEF OpeningOwns, Served
  <2> QED BY <2>1, <2>2 DEF Served
<1>3. ASSUME NEW s \in Sessions, Reachable(s), CloseWaits(c, s) PROVE Served'
  <2>1. UNCHANGED <<client, opening, servers>>
    BY <1>0, <1>3, CloseWaitsFacts
  <2>2. state'[Source] = "CLOSED" => state[Source] = "CLOSED"
    BY <1>0, <1>3, CloseWaitsFacts
  <2>3. CASE s = Source
    <3>1. NewCloser(Source) # Successor
      BY DEF NewCloser
    <3>2. closing'[Successor] = closing[Successor]
      BY <1>0, <1>3, <2>3, <3>1, CloseWaitsFacts
    <3> QED BY <2>1, <2>2, <3>2, ServedKept
  <2>4. CASE s = Successor
    <3>1. /\ state[Successor] # "OPENING" /\ ~BeingReplaced(s)
          /\ state[Successor] = "OPEN" => client[Successor] /\ closing[Successor] = "none"
      BY <1>0, <1>3, <2>4 DEF Reachable, SuccessorOwns, BeingReplaced, Impl
    <3>2. state[Successor] = "OPEN" => NewCloser(Successor) = Successor /\ CloseImpl(Successor) = "asking"
      BY <3>1 DEF NewCloser, CloseImpl, Closing
    <3>3. \/ closing'[Successor] = closing[Successor]
          \/ closing'[Successor] = "asking" /\ client[Successor]
      BY <1>0, <1>3, <2>4, <3>1, <3>2, CloseWaitsFacts
    <3> QED BY <2>1, <2>2, <3>3 DEF Served
  <2> QED BY <2>3, <2>4
<1>4. CASE CancelReplaced(c)
  <2>1. /\ UNCHANGED <<closing, opening, servers>> /\ state'[Source] = state[Source]
        /\ closing[Successor] \notin {"asking", "ending"}
    BY <1>0, <1>4 DEF CancelReplaced, Detached, SessionsOK
  <2> QED BY <2>1, ServedKept
<1>5. CASE ReplaceStarts(c)
  BY <1>0, <1>5, ServedKept DEF ReplaceStarts, SessionsOK
<1>6. ~UndoEnds(c)
  BY DEF NotUndoing, UndoEnds
<1>7. CASE \/ OpenReturnsAtOnce(c) \/ OpenBehindCleanup(c) \/ OpenReturns(c)
           \/ CancelOpen(c) \/ LeaveCleanup(c) \/ (\E s \in Sessions : CloseIsNoOp(c, s))
           \/ CloseReturns(c) \/ CancelClose(c) \/ ReplaceReturns(c) \/ CancelReplace(c)
  <2>1. UNCHANGED <<state, client, closing, opening, servers>>
    BY <1>7 DEF OpenReturnsAtOnce, OpenBehindCleanup, OpenReturns, CancelOpen, LeaveCleanup,
       CloseIsNoOp, CloseReturns, CancelClose, ReplaceReturns, CancelReplace
  <2> QED BY <2>1, ServedKept
<1> QED BY <1>1, <1>2, <1>3, <1>4, <1>5, <1>6, <1>7 DEF Close

LEMMA ServedStep ==
  TypeOK /\ ControlInv /\ OwnedInv /\ ServedInv /\ [Next]_vars => ServedInv'
<1> SUFFICES ASSUME TypeOK, ControlInv, OwnedInv, ServedInv, [Next]_vars, lapses' = {}
             PROVE  Served'
  BY DEF ServedInv
<1>0. lapses = {} /\ Safe /\ Safe'
  <2>1. lapses = {}
    BY UndoingIsLapse
  <2> QED BY <2>1 DEF Safe
<1>a. Owned /\ NotUndoing /\ Served
  BY <1>0 DEF OwnedInv, ServedInv
<1>1. CASE OpenTask \/ CleanupTask
  BY <1>a, <1>1, ServedTasks
<1>2. ASSUME NEW t \in Closers, CloseTask(t) PROVE Served'
  BY <1>a, <1>2, ServedCloseTask
<1>3. CASE ReplacementTask
  BY <1>0, <1>a, <1>3, ServedReplacementTask
<1>4. ASSUME NEW c \in Callers,
             \/ OpenReturnsAtOnce(c) \/ OpenWaits(c) \/ OpenBehindCleanup(c) \/ OpenReturns(c)
             \/ CancelOpen(c) \/ LeaveCleanup(c)
             \/ Close(c) \/ CloseReturns(c) \/ CancelClose(c)
             \/ ReplaceStarts(c) \/ ReplaceReturns(c) \/ CancelReplace(c) \/ CancelReplaced(c)
             \/ UndoEnds(c)
      PROVE  Served'
  BY <1>a, <1>4, ServedCallers
<1>5. CASE UNCHANGED vars
  BY <1>a, <1>5, ServedKept DEF vars, sessionVars, openVars, replaceVars, callerVars, connection
<1> QED BY <1>1, <1>2, <1>3, <1>4, <1>5 DEF Next, Tasks

-----------------------------------------------------------------------------
(* Theorems *)

TypeInv == TypeOK /\ CloseAsked /\ WaitersCounted
Inv == TypeInv /\ ControlInv /\ OwnedInv /\ ServedInv

LEMMA InitInv == Init => Inv
<1> SUFFICES ASSUME Init PROVE Inv
  OBVIOUS
<1> USE SessionsTwo, ClosersThree
<1>1. TypeOK
  <2>1. SessionsOK
    BY DEF Init, SessionsOK, States, Closing
  <2>2. TasksOK
    BY DEF Init, TasksOK
  <2>3. CallersOK
    BY SessionAssumption DEF Init, CallersOK, Points
  <2>4. FlagsOK
    BY DEF Init, FlagsOK
  <2> QED BY <2>1, <2>2, <2>3, <2>4 DEF TypeOK
<1>2. CloseAsked
  BY DEF Init, CloseAsked
<1>3. WaitersCounted
  <2>1. {c \in Callers : pc[c] \in {"opening", "opened", "open_failed"}} = {}
    BY DEF Init
  <2> QED BY <2>1, FS_EmptySet DEF Init, WaitersCounted
<1>4. /\ state[Source] = "LAZY" /\ state[Successor] = "RETIRED"
      /\ \A t \in Closers : closing[t] = "none"
      /\ ~client[Source] /\ ~client[Successor]
      /\ opening = "none" /\ replacement = "none" /\ process = "down" /\ servers = "down"
      /\ ~returned /\ closed = {} /\ \A c \in Callers : pc[c] = "idle"
  BY DEF Init
<1>5. ControlInv
  <2>1. ReplacementOK /\ ClosersOK /\ AgainOK /\ SuccessorOK
    BY <1>4 DEF ReplacementOK, ClosersOK, AgainOK, SuccessorOK, Replacing, Impl
  <2>2. ReplacersOK
    BY <1>4 DEF ReplacersOK, Replacers
  <2> QED BY <2>1, <2>2 DEF ControlInv
<1>6. OwnedInv
  <2>1. OpeningOwns /\ SourceOwns /\ EndingOwns
    BY <1>4 DEF OpeningOwns, SourceOwns, EndingOwns, Opening, Replacing, Impl
  <2>2. SuccessorOwns /\ ClosedStays
    BY <1>4 DEF SuccessorOwns, ClosedStays, Replacing
  <2>3. NotUndoing
    BY <1>4 DEF NotUndoing
  <2> QED BY <2>1, <2>2, <2>3 DEF OwnedInv, Owned
<1>7. ServedInv
  BY <1>4 DEF ServedInv, Served
<1> QED BY <1>1, <1>2, <1>3, <1>5, <1>6, <1>7 DEF Inv, TypeInv

LEMMA NextInv == Inv /\ [Next]_vars => Inv'
<1> SUFFICES ASSUME Inv, [Next]_vars PROVE Inv'
  OBVIOUS
<1>0. /\ TypeOK /\ CloseAsked /\ WaitersCounted /\ ControlInv /\ OwnedInv /\ ServedInv
      /\ SessionsOK /\ TasksOK /\ CallersOK /\ FlagsOK
  BY DEF Inv, TypeInv, TypeOK
<1>1. WaitersCounted' /\ waiters' \in Nat
  BY <1>0, CountStep
<1>2. SessionsOK' /\ TasksOK' /\ CallersOK' /\ FlagsOK' /\ CloseAsked'
  BY <1>0, <1>1, SessionsStep, TasksStep, CallersStep, FlagsStep, CloseAskedStep
<1>3. ControlInv' /\ OwnedInv' /\ ServedInv'
  BY <1>0, ControlStep, OwnedStep, ServedStep
<1> QED BY <1>1, <1>2, <1>3 DEF Inv, TypeInv, TypeOK

LEMMA SpecInv == Spec => []Inv
BY InitInv, NextInv, PTL DEF Spec

\* Every variable keeps its type: the states, tasks and counters of the two sessions.
THEOREM SessionTypeCorrect == Spec => []TypeOK
<1>1. Inv => TypeOK
  BY DEF Inv, TypeInv
<1> QED BY <1>1, SpecInv, PTL

\* _open_waiters counts the callers that still have to be resumed, for any number of them
\* and of openings, whichever of them are cancelled.
THEOREM SessionWaitersCounted == Spec => []WaitersCounted
<1>1. Inv => WaitersCounted
  BY DEF Inv, TypeInv
<1> QED BY <1>1, SpecInv, PTL

\* Where a source stands that can be used or is being closed, when nothing of it is being
\* built, given up or ended.
LEMMA SourceStands ==
  ASSUME TypeOK, ControlInv, Owned, opening \notin Opening, replacement # "giving_up",
         state[Source] \notin {"RETIRED", "CLOSED", "LAZY", "OPENING"}
  PROVE  \/ client[Source] /\ (Usable(Source) \/ BeingClosed(Source))
         \/ closing[Source] = "after_open" /\ opening # "opened"
         \/ \E t \in {Source, Again} : closing[t] \in Impl
<1> USE SessionsTwo, ClosersThree
<1>0. SessionsOK /\ TasksOK /\ ClosersOK /\ OpeningOwns /\ SourceOwns
  BY DEF TypeOK, ControlInv, Owned
<1>1. state[Source] \in {"OPEN", "REPLACING", "CLOSING"}
  BY <1>0 DEF SessionsOK, States
<1>2. CASE state[Source] \in {"OPEN", "REPLACING"}
  BY <1>0, <1>2 DEF SourceOwns, Usable
<1>3. CASE state[Source] = "CLOSING"
  <2>1. closing[Source] \in Impl \cup {"after_open", "after_replacement"}
    BY <1>0, <1>3 DEF SourceOwns
  <2>2. closing[Source] = "after_open" /\ opening = "opened" => client[Source]
    BY <1>0 DEF OpeningOwns
  <2>3. closing[Source] = "after_replacement" => client[Source]
    BY <1>0, <1>3 DEF SourceOwns
  <2>4. closing[Source] \in {"after_open", "after_replacement"} => BeingClosed(Source)
    BY DEF BeingClosed, Closing
  <2> QED BY <2>1, <2>2, <2>3, <2>4
<1> QED BY <1>1, <1>2, <1>3

LEMMA InvProcessOwned ==
  ASSUME Inv, Safe, process = "up"
  PROVE  \/ opening \in {"connected", "unwinding"}
         \/ replacement = "giving_up"
         \/ \E s \in Sessions : client[s] /\ (Usable(s) \/ BeingClosed(s))
         \/ \E t \in Closers : closing[t] = "asking"
<1> USE SessionsTwo, ClosersThree
<1>0. /\ TypeOK /\ TasksOK /\ ControlInv /\ ClosersOK /\ Owned
      /\ OpeningOwns /\ SourceOwns /\ SuccessorOwns /\ EndingOwns
  BY DEF Inv, TypeInv, TypeOK, ControlInv, OwnedInv, Owned
<1> SUFFICES ASSUME opening \notin {"connected", "unwinding"}, replacement # "giving_up",
                    \A t \in Closers : closing[t] # "asking"
             PROVE  \E s \in Sessions : client[s] /\ (Usable(s) \/ BeingClosed(s))
  OBVIOUS
<1>1. opening = "opened"
  BY <1>0 DEF OpeningOwns, TasksOK, Opening
<1>2. \A t \in Closers : closing[t] # "ending"
  BY <1>0 DEF EndingOwns
<1>3. CASE state[Source] = "RETIRED"
  <2>1. replacement = "replaced" /\ closing[Successor] \notin Impl \cup {"done"}
    BY <1>0, <1>2, <1>3 DEF ClosersOK, SuccessorOwns, Impl
  <2>2. state[Successor] = "OPEN" /\ client[Successor]
    BY <1>0, <2>1 DEF SuccessorOwns
  <2> QED BY <2>2 DEF Usable
<1>4. CASE state[Source] # "RETIRED"
  <2>1. state[Source] \notin {"LAZY", "OPENING", "CLOSED"} /\ opening \notin Opening
    BY <1>0, <1>1 DEF OpeningOwns, SourceOwns, Opening
  <2>2. \A t \in {Source, Again} : closing[t] \notin Impl
    BY <1>0, <1>2 DEF SourceOwns, Impl
  <2> QED BY <1>0, <1>1, <1>4, <2>1, <2>2, SourceStands
<1> QED BY <1>3, <1>4

LEMMA InvServersOwned ==
  ASSUME Inv, lapses = {}, servers = "up"
  PROVE  \/ opening \in Opening
         \/ replacement = "giving_up"
         \/ \E s \in Sessions : client[s] /\ (Usable(s) \/ BeingClosed(s))
         \/ \E t \in Closers : closing[t] = "tools"
<1> USE SessionsTwo, ClosersThree
<1>s. Safe
  BY DEF Safe
<1>0. /\ TypeOK /\ TasksOK /\ ControlInv /\ ClosersOK /\ Owned /\ Served
      /\ OpeningOwns /\ SourceOwns /\ SuccessorOwns
  BY <1>s DEF Inv, TypeInv, TypeOK, ControlInv, OwnedInv, ServedInv, Owned
<1> SUFFICES ASSUME opening \notin Opening, replacement # "giving_up",
                    \A t \in Closers : closing[t] # "tools"
             PROVE  \E s \in Sessions : client[s] /\ (Usable(s) \/ BeingClosed(s))
  OBVIOUS
<1>1. opening = "opened" /\ state[Source] # "CLOSED"
  BY <1>0 DEF Served, TasksOK
<1>2. \A t \in Closers : closing[t] \in Impl \ {"bare", "tools"} => BeingClosed(Of(t))
  BY DEF BeingClosed, Impl, Closing
<1>3. CASE state[Source] = "RETIRED"
  <2>1. replacement = "replaced" /\ closing[Successor] \notin {"done", "bare", "tools"}
    BY <1>0, <1>3 DEF ClosersOK, Served
  <2>2. \/ state[Successor] = "OPEN" /\ client[Successor]
        \/ closing[Successor] \in {"asking", "ending"} /\ client[Successor]
    BY <1>0, <2>1 DEF SuccessorOwns, Served, Impl
  <2> QED BY <1>2, <2>2 DEF Usable, Impl
<1>4. CASE state[Source] # "RETIRED"
  <2>1. state[Source] \notin {"LAZY", "OPENING", "CLOSED"}
    BY <1>0, <1>1 DEF OpeningOwns, Opening
  <2>2. \A t \in {Source, Again} : closing[t] \in Impl => client[Source] /\ closing[t] # "bare"
    BY <1>0, <1>1 DEF SourceOwns
  <2>3. (\E t \in {Source, Again} : closing[t] \in Impl) => client[Source] /\ BeingClosed(Source)
    BY <1>2, <2>2
  <2> QED BY <1>0, <1>1, <1>4, <2>1, <2>3, SourceStands
<1> QED BY <1>3, <1>4

LEMMA InvOwner == Inv => OwnerExists
<1> SUFFICES ASSUME Inv PROVE OwnerExists
  OBVIOUS
<1>1. Safe /\ process = "ending" => \E t \in Closers : closing[t] = "ending"
  BY DEF Inv, OwnedInv, Owned, EndingOwns
<1>2. Cardinality({s \in Sessions : state[s] = "OPEN"}) <= 1
  <2>1. state[Successor] # "OPEN" \/ state[Source] # "OPEN"
    BY DEF Inv, ControlInv, SuccessorOK, ReplacementOK, Replacing
  <2>2. \/ {s \in Sessions : state[s] = "OPEN"} = {}
        \/ {s \in Sessions : state[s] = "OPEN"} = {Source}
        \/ {s \in Sessions : state[s] = "OPEN"} = {Successor}
    BY <2>1, SessionsTwo
  <2>3. \A s : Cardinality({s}) = 1
    BY FS_Singleton
  <2>4. Cardinality({}) = 0 /\ 0 <= 1 /\ 1 <= 1
    BY FS_EmptySet
  <2> DEFINE Open == {s \in Sessions : state[s] = "OPEN"}
  <2>5. Cardinality(Open) = 0 \/ Cardinality(Open) = 1
    BY <2>2, <2>3, <2>4
  <2> QED BY <2>4, <2>5
<1> QED BY <1>1, <1>2, InvProcessOwned, InvServersOwned DEF OwnerExists, Safe

\* Process and tool servers always have an owner, the lapses apart, and the source and its
\* successor are never both open.
THEOREM SessionOwnerExists == Spec => []OwnerExists
BY InvOwner, SpecInv, PTL

LEMMA InvClosed == Inv => ClosedForGood
<1> SUFFICES ASSUME Inv, NEW s \in closed
             PROVE  /\ Safe => /\ state[s] \in {"CLOSED", "RETIRED"}
                               /\ process = "down" \/ (process = "ending" /\ closing[Again] # "none")
                    /\ lapses = {} => servers = "down"
  BY DEF ClosedForGood, Safe
<1> USE SessionsTwo, ClosersThree
<1>0. TypeOK /\ TasksOK /\ CallersOK /\ ClosersOK /\ AgainOK
  BY DEF Inv, TypeInv, TypeOK, ControlInv
<1>1. s = Source \/ s = Successor
  BY <1>0 DEF CallersOK
<1>2. ASSUME Safe PROVE /\ state[s] \in {"CLOSED", "RETIRED"}
                        /\ process = "down" \/ (process = "ending" /\ closing[Again] # "none")
                        /\ state[Source] = "CLOSED" \/ closing[Successor] = "done"
  <2>0. SourceOwns /\ SuccessorOwns /\ EndingOwns /\ ClosedStays
    BY <1>2 DEF Inv, OwnedInv, Owned
  <2>1. CASE s = Successor \/ state[Source] = "RETIRED"
    <3>1. replacement = "replaced" /\ closing[Successor] = "done" /\ state[s] \in {"CLOSED", "RETIRED"}
      BY <1>0, <1>1, <2>0, <2>1 DEF ClosedStays, ClosersOK, SuccessorOwns
    <3>2. process # "up" /\ closing[Again] = "none"
      BY <1>0, <2>0, <3>1 DEF SuccessorOwns, AgainOK
    <3>3. closing[Source] # "ending"
      BY <2>0, <3>1 DEF SuccessorOwns
    <3>4. process = "down"
      BY <1>0, <2>0, <3>1, <3>2, <3>3 DEF EndingOwns, TasksOK
    <3> QED BY <3>1, <3>4
  <2>2. CASE s = Source /\ state[Source] # "RETIRED"
    <3>1. /\ state[Source] = "CLOSED" /\ process # "up"
          /\ closing[Source] \in {"none", "done"} \/ closing[Again] = "done"
      BY <2>0, <2>2 DEF ClosedStays, SourceOwns
    <3>2. replacement # "replaced" /\ closing[Successor] = "none"
      BY <2>0, <3>1 DEF SuccessorOwns
    <3>3. closing[Again] = "none" => process = "down"
      BY <1>0, <2>0, <3>1, <3>2 DEF EndingOwns, TasksOK
    <3> QED BY <1>0, <2>2, <3>1, <3>3 DEF TasksOK
  <2> QED BY <1>1, <2>1, <2>2
<1>3. ASSUME lapses = {} PROVE servers = "down"
  <2>1. Safe /\ Served
    BY <1>3 DEF Safe, Inv, ServedInv
  <2> QED BY <1>2, <2>1 DEF Served
<1> QED BY <1>2, <1>3

\* A close() that returned has released process and tool servers for good, unless a lapse
\* came first: the session is not opened, restored or replaced again.
THEOREM SessionClosedForGood == Spec => []ClosedForGood
BY InvClosed, SpecInv, PTL

-----------------------------------------------------------------------------
(* The refinement of Ownership *)

\* Who has what is up, read off the opening and the state of the source.
Whose ==
  IF opening # "opened" THEN "opening"
  ELSE IF state[Source] # "RETIRED" THEN "source" ELSE "successor"

ProcessHolder == Holder(process, "asking", lapses \cap {"undone", "cut"} # {})
ServersHolder == Holder(servers, "tools", lapses # {})

ProcessHolderKnown == Safe => ProcessHolder = IF process = "up" THEN Whose ELSE "nobody"
ServersHolderKnown == lapses = {} => ServersHolder = IF servers = "up" THEN Whose ELSE "nobody"

LEMMA ProcessHolderIs == Inv => ProcessHolderKnown
<1> SUFFICES ASSUME Inv, Safe, process = "up" PROVE ProcessHolder = Whose
  BY DEF ProcessHolderKnown, ProcessHolder, Holder, Safe
<1> USE SessionsTwo, ClosersThree
<1>0. /\ TypeOK /\ TasksOK /\ ControlInv /\ ClosersOK /\ AgainOK /\ Owned
      /\ OpeningOwns /\ SourceOwns /\ SuccessorOwns /\ EndingOwns
  BY DEF Inv, TypeInv, TypeOK, ControlInv, OwnedInv, Owned
<1>1. \A s \in Sessions : Has(s, "asking") <=> client[s] \/ \E t \in Closers : Of(t) = s /\ closing[t] = "asking"
  BY DEF Has
<1>2. CASE opening # "opened"
  <2>1. opening \in Opening
    BY <1>0, <1>2 DEF OpeningOwns, TasksOK
  <2>2. replacement \in {"none", "failed"}
    BY <1>0, <1>2 DEF SuccessorOwns, TasksOK
  <2>3. /\ ~client[Source] /\ ~client[Successor] /\ closing[Source] # "asking"
        /\ closing[Again] = "none" /\ closing[Successor] = "none"
    BY <1>0, <2>1, <2>2, WhileOpening DEF SuccessorOwns
  <2>4. ~Has(Source, "asking") /\ ~Has(Successor, "asking")
    BY <1>1, <2>3
  <2> QED BY <1>2, <2>1, <2>4 DEF ProcessHolder, Holder, Whose, Safe
<1>3. CASE opening = "opened" /\ state[Source] # "RETIRED"
  <2>1. Has(Source, "asking")
    <3>1. state[Source] \notin {"LAZY", "OPENING", "CLOSED"} /\ opening \notin Opening
      BY <1>0, <1>3 DEF OpeningOwns, SourceOwns, Opening
    <3>2. replacement = "giving_up" => client[Source]
      BY <1>0 DEF SourceOwns, Replacing
    <3>3. \A t \in {Source, Again} : closing[t] \in Impl => client[Source]
      BY <1>0, <3>1 DEF SourceOwns
    <3> QED BY <1>0, <1>1, <1>3, <3>1, <3>2, <3>3, SourceStands
  <2> QED BY <1>3, <2>1 DEF ProcessHolder, Holder, Whose, Safe
<1>4. CASE opening = "opened" /\ state[Source] = "RETIRED"
  <2>1. replacement = "replaced" /\ closing[Again] = "none" /\ closing[Source] # "asking" /\ ~client[Source]
    BY <1>0, <1>4 DEF ClosersOK, AgainOK, SuccessorOwns
  <2>2. closing[Successor] # "ending"
    BY <1>0 DEF EndingOwns
  <2>3. client[Successor] \/ closing[Successor] = "asking"
    BY <1>0, <2>1, <2>2 DEF SuccessorOwns, Impl
  <2>4. ~Has(Source, "asking") /\ Has(Successor, "asking")
    BY <1>1, <2>1, <2>3
  <2> QED BY <1>4, <2>4 DEF ProcessHolder, Holder, Whose, Safe
<1> QED BY <1>2, <1>3, <1>4

LEMMA ServersHolderIs == Inv => ServersHolderKnown
<1> SUFFICES ASSUME Inv, lapses = {}, servers = "up" PROVE ServersHolder = Whose
  BY DEF ServersHolderKnown, ServersHolder, Holder
<1> USE SessionsTwo, ClosersThree
<1>s. Safe
  BY DEF Safe
<1>0. /\ TypeOK /\ TasksOK /\ ControlInv /\ ClosersOK /\ AgainOK /\ Owned /\ Served
      /\ OpeningOwns /\ SourceOwns /\ SuccessorOwns
  BY <1>s DEF Inv, TypeInv, TypeOK, ControlInv, OwnedInv, ServedInv, Owned
<1>1. \A s \in Sessions : Has(s, "tools") <=> client[s] \/ \E t \in Closers : Of(t) = s /\ closing[t] = "tools"
  BY DEF Has
<1>2. CASE opening # "opened"
  <2>1. opening \in Opening
    BY <1>0, <1>2 DEF Served, TasksOK
  <2>2. replacement \in {"none", "failed"}
    BY <1>0, <1>2 DEF SuccessorOwns, TasksOK
  <2>3. /\ ~client[Source] /\ ~client[Successor] /\ closing[Source] # "tools"
        /\ closing[Again] = "none" /\ closing[Successor] = "none"
    BY <1>0, <2>1, <2>2, WhileOpening DEF SuccessorOwns
  <2>4. ~Has(Source, "tools") /\ ~Has(Successor, "tools")
    BY <1>1, <2>3
  <2> QED BY <1>2, <2>1, <2>4 DEF ServersHolder, Holder, Whose
<1>3. CASE opening = "opened" /\ state[Source] # "RETIRED"
  <2>1. Has(Source, "tools")
    <3>1. state[Source] \notin {"LAZY", "OPENING", "CLOSED"} /\ opening \notin Opening
      BY <1>0, <1>3 DEF OpeningOwns, Served, Opening
    <3>2. replacement = "giving_up" => client[Source]
      BY <1>0 DEF SourceOwns, Replacing
    <3>3. \A t \in {Source, Again} : closing[t] \in Impl => client[Source]
      BY <1>0, <3>1 DEF SourceOwns
    <3> QED BY <1>0, <1>1, <1>3, <3>1, <3>2, <3>3, SourceStands
  <2> QED BY <1>3, <2>1 DEF ServersHolder, Holder, Whose
<1>4. CASE opening = "opened" /\ state[Source] = "RETIRED"
  <2>1. replacement = "replaced" /\ closing[Again] = "none" /\ closing[Source] # "tools" /\ ~client[Source]
    BY <1>0, <1>4 DEF ClosersOK, AgainOK, SuccessorOwns
  <2>2. client[Successor] \/ closing[Successor] = "tools"
    BY <1>0, <2>1 DEF SuccessorOwns, Served, Impl
  <2>3. ~Has(Source, "tools") /\ Has(Successor, "tools")
    BY <1>1, <2>1, <2>2
  <2> QED BY <1>4, <2>3 DEF ServersHolder, Holder, Whose
<1> QED BY <1>2, <1>3, <1>4

LEMMA ProcessHolderWillBe == Inv' => ProcessHolderKnown'
BY ProcessHolderIs, PTL

LEMMA ServersHolderWillBe == Inv' => ServersHolderKnown'
BY ServersHolderIs, PTL

\* What a step may do with a resource that was r and becomes q.
Moves(r, q) ==
  \/ closed' = closed /\ q # "up"
  \/ closed' = closed /\ q = r /\ Whose' = Whose
  \/ closed' = closed /\ closed = {} /\ r # "up" /\ Whose' = "opening"
  \/ closed' = closed /\ q = r /\ Whose = "opening" /\ Whose' = "source"
  \/ closed' = closed /\ q = r /\ Whose = "source" /\ Whose' = "successor"
  \/ r # "up" /\ q # "up" /\ \E s \in Sessions : closed' = closed \cup {s}
MovesAll == Moves(process, process') /\ (lapses' = {} => Moves(servers, servers'))

LEMMA MovesKept ==
  ASSUME UNCHANGED <<opening, closed>>, state'[Source] = "RETIRED" <=> state[Source] = "RETIRED",
         process' = process \/ process' # "up", servers' = servers \/ servers' = "down"
  PROVE  MovesAll
<1>1. Whose' = Whose
  BY DEF Whose
<1> QED BY <1>1 DEF MovesAll, Moves

LEMMA MovesTasks ==
  ASSUME Inv, Safe, lapses' = {} => lapses = {}, OpenTask \/ CleanupTask
  PROVE  MovesAll
<1> USE SessionsTwo, ClosersThree
<1>0. SessionsOK /\ CallersOK /\ ClosersOK /\ AgainOK /\ Owned /\ SourceOwns /\ ClosedStays
  BY DEF Inv, TypeInv, TypeOK, ControlInv, OwnedInv, Owned
<1>1. CASE OpenTask
  <2>1. opening \in Opening /\ closed' = closed
    BY <1>0, <1>1, OpenTaskFacts DEF Opening
  <2>2. closed = {} /\ state[Source] # "RETIRED"
    <3>1. state[Source] \in {"OPENING", "CLOSING"} /\ replacement # "replaced"
      BY <1>0, <2>1, WhileOpening
    <3> QED BY <1>0, <3>1 DEF ClosedStays, CallersOK
  <2>3. opening # "opened"
    BY <2>1 DEF Opening
  <2>4. /\ \/ process' = process /\ servers' = servers
           \/ opening = "starting" /\ process' = process
           \/ opening = "serving" /\ servers' = servers
           \/ process' = "down" /\ servers' = servers
           \/ servers' = "down" /\ process' = process
        /\ \/ opening' # "opened"
           \/ process' = process /\ servers' = servers /\ state'[Source] # "RETIRED"
        /\ opening \in {"starting", "serving"} => opening' # "opened"
    BY <1>0, <1>1, <2>2, OpenTaskFacts
  <2>5. /\ Whose = "opening" /\ Whose' \in {"opening", "source"}
        /\ Whose' = "source" => process' = process /\ servers' = servers
        /\ opening \in {"starting", "serving"} => Whose' = "opening"
    BY <2>3, <2>4 DEF Whose
  <2>6. /\ opening = "serving" => process # "up"
        /\ opening = "starting" /\ lapses = {} => servers # "up"
    BY DEF Inv, OwnedInv, Owned, OpeningOwns, ServedInv, Served
  <2>7. Moves(process, process')
    BY <2>1, <2>2, <2>4, <2>5, <2>6 DEF Moves
  <2>8. lapses' = {} => Moves(servers, servers')
    BY <2>1, <2>2, <2>4, <2>5, <2>6 DEF Moves
  <2> QED BY <2>7, <2>8 DEF MovesAll
<1>2. CASE CleanupTask
  <2>1. /\ closed' = closed /\ process' = process /\ servers' \in {servers, "down"}
        /\ \/ opening' = opening /\ (state'[Source] = "RETIRED" <=> state[Source] = "RETIRED")
           \/ opening \in Opening /\ opening' # "opened"
           \/ state[Source] = "CLOSED" /\ servers' = servers
    BY <1>0, <1>2, CleanupFacts DEF Opening
  <2>2. opening \in Opening => opening # "opened"
    BY DEF Opening
  <2>3. state[Source] = "CLOSED" => process # "up" /\ (lapses = {} => servers # "up")
    BY <1>0 DEF SourceOwns, Inv, ServedInv, Served
  <2>4. Whose' = Whose \/ (state[Source] = "CLOSED" /\ servers' = servers)
    BY <2>1, <2>2 DEF Whose
  <2> QED BY <2>1, <2>3, <2>4 DEF MovesAll, Moves
<1> QED BY <1>1, <1>2

LEMMA MovesCloseTask ==
  ASSUME Inv, Safe, NEW t \in Closers, CloseTask(t)
  PROVE  MovesAll
<1> USE SessionsTwo, ClosersThree
<1>0. SessionsOK /\ ClosersOK /\ AgainOK
  BY DEF Inv, TypeInv, TypeOK, ControlInv
<1>1. UNCHANGED <<opening, closed>>
  BY <1>0, CloseTaskKeeps
<1>2. CASE ClientCloses(t) \/ ClientClosed(t) \/ CloseImplEnds(t)
  <2>1. /\ process' = process \/ process' # "up"
        /\ servers' = servers \/ servers' = "down"
        /\ state'[Source] = state[Source] \/ (Of(t) = Source /\ state'[Source] = "CLOSED")
        /\ closing[t] \in Impl
    BY <1>0, <1>2, ImplFacts DEF Impl
  <2>2. Of(t) = Source => state[Source] # "RETIRED"
    BY <1>0, <2>1 DEF ClosersOK, AgainOK, Impl
  <2> QED BY <1>1, <2>1, <2>2, MovesKept
<1>3. CASE CloseAfterOpen \/ CloseAfterFailure \/ CloseAfterReplacement \/ CloseSuccessorEnds
  <2>1. /\ closing[Source] = "after_open" => state[Source] # "RETIRED"
        /\ closing[Source] = "after_replacement" /\ replacement = "failed" => state[Source] # "RETIRED"
        /\ closing[Source] = "successor" => state[Source] = "RETIRED"
    BY <1>0 DEF ClosersOK
  <2>2. /\ UNCHANGED <<process, servers>>
        /\ state'[Source] = "RETIRED" <=> state[Source] = "RETIRED"
    BY <1>0, <1>3, <2>1, CloserSteps
  <2> QED BY <1>1, <2>2, MovesKept
<1> QED BY <1>2, <1>3 DEF CloseTask

LEMMA MovesReplacementTask ==
  ASSUME Inv, Safe, Safe', ReplacementTask
  PROVE  MovesAll
<1> USE SessionsTwo DEF sessionVars, openVars, replaceVars, callerVars, connection, Unchanged
<1>1. UNCHANGED <<closed, opening>> /\ replacement \in Replacing /\ ~GiveUpCut
  BY DEF Replacing, ReplacementTask, OperationSucceeds, OperationFails, LoadSucceeds, LoadFails,
         RollbackSucceeds, GiveUp, GiveUpEnds, GiveUpCut, Retire, CheckpointCancelled, RestoreSucceeds,
         Safe
<1>2. /\ opening = "opened" /\ SessionsOK /\ state[Source] # "RETIRED"
  BY <1>1, WhileReplacing DEF Inv, TypeInv, TypeOK, ControlInv, OwnedInv
<1>3. CASE Retire
  <2>1. /\ UNCHANGED <<process, servers>> /\ state'[Source] = "RETIRED"
    BY <1>2, <1>3 DEF Retire, SessionsOK
  <2> QED BY <1>1, <1>2, <2>1 DEF MovesAll, Moves, Whose
<1>4. CASE ~Retire
  <2>1. /\ process' = process \/ process' # "up"
        /\ servers' = servers \/ servers' = "down"
        /\ state'[Source] # "RETIRED"
    BY <1>1, <1>2, <1>4 DEF SessionsOK, ReplacementTask, OperationSucceeds, OperationFails,
       LoadSucceeds, LoadFails, RollbackSucceeds, GiveUp, GiveUpEnds, CheckpointCancelled,
       RestoreSucceeds, Detached
  <2> QED BY <1>1, <1>2, <2>1, MovesKept
<1> QED BY <1>3, <1>4

\* close() returns for s.
LEMMA MovesFinish ==
  ASSUME Inv', Safe', NEW s \in Sessions, closed' = closed \cup {s}, UNCHANGED <<process, servers>>
  PROVE  MovesAll
<1>1. ClosedForGood'
  BY InvClosed, PTL
<1>2. process' # "up" /\ (lapses' = {} => servers' # "up")
  BY <1>1 DEF ClosedForGood, Safe
<1> QED BY <1>2 DEF MovesAll, Moves

LEMMA MovesCallers ==
  ASSUME Inv, Inv', Safe, Safe', lapses' = {} => lapses = {}, NEW c \in Callers,
         \/ OpenReturnsAtOnce(c) \/ OpenWaits(c) \/ OpenBehindCleanup(c) \/ OpenReturns(c)
         \/ CancelOpen(c) \/ LeaveCleanup(c)
         \/ Close(c) \/ CloseReturns(c) \/ CancelClose(c)
         \/ ReplaceStarts(c) \/ ReplaceReturns(c) \/ CancelReplace(c) \/ CancelReplaced(c)
         \/ UndoEnds(c)
  PROVE  MovesAll
<1> USE SessionsTwo, ClosersThree DEF sessionVars, openVars, replaceVars, callerVars, connection
<1>0. SessionsOK /\ FlagsOK /\ ReplacementOK /\ ClosersOK /\ OpeningOwns
  BY DEF Inv, TypeInv, TypeOK, ControlInv, OwnedInv, Owned
<1>1. CASE OpenWaits(c)
  <2>1. /\ UNCHANGED <<closed, process, servers>>
        /\ UNCHANGED <<state, opening>> \/ state[Source] = "LAZY"
    BY <1>1 DEF OpenWaits
  <2>2. state[Source] = "LAZY" => process # "up" /\ (lapses = {} => servers # "up")
    BY <1>0 DEF OpeningOwns, Inv, ServedInv, Served
  <2>3. CASE UNCHANGED <<state, opening>>
    BY <2>1, <2>3, MovesKept
  <2>4. CASE state[Source] = "LAZY"
    BY <2>1, <2>2, <2>4 DEF MovesAll, Moves
  <2> QED BY <2>1, <2>3, <2>4
<1>2. ASSUME NEW s \in Sessions, CloseAtOnce(c, s) PROVE MovesAll
  BY <1>2, MovesFinish DEF CloseAtOnce
<1>3. ASSUME NEW s \in Sessions, CloseWaits(c, s) PROVE MovesAll
  <2>1. UNCHANGED <<opening, process, servers, closed>>
    BY <1>0, <1>3, CloseWaitsFacts
  <2>2. BeingReplaced(Source) => state[Source] # "RETIRED"
    BY <1>0 DEF BeingReplaced, ReplacementOK
  <2>3. state'[Source] = "RETIRED" <=> state[Source] = "RETIRED"
    BY <1>0, <1>3, <2>2, CloseWaitsFacts
  <2> QED BY <2>1, <2>3, MovesKept
<1>4. CASE CloseReturns(c)
  <2>1. awaits[c] \in Closers /\ Of(awaits[c]) \in Sessions
    BY <1>4 DEF CloseReturns, Inv, TypeInv, CloseAsked
  <2> QED BY <1>4, <2>1, MovesFinish DEF CloseReturns
<1>5. CASE ReplaceStarts(c) \/ CancelReplaced(c)
  <2>1. /\ UNCHANGED <<opening, process, servers, closed>>
        /\ state'[Source] = "RETIRED" <=> state[Source] = "RETIRED"
    BY <1>0, <1>5 DEF ReplaceStarts, CancelReplaced, Detached, SessionsOK
  <2> QED BY <2>1, MovesKept
<1>6. ~UndoEnds(c)
  BY DEF Inv, OwnedInv, NotUndoing, UndoEnds
<1>7. CASE \/ OpenReturnsAtOnce(c) \/ OpenBehindCleanup(c) \/ OpenReturns(c)
           \/ CancelOpen(c) \/ LeaveCleanup(c) \/ (\E s \in Sessions : CloseIsNoOp(c, s))
           \/ CancelClose(c) \/ ReplaceReturns(c) \/ CancelReplace(c)
  <2>1. UNCHANGED <<state, opening, process, servers, closed>>
    BY <1>7 DEF OpenReturnsAtOnce, OpenBehindCleanup, OpenReturns, CancelOpen, LeaveCleanup,
       CloseIsNoOp, CancelClose, ReplaceReturns, CancelReplace
  <2> QED BY <2>1, MovesKept
<1> QED BY <1>1, <1>2, <1>3, <1>4, <1>5, <1>6, <1>7 DEF Close

LEMMA StepMoves ==
  ASSUME Inv, Inv', [Next]_vars, Safe'
  PROVE  MovesAll
<1>1. Safe /\ (lapses' = {} => lapses = {})
  BY UndoingIsLapse DEF Inv, TypeInv, Safe
<1>2. CASE OpenTask \/ CleanupTask
  BY <1>1, <1>2, MovesTasks
<1>3. ASSUME NEW t \in Closers, CloseTask(t) PROVE MovesAll
  BY <1>1, <1>3, MovesCloseTask
<1>4. CASE ReplacementTask
  BY <1>1, <1>4, MovesReplacementTask
<1>5. ASSUME NEW c \in Callers,
             \/ OpenReturnsAtOnce(c) \/ OpenWaits(c) \/ OpenBehindCleanup(c) \/ OpenReturns(c)
             \/ CancelOpen(c) \/ LeaveCleanup(c)
             \/ Close(c) \/ CloseReturns(c) \/ CancelClose(c)
             \/ ReplaceStarts(c) \/ ReplaceReturns(c) \/ CancelReplace(c) \/ CancelReplaced(c)
             \/ UndoEnds(c)
      PROVE  MovesAll
  BY <1>1, <1>5, MovesCallers
<1>6. CASE UNCHANGED vars
  BY <1>6, MovesKept DEF vars, sessionVars, openVars, replaceVars, callerVars, connection
<1> QED BY <1>2, <1>3, <1>4, <1>5, <1>6 DEF Next, Tasks

\* For any number of callers and calls the sessions do nothing with the process and with the
\* tool servers that Ownership forbids: they are never leaked, a replaced source never has
\* them again, and after a close() that returned they are not built again.
THEOREM SessionImplementsOwnership == Spec => ImplementsOwnership
<1>f. ASSUME closed' = closed PROVE Finished' = Finished
  BY <1>f DEF Finished, Name
<1>g. ASSUME NEW s \in Sessions, closed' = closed \cup {s}
      PROVE  Finished' = Finished \cup {Name(s)} /\ Name(s) \in {"source", "successor"}
  BY <1>g DEF Finished, Name
<1>h. closed = {} => Finished = {}
  BY DEF Finished
<1>w. Whose \in {"opening", "source", "successor"} /\ Whose' \in {"opening", "source", "successor"}
  BY DEF Whose
<1>p. Process!vars = <<ProcessHolder, Finished>>
  BY DEF Process!vars, ProcessHolder
<1>s. Servers!vars = <<ServersHolder, Finished>>
  BY DEF Servers!vars, ServersHolder
<1>1. Init => Process!Init /\ Servers!Init
  BY DEF Init, Process!Init, Servers!Init, Holder, Finished
<1>2. Inv /\ Inv' /\ [Next]_vars => [Process!Next]_(Process!vars)
  <2> SUFFICES ASSUME Inv, Inv', [Next]_vars PROVE [Process!Next]_(Process!vars)
    OBVIOUS
  <2>1. CASE ~Safe'
    BY <2>1 DEF Safe, Holder, Process!Next, Process!Lapse
  <2>2. CASE Safe'
    <3>1. Safe
      BY <2>2, UndoingIsLapse DEF Inv, TypeInv, Safe
    <3>2. Moves(process, process')
      BY <2>2, StepMoves DEF MovesAll
    <3>3. /\ ProcessHolder = IF process = "up" THEN Whose ELSE "nobody"
          /\ ProcessHolder' = IF process' = "up" THEN Whose' ELSE "nobody"
      BY <2>2, <3>1, ProcessHolderIs, ProcessHolderWillBe DEF ProcessHolderKnown
    <3> QED BY <1>f, <1>g, <1>h, <1>w, <3>2, <3>3
         DEF Moves, ProcessHolder, Process!Next, Process!Passes, Process!Build, Process!Opened,
             Process!Abandon, Process!HandOver, Process!Release, Process!Finish, Process!Owners,
             Process!vars
  <2> QED BY <2>1, <2>2
<1>3. Inv /\ Inv' /\ [Next]_vars => [Servers!Next]_(Servers!vars)
  <2> SUFFICES ASSUME Inv, Inv', [Next]_vars PROVE [Servers!Next]_(Servers!vars)
    OBVIOUS
  <2>1. CASE lapses' # {}
    BY <2>1 DEF Holder, Servers!Next, Servers!Lapse
  <2>2. CASE lapses' = {}
    <3>1. lapses = {} /\ Safe'
      BY <2>2, UndoingIsLapse DEF Inv, TypeInv, Safe
    <3>2. Moves(servers, servers')
      BY <2>2, <3>1, StepMoves DEF MovesAll
    <3>3. /\ ServersHolder = IF servers = "up" THEN Whose ELSE "nobody"
          /\ ServersHolder' = IF servers' = "up" THEN Whose' ELSE "nobody"
      BY <2>2, <3>1, ServersHolderIs, ServersHolderWillBe DEF ServersHolderKnown
    <3> QED BY <1>f, <1>g, <1>h, <1>w, <3>2, <3>3
         DEF Moves, ServersHolder, Servers!Next, Servers!Passes, Servers!Build, Servers!Opened,
             Servers!Abandon, Servers!HandOver, Servers!Release, Servers!Finish, Servers!Owners,
             Servers!vars
  <2> QED BY <2>1, <2>2
<1> QED BY <1>1, <1>2, <1>3, SpecInv, PTL DEF Spec, ImplementsOwnership, Process!Spec, Servers!Spec
=============================================================================
