# Verification of the Factory Droid SDK for Python

TLA+ models of `droid_sdk` (under `src/src/droid_sdk/`), model-checked with TLC
and, where the prover reaches, proved with TLAPS. Paths below are relative to
`src/src/droid_sdk/` unless they say otherwise.

## 1. Inventory

The SDK drives a `droid` child process over JSON-RPC on stdin/stdout. Everything
runs on one asyncio event loop, so the code between two awaits is atomic and all
concurrency is between tasks that await. Five layers:

```
 Session / RunStream             _high_level/session.py, streaming.py, ...
   DroidClient                   client.py
     ProtocolEngine              protocol.py
       ProcessTransport          transport.py
         droid process           (external)
 SdkMcpServer                    mcp.py         (in-process HTTP tool servers)
```

| component | state | operations | hard parts |
|---|---|---|---|
| `ProcessTransport` (`transport.py`) | process handle, `_is_connected`, `_is_closing`, sticky `_process_error`, stderr task, write lock | `connect`, `send`, `read_messages`, `close` | process exit vs. EOF, overlapping connects, escalation and cancellation of close, a grandchild holding the pipes |
| `ProtocolEngine` (`protocol.py`) | `_pending_requests`, sticky `_transport_error`, `_closed`, reader task, background tasks, handlers, listeners | `send_request`, reader dispatch, server requests, `close` | late/duplicate/missing answers, timer racing an answer, errors and close racing calls |
| `DroidClient` (`client.py`) | `_closed`, `_session_id`, engine, listeners, handlers | `connect`, `close`, one method per RPC, `receive_response` | close cancelled half way, session ids set out of order, notifications before a subscription |
| `Session` (`_high_level/session.py`) | `_state`, client, active stream, open, close and replacement tasks | `open`, `close`, `stream`, `run`, `fork`/`compact`/`rewind` | shared open/close tasks, cancellation of waiters, ownership of the connection moving to a successor |
| its settings (`_session_operations.py`) | `_settings`, `_load_options` | `update_settings` and one method per RPC | a copy that callers, the process and replacements change |
| `RunStream`, `StreamStateTracker` (`_high_level/streaming.py`) | queue, result, error, `_done`, `_released`, deadline; what the turn said so far | notification feed, iteration, `aclose` | terminal event vs. deadline, close vs. blocked consumer, one turn's events vs. the next's |
| `InteractionDispatcher` (`_high_level/interaction_adapter.py`) | handlers, error sink | permission and question dispatch | whatever a handler returns, the process gets an offered option or the fallback |
| `SdkMcpServer` (`mcp.py`) | runtime, start task, close task, waiter count | `start`, `close` | start shared by several waiters, cancelled waiters, close while starting |
| one-shot programs (`query.py`, `_high_level/_client.py`, `run()`) | a client for one call | `query`, `list_models`, `run` | cancellation during the clean-up |
| attachments, saved sessions (`_high_level/attachments.py`, `discovery.py`) | none that outlives a call | `from_path`, `list_sessions` | files that change while they are read |
| output adapters, observability, conversions, schemas | none | pure conversions | data only |

What makes each component correct:

* transport: a process is never left running without an owner, its exit is
  reported to the engine, a close ends however it is cancelled.
* engine: a call returns its own response or fails; nothing a call leaves behind
  can reach another call; a broken or closed engine holds nobody.
* client: after `close()` nothing runs; its session id is that of the process;
  `receive_response` ends with the turn.
* session: exactly one owner of the connection at any time, at most one active
  stream, and no operation on a session that is not open; what `settings` shows
  is in force.
* stream: a turn is reported once, with the result of that turn, or it is
  interrupted; a consumer never waits on a stream nobody will feed.
* interactions: the process is never told what it did not offer or ask.
* MCP server: a listening server always has somebody who will close it.
* reads of files: what is returned was there at one moment.

## 2. Modules

Each module models one component as an asynchronous program on one event loop:
one action is the code between two awaits, a caller's or task's `pc` names the
await it stands at, and a cancellation is an action that may strike at every
await the code has. Variables that exist only to state a property are marked
`(history)` where they are declared.

| module | models | its counterpart in the code |
|---|---|---|
| `ProtocolEngine` | `protocol.py` | a call is one run of `send_request()`; `pending` is `_pending_requests`, `fut` the state of the call's Future, `transportError`/`closed` the two sticky flags, `reader` the read loop, `task` the background task of a request from the process, `closer` a task inside `close()` |
| `RpcCalls` | what the engine promises | abstract: a call is new, open, answered or failed; the link is up, closing or down |
| `ProcessTransport` | `transport.py` and the operating system | `process`, `connected`, `closing`, `error`, `drainer`, `lock` are the fields; `os`, `stdout`, `stderr` say of each process spawned whether it runs and which pipes are open; `held` is the local variable `process` of a task |
| `DroidClient` | `client.py`, over what `ProcessTransport` and `ProtocolEngine` do | `sessionId`, `closed`, `engine`, `listeners` are the fields; `process`, `connected` the transport's, `engines` and `reader` the engine's; `stdin` and `pipe` hold what is on its way, `loaded` is the session of the process. `Methods` says of each RPC method what its body does besides sending: whether a session must be loaded, whether arguments are refused before the request is sent, whether the result is validated |
| `RunStream` | `_high_level/streaming.py`, `Session.stream()` with its `start` and `finish` | `pc` is the consumer's await; `queue`, `done`, `result`, `error`, `release` are the stream's fields; `active`, `sink`, `subscribed`, `interrupts` what the session holds; `stdin`, `turn`, `pipe` the process |
| `TurnTracker` | `StreamStateTracker` | its fields under their names; `seen` is the turn so far |
| `SessionLifecycle` | `open`, `close`, `fork`/`compact`/`rewind` of `_high_level/session.py` | the four shared tasks are variables (`opening`, `cleanup`, `closing`, `replacement`) whose value is the await they stand at; each session has a close task (`closing`), a restored source a second one (`Again`); `process` is the droid process with its client, `servers` are the tool servers of the session, since the two are not always released together |
| `Ownership` | what the sessions promise of their connection | abstract: who holds it, how it passes from one holder to the next, for whom a close has returned |
| `SessionSettings` | `update_settings()`, `_bind_metadata()`, `_load_with_policies()` | `settings` is `_settings`, `restrict` is `_load_options["restrict_tools"]`, `phase` the state with the RPC the session waits for; `replies` is the pipe, `chunk` what the reader has of it in hand, `ready` the callers it has answered; `droid` is what is in force; `CallOf` says which client call each operation of the session is |
| `Interactions` | `InteractionDispatcher` | a request of the process is a task; `sink` is the stream that `error_sink` belongs to |
| `SdkMcpServer` | start and close of `mcp.py` | every start and every close is a numbered task with what it waits for (`behind`) and what it closes (`target`); `runtime`, `startTask`, `closeTask`, `waiters` are the fields of the handle's state |
| `OneShot` | `query()`, `managed_droid_client()`, `run()` | `at` is the await of the owner, `closer` that of `client.close()` |
| `Attachments` | `_read_regular_file()` beside a program that writes | one action for each system call |
| `SavedSessions` | `list_sessions()` beside droid processes that write | one action for each directory listed, file looked at and file read |
| `MCParts` | | `SessionSettings`, `TurnTracker`, `Interactions`, `SavedSessions`, `Attachments` and `OneShot` share no state; each behaviour is about one of them |
| `MC...` | | the values TLC needs |
| `ProtocolEngineProofs`, `ProcessTransportProofs`, `DroidClientProofs`, `RunStreamProofs`, `SessionLifecycleProofs`, `SdkMcpServerProofs`, `SessionSettingsProofs`, `PartsProofs` | | theorems, section 4 |

Definitions whose comment begins with `Fault:` are plausible bugs of the code.
No specification uses them; `PROJECT.json` pairs each with the property that
catches it.

Where the modules meet:

* `ProtocolEngine` takes from the transport that a death is read as an error,
  which is `DeathIsReported` of `ProcessTransport`, and that a sender gets away
  from a process that is gone (`SendersReleased`).
* `DroidClient` takes from the engine that a closed or broken one rejects its
  calls (`BrokenRejectsAll`, `ClosedIsQuiet`) and from the transport that
  `close()` ends its process even when cancelled (`NoOrphan`).
* `RunStream` uses of the engine only that a call on a broken or closed engine
  fails (`EngineFairness`), which is `BrokenCallsReturn` of `ProtocolEngine`.
* `SessionLifecycle` counts `BUSY` as `OPEN`: which stream is active is the
  subject of `RunStream`. That `client.close()` ends the process is
  `ClosedLeavesNothing` of `DroidClient`, that closing a tool server stops it
  `ClosedIsStopped` of `SdkMcpServer`.
* `TurnTracker` is one stream's view of one turn; that it is fed exactly while
  it listens is `NothingMissed` of `RunStream`.
* `OneShot` uses of `client.close()` where a cancellation strikes it, which is
  `CancelClose` and `CloseTransportEnds` of `DroidClient`.

### Abstractions

* Messages carry what the properties tell apart: whose turn, which kind, which
  number. Logging, timing, metrics and error texts are left out; the exception
  classes that `send_request()` maps error codes to are one outcome, `"error"`.
* Listeners are the program's and external; they return or raise, and never
  change the engine.
* `asyncio.wait_for()` differs between Python 3.11 and 3.12 when a result and a
  cancellation or a timer are ready at once. Both outcomes are allowed (`Wake`,
  `WakeInterrupted`).
* A line that decodes to a list, or whose id cannot be hashed, raises in the
  reader in the same way as the null-id error with a foreign payload, and
  is represented by it.
* The reader handles every line that has arrived without a turn of the loop
  between them. `DroidClient` and `SessionSettings`, where the order of a
  listener and a caller matters, read in chunks; a caller that is answered runs
  after the chunk. In `DroidClient` a chunk is one step; in `SessionSettings`,
  whose listener changes what callers then read, each message of it is one, and
  nobody else runs before its last. Spawning a process takes many turns of the loop, so whoever
  was ready before it has been resumed after it (`ConnectSpawns`, `ConnectEnds`).
* In `SessionLifecycle` a successor is not replaced in its turn; the tool
  servers of a session are started and closed as one; an error in one step of
  `_close_impl()` does not keep it from the later ones, as in the
  code; the close task of a session resumes before the caller of its
  replacement, the order in which they registered with the replacement task.
* `SessionSettings` has one field of each sort: a plain one, one that an explicit
  null clears, the tool restriction, and the prompt, which is fixed. Requests of
  one connection are taken and answered in order.
* `TurnTracker`: text is a sequence of fragments, `"status"` stands for every
  notification that becomes one event which only a stream of partial events
  shows, `"unconverted"` for every one that becomes none.
* `Attachments`: a file is a sequence of blocks, `Limit` of them allowed; the
  clock that stamps changes may stand still between two writes.

## 3. Runs

Deadlock is not checked: every program may stop (no more calls, a closed
session, a file that was read).

| run | instance | states | result |
|---|---|---|---|
| `engine_calls` | 3 calls with ids of their own, 1 closer | 244 310 | holds |
| `engine_close` | 1 call, 1 request of the process, 2 closers | 45 980 | holds |
| `transport_life` | 2 tasks, 4 calls, 2 processes | 116 994 | holds |
| `client_life` | 2 tasks, 5 calls, 4 methods | 408 132 | holds |
| `stream_turns` | 2 streams, the first with a timeout, 2 and 1 events | 7 101 664 | holds |
| `stream_liveness` | 1 stream with a timeout, 1 event | 79 560 | holds |
| `session_life` | 2 callers, 3 calls each | 388 172 | holds |
| `server_life` | 2 callers, 3 calls each, 6 tasks | 475 240 | holds |
| `parts` | see below | 5 322 695 | holds |
| `session_stuck`, `session_undone`, `receive_lost` | 1 task, 2 calls (4 for the last) | | violated, section 5 |

The type invariants (`TypeOK` of a module, `...TypeOK` in the parts) are not
among the runs' properties. Those of the six modules that have a run of their
own and that of `SessionSettings` are theorems, those of the other parts hold on the
instance of the run when they are added to its `INVARIANTS`.

**engine_calls.** `EntriesExact`: the entries of `_pending_requests` are exactly
the calls that can still be answered, on every way out of a call. `OwnResponse`:
a call returns the answer to its own request. `BrokenRejectsAll`: when the
transport has failed no running call is left with an open Future.
`ImplementsRpcCalls`: seen from outside, calls, timers, reader and close are the
few steps of `RpcCalls`. Three calls give one in each of sending, waiting and
done while the transport breaks; with equal treatment of calls (the ids are
symmetric) a fourth meets no other situation.

**engine_close.** `ClosedIsQuiet`, `AtMostOneReply`, `CloseEnds`,
`BrokenCallsReturn` (without any timer) and `CallsReturn` (with timers, and only
if the process reads its stdin: `transport.send()` is
outside the timeout). Two closers are needed for a close that meets another.
That every request of the process is answered is not claimed: a handler whose
result `json.dumps()` refuses leaves it without an answer (section 5).

**transport_life.** `NoOrphan`, `DeathIsReported`, `ClosesEnd`,
`SendersReleased`. Two tasks are enough for each pair of operations to overlap,
two processes for what one leaves to the next; the fourth call lets a task come
back after an overlap. `overlap` marks behaviours in which a `connect()`
overlapped another, a close or a reader, or in which a reader left over from an
earlier process reported an exit while the present one runs. `NoOrphan` excludes
overlapping connects (the README of the SDK has one owner connect) and that late
report: it marks the transport as gone, and the next `connect()` overwrites the
handle of a process that runs. With two processes the latter does not happen; it
takes three, and an invariant that would not become inductive gave it away
(section 5). `DeathIsReported` excludes every overlap.

**client_life.** `ClosedLeavesNothing`, `SessionIsLoaded`, `TurnIsReceived`. Five
calls are: connect, two that overlap, and two for what follows. The four methods
are one that sets the session id, one that takes it away, one that starts a turn,
one that needs no session. Any of them may refuse its arguments or the result it
gets, if `Methods` says that its body checks them. The other methods differ in
which of these checks they make, and change nothing of the client. `lapse` marks
what the properties exclude, and why is said at each.

**stream_turns.** `OneAttached`, `TurnAttended`, `InterruptsOwnTurn`,
`ResultIsOwn`, `NothingMissed`. Two streams show what one
turn leaves to the next; a third follows the second as the second the first.
Two events of the first turn are enough for one to be handed out, queued, lost
or late beside another, and for their order to be wrong; one of the second is
enough to come before or after what the first has left.
`Liberties` names what may happen besides the ordinary loop. This run has
`"close_session"` and `"lose_link"`; handlers that fail and malformed messages,
which multiply the states and bring no new order, are in `stream_liveness`, and
the theorems about streams hold with them. One is in no run of two streams,
since it violates `OneAttached`: `"start_released"`, a program that iterates a
stream it had given up before it was started.

The next stream may be made as soon as `finish()` has cleared `_active_stream`
(`session.py:702`), when the task that interrupts the turn has not run yet; its
message may then be written first. A consumer that waits for its own release
comes too late for that, because the task was scheduled before it is resumed
(`LeaveRelease`); one that is cancelled a second time meanwhile does not
(`CancelAgain`), nor does another task. The history variable `overtaken` records which
interrupts a message was written before, and `InterruptsOwnTurn` says that a
turn which is held is ended by its own interrupt or one of those: nothing else
brings them out of order, neither the wait of a sender nor a closed stream. What
a program that does overtake gets is in section 5 (`HeldTurnsGoOn`).

**stream_liveness.** `TimedStreamsEnd` needs no help from the process.
`WaitsEnd` says what a stream without a timeout relies on. `SessionFreed`.

**session_life.** `WaitersCounted`, `OwnerExists` (of the process, of the tool
servers, and with one usable session at most), `ClosedForGood`, `CallersReturn`,
`ClosesTakeEffect`, and `ImplementsOwnership`: the process on its own and the
tool servers on their own pass from holder to holder as `Ownership` has it.
Three calls of two callers give every pair of operations with a third that finds
what they left. The history variable `lapses` marks the cancellations that the
code does not protect:

* `"undone"`: the caller of a replacement that was made takes it back
  (`session_undone`, section 5);
* `"cut"`: the close that follows a failed rollback is cancelled in its turn;
* `"dropped"`: a successor is detached while it is being closed. The detach
  empties `_sdk_servers` (`session.py:900`) before `_close_impl()` comes to the
  gather that would close them (`session.py:584`), so they stay up.

The properties say nothing of what the lapse took away: after `"dropped"` they
still hold the process to its owner, but not the tool servers. A source that was
restored while its close task ran gets a second one from the next `close()`
(`session.py:521`); the second finds the client closed (`client.py:284`) and may
return while the first is still ending the process, so `ClosedForGood` has the
process down or being ended then.

**server_life.** `NoStrayServer` (with one server at most), `ClosedIsStopped`,
`CallersReturn`. Six tasks are one for each call. A start that was abandoned may
make two for one call, so the bound cuts the last call of some behaviours in
which that happened; what a start or a close leaves to the next is seen in the
calls before.

**parts.** Each behaviour is about one of six subjects; the others stand still in
one initial state, so the number of states is a sum.

| subject | instance | property |
|---|---|---|
| settings | 2 tasks, 3 changes or replacements | `SettingsConverge`: when nothing is on its way the copy shows what is in force, unless one of the four things named in `untrue` happened; `RestrictionKept`: the tool restriction set last is in force in every successor and in the source restored |
| turn | up to 3 notifications of every kind, then the completion; the three outputs | `ResultTellsTurn`: the result against a definition of it from the whole sequence |
| interactions | 2 requests at once, up to 2 answers | `ReplySafe` |
| attachments | files of up to 3 blocks, of which 2 are allowed; 3 writes or renames | `ReadIsSnapshot` |
| saved sessions | 2 ids in 2 directories, 2 changes | `ListingSound` |
| one shot | 3 cancellations | `NothingLeft` |

Three notifications make every pair with one between them; three blocks are one
past the limit; two directories with the same id are what merging is about;
a third cancellation finds nothing left to cut.

### Fairness

`LoopFairness` in each module is weak fairness of what the event loop runs by
itself: a task whose await is done is resumed. It contains no step of the
process and no timer, with four exceptions that the code bounds:
in `SessionLifecycle` the end of a process that is killed and the limits of the
tool servers; in `SdkMcpServer` the waits for uvicorn, each with a limit; the
waits of `ProcessTransport` for an exit (five and two seconds); and the steps of
`connect()` and `close()` in `DroidClient`. A task of `SessionLifecycle` that
waits for an RPC is not among them: the timer of the RPC runs only once its
request has been written (`protocol.py:272`), and a process that does not read
its stdin may keep it from that. Of the operating system it is assumed that a
killed process ends and that a write to one that has ended fails. A program's
own steps, its cancellations and its calls are never fair.

Everything else is an assumption a property states in front of `=>`:
`TimerFairness` (a `wait_for()` has a timer), `SendFairness` (the process reads
its stdin, or the send fails: of the engine's `CallsReturn`, and of
`CallersReturn` and `ClosesTakeEffect` of the sessions), `ClockFairness` (time passes a deadline),
`ProcessFairness` (the process takes its requests and ends its turns),
`EngineFairness` (a call on a broken engine fails), `PipeFairness` (nobody keeps
the pipes of a process that has ended: without it `DeathIsReported` fails, since
`read_messages()` waits for stderr without a limit).

## 4. Proofs

Each theorem holds for every value of the constants that its module's named
`ASSUME` allows: any number of calls, tasks, callers, streams, processes and
events. The bounds (`MaxCalls`, `MaxSpawns`, ...) are arbitrary natural numbers
there. What is assumed beyond types: the callers of `SessionLifecycle` and
`SdkMcpServer` are finitely many, since waiters are counted; so are the saved
sessions, which are sorted, and the tools whose names a result carries.

Every module's proof has the same plan: the type invariant action by action; an
inductive invariant of named parts, with a lemma for each part (and, where a part
is large, for each kind of step); the property from the invariant. The
inductive invariants hold on the instances of the runs too, as TLC confirms when
they are named as invariants there.

| theorem | states | argument |
|---|---|---|
| **`ProtocolEngineProofs`** | | |
| `TypeCorrect` | `TypeOK` | action by action |
| `EntriesAreExact` | `EntriesExact` | `CallInv` |
| `TransportErrorRejectsAll` | `BrokenRejectsAll` | `CallInv` |
| `ResponsesAreOwn` | `OwnResponse` | `CallInv` |
| `SettledFuturesStay` | `SettledStays`: nothing that comes late changes what a call was given | `IdleHasNoFuture`, `FutureSteps`; needs no distinct ids |
| `ClosedEngineIsQuiet` | `ClosedIsQuiet` | `CloseInv` with `EntriesAreExact` |
| `OneReplyAtMost` | `AtMostOneReply` | `RepliesCounted` |
| `EngineImplementsRpcCalls` | `ImplementsRpcCalls` | `LinkInv`, `CallInv`, `CloseInv`; one lemma per kind of step |
| **`ProcessTransportProofs`** | | |
| `TransportTypeCorrect` | `TypeOK` | action by action |
| `TransportLeavesNoOrphan` | `NoOrphan` | `OrphanInv` |
| **`DroidClientProofs`** | | |
| `ClientTypeCorrect` | `TypeOK` | `TypeInv` |
| `ClientClosedLeavesNothing` | `ClosedLeavesNothing` | `ClosedInv` |
| `ClientSessionIsLoaded` | `SessionIsLoaded` | `ClosedInv`, `LinkInv`, `SessionInv` |
| **`RunStreamProofs`** | | |
| `Invariance` | `Inv` | one lemma per part and kind of step |
| `StreamTypeCorrect` | `TypeOK` | action by action |
| `StreamResultIsOwn` | `ResultIsOwn` | `MessageInv`, `ResultInv` |
| `StreamOneAttached` | `OneAttached`, without `"start_released"` | `HoldInv`, `PartedInv`, `AttachedInv` |
| `StreamTurnAttended` | `TurnAttended`, without `"start_released"` | `BehindInv`, `AttendedInv` |
| `StreamInterruptsOwnTurn` | the action property `InterruptsOwnTurn` | `OrderInv` |
| `StreamNothingMissed` | `NothingMissed` | `EventsInv` |
| **`SessionLifecycleProofs`** | | |
| `SessionTypeCorrect` | `TypeOK` | `TypeInv` |
| `SessionWaitersCounted` | `WaitersCounted` | `TypeInv`; sets of callers and their cardinality |
| `SessionOwnerExists` | `OwnerExists` | `ControlInv`, `OwnedInv`, `ServedInv` |
| `SessionClosedForGood` | `ClosedForGood` | `ControlInv`, `OwnedInv`, `ServedInv` |
| `SessionImplementsOwnership` | `ImplementsOwnership` | the invariants before and after a step say who the holder is (`HolderKnown`); one lemma per group of actions |
| **`SdkMcpServerProofs`** | | |
| `ServerTypeCorrect` | `TypeOK` | `TypeInv` |
| `ServerNoStray` | `NoStrayServer` | `LineInv` |
| `ServerClosedIsStopped` | `ClosedIsStopped` | `LineInv`, `SinceClosing` |
| **`SessionSettingsProofs`** | | |
| `SettingsTypeCorrect` | `SettingsTypeOK` | action by action |
| `CallsCorrect` | `CallsInv`: calls are taken, answered and resumed in the order they were made | `NumberInv`, `OrderInv`, `PhaseInv`, `WaitInv` |
| `SettingsTrue` | `SettingsConverge` | `CallsInv`, `SettledInv` |
| `RestrictionStays` | `RestrictionKept` | `CallsInv`, `KeptInv` |
| **`PartsProofs`** | | |
| `AttachmentIsSnapshot` | `ReadIsSnapshot` | `AttachmentInv` |
| `OneShotLeavesNothing` | `NothingLeft` | `OneShotInv` |
| `ListingIsSound` | `ListingSound` | `SavedInv`; `NewestFirst`: what is cut off the end of a list is as old as all before |
| `ResultIsOfTurn` | `ResultTellsTurn` | `TrackerInv`; what one more notification does to the first, the last and the chosen places of a sequence |
| `RepliesAreSafe` | `ReplySafe` | `AskInv`; `AnswersInjective`: as many indices as answers means no index twice |

Hypotheses of theorems. Those of `ProtocolEngineProofs` that need every call to
have an id of its own (`uuid4()` makes it so, a caller that passes `request_id`
may break it) say `DistinctIds`. Two of `RunStreamProofs` exclude the
liberty that section 3 shows to violate the property; the others need no such
hypothesis. Properties that exclude behaviours by a history variable
(`lapse`, `lapses`, `overlap`, `untold`, `untrue`) exclude the same in their theorem.

Why the invariants are needed:

* `CallInv`: none of the three invariants about calls is inductive alone: that a
  Future which is not settled still has its entry follows only if entries are
  exact, and that a rejected connection leaves no open Future follows only if
  open Futures have entries, as `_reject_all_pending()` goes through the entries.
  `CloseInv` says what a `close()` has already done at each of its awaits, which
  is what another `close()`, a late server request or a last response must not
  undo; it holds because the reader has stopped before the tasks are collected,
  so none is scheduled afterwards. `LinkInv` adds that an interrupted call has no
  open Future and that a failed engine has no reader, which the refinement
  mapping reads.
* `OrphanInv`: `connect()` writes over whatever `_process` holds, so no process
  is orphaned only if a running one is visible in `_is_connected`
  (`RunningIsConnected`), and that survives an await of `connect()` only if no
  other is under way (`OneConnects`).
* `ClosedInv` of the client: the same of its transport, and that while a closed
  client's process runs some `close()` has not come to the transport yet.
* `SessionInv` of the client: the session id is set by the callers, in whatever
  order they are resumed, and the session by the process, in the order of its
  stdin. They agree because both pipes and the loop keep the order of the calls
  (`InOrder`, `OlderFirst`), and every answer has its caller (`Accompanied`): the
  session is that of the last change taken, and when its caller has heard of it
  so has everybody before.
* `Inv` of the stream: who holds the session is a relation between `active`, the
  consumer's await and how far the release is (`HoldInv`, `PartedInv`). That an
  interrupt hits its own turn is a matter of order in stdin (`OrderInv`): an
  interrupt that a message did not overtake is in stdin before it, behind the
  message it is meant for, or has been read. That a
  turn given up has an interrupt on its way needs it to be behind the message it
  is meant for (`BehindInv`), or the process would ignore it.
* `EventsInv` of the stream: that a consumer has missed nothing is known only when
  its loop ends; until then, as long as it listens, the events in its hands and in
  its queue and those still in the pipe make up the turn without a gap
  (`Joined`), and once the end of the turn has been read the first two do
  (`Whole`). After a deadline or a close nothing more is claimed: without a result
  the loop does not stop by itself.
* `ControlInv` of the session holds whatever is cancelled when: which values of
  the shared tasks and the states go together, when a second close task of the
  source exists, and that one caller at most has a replacement in hand. `OwnedInv`
  says who has the process for each of them, until `"undone"` or `"cut"` strikes;
  `ServedInv` the same of the tool servers, until any lapse does. The refinement
  of `Ownership` reads all three: that a source has a client as long as it is
  being replaced makes the hand-over one step, and that a successor which a
  cancelled caller detaches is already being closed keeps its process from being
  leaked, though not its servers.
* `LineInv` of the server: the tasks form a line, in which a start waits for the
  close before it and a close for the start before it (`InLine`), and the state
  knows its end (`TailKnown`); so a start finds no runtime and a close ends the
  one it was made for. `SinceClosing` says what a `close()` that no start has
  overtaken can rely on at each of its awaits.
* `SettledInv` of the settings: the copy is right only when nothing is on its way,
  which says nothing of the step before. The invariant says what the messages on
  their way will make of each field: the last of them that sets it sets it to what
  is in force, or none does and it is so already (`Settles`). It survives since
  answers keep the order of the calls (`OrderInv`) and a task that is answered
  still wants what it asked for (`WaitInv`); a message that is handled out of this
  order is what the history variable `untrue` records. `KeptInv` is the same of
  the restriction the session remembers.
* `SavedInv`: a file that stays is at any time still to be looked at, among the
  candidates, or accounted for in what was found (`SettledFiles`); once it has
  been read the entry of its session can only become newer.
* `TrackerInv` says of every field of the tracker what it is of the sequence seen
  so far: its last text, object or usage, its first error, the calls announced.
  The result then follows from the completion alone.
* `AttachmentInv`: what has been read is a prefix of the file as long as size
  and time are those seen at the opening; a write in a later tick changes the
  time for good.

What failing proofs showed: that `NoOrphan` did not exclude the late report of
section 3; and that in `ReplySafe` an implication had swallowed the conjuncts
before it, so that an answer which was not cancelled was not held to the
questions asked. Both are mended.

Every invariant and every action property that a passing run checks is a theorem,
and so are the two refinements; both are also checked by a run.
Out of the prover's reach, and only model-checked, is every property under
fairness: `CloseEnds`, `CallsReturn`, `BrokenCallsReturn`,
`DeathIsReported`, `ClosesEnd`, `SendersReleased`, `TurnIsReceived`,
`TimedStreamsEnd`, `WaitsEnd`, `SessionFreed`, `ClosesTakeEffect`, and
`CallersReturn` of the sessions and of the servers.

## 5. Disagreements found

Each of these is a run that TLC must find violated; the quotes and lines are in
`PROJECT.json`.

| run | what the code does |
|---|---|
| `session_stuck` | an opening that fails and whose last waiter is cancelled while the tool servers are being closed (a bare `gather`, `session.py:459`) leaves the session `OPENING`; every later `open()` raises `CancelledError` |
| `session_undone` | the caller of `fork()` cancelled between the end of the replacement and its own resumption restores a source whose client has been taken (`session.py:846`): `OPEN`, unusable, and the process is left running |
| `receive_lost` | `receive_response()` after `add_user_message()`, as its docstring and `query()` have it, subscribes when the turn may be over (`client.py:1824`), and then never ends |

These are definitions of the modules without a run of their own; added to the
run named, TLC violates each:

| definition | add it to | what the code does |
|---|---|---|
| `ReaderSurvivesMessages` | `EngineCalls.cfg` | an error with a null id that is not an object breaks the connection (`protocol.py:510`), where the comment says "log but don't crash" (`protocol.py:505`) |
| `HeldTurnsGoOn` | `StreamTurns.cfg` | the interrupt of a stream that was closed is a task of its own, and `interrupt_session()` names no turn: the next stream, made before that task runs (`session.py:755`, `session.py:702`), is interrupted instead; the SDK's README, line 55: "performs a best-effort interrupt and detaches subscriptions", of the turn that is left |
| `ResultStays` | `StreamTurns.cfg` | a result the consumer was given is taken back if the deadline passes before it asks for the end (`streaming.py:963`); the SDK's README, line 67: "cached after completion" |
| `EventsAreOwn` | `StreamTurns.cfg` | events of a turn that was given up become events of the next stream (`streaming.py:374`); `streaming.py:317`: "retain one turn's result state" |
| `AbandonedIsClosed` | `ServerLife.cfg` | the last cancelled waiter of a start does not see that it is the last while a waiter of an earlier start is still counted (`mcp.py:359`); `mcp.py:357`: "The last cancelled waiter tears down whatever the start produced" |
| `PromptStays` | `Parts.cfg` | the first `update_settings()` drops `system_prompt` from the copy that `session.settings` shows (`_session_operations.py:183`); the SDK's README, line 205: "fixed at creation and persists" |

Others, found while reading or with a model but not claimed by any document: a
consumer without a timeout waits for ever if another task closes its stream or
the session; a turn whose `add_user_message()` failed is not interrupted; the
last waiter of an opening, cancelled late, closes a session that another `open()`
has returned; a second cancellation during the close that follows a failed
rollback leaves the process running, as does a cancellation of `query()` while it
closes (`client.py:287`); a stdout that is closed by a living process ends the
reader without an error (`transport.py:281`); a change of the settings read
behind an answer in the same chunk is overwritten or missed
(`_session_operations.py:177`, `session.py:985`); a reader left over from an
earlier process, which wakes when a new one is connected, sets `_is_connected` to
false and reports the new process as gone (`transport.py:292`), and the next
`connect()` replaces the handle without ending it (`transport.py:131`); the error of an interaction
handler goes to the stream that listens now, whichever turn asked; a handler
whose result `json.dumps()` refuses, or that raises `CancelledError`, leaves the
process without an answer (`protocol.py:716`); the tool servers of a successor
that is detached while it is being closed stay up (`session.py:900`, before
`session.py:584`); the second close of a restored session may return before the
first has ended the process (`session.py:521`, `client.py:284`).

## 6. Not modelled

| part | why |
|---|---|
| `stream.py`, `types.py` | a renaming of notification fields to message classes, without state |
| `observability.py` | no control depends on it |
| `errors.py`, `enums.py`, package modules | declarations |
| `schemas/` apart from the notifications, confirmations, questions and enumerations the models tell apart | declarations of data that no model reads |
| `_immutable.py`, `extensions.py`, `_attribution.py`, most of `_convert.py`, `config.py` and `messages.py` | validation and renaming of data |
| the HTTP endpoint and the tools of `mcp.py`, uvicorn, the droid process | external; modelled by what the code sees of them |

## 7. Plan

Done: `ProtocolEngine` over `RpcCalls`, `ProcessTransport`, `DroidClient`,
`RunStream`, `TurnTracker`, `SessionLifecycle` over `Ownership`,
`SessionSettings`, `Interactions`, `SdkMcpServer`, `OneShot`, `Attachments`,
`SavedSessions`. Proved: section 4.

What a further step could take up: an abstract specification of a turn (begun,
running, told, interrupted) implemented by `RunStream`; its invariant has the
order of messages the mapping needs.
