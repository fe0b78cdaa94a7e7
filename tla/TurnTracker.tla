----------------------------- MODULE TurnTracker -----------------------------
(***************************************************************************)
(* StreamStateTracker: what a stream makes of the notifications of its      *)
(* turn, the events it queues and the result.  The tracker sees any         *)
(* sequence of notifications and then a completion.  Text is a sequence of  *)
(* fragments, of which one alone may be a JSON object, that fits the model  *)
(* of the requested output or does not.                                     *)
(***************************************************************************)
EXTENDS Naturals, Sequences, FiniteSets

CONSTANTS ToolIds,            \* ids of tool calls
          MaxNotifications    \* bound on the notifications before the completion

ASSUME TrackerAssumption == MaxNotifications \in Nat /\ IsFiniteSet(ToolIds)

None   == "none"
Objects == {"fits", "unfit"}              \* JSON objects
Fragments == {"words"} \cup Objects

\* The output the stream was made for: none, a JSON schema, a model.
Adapters == {"none", "schema", "model"}

\* session_notification payloads that the tracker tells apart.  "status" stands for
\* those that become one event that only a stream of partial events shows, and
\* "unconverted" for those that become none.
MessageNotifications ==
       [kind : {"create_message"}, role : {"assistant"}, tools : SUBSET ToolIds,
        text : {<<>>} \cup {<<f>> : f \in Fragments}]
  \cup [kind : {"create_message"}, role : {"user", "system"}, tools : {{}}, text : {<<"words">>}]
ToolNotifications == [kind : {"tool_call", "tool_result"}, id : ToolIds]
TextNotifications ==
       [kind : {"assistant_text_delta"}, text : Fragments]
  \cup [kind : {"structured_output"}, value : Objects \cup {None}]
  \cup [kind : {"session_token_usage_changed"}, usage : {1, 2}]
ErrorNotifications  == [kind : {"error"}, id : {1, 2}]
StatusNotifications == [kind : {"status"}]
HookNotifications   == [kind : {"hook_execution"}, commands : 0..2]
SilentNotifications == [kind : {"unconverted"}]
Notifications ==
  MessageNotifications \cup ToolNotifications \cup TextNotifications \cup ErrorNotifications
    \cup StatusNotifications \cup HookNotifications \cup SilentNotifications

Reasons == {"completed", "spec_handoff", "cancelled", "permission_rejected", "error",
            "structured_output_invalid"}
Completions ==
       [kind : {"agent_turn_completed"}, turn : {"own"}, reason : Reasons, usage : {0, 3}]
  \cup [kind : {"agent_turn_completed"}, turn : {"other", None}, reason : {"completed"}, usage : {0}]

VARIABLES
  adapter,      \* self.output_adapter
  partial,      \* self._include_partial of the stream
  messages,     \* self._messages: events, each with the notification it is made of
  queue,        \* events the stream has queued for its consumer
  names,        \* ids in self._tool_names
  deltas,       \* self._delta_text, joined
  finalText,    \* self._final_assistant_text
  structured,   \* self._structured_output
  usage,        \* self._last_usage (0: none)
  errors,       \* self._errors
  nameless,     \* notifications of tool results that were given no name
  turn,         \* "running", "completed", or "broken" by a completion without turn id
  result,       \* the RunResult
  seen          \* notifications so far (history)

requestVars == <<adapter, partial>>
eventVars   == <<messages, queue>>
trackerVars == <<requestVars, eventVars, names, deltas, finalText, structured, usage, errors, nameless, turn,
                 result, seen>>

\* RunSuccess, RunInterrupted and RunFailure, by their subtype and error code.
Results ==
       [type : {"success", "interrupted"}, code : {None}, error : {0}]
  \cup [type : {"failure"}, error : 0..2,
        code : {None, "structured_output_invalid", "local_validation_failed", "local_output_missing"}]

NoResult == [type |-> None]

TrackerTypeOK ==
  /\ adapter \in Adapters /\ partial \in BOOLEAN
  /\ \A i \in DOMAIN queue : queue[i][2] \in DOMAIN seen
  /\ names \subseteq ToolIds /\ nameless \subseteq DOMAIN seen
  /\ \A i \in DOMAIN deltas : deltas[i] \in Fragments
  /\ \A i \in DOMAIN finalText : finalText[i] \in Fragments
  /\ structured \in Objects \cup {None}
  /\ usage \in 0..2
  /\ turn \in {"running", "completed", "broken"}
  /\ result = NoResult \/ [f \in {"type", "code", "error"} |-> result[f]] \in Results

TrackerInit ==
  /\ adapter \in Adapters
  /\ partial \in BOOLEAN
  /\ messages = <<>> /\ queue = <<>>
  /\ names = {} /\ nameless = {} /\ usage = 0
  /\ deltas = <<>> /\ finalText = <<>> /\ errors = <<>> /\ seen = <<>>
  /\ structured = None
  /\ turn = "running" /\ result = NoResult

-----------------------------------------------------------------------------
(* process(): _convert() and _track() *)

\* A message: its tool calls, then what its role makes of it.
MessageEvents(n) ==
  [i \in 1..Cardinality(n.tools) |-> "ToolCall"]
    \o (CASE n.role = "assistant" -> <<"AssistantMessage">>
          [] n.role = "user" -> <<"UserMessage">>
          [] OTHER -> <<>>)

HookEvents(n) == [i \in 1..n.commands |-> "HookExecution"]

\* The events that a notification becomes.
Events(n) ==
  CASE n.kind = "create_message" -> MessageEvents(n)
    [] n.kind = "hook_execution" -> HookEvents(n)
    [] n.kind = "tool_result" -> <<"ToolResult">>
    [] n.kind = "error" -> <<"ErrorEvent">>
    [] n.kind \in {"structured_output", "unconverted"} -> <<>>
    [] OTHER -> <<"Partial">>

\* Events kept for the result, and events shown without include_partial.
Kept  == {"UserMessage", "AssistantMessage", "ToolCall", "ToolResult", "HookExecution", "ErrorEvent"}
Shown == {"UserMessage", "AssistantMessage", "ToolCall", "ToolResult", "HookExecution", "ErrorEvent"}

\* Numbered with the notification they are made of, the next one.
Numbered(events) == [i \in DOMAIN events |-> <<events[i], Len(seen) + 1>>]

\* The events of a notification that are of some kinds: all, or it has one that is not.
Those(events, kinds) == IF \A i \in DOMAIN events : events[i] \in kinds THEN events ELSE <<>>

Queue(n) ==
  /\ messages' = messages \o Numbered(Those(Events(n), Kept))
  /\ queue' = queue \o Numbered(IF partial THEN Events(n) ELSE Those(Events(n), Shown))

Named(n) == CASE n.kind = "create_message" -> n.tools
              [] n.kind = "tool_call" -> {n.id}
              [] OTHER -> {}

\* Fault: an object that replaces another is ignored.
FaultStructured(n) ==
  structured' = IF n.kind = "structured_output" /\ structured = None THEN n.value ELSE structured

Structured(n) == structured' = IF n.kind = "structured_output" THEN n.value ELSE structured

Track(n) ==
  /\ turn = "running" /\ Len(seen) < MaxNotifications
  /\ names' = names \cup Named(n)
  /\ nameless' = IF n.kind = "tool_result" /\ n.id \notin names
                  THEN nameless \cup {Len(seen) + 1} ELSE nameless
  /\ deltas' = IF n.kind = "assistant_text_delta" THEN Append(deltas, n.text) ELSE deltas
  /\ finalText' = IF n.kind = "create_message" /\ n.role = "assistant" THEN n.text ELSE finalText
  /\ usage' = IF n.kind = "session_token_usage_changed" THEN n.usage ELSE usage
  /\ errors' = IF n.kind = "error" THEN Append(errors, n.id) ELSE errors
  /\ Structured(n)
  /\ Queue(n)
  /\ seen' = Append(seen, n)
  /\ UNCHANGED <<requestVars, turn, result>>

\* A stream's handlers may add an error of their own: queue_error_event().
QueueError == Track([kind |-> "error", id |-> 2])

-----------------------------------------------------------------------------
(* _complete() *)

\* _parse_structured_output(): the text is one JSON object.
Parsed(text) == IF Len(text) = 1 /\ text[1] \in Objects THEN text[1] ELSE None

\* OutputAdapter.adapt(): the output it finds in raw, and whether validation failed.
Output(raw) ==
  IF adapter = "none" \/ raw = None \/ (adapter = "model" /\ raw # "fits") THEN None ELSE raw

Invalid(raw) == adapter = "model" /\ raw # "fits"

Text == IF finalText = <<>> THEN deltas ELSE finalText

\* Text is looked at when a stream has an adapter, and a session's always has.
Raw == IF structured = None THEN Parsed(Text) ELSE structured

\* Success needs the output that was asked for; validation of nothing fails too.
Outcome(reason) ==
  CASE reason \in {"completed", "spec_handoff"} ->
         IF adapter = "none" \/ Output(Raw) # None
           THEN [type |-> "success", code |-> None, error |-> 0]
           ELSE [type |-> "failure", error |-> 0,
                 code |-> IF Invalid(Raw) THEN "local_validation_failed" ELSE "local_output_missing"]
    [] reason \in {"cancelled", "permission_rejected"} ->
         [type |-> "interrupted", code |-> None, error |-> 0]
    [] OTHER ->
         [type |-> "failure", error |-> IF errors = <<>> THEN 0 ELSE errors[1],
          code |-> IF reason = "structured_output_invalid" THEN reason ELSE None]

Result(n) ==
  LET outcome == Outcome(n.reason) IN
  [type |-> outcome.type, code |-> outcome.code, error |-> outcome.error,
   text |-> Text, messages |-> messages, output |-> Output(Raw), raw |-> Raw,
   usage |-> IF n.usage = 0 THEN usage ELSE n.usage]

\* A completion of another turn is dropped; one that names none breaks the stream.
Complete(n) ==
  /\ turn = "running"
  /\ n.turn # "other"
  /\ IF n.turn = "own" THEN turn' = "completed" /\ result' = Result(n)
                       ELSE turn' = "broken" /\ UNCHANGED result
  /\ seen' = Append(seen, n)
  /\ UNCHANGED <<requestVars, eventVars, names, deltas, finalText, structured, usage, errors, nameless>>

TrackerNext ==
  \/ \E n \in Notifications : Track(n)
  \/ QueueError
  \/ \E n \in Completions : Complete(n)

TrackerSpec == TrackerInit /\ [][TrackerNext]_trackerVars

-----------------------------------------------------------------------------
\* Where the notifications of a kind are, and what the last of them says.
Places(kind) == {i \in DOMAIN seen : seen[i].kind = kind}
Earliest(places) == CHOOSE i \in places : \A k \in places : i <= k
Latest(places) == CHOOSE i \in places : \A k \in places : k <= i

Said == {i \in Places("create_message") : seen[i].role = "assistant"}

LastText   == IF Said = {} THEN <<>> ELSE seen[Latest(Said)].text
LastObject == IF Places("structured_output") = {} THEN None
              ELSE seen[Latest(Places("structured_output"))].value
LastUsage  == IF Places("session_token_usage_changed") = {} THEN 0
              ELSE seen[Latest(Places("session_token_usage_changed"))].usage

\* A list has what `all' has at these places, in that order.
Picks(list, places, all) ==
  /\ Len(list) = Cardinality(places)
  /\ \A i \in places : list[Cardinality({k \in places : k <= i})] = all[i]

\* What the turn said: its last message or, if that has none, all the deltas.
TellsText(text) ==
  LET deltaPlaces == Places("assistant_text_delta")
  IN IF LastText # <<>> THEN text = LastText
     ELSE Picks(text, deltaPlaces, [i \in deltaPlaces |-> seen[i].text])

\* The object that was sent last or else that the text is.
ObjectOf(text) ==
  IF LastObject = None /\ Len(text) = 1 /\ text[1] \in Objects THEN text[1] ELSE LastObject

Announces(n, id) ==
  \/ n.kind = "tool_call" /\ n.id = id
  \/ n.kind = "create_message" /\ id \in n.tools

\* Tool results whose call was not announced before them, in either of its forms.
NamelessInOrder ==
  {i \in DOMAIN seen : /\ seen[i].kind = "tool_result"
                       /\ \A k \in 1..(i - 1) : ~Announces(seen[k], seen[i].id)}

\* The result is that of the whole turn, whatever came in which order: the messages
\* that were shown, what was said last, the usage that was reported last, the error
\* that came first, the name of its call in every tool result that has one; and a
\* success has the output that was asked for, valid where a model was given.
ResultTellsTurn ==
  turn = "completed" =>
    LET last == seen[Len(seen)]
        object == ObjectOf(result.text)
    IN
      /\ nameless = NamelessInOrder
      /\ Picks(result.messages, {i \in DOMAIN queue : queue[i][1] # "Partial"}, queue)
      /\ TellsText(result.text)
      /\ result.usage = IF last.usage # 0 THEN last.usage ELSE LastUsage
      /\ result.output # None => result.output = object
      /\ result.type = "success" <=>
           /\ last.reason \in {"completed", "spec_handoff"}
           /\ adapter = "none" \/ (object # None /\ (adapter = "model" => object = "fits"))
      /\ last.reason = "error" /\ Places("error") # {} => result.error = seen[Earliest(Places("error"))].id
=============================================================================
