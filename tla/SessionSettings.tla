--------------------------- MODULE SessionSettings ---------------------------
(***************************************************************************)
(* The settings of a session: the copy that Session.settings shows and the *)
(* tool restriction it carries over, against the settings in force in the  *)
(* process.  Tasks call update_settings() while the process changes them    *)
(* by itself, other operations run and the session is opened or replaced.   *)
(* Messages are read in chunks: a listener runs at once, for each message;  *)
(* a caller that is answered runs after the chunk, in the order of the      *)
(* answers, and before the next chunk.  Writes do not block.                *)
(***************************************************************************)
EXTENDS Naturals, Sequences, TLC

CONSTANTS Updaters,     \* tasks that call update_settings()
          Changes,      \* changes they ask for, or the process makes
          Ops,          \* other operations they call
          MaxChanges    \* bound on changes and replacements

Null == "null"

\* Operations of a session that change none of its settings, with the call of the client
\* that each of them is.
ToolOps  == [list_tools |-> "list_tools"]
SkillOps == [list_skills |-> "list_skills",
             enable_skill |-> "set_skill_disabled", disable_skill |-> "set_skill_disabled"]
McpOps   == [list_mcp_servers |-> "list_mcp_servers", list_mcp_tools |-> "list_mcp_tools",
             add_mcp_server |-> "add_mcp_server", remove_mcp_server |-> "remove_mcp_server",
             enable_mcp_server |-> "toggle_mcp_server", disable_mcp_server |-> "toggle_mcp_server"]
McpToolOps == [enable_mcp_tool |-> "toggle_mcp_tool", disable_mcp_tool |-> "toggle_mcp_tool"]
McpAuthOps == [op \in {"authenticate_mcp_server", "cancel_mcp_auth", "clear_mcp_auth",
                       "submit_mcp_auth_code", "submit_mcp_auth_error"} |-> op]
OtherOps == [rename |-> "rename_session", context |-> "get_context_stats",
             rewind_info |-> "get_rewind_info", interrupt |-> "interrupt_session"]
CallOf   == ToolOps @@ SkillOps @@ McpOps @@ McpToolOps @@ McpAuthOps @@ OtherOps

\* The fields told apart: a plain one, one that an explicit null clears, one that
\* the session applies again to its successor, one that is fixed.
Fields    == {"model", "spec_model", "restrict_tools", "system_prompt"}
Clearable == {"spec_model"}
Values    == {"v1", "v2", Null}
Settings  == [Fields -> Values]

Session == "session"          \* who asks when the session itself does

ASSUME SettingsAssumption ==
  /\ MaxChanges \in Nat
  /\ Session \notin Updaters
  /\ Ops \subseteq DOMAIN CallOf
  /\ \A c \in Changes : /\ DOMAIN c \subseteq Fields \ {"system_prompt"}
                        /\ \A f \in DOMAIN c : c[f] \in Values
                        /\ \A f \in DOMAIN c \ Clearable : c[f] # Null

VARIABLES
  phase,      \* what the session does: its state, and the RPC it waits for
  settings,   \* self._settings
  restrict,   \* self._load_options["restrict_tools"]
  loaded,     \* `loaded' of _load_with_policies()
  wants,      \* the change, or the call of the client, each task waits for
  call,       \* the number of its request
  droid,      \* settings in force in the process
  requests,   \* requests the process has not taken
  replies,    \* its messages, not yet read
  chunk,      \* how many of them are in the chunk that is being read
  ready,      \* answers of the last chunk whose callers have not been resumed
  changes,    \* changes and replacements so far
  untrue      \* why the copy may differ (history)

copyVars     == <<phase, settings, restrict, loaded>>
callVars     == <<wants, call>>
settingsVars == <<copyVars, callVars, droid, requests, replies, chunk, ready,
                  changes, untrue>>

Unknown == [f \in Fields |-> Null]
NoChange == [f \in {} |-> Null]
Operation(op) == [f \in {"operation"} |-> CallOf[op]]
Restriction(v) == [f \in {"restrict_tools"} |-> v]

Opening     == {"initialize", "resume"}
Restricting == {"restrict", "restrict_back"}
Replacing   == {"fork", "load", "load_back"} \cup Restricting

Asked    == Changes \cup {Restriction(v) : v \in Values \ {Null}} \cup {NoChange}
Outgoing == [from : Updaters \cup {Session}, id : 0..MaxChanges,
             method : {"update", "operation", "fork", "load"} \cup Opening, change : Asked]
Incoming == [kind : {"answer", "error", "settings_updated"}, from : Updaters \cup {Session},
             id : 0..MaxChanges, now : Settings, change : Asked, plain : BOOLEAN]

SettingsTypeOK ==
  /\ phase \in {"lazy", "open", "closed"} \cup Opening \cup Replacing
  /\ settings \in Settings /\ loaded \in Settings /\ droid \in Settings
  /\ restrict \in Values
  /\ wants \in [Updaters -> Changes \cup {Operation(op) : op \in Ops} \cup {NoChange}]
  /\ call \in [Updaters -> 0..MaxChanges]
  /\ requests \in Seq(Outgoing) /\ replies \in Seq(Incoming) /\ ready \in Seq(Incoming)
  /\ chunk \in 0..Len(replies)
  /\ changes \in 0..MaxChanges
  /\ untrue \subseteq {"gave_up", "overtaken", "missed", "snapshot"}

SettingsInit ==
  /\ phase = "lazy"
  /\ settings = Unknown /\ loaded = Unknown
  /\ restrict \in {"v1", Null}
  /\ wants = [t \in Updaters |-> NoChange] /\ call = [t \in Updaters |-> 0]
  /\ droid \in {[f \in Fields |-> IF f = "restrict_tools" THEN Null ELSE "v1"]}
  /\ requests = <<>> /\ replies = <<>> /\ chunk = 0 /\ ready = <<>>
  /\ changes = 0 /\ untrue = {}

-----------------------------------------------------------------------------
(* update_settings() *)

\* Fault: a null never changes anything.
FaultMerged(s, change) ==
  [f \in Fields |-> IF f \in DOMAIN change /\ change[f] # Null THEN change[f] ELSE s[f]]

\* merged_settings(): a null is a change of a clearable field, if it is given.
Merged(s, change) ==
  [f \in Fields |-> IF f \in DOMAIN change /\ (f \in Clearable \/ change[f] # Null)
                    THEN change[f] ELSE s[f]]

Sends(from, method, change) ==
  requests' = Append(requests, [from |-> from, id |-> IF from = Session THEN 0 ELSE changes',
                                method |-> method, change |-> change])

\* A call that passes _ensure_active().
Called(t, what) ==
  /\ phase = "open" /\ chunk = 0
  /\ call[t] = 0 /\ changes < MaxChanges
  /\ changes' = changes + 1
  /\ wants' = [wants EXCEPT ![t] = what]
  /\ call' = [call EXCEPT ![t] = changes']

UpdateBegins(t, change) ==
  /\ Called(t, change)
  /\ Sends(t, "update", change)
  /\ UNCHANGED <<copyVars, droid, replies, chunk, ready, untrue>>

OperationBegins(t, op) ==
  /\ Called(t, Operation(op))
  /\ Sends(t, "operation", NoChange)
  /\ UNCHANGED <<copyVars, droid, replies, chunk, ready, untrue>>

Ends(t) ==
  /\ wants' = [wants EXCEPT ![t] = NoChange]
  /\ call' = [call EXCEPT ![t] = 0]

\* The timer, or a cancellation: the process may have made the change, or will.
UpdateGivenUp(t) ==
  /\ call[t] # 0 /\ chunk = 0
  /\ Ends(t)
  /\ untrue' = IF wants[t] \in Changes THEN untrue \cup {"gave_up"} ELSE untrue
  /\ UNCHANGED <<copyVars, droid, requests, replies, chunk, ready, changes>>

Remembers(change) ==
  restrict' = IF "restrict_tools" \in DOMAIN change THEN change["restrict_tools"] ELSE restrict

\* The copy is rebuilt from the one of now, field by field, without the prompt.
UpdateReturns(t) ==
  /\ Remembers(wants[t])
  /\ settings' = [Merged(settings, wants[t]) EXCEPT !["system_prompt"] = Null]
  /\ UNCHANGED <<phase, loaded, requests, untrue>>

UpdateAnswered(t, m) ==
  /\ Ends(t)
  /\ IF m.kind = "answer" /\ wants[t] \in Changes
       THEN UpdateReturns(t)
       ELSE UNCHANGED <<copyVars, requests, untrue>>

-----------------------------------------------------------------------------
(* Opening and replacing *)

OpenBegins(method) ==
  /\ phase = "lazy" /\ method \in Opening /\ chunk = 0
  /\ phase' = method
  /\ restrict' = IF method = "resume" THEN Null ELSE restrict
  /\ Sends(Session, method, NoChange)
  /\ UNCHANGED <<settings, loaded, callVars, droid, replies, chunk, ready, changes, untrue>>

ReplaceBegins ==
  /\ phase = "open" /\ chunk = 0 /\ changes < MaxChanges
  /\ changes' = changes + 1
  /\ phase' = "fork"
  /\ Sends(Session, "fork", NoChange)
  /\ UNCHANGED <<settings, restrict, loaded, callVars, droid, replies, chunk, ready, untrue>>

\* The new session, the successor, or the source restored, shows settings s.
Shows(s) ==
  /\ phase' = "open" /\ settings' = s
  /\ UNCHANGED <<restrict, loaded, requests>>

ForkMade ==
  /\ phase = "fork"
  /\ phase' = "load"
  /\ Sends(Session, "load", NoChange)
  /\ UNCHANGED <<settings, restrict, loaded, untrue>>

\* Fault: the restriction is left to the process.
FaultLoads(s) ==
  /\ phase \in {"load", "load_back"}
  /\ Shows(s) /\ UNCHANGED untrue

\* load_session carries the other tool lists; the restriction takes a call of its own.
Loads(s) ==
  /\ phase \in {"load", "load_back"}
  /\ IF restrict = Null THEN Shows(s) /\ UNCHANGED untrue
     ELSE /\ phase' = IF phase = "load" THEN "restrict" ELSE "restrict_back"
          /\ loaded' = s
          /\ Sends(Session, "update", Restriction(restrict))
          /\ UNCHANGED <<settings, restrict, untrue>>

\* What is shown was loaded before the restriction was set, and before what was
\* read meanwhile.
Restricted ==
  /\ phase \in Restricting
  /\ Shows(loaded)
  /\ untrue' = IF loaded["restrict_tools"] = restrict THEN untrue ELSE untrue \cup {"snapshot"}

\* An error while the successor is loaded brings the source back; another ends it.
SessionFails ==
  /\ UNCHANGED <<settings, restrict, loaded, untrue>>
  /\ IF phase \in {"load", "restrict"}
       THEN phase' = "load_back" /\ Sends(Session, "load", NoChange)
       ELSE phase' = (IF phase = "fork" THEN "open" ELSE "closed") /\ UNCHANGED requests

SessionAnswered(m) ==
  /\ UNCHANGED callVars
  /\ \/ m.kind = "error" /\ SessionFails
     \/ m.kind = "answer" /\ phase \in Opening /\ Shows(m.now) /\ UNCHANGED untrue
     \/ m.kind = "answer" /\ (ForkMade \/ Loads(m.now) \/ Restricted)

-----------------------------------------------------------------------------
(* Reading, and resuming *)

\* What has arrived when the reader runs is one chunk, of which it reads every message.
ReadChunk ==
  /\ chunk = 0 /\ ready = <<>>
  /\ chunk' \in 1..Len(replies)
  /\ UNCHANGED <<copyVars, callVars, droid, requests, replies, ready, changes, untrue>>

\* A change read behind the answer to a caller, in one chunk, is overwritten by the
\* caller or, when it was opening or loading, missed.
Behind ==
  {IF ready[i].from = Session THEN "missed" ELSE "overtaken" :
     i \in {k \in DOMAIN ready : ready[k].kind = "answer" /\ ~ready[k].plain}}
  \cup (IF phase \in Restricting THEN {"snapshot"} ELSE {})

\* _bind_metadata.update(), bound once the session is open.
Listened(change) ==
  /\ settings' = IF phase \in Opening \cup {"closed"} THEN settings ELSE Merged(settings, change)
  /\ untrue' = untrue \cup Behind
  /\ UNCHANGED ready

\* The caller still waits for this answer.
Waited(m) == IF m.from = Session THEN TRUE ELSE call[m.from] = m.id

ReadSettings ==
  /\ chunk > 0
  /\ chunk' = chunk - 1 /\ replies' = Tail(replies)
  /\ LET m == Head(replies) IN
       IF m.kind = "settings_updated" THEN Listened(m.change)
       ELSE /\ ready' = IF Waited(m) THEN Append(ready, m) ELSE ready
            /\ UNCHANGED <<settings, untrue>>
  /\ UNCHANGED <<phase, restrict, loaded, callVars, droid, requests, changes>>

\* The caller that was answered goes on, unless it has given up meanwhile.
Resume ==
  /\ chunk = 0 /\ ready # <<>>
  /\ LET m == Head(ready) IN
       \/ ~Waited(m) /\ UNCHANGED <<copyVars, callVars, requests, untrue>>
       \/ m.from = Session /\ SessionAnswered(m)
       \/ m.from # Session /\ Waited(m) /\ UpdateAnswered(m.from, m)
  /\ ready' = Tail(ready)
  /\ UNCHANGED <<droid, replies, chunk, changes>>

-----------------------------------------------------------------------------
(* The process *)

Applied(s, change) == [f \in Fields |-> IF f \in DOMAIN change THEN change[f] ELSE s[f]]

Answer(r, s) == [kind |-> "answer", from |-> r.from, id |-> r.id, now |-> s, change |-> NoChange,
                 plain |-> r.method = "operation"]
Refusal(r)   == [kind |-> "error", from |-> r.from, id |-> r.id, now |-> Unknown,
                 change |-> NoChange, plain |-> r.method = "operation"]
Update(c)    == [kind |-> "settings_updated", from |-> Session, id |-> 0, now |-> Unknown,
                 change |-> c, plain |-> FALSE]

\* A change is made and announced, before or behind the answer, or not at all.
DroidUpdates(r) ==
  /\ r.method = "update"
  /\ droid' = Applied(droid, r.change)
  /\ \E ms \in {<<Answer(r, droid')>>, <<Answer(r, droid'), Update(r.change)>>,
                <<Update(r.change), Answer(r, droid')>>} : replies' = replies \o ms

DroidOperates(r) ==
  /\ r.method = "operation"
  /\ replies' = Append(replies, Answer(r, droid))
  /\ UNCHANGED droid

\* A session that is loaded may have lost its restriction, which belongs to the
\* connection; a new one starts with the one it was given.
DroidOpens(r) ==
  /\ r.method \notin {"update", "operation"}
  /\ droid' \in CASE r.method = "initialize" -> {[droid EXCEPT !["restrict_tools"] = restrict]}
                  [] r.method = "fork" -> {droid}
                  [] OTHER -> {droid, [droid EXCEPT !["restrict_tools"] = Null]}
  /\ replies' = Append(replies, Answer(r, droid'))

DroidRefuses(r) ==
  /\ replies' = Append(replies, Refusal(r))
  /\ UNCHANGED droid

DroidTakes ==
  /\ requests # <<>>
  /\ LET r == Head(requests) IN DroidUpdates(r) \/ DroidOperates(r) \/ DroidOpens(r) \/ DroidRefuses(r)
  /\ requests' = Tail(requests)
  /\ UNCHANGED <<copyVars, callVars, chunk, ready, changes, untrue>>

\* A slash command or a mode change in the process.
DroidChanges(change) ==
  /\ phase # "lazy" /\ changes < MaxChanges
  /\ "restrict_tools" \notin DOMAIN change
  /\ changes' = changes + 1
  /\ droid' = Applied(droid, change)
  /\ replies' = Append(replies, Update(change))
  /\ UNCHANGED <<copyVars, callVars, requests, chunk, ready, untrue>>

-----------------------------------------------------------------------------
SettingsNext ==
  \/ \E t \in Updaters : UpdateGivenUp(t) \/ \E c \in Changes : UpdateBegins(t, c)
  \/ \E t \in Updaters, op \in Ops : OperationBegins(t, op)
  \/ \E method \in Opening : OpenBegins(method)
  \/ ReplaceBegins
  \/ ReadChunk \/ ReadSettings \/ Resume
  \/ DroidTakes \/ \E c \in Changes : DroidChanges(c)

SettingsSpec == SettingsInit /\ [][SettingsNext]_settingsVars

-----------------------------------------------------------------------------
Quiet == requests = <<>> /\ replies = <<>> /\ ready = <<>>

\* When nothing is under way, session.settings shows what is in force, whoever
\* changed it and however the changes overlapped.  Not so after a call that was
\* given up, when a change was read behind an answer in the same chunk
\* (_session_operations.py:177, session.py:1016), or when the restriction was set
\* again after load_session had answered (session.py:985).
SettingsConverge ==
  phase = "open" /\ Quiet /\ untrue = {} =>
    \A f \in Fields \ {"system_prompt"} : settings[f] = droid[f]

\* The tool restriction that the program set last is in force, in every successor
\* and in the source restored, when nothing is under way.
RestrictionKept ==
  phase = "open" /\ Quiet /\ "gave_up" \notin untrue /\ restrict # Null =>
    droid["restrict_tools"] = restrict

\* README.md:205: "The prompt is fixed at creation and persists".  The copy that
\* settings shows loses it with the first update: see README, section 5.
PromptStays ==
  [][settings["system_prompt"] # Null => settings'["system_prompt"] = settings["system_prompt"]]_settingsVars
=============================================================================
