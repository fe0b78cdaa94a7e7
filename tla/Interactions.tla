---------------------------- MODULE Interactions ----------------------------
(***************************************************************************)
(* InteractionDispatcher: requests of the process for a permission or for   *)
(* answers, each handled by a task of its own while turns come and go.  A  *)
(* handler of the program may return anything, and may take longer than    *)
(* the turn that asked.  Options, actions and questions are small sets of  *)
(* names; labels, comments and the contents of actions are left out.       *)
(***************************************************************************)
EXTENDS Naturals, Sequences, FiniteSets, SequencesExt

CONSTANTS Asks,        \* requests of the process
          MaxAnswers   \* bound on the answers a handler gives

ASSUME InteractionAssumption == MaxAnswers \in Nat

Raised  == [raised |-> TRUE]

\* Outcomes of a confirmation: "cancel" may or may not be among those offered.
Outcomes == {"proceed_once", "proceed_edit", "cancel"}

\* Actions with a public form; the two of missions have none.
Supported   == {"edit", "exec", "create", "ask_user", "exit_spec_mode", "apply_patch", "mcp_tool",
                "sandbox_violation", "droid_shield_violation"}
Unsupported == {"propose_mission", "start_mission_run"}
SomeActions == {"exec", "propose_mission"}

\* Questions are known by index and text; one index may have two texts.
Questions == {<<1, "a">>, <<2, "a">>, <<1, "b">>}

PermissionRequests == [kind : {"permission"}, actions : SUBSET SomeActions \ {{}},
                       options : SUBSET Outcomes]
QuestionRequests   == [kind : {"question"}, questions : SUBSET Questions]
Requests == PermissionRequests \cup QuestionRequests

\* What handlers return; a PermissionResponse that selects PROCEED_EDIT without an
\* edited plan cannot be made.
PermissionResponses == {r \in [selected : Outcomes, edited : BOOLEAN] :
                          r.selected = "proceed_edit" => r.edited}
QuestionResponses   == [cancelled : BOOLEAN, answers : SeqOf(Questions, MaxAnswers)]
Returned == PermissionResponses \cup QuestionResponses \cup {Raised}

VARIABLES
  asked,      \* the request of each ask that is being handled
  reply,      \* the reply to each that is over
  wanted,     \* the request it answered (history)
  reported,   \* the turns whose stream was told that a handler failed
  sink        \* error_sink: the turn whose stream listens (0: none)

askVars == <<asked, reply, wanted, reported, sink>>

NoRequest == [kind |-> "none"]
NoReply   == [none |-> TRUE]
Fallback(kind) ==
  IF kind = "permission" THEN [selected |-> "cancel", edited |-> FALSE]
                         ELSE [cancelled |-> TRUE, answers |-> <<>>]

AskTypeOK ==
  /\ \A a \in Asks : asked[a] = NoRequest \/ asked[a] \in Requests
  /\ \A a \in Asks : reply[a] = NoReply \/ wanted[a] \in Requests
  /\ sink \in 0..2 /\ reported \subseteq 1..2

AskInit ==
  /\ asked = [a \in Asks |-> NoRequest]
  /\ reply = [a \in Asks |-> NoReply]
  /\ wanted = [a \in Asks |-> NoRequest]
  /\ reported = {} /\ sink = 0

-----------------------------------------------------------------------------
AskArrives(a, r) ==
  /\ asked[a] = NoRequest /\ reply[a] = NoReply
  /\ asked' = [asked EXCEPT ![a] = r]
  /\ UNCHANGED <<reply, wanted, reported, sink>>

Replies(a, r) ==
  /\ reply' = [reply EXCEPT ![a] = r]
  /\ wanted' = [wanted EXCEPT ![a] = asked[a]]
  /\ asked' = [asked EXCEPT ![a] = NoRequest]

\* permission_request_from_wire(): one action without a public form is enough.
Readable(r) == r.kind = "permission" => r.actions \subseteq Supported

\* handle_permission(): what was selected must have been offered.
PermissionAccepted(r, value) == r.kind = "permission" /\ value.selected \in r.options

\* Fault: answers are only matched by question.
FaultAnswersAccepted(r, value) ==
  r.kind = "question" /\ ToSet(value.answers) \subseteq r.questions

\* handle_question(): answers to questions that were asked, one for each index.
AnswersAccepted(r, value) ==
  /\ r.kind = "question"
  /\ value.cancelled => value.answers = <<>>
  /\ ToSet(value.answers) \subseteq r.questions
  /\ Cardinality({q[1] : q \in ToSet(value.answers)}) = Len(value.answers)

Accepted(r, value) ==
  /\ Readable(r)
  /\ \/ value \in PermissionResponses /\ PermissionAccepted(r, value)
     \/ value \in QuestionResponses /\ AnswersAccepted(r, value)

HandlerReturns(a, value) ==
  /\ asked[a] # NoRequest
  /\ Accepted(asked[a], value)
  /\ Replies(a, value)
  /\ UNCHANGED <<reported, sink>>

\* The request cannot be read, there is no handler, it raises (Raised), or
\* what it returns is not accepted: the stream that listens now is told, whichever
\* turn asked.
HandlerFails(a, value) ==
  /\ asked[a] # NoRequest
  /\ ~Accepted(asked[a], value)
  /\ Replies(a, Fallback(asked[a].kind))
  /\ reported' = reported \cup ({sink} \ {0})
  /\ UNCHANGED sink

\* close() of the engine cancels the handler: nothing is replied.
AskCancelled(a) ==
  /\ asked[a] # NoRequest
  /\ asked' = [asked EXCEPT ![a] = NoRequest]
  /\ UNCHANGED <<reply, wanted, reported, sink>>

\* A stream starts, or is released.
SinkChanges ==
  /\ sink' \in {0, sink + 1} /\ sink' <= 2 /\ sink' # sink
  /\ UNCHANGED <<asked, reply, wanted, reported>>

AskNext ==
  \/ \E a \in Asks :
       \/ \E r \in Requests : AskArrives(a, r)
       \/ \E value \in Returned : HandlerReturns(a, value) \/ HandlerFails(a, value)
       \/ AskCancelled(a)
  \/ SinkChanges

AskSpec == AskInit /\ [][AskNext]_askVars

-----------------------------------------------------------------------------
\* interaction_adapter.py:233: "always return a safe wire response": the process is
\* only told to go on with what it offered, in a request that the program could
\* read as a whole, and is answered no question twice and none it did not ask.
ReplySafe ==
  \A a \in Asks : reply[a] # NoReply =>
    LET r == wanted[a] v == reply[a] IN
      \/ v = Fallback(r.kind)
      \/ r.kind = "permission" /\ v.selected \in r.options /\ r.actions \cap Unsupported = {}
      \/ /\ r.kind = "question"
         /\ v.cancelled => v.answers = <<>>
         /\ \A i, j \in DOMAIN v.answers :
              v.answers[i] \in r.questions /\ (v.answers[i][1] = v.answers[j][1] => i = j)
=============================================================================
