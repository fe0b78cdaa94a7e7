------------------------------ MODULE RpcCalls ------------------------------
(***************************************************************************)
(* What the engine promises to the callers of send_request(), without      *)
(* futures, ids or a reader task: every call is answered or fails, a call  *)
(* returns a response only if one arrived while the call was open, and     *)
(* losing the link fails every open call in the same instant and refuses   *)
(* every later one (protocol.py:11-14).                                    *)
(***************************************************************************)
CONSTANT Calls

VARIABLES status, link
vars == <<status, link>>

States == {"new", "open", "answered", "failed", "returned", "raised"}

TypeOK == /\ status \in [Calls -> States]
          /\ link \in {"up", "closing", "down"}

Init == status = [c \in Calls |-> "new"] /\ link = "up"

Move(c, from, to) ==
  /\ status[c] \in from
  /\ status' = [status EXCEPT ![c] = to]
  /\ UNCHANGED link

Begin(c)   == link = "up" /\ Move(c, {"new"}, "open")
Refuse(c)  == link # "up" /\ Move(c, {"new"}, "raised")
Answer(c)  == link = "up" /\ Move(c, {"open"}, "answered")
Fail(c)    == Move(c, {"open"}, "failed")
Deliver(c) == Move(c, {"answered"}, "returned")
Raise(c)   == Move(c, {"open", "answered", "failed"}, "raised")

StartClosing == link = "up" /\ link' = "closing" /\ UNCHANGED status

Break ==
  /\ link # "down"
  /\ link' = "down"
  /\ status' = [c \in Calls |-> IF status[c] = "open" THEN "failed" ELSE status[c]]

Next ==
  \/ \E c \in Calls : \/ Begin(c) \/ Refuse(c) \/ Answer(c)
                      \/ Fail(c) \/ Deliver(c) \/ Raise(c)
  \/ StartClosing \/ Break

Spec == Init /\ [][Next]_vars
=============================================================================
