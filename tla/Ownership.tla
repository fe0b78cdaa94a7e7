----------------------------- MODULE Ownership -----------------------------
(***************************************************************************)
(* What the two sessions promise of the droid process and of what belongs  *)
(* to it: it has one holder, who alone hands it on or gives it up; it goes *)
(* from the task that opens to the session and from there to the           *)
(* successor, never back; and once a close() has returned nobody has it    *)
(* and nobody takes it again.                                              *)
(***************************************************************************)
VARIABLES
  holder,     \* who has the connection
  finished    \* the sessions for which a close() has returned
vars == <<holder, finished>>

Owners  == {"source", "successor"}
Holders == Owners \cup {"nobody", "opening", "lost"}

TypeOK == holder \in Holders /\ finished \subseteq Owners

Init == holder = "nobody" /\ finished = {}

Passes(from, to) == holder = from /\ holder' = to /\ UNCHANGED finished

Build     == finished = {} /\ Passes("nobody", "opening")
Opened    == Passes("opening", "source")
Abandon   == Passes("opening", "nobody")
HandOver  == Passes("source", "successor")
Release   == \E s \in Owners : Passes(s, "nobody")
Finish(s) == holder = "nobody" /\ finished' = finished \cup {s} /\ UNCHANGED holder

\* A cancellation at one of the two steps that are not protected: nothing more
\* is promised.
Lapse == holder' = "lost"

Next ==
  \/ Build \/ Opened \/ Abandon \/ HandOver \/ Release
  \/ \E s \in Owners : Finish(s)
  \/ Lapse

Spec == Init /\ [][Next]_vars
=============================================================================
