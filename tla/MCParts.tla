------------------------------ MODULE MCParts ------------------------------
(* The parts of the SDK that are small and share no state: a behaviour is    *)
(* about one of them, its subject, and the others do nothing.                *)
EXTENDS SessionSettings, TurnTracker, Interactions, Attachments, SavedSessions, OneShot

CONSTANTS u1, u2, a1, a2, i1, s1, s2

VARIABLE subject

SomeChanges == {[f \in {"model"} |-> "v2"], [f \in {"spec_model"} |-> Null],
                [f \in {"restrict_tools"} |-> "v2"]}
SomeOps == {"list_tools"}

partsVars == <<subject, settingsVars, trackerVars, askVars, attachmentVars, savedVars, oneShotVars>>

\* What the other parts start with is fixed.
PartsInit ==
  /\ subject \in {"settings", "turn", "interactions", "attachments", "saved sessions", "one shot"}
  /\ SettingsInit   /\ (subject = "settings" \/ restrict = Null)
  /\ TrackerInit    /\ (subject = "turn" \/ (adapter = "none" /\ ~partial))
  /\ adapter = "none" \/ ~partial
  /\ AskInit
  /\ AttachmentInit /\ (subject = "attachments" \/ content[1] = <<>>)
  /\ OneShotInit    /\ (subject = "one shot" \/ owner = "query")
  /\ SavedInit
  /\ subject = "saved sessions" \/ (modified = [f \in Files |-> 0] /\ readable = {} /\ limit = 0)

PartsNext ==
  /\ UNCHANGED subject
  /\ \/ /\ subject = "settings" /\ SettingsNext
        /\ UNCHANGED <<trackerVars, askVars, attachmentVars, savedVars, oneShotVars>>
     \/ /\ subject = "turn" /\ TrackerNext
        /\ UNCHANGED <<settingsVars, askVars, attachmentVars, savedVars, oneShotVars>>
     \/ /\ subject = "interactions" /\ AskNext
        /\ UNCHANGED <<settingsVars, trackerVars, attachmentVars, savedVars, oneShotVars>>
     \/ /\ subject = "attachments" /\ AttachmentNext
        /\ UNCHANGED <<settingsVars, trackerVars, askVars, savedVars, oneShotVars>>
     \/ /\ subject = "saved sessions" /\ SavedNext
        /\ UNCHANGED <<settingsVars, trackerVars, askVars, attachmentVars, oneShotVars>>
     \/ /\ subject = "one shot" /\ OneShotNext
        /\ UNCHANGED <<settingsVars, trackerVars, askVars, attachmentVars, savedVars>>

PartsSpec == PartsInit /\ [][PartsNext]_partsVars
=============================================================================
