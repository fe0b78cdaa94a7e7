--------------------------- MODULE SavedSessions ---------------------------
(***************************************************************************)
(* list_sessions(): the files of saved sessions are listed, sorted and read *)
(* one after the other while droid processes write, archive and delete      *)
(* them.  A session may have a file in the root directory, where old ones   *)
(* are, and in that of its workspace.                                       *)
(***************************************************************************)
EXTENDS Naturals, Sequences, FiniteSets

CONSTANTS SavedIds,     \* ids of sessions
          MaxTime       \* bound on the changes to the files

ASSUME DiscoveryAssumption == MaxTime \in Nat /\ IsFiniteSet(SavedIds)

Directories == {"root", "workspace"}
Files == SavedIds \X Directories

VARIABLES
  modified,   \* time of the last change of each file (0: there is none)
  readable,   \* files with the metadata of a session that may be listed
  now,
  limit,      \* argument of list_sessions()
  left,       \* directories it has not listed
  named,      \* files named by a directory, not yet looked at
  candidates, \* files and their times, not yet read
  byId,       \* time of the one it has found for each id (0: none)
  listing,    \* the ids it returns, with their times
  listed,     \* it has returned
  settled     \* files there from the beginning that have not changed (history)

diskVars == <<modified, readable, now>>
listVars == <<limit, left, named, candidates, byId, listing, listed>>
savedVars == <<diskVars, listVars, settled>>

SavedTypeOK ==
  /\ \A f \in Files : modified[f] \in 0..now
  /\ readable \subseteq Files /\ named \subseteq Files /\ settled \subseteq Files
  /\ left \subseteq Directories /\ listed \in BOOLEAN

SavedInit ==
  /\ modified \in [Files -> 0..1] /\ now = 1
  /\ readable \in SUBSET Files
  /\ limit \in 0..Cardinality(SavedIds)
  /\ left = Directories /\ named = {} /\ candidates = {}
  /\ byId = [s \in SavedIds |-> 0]
  /\ listing = <<>> /\ listed = FALSE
  /\ settled = {f \in readable : modified[f] # 0}

-----------------------------------------------------------------------------
(* _list_sessions_sync() *)

\* The root comes first.
ListDirectory(d) ==
  /\ d \in left /\ named = {} /\ (d = "workspace" => "root" \notin left)
  /\ left' = left \ {d}
  /\ named' = {f \in Files : f[2] = d /\ modified[f] # 0}
  /\ UNCHANGED <<diskVars, limit, candidates, byId, listing, listed, settled>>

\* Fault: one that has gone since ends the directory.
FaultStatFile(f) ==
  /\ f \in named
  /\ named' = IF modified[f] = 0 THEN {} ELSE named \ {f}
  /\ candidates' = IF modified[f] = 0 THEN candidates ELSE candidates \cup {<<modified[f], f>>}
  /\ UNCHANGED <<diskVars, limit, left, byId, listing, listed, settled>>

\* One that has gone since is passed over.
StatFile(f) ==
  /\ f \in named
  /\ named' = named \ {f}
  /\ candidates' = IF modified[f] = 0 THEN candidates ELSE candidates \cup {<<modified[f], f>>}
  /\ UNCHANGED <<diskVars, limit, left, byId, listing, listed, settled>>

\* _parse_session() looks at the file again.
Found(f) ==
  byId' = IF f \in readable /\ modified[f] > byId[f[1]]
          THEN [byId EXCEPT ![f[1]] = modified[f]] ELSE byId

ReadFile(c) ==
  /\ left = {} /\ named = {} /\ c \in candidates
  /\ \A other \in candidates : other[1] <= c[1]
  /\ candidates' = candidates \ {c}
  /\ Found(c[2])
  /\ UNCHANGED <<diskVars, limit, left, named, listing, listed, settled>>

\* The orders in which what it has found may be returned: the newest first, and those
\* as new as each other by their ids, an order the model leaves open.
Newest(ids) ==
  {order \in [1..Cardinality(ids) -> ids] :
     /\ \A s \in ids : \E i \in DOMAIN order : order[i] = s
     /\ \A i, j \in DOMAIN order : i < j => order[i] # order[j] /\ byId[order[i]] >= byId[order[j]]}

ReturnListing ==
  /\ left = {} /\ named = {} /\ candidates = {} /\ ~listed
  /\ listed' = TRUE
  /\ LET ids == {s \in SavedIds : byId[s] # 0}
         length == IF limit < Cardinality(ids) THEN limit ELSE Cardinality(ids)
     IN  \E order \in Newest(ids) : listing' = [i \in 1..length |-> <<order[i], byId[order[i]]>>]
  /\ UNCHANGED <<diskVars, limit, left, named, candidates, byId, settled>>

-----------------------------------------------------------------------------
\* A droid process writes the file of its session, archives it or deletes it.
FileChanges(f) ==
  /\ now < MaxTime /\ ~listed
  /\ now' = now + 1
  /\ settled' = settled \ {f}
  /\ \/ modified' = [modified EXCEPT ![f] = now'] /\ readable' \in {readable, readable \cup {f}}
     \/ modified[f] # 0 /\ readable' = readable \ {f} /\ UNCHANGED modified
     \/ modified' = [modified EXCEPT ![f] = 0] /\ UNCHANGED readable
  /\ UNCHANGED listVars

SavedNext ==
  \/ \E d \in Directories : ListDirectory(d)
  \/ \E f \in Files : StatFile(f) \/ FileChanges(f)
  \/ \E c \in candidates : ReadFile(c)
  \/ ReturnListing

SavedSpec == SavedInit /\ [][SavedNext]_savedVars

-----------------------------------------------------------------------------
\* However the files change meanwhile, what is returned has the newest first, each
\* session once and no more of them than asked for; and a session whose file does not
\* change is in it, as new as that file at least, unless `limit' newer ones are.
ListingSound ==
  listed =>
    /\ Len(listing) <= limit
    /\ \A i, j \in DOMAIN listing : i < j =>
         listing[i][1] # listing[j][1] /\ listing[i][2] >= listing[j][2]
    /\ \A f \in settled :
         \/ \E i \in DOMAIN listing : listing[i][1] = f[1] /\ listing[i][2] >= modified[f]
         \/ Len(listing) = limit /\ \A i \in DOMAIN listing : listing[i][2] >= modified[f]
=============================================================================
